---------------------------- MODULE SPSCVarQueue ----------------------------
(***************************************************************************)
(* The single-producer single-consumer ring of variable-length messages    *)
(* that carries a shared-memory connection (tcpshm/spsc_varq.h).           *)
(*                                                                         *)
(* A message occupies consecutive 64-byte blocks.  When it does not fit    *)
(* between the write index and the end of the array, Alloc() puts a        *)
(* header of size 0 at the write index (the rewind marker), skips to the   *)
(* start of the array and allocates there.  The indices are uint32_t       *)
(* that wrap around; a block index is the index modulo BLK_CNT.            *)
(*                                                                         *)
(* One action is one access to memory that the other side can see, so the  *)
(* writer and the reader interleave between any two such accesses, and     *)
(* either process can crash between them: everything but the program       *)
(* counters and locals lives in the shared-memory file.                    *)
(***************************************************************************)
EXTENDS UIntArith, Sequences, FiniteSets

CONSTANTS
  BLK_CNT,      \* number of blocks
  Sizes,        \* user sizes passed to Alloc()
  Values,       \* payloads: the uint16_t the payload bytes repeat
  WeakRewind    \* TRUE: the relaxed store of a rewound write_idx may become
                \* visible before the marker it is meant to publish

HeaderSize == 8
BlockSize == 64
UInt16Mod == 65536

\* Blocks taken by a message of the given size in bytes, header included.
BlkSz(size) == (size + BlockSize - 1) \div BlockSize

\* BLK_CNT divides the index range (both are powers of two in the code).  The
\* index range is so large that the differences Alloc() compares do not wrap.
\* README: a message fits in a uint16_t with its header.
ASSUME SPSCAssumption ==
  /\ BLK_CNT \in Nat \ {0}
  /\ UIntMod % BLK_CNT = 0
  /\ Sizes \subseteq 0 .. UInt16Mod - 1 - HeaderSize
  /\ Values \subseteq 0 .. UInt16Mod - 1
  /\ WeakRewind \in BOOLEAN
  /\ BLK_CNT < HalfRange
  /\ \A usize \in Sizes : BLK_CNT + BlkSz(usize + HeaderSize) <= HalfRange

VARIABLES
  blk,            \* the blocks: what a header at the block reads as, and data
  write_idx,
  read_idx_cach,
  read_idx,
  wpc, wsize,     \* writer: program counter, header size being allocated
  rpc, rw,        \* reader: program counter, its local copy of write_idx
  shown,          \* the message the reader sees between Front() and Pop()
  hidden          \* marker store not yet visible to the reader, if any

shared == <<blk, write_idx, read_idx_cach, read_idx>>
writerVars == <<wpc, wsize>>
readerVars == <<rpc, rw, shown>>
vars == <<shared, writerVars, readerVars, hidden>>

NoMsg == [size |-> 0, data |-> <<>>]
Visible == [slot |-> -1, size |-> 0]

Slot(i) == i % BLK_CNT

AllocSizes == {(usize + HeaderSize) % UInt16Mod : usize \in Sizes}

\* The message at index i, as found in memory when its header reads size.
MsgAt(i, size) ==
  [size |-> size,
   data |-> [j \in 1 .. BlkSz(size) |-> blk[Slot(Add(i, j - 1))].data]]

\* The values header.size of block b may have for the reader: a hidden marker
\* store still reads as what was there before.
SizesAt(b) == {blk[b].size} \cup IF hidden.slot = b THEN {hidden.size} ELSE {}

Init ==
  /\ blk = [b \in 0 .. BLK_CNT - 1 |-> [size |-> 0, data |-> 0]]
  /\ write_idx = 0
  /\ read_idx_cach = 0
  /\ read_idx = 0
  /\ wpc = "idle" /\ wsize = 0
  /\ rpc = "idle" /\ rw = 0 /\ shown = NoMsg
  /\ hidden = Visible

-----------------------------------------------------------------------------
(* The writer: Alloc(), the user filling the message, Push().              *)

Padding == BLK_CNT - Slot(write_idx)

\* Blocks the allocation consumes: the message and the padding it skips.
Needs(blk_sz) == blk_sz + IF blk_sz > Padding THEN Padding ELSE 0

\* Mutants: a space check that grants one block too many, and one that forgets
\* the padding.
EnoughSpaceOffByOne(ridx, blk_sz) ==
  ~ Before(ridx, Sub(Add(write_idx, Needs(blk_sz)), BLK_CNT + 1))

EnoughSpaceNoPadding(ridx, blk_sz) ==
  ~ Before(ridx, Sub(Add(write_idx, blk_sz), BLK_CNT))

\* The check (int)(ridx - min_read_idx) < 0, negated.
EnoughSpace(ridx, blk_sz) ==
  ~ Before(ridx, Sub(Add(write_idx, Needs(blk_sz)), BLK_CNT))

\* Mutant: the cached read index is never refreshed.
AllocCacheStale(blk_sz) == read_idx_cach

\* The cached read index is refreshed only when it leaves no room.
AllocCache(blk_sz) ==
  IF EnoughSpace(read_idx_cach, blk_sz) THEN read_idx_cach ELSE read_idx

\* Alloc() up to and including the space check: an acquire load of read_idx at
\* most.  The user may also call Alloc() again without Push().
Alloc(usize) ==
  LET size == (usize + HeaderSize) % UInt16Mod
      blk_sz == BlkSz(size)
  IN  /\ wpc \in {"idle", "alloced", "filled"}
      /\ read_idx_cach' = AllocCache(blk_sz)
      /\ IF EnoughSpace(AllocCache(blk_sz), blk_sz)
         THEN /\ wpc' = IF blk_sz > Padding THEN "marker" ELSE "header"
              /\ wsize' = size
         ELSE /\ wpc' = "idle"      \* nullptr
              /\ wsize' = 0
      /\ UNCHANGED <<blk, write_idx, read_idx, readerVars, hidden>>

\* Mutant: the rewind marker is not written.
AllocMarkerMissing ==
  /\ wpc = "marker"
  /\ wpc' = "bump"
  /\ UNCHANGED <<shared, wsize, readerVars, hidden>>

\* blk[local_write_idx % BLK_CNT].header.size = 0
AllocMarker ==
  /\ wpc = "marker"
  /\ blk' = [blk EXCEPT ![Slot(write_idx)].size = 0]
  /\ hidden' = IF WeakRewind
               THEN [slot |-> Slot(write_idx), size |-> blk[Slot(write_idx)].size]
               ELSE Visible
  /\ wpc' = "bump"
  /\ UNCHANGED <<write_idx, read_idx_cach, read_idx, wsize, readerVars>>

\* write_idx.store(local_write_idx + padding_sz, relaxed)
AllocBump ==
  /\ wpc = "bump"
  /\ write_idx' = Add(write_idx, Padding)
  /\ wpc' = "header"
  /\ UNCHANGED <<blk, read_idx_cach, read_idx, wsize, readerVars, hidden>>

\* header.size = size
AllocHeader ==
  /\ wpc = "header"
  /\ blk' = [blk EXCEPT ![Slot(write_idx)].size = wsize]
  /\ wpc' = "alloced"
  /\ UNCHANGED <<write_idx, read_idx_cach, read_idx, wsize, readerVars, hidden>>

\* The user writes the payload through the returned pointer.  In every block
\* but the first the payload lies where a header would be.
Fill(v) ==
  /\ wpc = "alloced"
  /\ LET first == Slot(write_idx)
         last == first + BlkSz(wsize) - 1
     IN  blk' = [b \in 0 .. BLK_CNT - 1 |->
                   IF b \notin first .. last THEN blk[b]
                   ELSE [size |-> IF b = first THEN blk[b].size ELSE v, data |-> v]]
  /\ wpc' = "filled"
  /\ UNCHANGED <<write_idx, read_idx_cach, read_idx, wsize, readerVars, hidden>>

\* Mutants: an index that does not wrap around, and a reader that is not woken.
PushWide ==
  /\ wpc = "filled"
  /\ write_idx' = write_idx + BlkSz(blk[Slot(write_idx)].size)
  /\ hidden' = Visible
  /\ rpc' = IF rpc = "asleep" THEN "wait" ELSE rpc
  /\ wpc' = "idle"
  /\ wsize' = 0
  /\ UNCHANGED <<blk, read_idx_cach, read_idx, rw, shown>>

PushNoNotify ==
  /\ wpc = "filled"
  /\ write_idx' = Add(write_idx, BlkSz(blk[Slot(write_idx)].size))
  /\ hidden' = Visible
  /\ wpc' = "idle"
  /\ wsize' = 0
  /\ UNCHANGED <<blk, read_idx_cach, read_idx, readerVars>>

\* Push(): publish the blocks and wake a reader blocked in WaitForData().
Push ==
  /\ wpc = "filled"
  /\ write_idx' = Add(write_idx, BlkSz(blk[Slot(write_idx)].size))
  /\ hidden' = Visible
  /\ rpc' = IF rpc = "asleep" THEN "wait" ELSE rpc
  /\ wpc' = "idle"
  /\ wsize' = 0
  /\ UNCHANGED <<blk, read_idx_cach, read_idx, rw, shown>>

\* The writing process dies, its stores reach memory, and it maps the file
\* again later.
WriterCrash ==
  /\ wpc # "idle"
  /\ wpc' = "idle"
  /\ wsize' = 0
  /\ hidden' = Visible
  /\ UNCHANGED <<shared, readerVars>>

-----------------------------------------------------------------------------
(* The reader: Front(), the user's callback, Pop(), WaitForData().         *)

\* write_idx.load(acquire) and the test for an empty queue.
Front ==
  /\ rpc = "idle"
  /\ IF read_idx = write_idx
     THEN UNCHANGED <<rpc, rw>>     \* nullptr
     ELSE rpc' = "size" /\ rw' = write_idx
  /\ UNCHANGED <<shared, writerVars, shown, hidden>>

\* uint16_t size = blk[local_read_idx % BLK_CNT].header.size
FrontSize ==
  /\ rpc = "size"
  /\ \E size \in SizesAt(Slot(read_idx)) :
       IF size = 0
       THEN rpc' = "rewind" /\ UNCHANGED rw
       ELSE rpc' = "front" /\ rw' = 0
  /\ UNCHANGED <<shared, writerVars, shown, hidden>>

\* The size-0 header: skip to the start of the array.
FrontRewind ==
  /\ rpc = "rewind"
  /\ read_idx' = Add(read_idx, BLK_CNT - Slot(read_idx))
  /\ rpc' = IF read_idx' = rw THEN "idle" ELSE "front"
  /\ rw' = 0
  /\ UNCHANGED <<blk, write_idx, read_idx_cach, writerVars, shown, hidden>>

\* The user looks at the message Front() returned.
ReadMsg ==
  /\ rpc = "front"
  /\ \E size \in SizesAt(Slot(read_idx)) : shown' = MsgAt(read_idx, size)
  /\ rpc' = "read"
  /\ UNCHANGED <<shared, writerVars, rw, hidden>>

Pop ==
  /\ rpc = "read"
  /\ \E size \in SizesAt(Slot(read_idx)) :
       read_idx' = Add(read_idx, BlkSz(size))
  /\ rpc' = "idle"
  /\ shown' = NoMsg
  /\ UNCHANGED <<blk, write_idx, read_idx_cach, writerVars, rw, hidden>>

\* The callback returns without Pop().
Leave ==
  /\ rpc = "read"
  /\ rpc' = "idle"
  /\ shown' = NoMsg
  /\ UNCHANGED <<shared, writerVars, rw, hidden>>

\* WaitForData(): load write_idx and compare it with read_idx.
WaitForData ==
  /\ rpc \in {"idle", "rewait"}
  /\ IF write_idx = read_idx
     THEN rpc' = "wait" /\ rw' = write_idx
     ELSE rpc' = "idle" /\ UNCHANGED rw
  /\ UNCHANGED <<shared, writerVars, shown, hidden>>

\* write_idx.wait(curr_w): compare and block in one step, on entry and again
\* after every wake-up.
WaitCheck ==
  /\ rpc = "wait"
  /\ IF write_idx = rw
     THEN rpc' = "asleep" /\ UNCHANGED rw
     ELSE rpc' = "rewait" /\ rw' = 0
  /\ UNCHANGED <<shared, writerVars, shown, hidden>>

\* The reading process dies and maps the file again later.
ReaderCrash ==
  /\ rpc # "idle"
  /\ rpc' = "idle"
  /\ rw' = 0
  /\ shown' = NoMsg
  /\ UNCHANGED <<shared, writerVars, hidden>>

-----------------------------------------------------------------------------
WriterStep == AllocMarker \/ AllocBump \/ AllocHeader \/ Push

ReaderStep == Front \/ FrontSize \/ FrontRewind \/ ReadMsg \/ Pop

Next ==
  \/ \E usize \in Sizes : Alloc(usize)
  \/ \E v \in Values : Fill(v)
  \/ WriterStep
  \/ WriterCrash
  \/ ReaderStep
  \/ Leave
  \/ WaitForData \/ WaitCheck
  \/ ReaderCrash

Spec == Init /\ [][Next]_vars

\* A reader that keeps polling gets through Front() and Pop() in spite of
\* crashes, of callbacks that leave the message in place and of WaitForData();
\* a blocked reader that is notified runs again.
ReaderFairness ==
  /\ SF_vars(Front) /\ SF_vars(FrontSize) /\ SF_vars(FrontRewind)
  /\ SF_vars(ReadMsg) /\ SF_vars(Pop)
  /\ WF_vars(WaitCheck) /\ WF_vars(rpc = "rewait" /\ WaitForData)

FairSpec == Spec /\ ReaderFairness

-----------------------------------------------------------------------------
(* Properties.                                                             *)

\* The range of every variable: the indices are machine integers, the locals of
\* an idle side are clear.
TypeOK ==
  /\ blk \in [0 .. BLK_CNT - 1 -> [size : 0 .. UInt16Mod - 1, data : 0 .. UInt16Mod - 1]]
  /\ write_idx \in UInt /\ read_idx_cach \in UInt /\ read_idx \in UInt
  /\ wpc \in {"idle", "marker", "bump", "header", "alloced", "filled"}
  /\ wsize \in AllocSizes \cup {0}
  /\ rpc \in {"idle", "size", "rewind", "front", "read", "wait", "asleep", "rewait"}
  /\ rw \in UInt
  /\ shown.size \in 0 .. UInt16Mod - 1
  /\ hidden.slot \in -1 .. BLK_CNT - 1 /\ hidden.size \in 0 .. UInt16Mod - 1

Used == Sub(write_idx, read_idx)

\* Blocks the writer has been granted but has not published yet.
Granted ==
  CASE wpc \in {"marker", "bump"} -> Padding + BlkSz(wsize)
    [] wpc \in {"header", "alloced", "filled"} -> BlkSz(wsize)
    [] OTHER -> 0

\* Published and granted blocks together never exceed the ring, however old
\* read_idx_cach is: the cache lags the true read index but lies in the window
\* of BLK_CNT indices behind write_idx (Alloc()'s space check).
NoOverrun ==
  /\ Used + Granted <= BLK_CNT
  /\ Sub(write_idx, read_idx_cach) + Granted <= BLK_CNT
  /\ Used <= Sub(write_idx, read_idx_cach)

LiveSlots == {Slot(Add(read_idx, d)) : d \in 0 .. Used - 1}

\* No step of either side, neither the rewind marker nor a header nor the
\* user's payload, overwrites a block that is published and not yet popped.
NoClobber == [][\A b \in LiveSlots : blk'[b] = blk[b]]_vars

\* Blocks from index i to the next header, as the reader steps over them.
SegLen(i) ==
  LET size == blk[Slot(i)].size
  IN  IF size = 0 THEN BLK_CNT - Slot(i) ELSE BlkSz(size)

\* H are the indices of the headers between read_idx and write_idx, both
\* included: from each the next one is reached, without stepping over another
\* one, and a rewind marker is never in block 0.
Boundaries(H) ==
  /\ read_idx \in H
  /\ write_idx \in H
  /\ \A h \in H : Sub(h, read_idx) <= Used
  /\ \A h \in H \ {write_idx} :
       /\ Add(h, SegLen(h)) \in H
       /\ blk[Slot(h)].size = 0 => Slot(h) # 0
       /\ \A g \in H : \/ Sub(g, read_idx) <= Sub(h, read_idx)
                       \/ Sub(g, read_idx) >= Sub(h, read_idx) + SegLen(h)

\* The headers a reader can be about to step on.
ReaderOn(H) ==
  /\ rpc \in {"size", "rewind"} => rw \in H /\ rw # read_idx
  /\ rpc = "rewind" => blk[Slot(read_idx)].size = 0
  /\ rpc \in {"front", "read"} =>
       read_idx # write_idx /\ blk[Slot(read_idx)].size # 0

\* Memory between the indices is cut into messages and markers exactly, and a
\* reader in the middle of Front(), with the write_idx it loaded some time ago,
\* stands on one of them: Pop() and the rewind can never step over write_idx.
Segmented == \E H \in SUBSET UInt : Boundaries(H) /\ ReaderOn(H)

\* What the writer knows between its stores.
WriterInv ==
  /\ wpc # "idle" => wsize \in AllocSizes
  /\ wpc \in {"marker", "bump"} => Slot(write_idx) # 0
  /\ wpc = "bump" => blk[Slot(write_idx)].size = 0
  /\ wpc \in {"header", "alloced", "filled"} =>
       Slot(write_idx) + BlkSz(wsize) <= BLK_CNT
  /\ wpc \in {"alloced", "filled"} => blk[Slot(write_idx)].size = wsize
  /\ WeakRewind \/ hidden = Visible

\* The inductive invariant from which NoOverrun and NoClobber are proved.
IInv == TypeOK /\ NoOverrun /\ WriterInv /\ Segmented

\* The messages between read_idx and write_idx as a walk over the headers in
\* memory finds them, k blocks before write_idx; a walk that misses write_idx
\* ends in Torn, which is no message.
Torn == [size |-> -1, data |-> <<>>]

Walk[k \in 0 .. UIntMod - 1] ==
  LET i == Sub(write_idx, k)
      size == blk[Slot(i)].size
      len == IF size = 0 THEN BLK_CNT - Slot(i) ELSE BlkSz(size)
  IN  IF k = 0 THEN <<>>
      ELSE IF k > BLK_CNT \/ len > k THEN <<Torn>>
      ELSE IF size = 0 THEN Walk[k - len]
      ELSE <<MsgAt(i, size)>> \o Walk[k - len]

Contents == Walk[Used]

Messages ==
  {[size |-> size, data |-> [j \in 1 .. BlkSz(size) |-> v]] :
     size \in AllocSizes, v \in Values}

Fifo == INSTANCE VarFifo WITH queue <- Contents, Msg <- Messages

\* The ring implements the abstract queue: what the reader is shown is whole,
\* in order and neither lost nor repeated, with the two sides interleaved at
\* every store and either of them crashing anywhere in Alloc() or Front().
ImplementsFifo == Fifo!Spec

\* A message that stays in the ring is eventually popped: no marker, no crash
\* and no sleep in WaitForData() hides it from a polling reader for ever.
ReaderProgress == <>[](Contents # <<>>) => []<><<Pop>>_vars

\* A refusal by Alloc() is temporary: whatever the size, a writer that does not
\* push finds again and again that Alloc() has room for it, through the cached
\* index or a fresh one, as the reader drains the ring.
FullIsTemporary ==
  \A size \in AllocSizes :
    \/ []<>EnoughSpace(AllocCache(BlkSz(size)), BlkSz(size))
    \/ []<><<Push>>_vars

\* The message in the user's hands between Front() and Pop() is the oldest
\* one that is published, also when the marker store may be seen late.
ShownIsOldest == rpc = "read" => Contents # <<>> /\ shown = Head(Contents)

=============================================================================
