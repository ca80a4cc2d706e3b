------------------------- MODULE SPSCVarQueueProofs -------------------------
(***************************************************************************)
(* Proofs about the shared-memory ring, for every ring size, every set of  *)
(* message sizes and every index width: its space, its cut into messages,  *)
(* and that it implements VarFifo.                                         *)
(***************************************************************************)
EXTENDS SPSCVarQueue, FiniteSetTheorems, SequenceTheorems, TLAPS

-----------------------------------------------------------------------------
(* Arithmetic.                                                             *)

\* Division with remainder has a unique result.
LEMMA DivUnique ==
  ASSUME NEW n \in Nat \ {0}, NEW p \in Int, NEW q \in Int,
         NEW s \in 0 .. n - 1, NEW t \in 0 .. n - 1,
         n * p + s = n * q + t
  PROVE  s = t
<1>1. CASE p = q
  BY <1>1
<1>2. CASE p < q
  <2>1. n * q >= n * (p + 1)
    BY <1>2
  <2>2. n * (p + 1) = n * p + n
    OBVIOUS
  <2> QED BY <2>1, <2>2
<1>3. CASE q < p
  <2>1. n * p >= n * (q + 1)
    BY <1>3
  <2>2. n * (q + 1) = n * q + n
    OBVIOUS
  <2> QED BY <2>1, <2>2
<1> QED BY <1>1, <1>2, <1>3

\* The block of an index, as quotient and remainder.
LEMMA SlotDiv ==
  ASSUME NEW i \in Nat
  PROVE  /\ Slot(i) \in 0 .. BLK_CNT - 1
         /\ i \div BLK_CNT \in Int
         /\ i = BLK_CNT * (i \div BLK_CNT) + Slot(i)
BY SPSCAssumption DEF Slot

\* The remainder determines the block.
LEMMA SlotIs ==
  ASSUME NEW i \in Nat, NEW q \in Int, NEW s \in 0 .. BLK_CNT - 1,
         i = BLK_CNT * q + s
  PROVE  Slot(i) = s
<1> DEFINE p == i \div BLK_CNT
<1>1. p \in Int /\ Slot(i) \in 0 .. BLK_CNT - 1 /\ i = BLK_CNT * p + Slot(i)
  BY SlotDiv
<1>2. BLK_CNT \in Nat \ {0}
  BY SPSCAssumption
<1> HIDE DEF p
<1>3. BLK_CNT * p + Slot(i) = BLK_CNT * q + s
  BY <1>1
<1> QED BY <1>1, <1>2, <1>3, DivUnique, Zenon

\* The index range is a whole number of rings.
LEMMA RingsInRange ==
  \E m \in Int : UIntMod = BLK_CNT * m
<1>1. UIntMod \in Nat
  BY HalfRangeAssumption DEF UIntMod
<1>2. Slot(UIntMod) = 0
  BY SPSCAssumption DEF Slot
<1> DEFINE m == UIntMod \div BLK_CNT
<1>3. m \in Int /\ UIntMod = BLK_CNT * m + 0
  BY <1>1, <1>2, SlotDiv
<1>4. BLK_CNT * m \in Int
  BY <1>3, SPSCAssumption
<1> HIDE DEF m
<1>5. UIntMod = BLK_CNT * m
  BY <1>3, <1>4
<1> QED BY <1>3, <1>5

\* Wrapping around the index range keeps the block of an index.
LEMMA SlotAdd ==
  ASSUME NEW i \in UInt, NEW d \in 0 .. UIntMod
  PROVE  /\ Add(i, d) \in UInt
         /\ Slot(Add(i, d)) = Slot(i + d)
<1>1. UIntMod \in Nat /\ UIntMod > 0 /\ i \in Nat /\ d \in Nat /\ i < UIntMod
  BY HalfRangeAssumption DEF UIntMod, UInt
<1>2. Add(i, d) \in UInt
  BY <1>1 DEF Add, UInt
<1>3. CASE i + d < UIntMod
  BY <1>1, <1>2, <1>3 DEF Add
<1>4. CASE i + d >= UIntMod
  <2>1. PICK m \in Int : UIntMod = BLK_CNT * m
    BY RingsInRange
  <2> DEFINE q == (i + d) \div BLK_CNT
             s == Slot(i + d)
  <2>2. i + d = BLK_CNT * q + s /\ q \in Int /\ s \in 0 .. BLK_CNT - 1
    BY <1>1, SlotDiv
  <2>3. Add(i, d) = i + d - UIntMod /\ i + d - UIntMod \in Nat
    BY <1>1, <1>4 DEF Add
  <2> HIDE DEF q, s
  <2>4. BLK_CNT * (q - m) = BLK_CNT * q - BLK_CNT * m
    BY <2>1, <2>2, SPSCAssumption
  <2>9. BLK_CNT * q \in Int /\ BLK_CNT * m \in Int
    BY <2>1, <2>2, SPSCAssumption
  <2>5. i + d - UIntMod = BLK_CNT * (q - m) + s
    BY <2>1, <2>2, <2>4, <2>9, <1>1
  <2>6. Slot(i + d - UIntMod) = s
    BY <2>1, <2>2, <2>3, <2>5, SlotIs
  <2> QED BY <1>2, <2>3, <2>6 DEF s
<1> QED BY <1>1, <1>2, <1>3, <1>4

\* Two indices less than a ring apart are in different blocks.
LEMMA SlotDistinct ==
  ASSUME NEW i \in UInt, NEW d \in 1 .. BLK_CNT - 1
  PROVE  Slot(Add(i, d)) # Slot(i)
<1>1. BLK_CNT \in Nat /\ BLK_CNT < UIntMod /\ i \in Nat /\ d \in 0 .. UIntMod
  BY SPSCAssumption, HalfRangeAssumption DEF UIntMod, UInt
<1>2. Slot(Add(i, d)) = Slot(i + d)
  BY <1>1, SlotAdd
<1> DEFINE q == i \div BLK_CNT
           s == Slot(i)
<1>3. i = BLK_CNT * q + s /\ q \in Int /\ s \in 0 .. BLK_CNT - 1
  BY <1>1, SlotDiv
<1> HIDE DEF q, s
<1>4. CASE s + d < BLK_CNT
  <2>1. i + d = BLK_CNT * q + (s + d) /\ s + d \in 0 .. BLK_CNT - 1 /\ i + d \in Nat
    BY <1>1, <1>3, <1>4, SPSCAssumption
  <2>2. Slot(i + d) = s + d
    BY <1>3, <2>1, SlotIs
  <2> QED BY <1>1, <1>2, <1>3, <2>2 DEF s
<1>5. CASE s + d >= BLK_CNT
  <2>1. BLK_CNT * (q + 1) = BLK_CNT * q + BLK_CNT
    BY <1>1, <1>3
  <2>2. i + d = BLK_CNT * (q + 1) + (s + d - BLK_CNT) /\ i + d \in Nat
        /\ s + d - BLK_CNT \in 0 .. BLK_CNT - 1
    BY <1>1, <1>3, <1>5, <2>1, SPSCAssumption
  <2>3. Slot(i + d) = s + d - BLK_CNT
    BY <1>3, <2>2, SlotIs
  <2> QED BY <1>1, <1>2, <1>3, <2>3 DEF s
<1> QED BY <1>1, <1>3, <1>4, <1>5

\* Inside the array the block number grows with the index, and a rewind leads
\* to block 0.
LEMMA SlotNext ==
  ASSUME NEW i \in UInt, NEW d \in Nat, Slot(i) + d <= BLK_CNT
  PROVE  /\ Slot(i) + d < BLK_CNT => Slot(Add(i, d)) = Slot(i) + d
         /\ Slot(i) + d = BLK_CNT => Slot(Add(i, d)) = 0
<1>1. BLK_CNT \in Nat /\ BLK_CNT < UIntMod /\ i \in Nat /\ BLK_CNT > 0
  BY SPSCAssumption, HalfRangeAssumption DEF UIntMod, UInt
<1> DEFINE q == i \div BLK_CNT
           s == Slot(i)
<1>2. i = BLK_CNT * q + s /\ q \in Int /\ s \in 0 .. BLK_CNT - 1
  BY <1>1, SlotDiv
<1>9. d \in 0 .. UIntMod
  BY <1>1, <1>2, HalfRangeAssumption DEF UIntMod
<1>3. Slot(Add(i, d)) = Slot(i + d)
  BY <1>9, SlotAdd
<1> HIDE DEF q
<1>4. CASE s + d < BLK_CNT
  <2>1. i + d = BLK_CNT * q + (s + d) /\ s + d \in 0 .. BLK_CNT - 1 /\ i + d \in Nat
    BY <1>1, <1>2, <1>4, SPSCAssumption
  <2>2. Slot(i + d) = s + d
    BY <1>2, <2>1, SlotIs
  <2> QED BY <1>2, <1>3, <1>4, <2>2, <1>1
<1>5. CASE s + d = BLK_CNT
  <2>1. BLK_CNT * (q + 1) = BLK_CNT * q + BLK_CNT
    BY <1>1, <1>2
  <2>2. i + d = BLK_CNT * (q + 1) + 0 /\ i + d \in Nat
    BY <1>1, <1>2, <1>5, <2>1
  <2>3. Slot(i + d) = 0
    <3>1. q + 1 \in Int /\ 0 \in 0 .. BLK_CNT - 1
      BY <1>1, <1>2
    <3> QED BY <2>2, <3>1, SlotIs
  <2> QED BY <1>1, <1>2, <1>3, <1>5, <2>3
<1> QED BY <1>1, <1>2, <1>4, <1>5

-----------------------------------------------------------------------------
(* Facts about sizes and windows.                                          *)

\* The range of a uint16_t, as a number the provers do not enumerate up to.
LEMMA UInt16ModIs == UInt16Mod \in Nat /\ UInt16Mod > 64 /\ HeaderSize = 8
BY DEF UInt16Mod, HeaderSize

\* A message that is not empty takes at least one block.
LEMMA BlkSzOK ==
  ASSUME NEW size \in 0 .. UInt16Mod - 1
  PROVE  BlkSz(size) \in Nat /\ (size # 0 => BlkSz(size) \in Nat \ {0})
<1> DEFINE bytes == size + BlockSize - 1
<1>1. bytes \in Nat /\ (size # 0 => bytes >= 64)
  BY UInt16ModIs DEF BlockSize
<1> HIDE DEF bytes
<1>2. bytes \div 64 \in Nat
  BY <1>1
<1>3. bytes >= 64 => bytes \div 64 >= 1
  BY <1>1
<1>4. BlkSz(size) = bytes \div 64
  BY DEF BlkSz, BlockSize, bytes
<1> QED BY <1>1, <1>2, <1>3, <1>4

\* What Alloc() is asked for, with its header, is a uint16_t and takes at least
\* one block; no difference of indices it computes leaves the signed range.
LEMMA AllocSizeOK ==
  ASSUME NEW size \in AllocSizes
  PROVE  /\ size \in 1 .. UInt16Mod - 1
         /\ BlkSz(size) \in Nat \ {0}
         /\ BLK_CNT + BlkSz(size) <= HalfRange
<1>1. PICK usize \in Sizes : size = (usize + HeaderSize) % UInt16Mod
  BY DEF AllocSizes
<1>2. usize \in 0 .. UInt16Mod - 1 - HeaderSize
  BY SPSCAssumption
<1>3. size = usize + HeaderSize
  <2>1. usize \in Nat /\ usize + HeaderSize < UInt16Mod
    BY <1>2, UInt16ModIs
  <2> QED BY <1>1, <2>1 DEF UInt16Mod, HeaderSize
<1>4. BLK_CNT + BlkSz(usize + HeaderSize) <= HalfRange
  BY SPSCAssumption
<1>5. size \in 1 .. UInt16Mod - 1
  BY <1>2, <1>3, UInt16ModIs
<1>6. BlkSz(size) \in Nat \ {0}
  <2>1. size \in 0 .. UInt16Mod - 1 /\ size # 0
    BY <1>5, UInt16ModIs
  <2> QED BY <2>1, BlkSzOK
<1> QED BY <1>3, <1>4, <1>5, <1>6

\* The step over a header is at least one block long.
LEMMA SegLenOK ==
  ASSUME TypeOK, NEW i \in UInt
  PROVE  SegLen(i) \in Nat \ {0}
<1>1. i \in Nat
  BY HalfRangeAssumption DEF UInt, UIntMod
<1>2. Slot(i) \in 0 .. BLK_CNT - 1
  BY <1>1, SlotDiv
<1>3. blk[Slot(i)].size \in 0 .. UInt16Mod - 1
  BY <1>2 DEF TypeOK
<1>4. BLK_CNT - Slot(i) \in Nat \ {0}
  BY <1>2, SPSCAssumption
<1>5. blk[Slot(i)].size # 0 => BlkSz(blk[Slot(i)].size) \in Nat \ {0}
  BY <1>3, BlkSzOK
<1> QED BY <1>4, <1>5 DEF SegLen

\* Differences of indices.
LEMMA SubOK ==
  ASSUME NEW i \in UInt, NEW j \in UInt
  PROVE  Sub(i, j) \in 0 .. UIntMod - 1
BY HalfRangeAssumption DEF Sub, UInt, UIntMod

\* The blocks granted to the writer are not those of a published header.
LEMMA GrantedIsFree ==
  ASSUME TypeOK, NoOverrun,
         NEW h \in UInt, Sub(h, read_idx) <= Used, h # write_idx,
         NEW j \in Nat, j < Granted
  PROVE  Slot(h) # Slot(Add(write_idx, j))
<1>1. /\ HalfRange \in Nat /\ BLK_CNT \in Nat /\ BLK_CNT < HalfRange
      /\ write_idx \in UInt /\ read_idx \in UInt
  BY HalfRangeAssumption, SPSCAssumption DEF TypeOK
<1>2. Used \in Nat /\ Granted \in Int
  <2>1. Used \in Nat
    BY <1>1, SubOK DEF Used
  <2>3. wsize \in 0 .. UInt16Mod - 1
    <3>1. wsize \in AllocSizes \cup {0}
      BY DEF TypeOK
    <3>2. wsize = 0 \/ wsize \in 1 .. UInt16Mod - 1
      BY <3>1, AllocSizeOK
    <3> QED BY <3>2, UInt16ModIs
  <2>4. BlkSz(wsize) \in Int
    BY <2>3, BlkSzOK
  <2>5. Padding \in Int
    BY <1>1, SlotDiv, SPSCAssumption DEF Padding, UInt, UIntMod
  <2> QED BY <2>1, <2>4, <2>5 DEF Granted
<1>3. Used + Granted <= BLK_CNT
  BY DEF NoOverrun
<1> DEFINE d == Sub(write_idx, h) + j
<1>4. d \in 1 .. BLK_CNT - 1 /\ Add(write_idx, j) = Add(h, d)
  BY <1>1, <1>2, <1>3 DEF Used, Sub, Add, UInt, UIntMod
<1> HIDE DEF d
<1> QED BY <1>4, SlotDistinct

-----------------------------------------------------------------------------
(* How the cut of the ring into messages changes.                          *)

\* It does not depend on blocks that are not published.
LEMMA SegmentedKept ==
  ASSUME TypeOK, Segmented,
         write_idx' = write_idx, read_idx' = read_idx,
         rpc' = rpc, rw' = rw,
         \A h \in UInt : (Sub(h, read_idx) <= Used /\ h # write_idx) =>
                            blk'[Slot(h)] = blk[Slot(h)]
  PROVE  Segmented'
<1>1. PICK H \in SUBSET UInt : Boundaries(H) /\ ReaderOn(H)
  BY DEF Segmented
<1>2. \A h \in H \ {write_idx} : blk'[Slot(h)] = blk[Slot(h)]
  BY <1>1 DEF Boundaries
<1>3. \A h \in H \ {write_idx} : SegLen(h)' = SegLen(h)
  BY <1>2 DEF SegLen
<1>4. Used' = Used
  BY DEF Used
<1>5. Boundaries(H)'
  BY <1>1, <1>2, <1>3, <1>4 DEF Boundaries
<1>6. rpc \in {"size", "rewind"} => read_idx # write_idx
  <2>1. SUFFICES ASSUME rpc \in {"size", "rewind"}, read_idx = write_idx
                 PROVE  FALSE
    OBVIOUS
  <2>2. rw \in UInt /\ rw # read_idx /\ Sub(rw, read_idx) <= Used
    BY <1>1, <2>1 DEF Boundaries, ReaderOn
  <2>3. read_idx \in UInt /\ write_idx \in UInt
    BY DEF TypeOK
  <2> QED BY <2>1, <2>2, <2>3, HalfRangeAssumption DEF Used, Sub, UInt, UIntMod
<1>7. ReaderOn(H)'
  BY <1>1, <1>2, <1>6 DEF ReaderOn, Boundaries
<1> QED BY <1>5, <1>7 DEF Segmented

\* Publishing the segment at write_idx adds a boundary.
LEMMA SegmentedExtended ==
  ASSUME TypeOK, Segmented,
         write_idx' = Add(write_idx, SegLen(write_idx)),
         Used + SegLen(write_idx) <= BLK_CNT,
         blk[Slot(write_idx)].size = 0 => Slot(write_idx) # 0,
         read_idx' = read_idx, blk' = blk, rw' = rw,
         rpc' = rpc \/ rpc' \notin {"size", "rewind", "front", "read"}
  PROVE  Segmented' /\ Used' = Used + SegLen(write_idx) /\ write_idx' \in UInt
<1>1. PICK H \in SUBSET UInt : Boundaries(H) /\ ReaderOn(H)
  BY DEF Segmented
<1>2. /\ HalfRange \in Nat /\ BLK_CNT \in Nat /\ BLK_CNT < HalfRange
      /\ write_idx \in UInt /\ read_idx \in UInt
      /\ SegLen(write_idx) \in Nat \ {0}
  BY HalfRangeAssumption, SPSCAssumption, SegLenOK DEF TypeOK
<1>3. write_idx' \in UInt /\ Used' = Used + SegLen(write_idx)
  BY <1>2 DEF Used, Sub, Add, UInt, UIntMod
<1>10. PICK K \in SUBSET UInt : K = H \cup {write_idx'}
  BY <1>3
<1>4. \A i : SegLen(i)' = SegLen(i)
  BY DEF SegLen
<1>5. write_idx' # write_idx /\ Sub(write_idx', read_idx) = Used + SegLen(write_idx)
      /\ Sub(write_idx, read_idx) = Used /\ Used \in Nat
  BY <1>2, <1>3, SubOK DEF Used, Sub, Add, UInt, UIntMod
<1>6. write_idx' \notin H
  BY <1>1, <1>2, <1>5 DEF Boundaries
<1>7. \A h \in H : Sub(h, read_idx) <= Used /\ Sub(h, read_idx) \in Nat
  BY <1>1, <1>2, SubOK DEF Boundaries
<1>8. Boundaries(K)'
  <2>1. (read_idx \in K)' /\ (write_idx \in K)'
    BY <1>1, <1>10 DEF Boundaries
  <2>2. \A h \in K : Sub(h, read_idx) <= Used'
    BY <1>2, <1>3, <1>5, <1>7, <1>10
  <2>3. ASSUME NEW h \in K, h # write_idx'
        PROVE  /\ Add(h, SegLen(h)) \in K
               /\ blk[Slot(h)].size = 0 => Slot(h) # 0
               /\ \A g \in K : \/ Sub(g, read_idx) <= Sub(h, read_idx)
                               \/ Sub(g, read_idx) >= Sub(h, read_idx) + SegLen(h)
    <3>1. CASE h = write_idx
      BY <1>2, <1>5, <1>7, <1>10, <3>1
    <3>2. CASE h \in H \ {write_idx}
      <4>1. /\ Add(h, SegLen(h)) \in H
            /\ blk[Slot(h)].size = 0 => Slot(h) # 0
            /\ \A g \in H : \/ Sub(g, read_idx) <= Sub(h, read_idx)
                            \/ Sub(g, read_idx) >= Sub(h, read_idx) + SegLen(h)
        BY <1>1, <3>2 DEF Boundaries
      <4>2. Sub(h, read_idx) + SegLen(h) <= Used
        <5>1. write_idx \in H
          BY <1>1 DEF Boundaries
        <5>2. Sub(h, read_idx) # Used
          <6>1. h \in UInt /\ h # write_idx
            BY <3>2
          <6> QED BY <1>2, <6>1 DEF Used, Sub, UInt, UIntMod
        <5>3. SegLen(h) \in Nat
          BY <3>2, SegLenOK
        <5> QED BY <1>5, <1>7, <3>2, <4>1, <5>1, <5>2, <5>3
      <4>3. SegLen(h) \in Nat
        BY <3>2, SegLenOK
      <4> QED BY <1>2, <1>5, <1>7, <1>10, <3>2, <4>1, <4>2, <4>3
    <3> QED BY <2>3, <1>10, <3>1, <3>2
  <2> QED BY <2>1, <2>2, <2>3, <1>4 DEF Boundaries
<1>9. ReaderOn(K)'
  <2>1. rpc \in {"front", "read"} => read_idx # write_idx'
    BY <1>1, <1>6 DEF Boundaries
  <2> QED BY <1>1, <1>10, <2>1 DEF ReaderOn
<1> QED BY <1>3, <1>8, <1>9, <1>10 DEF Segmented

\* Stepping over the oldest segment removes a boundary.
LEMMA SegmentedShrunk ==
  ASSUME TypeOK, Used <= BLK_CNT, read_idx # write_idx,
         NEW H \in SUBSET UInt, Boundaries(H),
         NEW K \in SUBSET H, K = {h \in H : Sub(h, read_idx) >= SegLen(read_idx)},
         read_idx' = Add(read_idx, SegLen(read_idx)),
         write_idx' = write_idx, blk' = blk
  PROVE  /\ read_idx' \in UInt
         /\ read_idx' \in H
         /\ SegLen(read_idx) <= Used
         /\ Used' = Used - SegLen(read_idx)
         /\ Boundaries(K)'
<1>1. /\ HalfRange \in Nat /\ BLK_CNT \in Nat /\ BLK_CNT < HalfRange
      /\ write_idx \in UInt /\ read_idx \in UInt
      /\ SegLen(read_idx) \in Nat \ {0}
  BY HalfRangeAssumption, SPSCAssumption, SegLenOK DEF TypeOK
<1> DEFINE n == SegLen(read_idx)
<1>2. read_idx \in H /\ write_idx \in H
  BY DEF Boundaries
<1>3. \A h \in H : h \in UInt /\ Sub(h, read_idx) <= Used /\ Sub(h, read_idx) \in Nat
  BY <1>1, SubOK DEF Boundaries
<1>4. Sub(read_idx, read_idx) = 0 /\ Used \in Nat /\ Used # 0
  BY <1>1 DEF Used, Sub, UInt, UIntMod
<1>5. n <= Used
  BY <1>1, <1>2, <1>4 DEF Boundaries, Used
<1>6. read_idx' \in UInt /\ Used' = Used - n
  BY <1>1, <1>5 DEF Used, Sub, Add, UInt, UIntMod
<1>7. \A h \in K : Sub(h, read_idx') = Sub(h, read_idx) - n
  BY <1>1, <1>3, <1>5 DEF Sub, Add, UInt, UIntMod
<1>8. read_idx' \in H
  BY <1>2 DEF Boundaries
<1>9. \A i : SegLen(i)' = SegLen(i)
  BY DEF SegLen
<1>10. read_idx' \in K /\ write_idx \in K
  <2>1. Sub(read_idx', read_idx) = n
    BY <1>1, <1>5 DEF Used, Sub, Add, UInt, UIntMod
  <2> QED BY <1>1, <1>2, <1>5, <1>8, <2>1 DEF Used
<1>11. \A h \in K : Sub(h, read_idx') <= Used'
  BY <1>1, <1>3, <1>4, <1>6, <1>7
<1>12. ASSUME NEW h \in K, h # write_idx
       PROVE  /\ Add(h, SegLen(h)) \in K
              /\ blk[Slot(h)].size = 0 => Slot(h) # 0
              /\ \A g \in K : \/ Sub(g, read_idx') <= Sub(h, read_idx')
                              \/ Sub(g, read_idx') >= Sub(h, read_idx') + SegLen(h)
  <2>1. /\ Add(h, SegLen(h)) \in H
        /\ blk[Slot(h)].size = 0 => Slot(h) # 0
        /\ \A g \in H : \/ Sub(g, read_idx) <= Sub(h, read_idx)
                        \/ Sub(g, read_idx) >= Sub(h, read_idx) + SegLen(h)
    BY <1>12 DEF Boundaries
  <2>2. SegLen(h) \in Nat \ {0}
    BY <1>3, SegLenOK
  <2>3. Sub(h, read_idx) # Used
    BY <1>1, <1>3, <1>12 DEF Used, Sub, UInt, UIntMod
  <2>4. Sub(h, read_idx) + SegLen(h) <= Used
    BY <1>2, <1>3, <1>4, <2>1, <2>2, <2>3 DEF Used
  <2>5. Sub(Add(h, SegLen(h)), read_idx) = Sub(h, read_idx) + SegLen(h)
    BY <1>1, <1>3, <2>2, <2>4 DEF Used, Sub, Add, UInt, UIntMod
  <2>6. Add(h, SegLen(h)) \in K
    BY <1>1, <1>3, <2>1, <2>2, <2>5
  <2>7. \A g \in K : \/ Sub(g, read_idx') <= Sub(h, read_idx')
                     \/ Sub(g, read_idx') >= Sub(h, read_idx') + SegLen(h)
    BY <1>1, <1>3, <1>7, <2>1, <2>2
  <2> QED BY <2>1, <2>6, <2>7
<1> QED BY <1>5, <1>6, <1>8, <1>9, <1>10, <1>11, <1>12 DEF Boundaries

-----------------------------------------------------------------------------
(* The inductive invariant holds initially and is kept by every step.      *)

\* Facts about the current state that most steps use.
LEMMA StateFacts ==
  ASSUME TypeOK
  PROVE  /\ HalfRange \in Nat /\ BLK_CNT \in Nat \ {0} /\ BLK_CNT < HalfRange
         /\ Slot(write_idx) \in 0 .. BLK_CNT - 1
         /\ Slot(read_idx) \in 0 .. BLK_CNT - 1
         /\ Padding \in 1 .. BLK_CNT
         /\ wsize \in 0 .. UInt16Mod - 1
         /\ BlkSz(wsize) \in Nat
         /\ Granted \in Nat
         /\ Used \in Nat
         /\ Sub(write_idx, read_idx_cach) \in Nat
<1>1. HalfRange \in Nat /\ BLK_CNT \in Nat \ {0} /\ BLK_CNT < HalfRange
  BY HalfRangeAssumption, SPSCAssumption
<1>2. write_idx \in UInt /\ read_idx \in UInt /\ read_idx_cach \in UInt
  BY DEF TypeOK
<1>3. write_idx \in Nat /\ read_idx \in Nat
  BY <1>1, <1>2 DEF UInt, UIntMod
<1>4. Slot(write_idx) \in 0 .. BLK_CNT - 1 /\ Slot(read_idx) \in 0 .. BLK_CNT - 1
  BY <1>3, SlotDiv
<1>5. Padding \in 1 .. BLK_CNT
  BY <1>1, <1>4 DEF Padding
<1>6. wsize \in 0 .. UInt16Mod - 1
  <2>1. wsize \in AllocSizes \cup {0}
    BY DEF TypeOK
  <2>2. wsize = 0 \/ wsize \in 1 .. UInt16Mod - 1
    BY <2>1, AllocSizeOK
  <2> QED BY <2>2, UInt16ModIs
<1>7. BlkSz(wsize) \in Nat
  BY <1>6, BlkSzOK
<1>8. Granted \in Nat
  BY <1>1, <1>5, <1>7 DEF Granted
<1>9. Used \in Nat /\ Sub(write_idx, read_idx_cach) \in Nat
  BY <1>2, SubOK DEF Used
<1> QED BY <1>1, <1>4, <1>5, <1>6, <1>7, <1>8, <1>9

\* The signed comparison in Alloc() decides whether n more blocks fit behind
\* the index c.
LEMMA SpaceCheck ==
  ASSUME NEW w \in UInt, NEW c \in UInt, Sub(w, c) <= BLK_CNT,
         NEW n \in Nat, n <= HalfRange,
         ~ Before(c, Sub(Add(w, n), BLK_CNT))
  PROVE  Sub(w, c) + n <= BLK_CNT
BY HalfRangeAssumption, SPSCAssumption DEF Before, Sub, Add, UInt, UIntMod

\* The writer's blocks are clear of every published header, so a store there
\* keeps the cut of the ring.
LEMMA WriterStoreKeeps ==
  ASSUME TypeOK, NoOverrun, Segmented,
         write_idx' = write_idx, read_idx' = read_idx, rpc' = rpc, rw' = rw,
         \A b \in 0 .. BLK_CNT - 1 :
            blk'[b] = blk[b] \/ (\E j \in Nat : j < Granted /\ b = Slot(Add(write_idx, j)))
  PROVE  Segmented'
<1>1. ASSUME NEW h \in UInt, Sub(h, read_idx) <= Used, h # write_idx
      PROVE  blk'[Slot(h)] = blk[Slot(h)]
  <2>1. h \in Nat
    BY HalfRangeAssumption DEF UInt, UIntMod
  <2>2. Slot(h) \in 0 .. BLK_CNT - 1
    BY <2>1, SlotDiv
  <2> QED BY <1>1, <2>2, GrantedIsFree
<1> QED BY <1>1, SegmentedKept

\* A zero-filled file satisfies the invariant: no block is published.
LEMMA InitIInv ==
  Init => IInv
<1> SUFFICES ASSUME Init PROVE IInv
  OBVIOUS
<1>1. HalfRange \in Nat \ {0} /\ BLK_CNT \in Nat \ {0} /\ 0 \in UInt
  BY HalfRangeAssumption, SPSCAssumption DEF UInt, UIntMod
<1>2. 0 \in 0 .. UInt16Mod - 1
  BY UInt16ModIs
<1>3. TypeOK
  BY <1>1, <1>2 DEF Init, TypeOK, NoMsg, Visible
<1>4. Used = 0 /\ Granted = 0 /\ Sub(write_idx, read_idx_cach) = 0
  BY DEF Init, Used, Sub, Granted
<1>5. NoOverrun
  BY <1>1, <1>4 DEF NoOverrun
<1>6. WriterInv
  BY DEF Init, WriterInv
<1>7. Segmented
  <2>1. Boundaries({0}) /\ ReaderOn({0})
    BY <1>4 DEF Init, Boundaries, ReaderOn, Used
  <2> QED BY <1>1, <2>1 DEF Segmented
<1> QED BY <1>3, <1>5, <1>6, <1>7 DEF IInv

\* Alloc() up to the space check.
LEMMA AllocIInv ==
  ASSUME IInv, NEW usize \in Sizes, Alloc(usize)
  PROVE  IInv'
<1> DEFINE size == (usize + HeaderSize) % UInt16Mod
           n == BlkSz(size)
<1>1. size \in AllocSizes
  BY DEF AllocSizes
<1>2. n \in Nat \ {0} /\ BLK_CNT + n <= HalfRange
  BY <1>1, AllocSizeOK
<1>3. TypeOK /\ NoOverrun /\ WriterInv /\ Segmented
  BY DEF IInv
<1>4. /\ HalfRange \in Nat /\ BLK_CNT \in Nat \ {0} /\ BLK_CNT < HalfRange
      /\ Padding \in 1 .. BLK_CNT /\ Slot(write_idx) \in 0 .. BLK_CNT - 1
      /\ Used \in Nat /\ Granted \in Nat /\ Sub(write_idx, read_idx_cach) \in Nat
  BY <1>3, StateFacts
<1>5. write_idx \in UInt /\ read_idx \in UInt /\ read_idx_cach \in UInt
  BY <1>3 DEF TypeOK
<1> HIDE DEF size
<1> DEFINE c == AllocCache(n)
<1>6. c \in UInt /\ Used <= Sub(write_idx, c) /\ Sub(write_idx, c) <= BLK_CNT
  BY <1>3, <1>4, <1>5 DEF AllocCache, NoOverrun, Used
<1>7. /\ read_idx_cach' = c /\ write_idx' = write_idx /\ read_idx' = read_idx
      /\ blk' = blk /\ hidden' = hidden /\ rpc' = rpc /\ rw' = rw /\ shown' = shown
  BY DEF Alloc, readerVars, size
<1>8. Used' = Used /\ Padding' = Padding
  BY <1>7 DEF Used, Padding
<1>9. Segmented'
  BY <1>3, <1>7, SegmentedKept
<1>10. CASE EnoughSpace(c, n)
  <2>1. wsize' = size /\ wpc' = IF n > Padding THEN "marker" ELSE "header"
    BY <1>10 DEF Alloc, size
  <2>2. Needs(n) \in Nat /\ Needs(n) <= HalfRange
    BY <1>2, <1>4 DEF Needs
  <2>3. Sub(write_idx, c) + Needs(n) <= BLK_CNT
    BY <1>5, <1>6, <1>10, <2>2, SpaceCheck DEF EnoughSpace
  <2>4. Granted' = Needs(n)
    BY <1>2, <1>4, <1>8, <2>1 DEF Granted, Needs
  <2>5. NoOverrun'
    <3>1. Used \in Nat /\ Sub(write_idx, c) \in Nat
      BY <1>4, <1>5, <1>6, SubOK
    <3> QED BY <1>4, <1>6, <1>7, <1>8, <2>2, <2>3, <2>4, <3>1 DEF NoOverrun
  <2>6. TypeOK'
    BY <1>1, <1>3, <1>6, <1>7, <2>1 DEF TypeOK
  <2>7. n > Padding => Slot(write_idx) # 0
    BY <1>2, <1>4, <1>5, <1>6, <2>3, SubOK DEF Padding, Needs
  <2>8. n <= Padding => Slot(write_idx) + n <= BLK_CNT
    BY <1>2, <1>4 DEF Padding
  <2>9. WriterInv'
    BY <1>1, <1>2, <1>3, <1>4, <1>7, <2>1, <2>7, <2>8 DEF WriterInv
  <2> QED BY <1>9, <2>5, <2>6, <2>9 DEF IInv
<1>11. CASE ~ EnoughSpace(c, n)
  <2>1. wsize' = 0 /\ wpc' = "idle"
    BY <1>11 DEF Alloc, size
  <2>2. Granted' = 0
    BY <2>1 DEF Granted
  <2>3. NoOverrun'
    <3>1. Sub(write_idx, c) \in Nat
      BY <1>5, <1>6, SubOK
    <3> QED BY <1>4, <1>6, <1>7, <1>8, <2>2, <3>1 DEF NoOverrun
  <2>4. TypeOK'
    BY <1>3, <1>6, <1>7, <2>1 DEF TypeOK
  <2>5. WriterInv'
    BY <1>3, <1>7, <2>1 DEF WriterInv
  <2> QED BY <1>9, <2>3, <2>4, <2>5 DEF IInv
<1> QED BY <1>10, <1>11

\* The store of the rewind marker.
LEMMA AllocMarkerIInv ==
  ASSUME IInv, WeakRewind = FALSE, AllocMarker
  PROVE  IInv'
<1>1. TypeOK /\ NoOverrun /\ WriterInv /\ Segmented
  BY DEF IInv
<1>2. /\ HalfRange \in Nat /\ BLK_CNT \in Nat \ {0} /\ BLK_CNT < HalfRange
      /\ Padding \in 1 .. BLK_CNT /\ Slot(write_idx) \in 0 .. BLK_CNT - 1
      /\ BlkSz(wsize) \in Nat
  BY <1>1, StateFacts
<1>3. /\ wpc = "marker" /\ wpc' = "bump" /\ wsize' = wsize
      /\ blk' = [blk EXCEPT ![Slot(write_idx)].size = 0]
      /\ hidden' = Visible
      /\ read_idx_cach' = read_idx_cach /\ write_idx' = write_idx /\ read_idx' = read_idx
      /\ rpc' = rpc /\ rw' = rw /\ shown' = shown
  BY DEF AllocMarker, readerVars
<1>4. Used' = Used /\ Granted' = Granted
  BY <1>3 DEF Used, Granted, Padding
<1>5. 0 \in 0 .. UInt16Mod - 1
  BY UInt16ModIs
<1>6. TypeOK'
  BY SMTT(30), <1>1, <1>2, <1>3, <1>5 DEF TypeOK, Visible
<1>7. NoOverrun'
  BY <1>1, <1>3, <1>4 DEF NoOverrun
<1>8. WriterInv'
  BY <1>1, <1>2, <1>3 DEF WriterInv, TypeOK
<1>9. Segmented'
  <2>1. 0 < Granted
    BY <1>2, <1>3 DEF Granted
  <2>2. Add(write_idx, 0) = write_idx
    BY <1>1, <1>2 DEF Add, TypeOK, UInt, UIntMod
  <2>3. \A b \in 0 .. BLK_CNT - 1 :
           blk'[b] = blk[b] \/ (0 < Granted /\ b = Slot(Add(write_idx, 0)))
    BY <1>1, <1>3, <2>1, <2>2 DEF TypeOK
  <2> QED BY <1>1, <1>3, <2>3, WriterStoreKeeps
<1> QED BY <1>6, <1>7, <1>8, <1>9 DEF IInv

\* The store of the rewound write index.
LEMMA AllocBumpIInv ==
  ASSUME IInv, AllocBump
  PROVE  IInv'
<1>1. TypeOK /\ NoOverrun /\ WriterInv /\ Segmented
  BY DEF IInv
<1>2. /\ HalfRange \in Nat /\ BLK_CNT \in Nat \ {0} /\ BLK_CNT < HalfRange
      /\ Padding \in 1 .. BLK_CNT /\ Slot(write_idx) \in 0 .. BLK_CNT - 1
      /\ BlkSz(wsize) \in Nat /\ Used \in Nat /\ Sub(write_idx, read_idx_cach) \in Nat
  BY <1>1, StateFacts
<1>3. /\ wpc = "bump" /\ wpc' = "header" /\ wsize' = wsize
      /\ write_idx' = Add(write_idx, Padding)
      /\ blk' = blk /\ hidden' = hidden
      /\ read_idx_cach' = read_idx_cach /\ read_idx' = read_idx
      /\ rpc' = rpc /\ rw' = rw /\ shown' = shown
  BY DEF AllocBump, readerVars
<1>4. Granted = Padding + BlkSz(wsize) /\ Granted' = BlkSz(wsize)
  BY <1>3 DEF Granted
<1>5. SegLen(write_idx) = Padding /\ Slot(write_idx) # 0
  BY <1>1, <1>3 DEF WriterInv, SegLen, Padding
<1>6. Used + Padding <= BLK_CNT
  BY <1>1, <1>2, <1>4 DEF NoOverrun
<1>7. Segmented' /\ Used' = Used + Padding /\ write_idx' \in UInt
  BY <1>1, <1>3, <1>5, <1>6, SegmentedExtended
<1>8. TypeOK'
  BY <1>1, <1>3, <1>7 DEF TypeOK
<1>9. Sub(write_idx', read_idx_cach) = Sub(write_idx, read_idx_cach) + Padding
  <2>1. Sub(write_idx, read_idx_cach) + Padding <= BLK_CNT
    BY <1>1, <1>2, <1>4 DEF NoOverrun
  <2>2. write_idx \in UInt /\ read_idx_cach \in UInt
    BY <1>1 DEF TypeOK
  <2> QED BY <1>2, <1>3, <2>1, <2>2 DEF Sub, Add, UInt, UIntMod
<1>10. NoOverrun'
  BY <1>1, <1>2, <1>3, <1>4, <1>7, <1>9 DEF NoOverrun
<1>11. Slot(write_idx') = 0
  <2>1. write_idx \in UInt /\ Padding \in Nat /\ Slot(write_idx) + Padding = BLK_CNT
    BY SMTT(30), <1>1, <1>2 DEF Padding, TypeOK
  <2>2. Slot(write_idx) + Padding <= BLK_CNT
    BY <1>2, <2>1
  <2> QED BY <1>3, <2>1, <2>2, SlotNext
<1>12. WriterInv'
  BY <1>1, <1>2, <1>3, <1>4, <1>11 DEF WriterInv, NoOverrun
<1> QED BY <1>7, <1>8, <1>10, <1>12 DEF IInv

\* The store of the message's header.
LEMMA AllocHeaderIInv ==
  ASSUME IInv, AllocHeader
  PROVE  IInv'
<1>1. TypeOK /\ NoOverrun /\ WriterInv /\ Segmented
  BY DEF IInv
<1>2. /\ HalfRange \in Nat /\ BLK_CNT \in Nat \ {0}
      /\ Slot(write_idx) \in 0 .. BLK_CNT - 1
      /\ wsize \in 0 .. UInt16Mod - 1
  BY <1>1, StateFacts
<1>3. /\ wpc = "header" /\ wpc' = "alloced" /\ wsize' = wsize
      /\ blk' = [blk EXCEPT ![Slot(write_idx)].size = wsize]
      /\ hidden' = hidden
      /\ read_idx_cach' = read_idx_cach /\ write_idx' = write_idx /\ read_idx' = read_idx
      /\ rpc' = rpc /\ rw' = rw /\ shown' = shown
  BY DEF AllocHeader, readerVars
<1>4. Used' = Used /\ Granted' = Granted /\ Granted = BlkSz(wsize)
  BY <1>3 DEF Used, Granted
<1>5. TypeOK'
  BY <1>1, <1>2, <1>3 DEF TypeOK
<1>6. NoOverrun'
  BY <1>1, <1>3, <1>4 DEF NoOverrun
<1>7. WriterInv'
  BY <1>1, <1>2, <1>3 DEF WriterInv, TypeOK
<1>8. Segmented'
  <2>1. 0 < Granted
    BY <1>1, <1>3, <1>4, AllocSizeOK DEF WriterInv
  <2>2. Add(write_idx, 0) = write_idx
    BY <1>1, <1>2 DEF Add, TypeOK, UInt, UIntMod
  <2>3. \A b \in 0 .. BLK_CNT - 1 :
           blk'[b] = blk[b] \/ (0 < Granted /\ b = Slot(Add(write_idx, 0)))
    BY <1>1, <1>3, <2>1, <2>2 DEF TypeOK
  <2> QED BY <1>1, <1>3, <2>3, WriterStoreKeeps
<1> QED BY <1>5, <1>6, <1>7, <1>8 DEF IInv

\* The user writes the payload.
LEMMA FillIInv ==
  ASSUME IInv, NEW v \in Values, Fill(v)
  PROVE  IInv'
<1>1. TypeOK /\ NoOverrun /\ WriterInv /\ Segmented
  BY DEF IInv
<1>2. /\ HalfRange \in Nat /\ BLK_CNT \in Nat \ {0}
      /\ Slot(write_idx) \in 0 .. BLK_CNT - 1
      /\ BlkSz(wsize) \in Nat
  BY <1>1, StateFacts
<1> DEFINE first == Slot(write_idx)
           last == first + BlkSz(wsize) - 1
<1>3. /\ wpc = "alloced" /\ wpc' = "filled" /\ wsize' = wsize
      /\ blk' = [b \in 0 .. BLK_CNT - 1 |->
                   IF b \notin first .. last THEN blk[b]
                   ELSE [size |-> IF b = first THEN blk[b].size ELSE v, data |-> v]]
      /\ hidden' = hidden
      /\ read_idx_cach' = read_idx_cach /\ write_idx' = write_idx /\ read_idx' = read_idx
      /\ rpc' = rpc /\ rw' = rw /\ shown' = shown
  BY DEF Fill, readerVars
<1>4. Used' = Used /\ Granted' = Granted /\ Granted = BlkSz(wsize)
  BY <1>3 DEF Used, Granted
<1>5. v \in 0 .. UInt16Mod - 1
  BY SPSCAssumption
<1>6. TypeOK'
  <2>1. blk' \in [0 .. BLK_CNT - 1 -> [size : 0 .. UInt16Mod - 1, data : 0 .. UInt16Mod - 1]]
    BY <1>1, <1>3, <1>5 DEF TypeOK
  <2> QED BY <1>1, <1>3, <2>1 DEF TypeOK
<1>7. NoOverrun'
  BY <1>1, <1>3, <1>4 DEF NoOverrun
<1>8. WriterInv'
  <2>1. blk'[first].size = blk[first].size
    BY <1>2, <1>3
  <2> QED BY <1>1, <1>3, <2>1 DEF WriterInv
<1>9. Segmented'
  <2>1. ASSUME NEW b \in 0 .. BLK_CNT - 1, blk'[b] # blk[b]
        PROVE  \E j \in Nat : j < Granted /\ b = Slot(Add(write_idx, j))
    <3>1. b \in first .. last
      BY <1>3, <2>1
    <3> DEFINE j == b - first
    <3>2. j \in Nat /\ j < Granted /\ first + j = b /\ first + j < BLK_CNT
      BY <1>2, <1>4, <3>1
    <3>3. write_idx \in UInt /\ first + j <= BLK_CNT
      BY <1>1, <1>2, <3>2 DEF TypeOK
    <3> HIDE DEF j
    <3>4. Slot(Add(write_idx, j)) = first + j
      BY <3>2, <3>3, SlotNext
    <3> QED BY <3>2, <3>4
  <2> QED BY <1>1, <1>3, <2>1, WriterStoreKeeps
<1> QED BY <1>6, <1>7, <1>8, <1>9 DEF IInv

\* Push() publishes the message.
LEMMA PushIInv ==
  ASSUME IInv, WeakRewind = FALSE, Push
  PROVE  IInv'
<1>1. TypeOK /\ NoOverrun /\ WriterInv /\ Segmented
  BY DEF IInv
<1>2. /\ HalfRange \in Nat /\ BLK_CNT \in Nat \ {0} /\ BLK_CNT < HalfRange
      /\ Slot(write_idx) \in 0 .. BLK_CNT - 1
      /\ BlkSz(wsize) \in Nat /\ Used \in Nat /\ Sub(write_idx, read_idx_cach) \in Nat
  BY <1>1, StateFacts
<1>3. /\ wpc = "filled" /\ wpc' = "idle" /\ wsize' = 0
      /\ write_idx' = Add(write_idx, BlkSz(blk[Slot(write_idx)].size))
      /\ blk' = blk /\ hidden' = Visible
      /\ read_idx_cach' = read_idx_cach /\ read_idx' = read_idx
      /\ rpc' = IF rpc = "asleep" THEN "wait" ELSE rpc
      /\ rw' = rw /\ shown' = shown
  BY DEF Push
<1>4. /\ blk[Slot(write_idx)].size = wsize
      /\ wsize # 0
      /\ BlkSz(wsize) \in Nat \ {0}
  BY <1>1, <1>3, AllocSizeOK, UInt16ModIs DEF WriterInv
<1>5. SegLen(write_idx) = BlkSz(wsize)
  BY <1>4 DEF SegLen
<1>6. Granted = BlkSz(wsize) /\ Granted' = 0
  BY <1>3 DEF Granted
<1>7. Used + BlkSz(wsize) <= BLK_CNT
  BY <1>1, <1>6 DEF NoOverrun
<1>8. Segmented' /\ Used' = Used + BlkSz(wsize) /\ write_idx' \in UInt
  BY <1>1, <1>3, <1>4, <1>5, <1>7, SegmentedExtended
<1>9. Sub(write_idx', read_idx_cach) = Sub(write_idx, read_idx_cach) + BlkSz(wsize)
  <2>1. Sub(write_idx, read_idx_cach) + BlkSz(wsize) <= BLK_CNT
    BY <1>1, <1>6 DEF NoOverrun
  <2>2. write_idx \in UInt /\ read_idx_cach \in UInt
    BY <1>1 DEF TypeOK
  <2> QED BY <1>2, <1>3, <1>4, <2>1, <2>2 DEF Sub, Add, UInt, UIntMod
<1>10. NoOverrun'
  BY <1>1, <1>2, <1>3, <1>6, <1>8, <1>9 DEF NoOverrun
<1>11. TypeOK'
  BY SMTT(30), <1>1, <1>2, <1>3, <1>8, UInt16ModIs DEF TypeOK, Visible
<1>12. WriterInv'
  BY <1>3 DEF WriterInv
<1> QED BY <1>8, <1>10, <1>11, <1>12 DEF IInv

\* A crash of the writer.
LEMMA WriterCrashIInv ==
  ASSUME IInv, WriterCrash
  PROVE  IInv'
<1>1. TypeOK /\ NoOverrun /\ WriterInv /\ Segmented
  BY DEF IInv
<1>2. BLK_CNT \in Nat \ {0} /\ Granted \in Nat /\ Used \in Nat
      /\ Sub(write_idx, read_idx_cach) \in Nat
  BY <1>1, StateFacts
<1>3. /\ wpc' = "idle" /\ wsize' = 0 /\ hidden' = Visible
      /\ blk' = blk /\ write_idx' = write_idx
      /\ read_idx_cach' = read_idx_cach /\ read_idx' = read_idx
      /\ rpc' = rpc /\ rw' = rw /\ shown' = shown
  BY DEF WriterCrash, readerVars, shared
<1>4. TypeOK'
  BY <1>1, <1>2, <1>3, UInt16ModIs DEF TypeOK, Visible
<1>5. NoOverrun'
  BY <1>1, <1>2, <1>3 DEF NoOverrun, Granted, Used
<1>6. WriterInv'
  BY <1>3 DEF WriterInv
<1>7. Segmented'
  BY <1>1, <1>3, SegmentedKept
<1> QED BY <1>4, <1>5, <1>6, <1>7 DEF IInv

\* Steps of the reader that move no index: it may only come to stand on a
\* header that is published.
LEMMA ReaderLocalIInv ==
  ASSUME IInv, UNCHANGED <<shared, writerVars, hidden>>,
         rpc' \in {"idle", "size", "rewind", "front", "read", "wait", "asleep", "rewait"},
         rw' \in UInt,
         shown'.size \in 0 .. UInt16Mod - 1,
         rpc' \in {"size", "rewind"} =>
            \/ rw' = write_idx /\ write_idx # read_idx
            \/ rpc = "size" /\ rw' = rw,
         rpc' = "rewind" => blk[Slot(read_idx)].size = 0,
         rpc' \in {"front", "read"} =>
            \/ rpc = "size" /\ blk[Slot(read_idx)].size # 0
            \/ rpc = "front"
  PROVE  IInv'
<1>1. TypeOK /\ NoOverrun /\ WriterInv /\ Segmented
  BY DEF IInv
<1>2. /\ blk' = blk /\ write_idx' = write_idx /\ wpc' = wpc /\ wsize' = wsize
      /\ read_idx_cach' = read_idx_cach /\ read_idx' = read_idx /\ hidden' = hidden
  BY DEF shared, writerVars
<1>3. TypeOK'
  BY <1>1, <1>2 DEF TypeOK
<1>4. NoOverrun'
  BY <1>1, <1>2 DEF NoOverrun, Granted, Used, Padding
<1>5. WriterInv'
  BY <1>1, <1>2 DEF WriterInv
<1>6. Segmented'
  <2>1. PICK H \in SUBSET UInt : Boundaries(H) /\ ReaderOn(H)
    BY <1>1 DEF Segmented
  <2>2. Boundaries(H)'
    BY <1>2, <2>1 DEF Boundaries, SegLen, Used
  <2>3. rpc = "size" => read_idx # write_idx
    <3>1. SUFFICES ASSUME rpc = "size", read_idx = write_idx
                   PROVE  FALSE
      OBVIOUS
    <3>2. rw \in UInt /\ rw # read_idx /\ Sub(rw, read_idx) <= Used
      BY <2>1, <3>1 DEF Boundaries, ReaderOn
    <3>3. read_idx \in UInt /\ write_idx \in UInt
      BY <1>1 DEF TypeOK
    <3> QED BY <3>1, <3>2, <3>3, HalfRangeAssumption DEF Used, Sub, UInt, UIntMod
  <2>4. ReaderOn(H)'
    BY <1>2, <2>1, <2>3 DEF ReaderOn, Boundaries
  <2> QED BY <2>2, <2>4 DEF Segmented
<1> QED BY <1>3, <1>4, <1>5, <1>6 DEF IInv

\* Steps of the reader that step over the oldest segment.
LEMMA ReaderAdvanceIInv ==
  ASSUME IInv, read_idx # write_idx,
         read_idx' = Add(read_idx, SegLen(read_idx)),
         UNCHANGED <<blk, write_idx, read_idx_cach, writerVars, hidden>>,
         rw' \in UInt,
         shown'.size \in 0 .. UInt16Mod - 1,
         \/ rpc' = "idle"
         \/ rpc' = "front" /\ rpc = "rewind" /\ read_idx' # rw
  PROVE  IInv'
<1>1. TypeOK /\ NoOverrun /\ WriterInv /\ Segmented
  BY DEF IInv
<1>2. /\ blk' = blk /\ write_idx' = write_idx /\ wpc' = wpc /\ wsize' = wsize
      /\ read_idx_cach' = read_idx_cach /\ hidden' = hidden
  BY DEF writerVars
<1>3. /\ BLK_CNT \in Nat \ {0} /\ HalfRange \in Nat /\ Granted \in Nat /\ Used \in Nat
      /\ Sub(write_idx, read_idx_cach) \in Nat
      /\ Slot(read_idx) \in 0 .. BLK_CNT - 1
  BY <1>1, StateFacts
<1>4. Used <= BLK_CNT
  BY <1>1, <1>3 DEF NoOverrun
<1>5. PICK H \in SUBSET UInt : Boundaries(H) /\ ReaderOn(H)
  BY <1>1 DEF Segmented
<1> DEFINE n == SegLen(read_idx)
<1>6. PICK K \in SUBSET H : K = {h \in H : Sub(h, read_idx) >= n}
  OBVIOUS
<1>7. read_idx' \in UInt /\ read_idx' \in H /\ n <= Used /\ Used' = Used - n
      /\ Boundaries(K)'
  BY <1>1, <1>2, <1>4, <1>5, <1>6, SegmentedShrunk
<1>8. n \in Nat \ {0} /\ read_idx \in UInt /\ write_idx \in UInt
  BY <1>1, SegLenOK DEF TypeOK
<1>9. TypeOK'
  BY <1>1, <1>2, <1>7 DEF TypeOK
<1>10. NoOverrun'
  <2>1. Granted' = Granted
    BY <1>2 DEF Granted, Padding
  <2> QED BY <1>1, <1>2, <1>3, <1>7, <1>8, <2>1 DEF NoOverrun
<1>11. WriterInv'
  BY <1>1, <1>2 DEF WriterInv
<1>12. ReaderOn(K)'
  <2>1. CASE rpc' = "idle"
    BY <2>1 DEF ReaderOn
  <2>2. CASE rpc' = "front" /\ rpc = "rewind" /\ read_idx' # rw
    <3>1. rw \in H /\ rw # read_idx /\ blk[Slot(read_idx)].size = 0
      BY <1>5, <2>2 DEF ReaderOn
    <3>2. Sub(rw, read_idx) >= n /\ Sub(rw, read_idx) <= Used
      <4>1. Sub(read_idx, read_idx) = 0 /\ Sub(rw, read_idx) \in Nat /\ Sub(rw, read_idx) # 0
        BY <1>3, <1>8, <3>1 DEF Sub, UInt, UIntMod
      <4>2. \/ Sub(rw, read_idx) <= Sub(read_idx, read_idx)
            \/ Sub(rw, read_idx) >= Sub(read_idx, read_idx) + n
        BY <1>5, <3>1 DEF Boundaries
      <4> QED BY <1>5, <1>8, <3>1, <4>1, <4>2 DEF Boundaries
    <3>3. n = BLK_CNT - Slot(read_idx)
      BY <3>1 DEF SegLen
    <3>4. Slot(read_idx') = 0
      BY <1>3, <1>8, <3>3, SlotNext
    <3>5. read_idx' # write_idx
      BY <1>3, <1>4, <1>7, <1>8, <2>2, <3>1, <3>2, SPSCAssumption
         DEF Used, Sub, Add, UInt, UIntMod
    <3>6. blk[Slot(read_idx')].size # 0
      BY <1>5, <1>7, <3>4, <3>5 DEF Boundaries
    <3> QED BY <1>2, <2>2, <3>5, <3>6 DEF ReaderOn
  <2> QED BY <2>1, <2>2
<1>13. Segmented'
  BY <1>6, <1>7, <1>12 DEF Segmented
<1> QED BY <1>9, <1>10, <1>11, <1>13 DEF IInv

\* A reader in the middle of Front() or Pop() stands on a published header.
LEMMA ReaderStands ==
  ASSUME IInv, WeakRewind = FALSE
  PROVE  /\ rpc \in {"size", "rewind", "front", "read"} => read_idx # write_idx
         /\ rpc = "rewind" => blk[Slot(read_idx)].size = 0
         /\ rpc \in {"front", "read"} => blk[Slot(read_idx)].size # 0
         /\ SizesAt(Slot(read_idx)) = {blk[Slot(read_idx)].size}
<1>1. TypeOK /\ WriterInv /\ Segmented
  BY DEF IInv
<1>2. PICK H \in SUBSET UInt : Boundaries(H) /\ ReaderOn(H)
  BY <1>1 DEF Segmented
<1>3. rpc \in {"size", "rewind"} => read_idx # write_idx
  <2>1. SUFFICES ASSUME rpc \in {"size", "rewind"}, read_idx = write_idx
                 PROVE  FALSE
    OBVIOUS
  <2>2. rw \in UInt /\ rw # read_idx /\ Sub(rw, read_idx) <= Used
    BY <1>2, <2>1 DEF Boundaries, ReaderOn
  <2>3. read_idx \in UInt /\ write_idx \in UInt
    BY <1>1 DEF TypeOK
  <2> QED BY <2>1, <2>2, <2>3, HalfRangeAssumption DEF Used, Sub, UInt, UIntMod
<1>4. SizesAt(Slot(read_idx)) = {blk[Slot(read_idx)].size}
  <2>1. hidden.slot = -1
    BY <1>1 DEF WriterInv, Visible
  <2>2. Slot(read_idx) \in 0 .. BLK_CNT - 1 /\ BLK_CNT \in Nat
    BY <1>1, StateFacts
  <2>3. Slot(read_idx) # -1
    BY <2>2
  <2> QED BY <2>1, <2>3 DEF SizesAt
<1> QED BY <1>2, <1>3, <1>4 DEF ReaderOn

\* Every step of the reader keeps the invariant.
LEMMA ReaderIInv ==
  ASSUME IInv, WeakRewind = FALSE,
         ReaderStep \/ Leave \/ WaitForData \/ WaitCheck \/ ReaderCrash
  PROVE  IInv'
<1>1. TypeOK
  BY DEF IInv
<1>2. /\ rpc \in {"size", "rewind", "front", "read"} => read_idx # write_idx
      /\ rpc = "rewind" => blk[Slot(read_idx)].size = 0
      /\ rpc \in {"front", "read"} => blk[Slot(read_idx)].size # 0
      /\ SizesAt(Slot(read_idx)) = {blk[Slot(read_idx)].size}
  BY ReaderStands
<1>3. write_idx \in UInt /\ rw \in UInt /\ shown.size \in 0 .. UInt16Mod - 1
  BY <1>1 DEF TypeOK
<1>4. 0 \in UInt /\ NoMsg.size \in 0 .. UInt16Mod - 1
  BY HalfRangeAssumption, UInt16ModIs DEF UInt, UIntMod, NoMsg
<1>5. blk[Slot(read_idx)].size \in 0 .. UInt16Mod - 1
  BY <1>1, StateFacts DEF TypeOK
<1>6. ASSUME Front PROVE IInv'
  <2>1. CASE read_idx = write_idx
    <3>1. UNCHANGED vars
      BY <1>6, <2>1 DEF Front, vars, shared, writerVars, readerVars
    <3> QED BY <1>1, <3>1 DEF vars, shared, writerVars, readerVars, IInv, TypeOK,
              NoOverrun, Granted, Padding, Used, WriterInv, Segmented, Boundaries,
              ReaderOn, SegLen
  <2>2. CASE read_idx # write_idx
    BY <1>3, <1>6, <2>2, ReaderLocalIInv DEF Front
  <2> QED BY <2>1, <2>2
<1>7. ASSUME FrontSize PROVE IInv'
  BY <1>2, <1>3, <1>4, <1>7, ReaderLocalIInv DEF FrontSize
<1>8. ASSUME FrontRewind PROVE IInv'
  <2>1. read_idx' = Add(read_idx, SegLen(read_idx)) /\ read_idx # write_idx
    BY <1>2, <1>8 DEF FrontRewind, SegLen
  <2> QED BY <1>3, <1>4, <1>8, <2>1, ReaderAdvanceIInv DEF FrontRewind
<1>9. ASSUME ReadMsg PROVE IInv'
  <2>1. shown'.size \in 0 .. UInt16Mod - 1
    BY <1>2, <1>5, <1>9 DEF ReadMsg, MsgAt
  <2> QED BY <1>3, <1>9, <2>1, ReaderLocalIInv DEF ReadMsg
<1>10. ASSUME Pop PROVE IInv'
  <2>1. read_idx' = Add(read_idx, SegLen(read_idx)) /\ read_idx # write_idx
    BY <1>2, <1>10 DEF Pop, SegLen
  <2> QED BY <1>3, <1>4, <1>10, <2>1, ReaderAdvanceIInv DEF Pop
<1>11. ASSUME Leave PROVE IInv'
  BY <1>3, <1>4, <1>11, ReaderLocalIInv DEF Leave
<1>12. ASSUME WaitForData PROVE IInv'
  BY <1>3, <1>12, ReaderLocalIInv DEF WaitForData
<1>13. ASSUME WaitCheck PROVE IInv'
  BY <1>3, <1>4, <1>13, ReaderLocalIInv DEF WaitCheck
<1>14. ASSUME ReaderCrash PROVE IInv'
  BY <1>4, <1>14, ReaderLocalIInv DEF ReaderCrash
<1> QED BY <1>6, <1>7, <1>8, <1>9, <1>10, <1>11, <1>12, <1>13, <1>14 DEF ReaderStep

\* The invariant is inductive.
LEMMA NextIInv ==
  ASSUME IInv, WeakRewind = FALSE, [Next]_vars
  PROVE  IInv'
<1>1. CASE \E usize \in Sizes : Alloc(usize)
  BY <1>1, AllocIInv
<1>2. CASE \E v \in Values : Fill(v)
  BY <1>2, FillIInv
<1>3. CASE WriterStep
  BY <1>3, AllocMarkerIInv, AllocBumpIInv, AllocHeaderIInv, PushIInv DEF WriterStep
<1>4. CASE WriterCrash
  BY <1>4, WriterCrashIInv
<1>5. CASE ReaderStep \/ Leave \/ WaitForData \/ WaitCheck \/ ReaderCrash
  BY <1>5, ReaderIInv
<1>6. CASE UNCHANGED vars
  BY <1>6 DEF vars, shared, writerVars, readerVars, IInv, TypeOK,
     NoOverrun, Granted, Padding, Used, WriterInv, Segmented, Boundaries,
     ReaderOn, SegLen
<1> QED BY <1>1, <1>2, <1>3, <1>4, <1>5, <1>6 DEF Next

\* No store of a step hits a block that is published and not yet popped.
LEMMA NextClobbersNothing ==
  ASSUME IInv, [Next]_vars
  PROVE  \A b \in LiveSlots : blk'[b] = blk[b]
<1>1. TypeOK /\ NoOverrun /\ WriterInv
  BY DEF IInv
<1>2. /\ HalfRange \in Nat /\ BLK_CNT \in Nat \ {0} /\ BLK_CNT < HalfRange
      /\ Slot(write_idx) \in 0 .. BLK_CNT - 1 /\ BlkSz(wsize) \in Nat /\ Used \in Nat
      /\ Padding \in 1 .. BLK_CNT /\ Granted \in Nat
  BY <1>1, StateFacts
<1>3. write_idx \in UInt /\ read_idx \in UInt
  BY <1>1 DEF TypeOK
<1>4. Add(write_idx, 0) = write_idx
  BY <1>2, <1>3 DEF Add, UInt, UIntMod
<1>5. ASSUME NEW b \in LiveSlots, NEW j \in Nat, j < Granted
      PROVE  b # Slot(Add(write_idx, j))
  <2>1. PICK d \in 0 .. Used - 1 : b = Slot(Add(read_idx, d))
    BY DEF LiveSlots
  <2> DEFINE h == Add(read_idx, d)
  <2>2. Used <= BLK_CNT
    BY <1>1, <1>2 DEF NoOverrun
  <2>3. h \in UInt /\ Sub(h, read_idx) <= Used /\ h # write_idx
    BY <1>2, <1>3, <2>1, <2>2 DEF Used, Sub, Add, UInt, UIntMod
  <2> QED BY <1>1, <1>5, <2>1, <2>3, GrantedIsFree
<1>6. ASSUME NEW b \in LiveSlots PROVE b \in 0 .. BLK_CNT - 1
  <2>1. PICK d \in 0 .. Used - 1 : b = Slot(Add(read_idx, d))
    BY DEF LiveSlots
  <2>2. Used <= BLK_CNT
    BY <1>1, <1>2 DEF NoOverrun
  <2>3. Add(read_idx, d) \in Nat
    BY <1>2, <1>3, <2>1, <2>2 DEF Add, UInt, UIntMod
  <2> QED BY <2>1, <2>3, SlotDiv
<1>7. CASE AllocMarker
  <2>1. 0 < Granted /\ blk' = [blk EXCEPT ![Slot(write_idx)].size = 0]
    BY <1>2, <1>7 DEF AllocMarker, Granted
  <2> QED BY <1>1, <1>4, <1>5, <1>6, <2>1 DEF TypeOK
<1>8. CASE AllocHeader
  <2>1. 0 < Granted /\ blk' = [blk EXCEPT ![Slot(write_idx)].size = wsize]
    BY <1>1, <1>8, AllocSizeOK DEF AllocHeader, Granted, WriterInv
  <2> QED BY <1>1, <1>4, <1>5, <1>6, <2>1 DEF TypeOK
<1>9. ASSUME NEW v \in Values, Fill(v)
      PROVE  \A b \in LiveSlots : blk'[b] = blk[b]
  <2> DEFINE first == Slot(write_idx)
             last == first + BlkSz(wsize) - 1
  <2>1. /\ Granted = BlkSz(wsize)
        /\ first + BlkSz(wsize) <= BLK_CNT
        /\ \A b \in 0 .. BLK_CNT - 1 : b \notin first .. last => blk'[b] = blk[b]
    BY <1>1, <1>9 DEF Fill, Granted, WriterInv
  <2>2. ASSUME NEW b \in LiveSlots PROVE b \notin first .. last
    <3>1. SUFFICES ASSUME b \in first .. last PROVE FALSE
      OBVIOUS
    <3> DEFINE j == b - first
    <3>2. j \in Nat /\ j < Granted /\ first + j = b /\ first + j < BLK_CNT
      BY <1>2, <2>1, <3>1
    <3>3. first + j <= BLK_CNT
      BY <1>2, <3>2
    <3> HIDE DEF j
    <3>4. Slot(Add(write_idx, j)) = first + j
      BY <1>3, <3>2, <3>3, SlotNext
    <3> QED BY <1>5, <3>2, <3>4
  <2> QED BY <1>6, <2>1, <2>2
<1>10. CASE UNCHANGED blk
  BY <1>10
<1>11. \/ UNCHANGED blk \/ AllocMarker \/ AllocHeader \/ \E v \in Values : Fill(v)
  BY DEF Next, Alloc, WriterStep, AllocBump, Push, WriterCrash, ReaderStep, Front,
         FrontSize, FrontRewind, ReadMsg, Pop, Leave, WaitForData, WaitCheck,
         ReaderCrash, vars, shared
<1> QED BY <1>7, <1>8, <1>9, <1>10, <1>11

-----------------------------------------------------------------------------
(* The walk over the headers, as a function of memory and write_idx.       *)

\* Induction over 0 .. top, for a set: the numbers that are missing from T would
\* have a least one.
LEMMA UpTo ==
  ASSUME NEW top \in Nat, NEW T, 0 \in T, \A k \in 0 .. top - 1 : k \in T => k + 1 \in T
  PROVE  \A k \in 0 .. top : k \in T
<1> DEFINE D == 0 .. top
           Missing == {k \in D : k \notin T}
           Below == {0 .. k : k \in Missing}
<1> SUFFICES ASSUME Missing # {} PROVE FALSE
  OBVIOUS
<1>1. IsFiniteSet(D)
  BY FS_Interval
<1>2. Below \subseteq SUBSET D /\ Below # {}
  OBVIOUS
<1>3. PICK A \in Below : \A B \in Below : ~ (<<B, A>> \in StrictSubsetOrdering(D))
  <2>1. FiniteSubsetsOf(D) = SUBSET D
    <3> HIDE DEF D
    <3> QED BY <1>1, FS_FiniteSubsetsOfFinite
  <2> HIDE DEF Below, D
  <2> QED BY <2>1, <1>1, <1>2, FS_StrictSubsetOrderingWellFounded, WFMin
<1>4. PICK k \in Missing : A = 0 .. k
  OBVIOUS
<1>5. k - 1 \in Missing
  OBVIOUS
<1>6. 0 .. k - 1 \in Below
  BY <1>5
<1>7. <<0 .. k - 1, A>> \in StrictSubsetOrdering(D)
  <2>1. 0 .. k - 1 \subseteq A /\ A \subseteq D /\ k \in A /\ k \notin 0 .. k - 1
    BY <1>4
  <2> QED BY <2>1 DEF StrictSubsetOrdering
<1> QED BY <1>3, <1>6, <1>7

Memory == [0 .. BLK_CNT - 1 -> [size : 0 .. UInt16Mod - 1, data : 0 .. UInt16Mod - 1]]

\* What the header at index i of the memory m reads as, the step over it, and the
\* message it starts.
HeaderAt(m, i) == m[Slot(i)].size
Step(m, i) == IF HeaderAt(m, i) = 0 THEN BLK_CNT - Slot(i) ELSE BlkSz(HeaderAt(m, i))
Found(m, i) ==
  [size |-> HeaderAt(m, i),
   data |-> [j \in 1 .. BlkSz(HeaderAt(m, i)) |-> m[Slot(Add(i, j - 1))].data]]

\* The messages from the header at i on, as a sequence of none or one before rest.
Preceded(m, i, rest) == IF HeaderAt(m, i) = 0 THEN rest ELSE <<Found(m, i)>> \o rest

\* One step of the walk, k blocks before the index w.
Turn(m, w, f, k) ==
  IF k = 0 THEN <<>>
  ELSE IF k > BLK_CNT \/ Step(m, Sub(w, k)) > k THEN <<Torn>>
  ELSE Preceded(m, Sub(w, k), f[k - Step(m, Sub(w, k))])

WalkOver(m, w) == CHOOSE f : f = [k \in 0 .. UIntMod - 1 |-> Turn(m, w, f, k)]

Items(m) == {Torn} \cup {Found(m, i) : i \in UInt}

\* The walk of the model is the one over the current memory.
LEMMA WalkIs == Walk = WalkOver(blk, write_idx)
BY Zenon DEF Walk, WalkOver, Turn, Preceded, Step, Found, HeaderAt, MsgAt

\* So is the next one.
LEMMA WalkNext == Walk' = WalkOver(blk', write_idx')
BY Zenon DEF Walk, WalkOver, Turn, Preceded, Step, Found, HeaderAt, MsgAt

\* The step over a header is at least one block long.
LEMMA StepOK ==
  ASSUME NEW m \in Memory, NEW i \in UInt
  PROVE  Step(m, i) \in Nat \ {0} /\ HeaderAt(m, i) \in 0 .. UInt16Mod - 1 /\ Found(m, i) \in Items(m)
<1>1. i \in Nat
  BY HalfRangeAssumption DEF UInt, UIntMod
<1>2. Slot(i) \in 0 .. BLK_CNT - 1
  BY <1>1, SlotDiv
<1>3. HeaderAt(m, i) \in 0 .. UInt16Mod - 1
  BY <1>2 DEF Memory, HeaderAt
<1>4. BLK_CNT - Slot(i) \in Nat \ {0}
  BY <1>2, SPSCAssumption
<1>5. HeaderAt(m, i) # 0 => BlkSz(HeaderAt(m, i)) \in Nat \ {0}
  BY <1>3, BlkSzOK
<1>6. Step(m, i) \in Nat \ {0}
  BY <1>4, <1>5 DEF Step
<1>7. Found(m, i) \in Items(m)
  BY DEF Items
<1> QED BY <1>3, <1>6, <1>7

\* One step of the walk needs what is nearer to w, and gives a sequence.
LEMMA TurnOK ==
  ASSUME NEW m \in Memory, NEW w \in UInt, NEW k \in UInt, NEW f, NEW g,
         \A i \in 0 .. k - 1 : f[i] = g[i] /\ f[i] \in Seq(Items(m))
  PROVE  Turn(m, w, f, k) = Turn(m, w, g, k) /\ Turn(m, w, f, k) \in Seq(Items(m))
<1> DEFINE i == Sub(w, k)
           d == Step(m, i)
           S == Items(m)
           e == Found(m, i)
<1>1. k \in Nat /\ i \in UInt
  BY HalfRangeAssumption, SubOK DEF UInt, UIntMod
<1>2. d \in Nat \ {0} /\ e \in S
  BY <1>1, StepOK
<1>3. Torn \in S
  BY DEF Items
<1> HIDE DEF i, d, S, e
<1>4. CASE k = 0
  BY <1>4 DEF Turn
<1>5. CASE k # 0 /\ (k > BLK_CNT \/ d > k)
  BY <1>5, <1>3 DEF Turn, i, d, S
<1>6. CASE k # 0 /\ ~ (k > BLK_CNT \/ d > k)
  <2> DEFINE x == f[k - d]
             y == g[k - d]
  <2>1. k - d \in 0 .. k - 1
    BY <1>1, <1>2, <1>6, SPSCAssumption
  <2>2. x = y /\ x \in Seq(S)
    BY <2>1 DEF S
  <2>3. Turn(m, w, f, k) = Preceded(m, i, x) /\ Turn(m, w, g, k) = Preceded(m, i, y)
    BY <1>6 DEF Turn, i, d
  <2> HIDE DEF x, y
  <2>4. Preceded(m, i, x) \in Seq(S)
    BY <2>2, <1>2 DEF Preceded, e
  <2> QED BY <2>2, <2>3, <2>4 DEF S
<1> QED BY <1>4, <1>5, <1>6 DEF S

\* The walk exists, and its values are sequences.
LEMMA WalkTurn ==
  ASSUME NEW m \in Memory, NEW w \in UInt
  PROVE  \A k \in UInt : /\ WalkOver(m, w)[k] = Turn(m, w, WalkOver(m, w), k)
                         /\ WalkOver(m, w)[k] \in Seq(Items(m))
<1> DEFINE top == UIntMod - 1
           S == Seq(Items(m))
           Good(n, f) == \A k \in 0 .. n : f[k] = Turn(m, w, f, k)
           T == {n \in 0 .. top : \E f \in [0 .. n -> S] : Good(n, f)}
<1>1. top \in Nat /\ UInt = 0 .. top
  BY HalfRangeAssumption DEF UInt, UIntMod
<1> HIDE DEF top
<1>2. 0 \in T
  <2> DEFINE f == [i \in 0 .. 0 |-> <<>>]
  <2>1. f \in [0 .. 0 -> S]
    OBVIOUS
  <2>2. Good(0, f)
    BY DEF Turn
  <2> HIDE DEF f
  <2> QED BY <2>1, <2>2, <1>1
<1>3. ASSUME NEW n \in 0 .. top - 1, n \in T PROVE n + 1 \in T
  <2>1. PICK f \in [0 .. n -> S] : Good(n, f)
    BY <1>3
  <2> DEFINE v == Turn(m, w, f, n + 1)
             g == [i \in 0 .. n + 1 |-> IF i <= n THEN f[i] ELSE v]
  <2>2. n \in Nat /\ n + 1 \in 0 .. top /\ n + 1 \in UInt
    BY <1>1
  <2>3. v \in S
    <3>1. \A i \in 0 .. (n + 1) - 1 : f[i] = f[i] /\ f[i] \in S
      BY <2>2
    <3> QED BY <2>2, <3>1, TurnOK
  <2> HIDE DEF v
  <2>4. g \in [0 .. n + 1 -> S]
    BY <2>2, <2>3
  <2>5. \A i \in 0 .. n : g[i] = f[i] /\ f[i] \in S
    BY <2>2
  <2>6. g[n + 1] = v
    BY <2>2
  <2> HIDE DEF g
  <2>7. ASSUME NEW k \in 0 .. n + 1 PROVE g[k] = Turn(m, w, g, k)
    <3>1. k \in UInt /\ \A i \in 0 .. k - 1 : f[i] = g[i] /\ f[i] \in S
      BY <2>2, <2>5, <1>1
    <3>2. Turn(m, w, f, k) = Turn(m, w, g, k)
      BY <3>1, TurnOK
    <3>3. CASE k = n + 1
      BY <3>2, <3>3, <2>6 DEF v
    <3>4. CASE k <= n
      BY <3>2, <3>4, <2>1, <2>2, <2>5
    <3> QED BY <3>3, <3>4, <2>2
  <2> QED BY <2>2, <2>4, <2>7
<1>4. top \in T
  <2> HIDE DEF T
  <2>1. \A n \in 0 .. top : n \in T
    BY <1>1, <1>2, <1>3, UpTo
  <2> QED BY <2>1, <1>1
<1>5. PICK f \in [0 .. top -> S] : Good(top, f)
  BY <1>4
<1> DEFINE Body(h) == [k \in 0 .. UIntMod - 1 |-> Turn(m, w, h, k)]
           r == WalkOver(m, w)
<1>6. f = Body(f)
  BY <1>5 DEF top
<1>7. r = Body(r)
  <2>1. r = CHOOSE h : h = Body(h)
    BY DEF WalkOver
  <2> HIDE DEF Body, r
  <2> QED BY <1>6, <2>1
<1> HIDE DEF r
<1>8. \A k \in 0 .. top : r[k] = Turn(m, w, r, k)
  BY <1>7 DEF top
<1>9. \A k \in 0 .. top : r[k] \in S
  <2> DEFINE U == {n \in 0 .. top : \A k \in 0 .. n : r[k] \in S}
  <2>1. 0 \in U
    <3>1. r[0] = <<>> /\ 0 \in 0 .. top
      BY <1>1, <1>8 DEF Turn
    <3>2. \A k \in 0 .. 0 : r[k] \in S
      <4>1. <<>> \in S
        OBVIOUS
      <4> HIDE DEF S
      <4> QED BY <3>1, <4>1
    <3> QED BY <3>1, <3>2
  <2>2. ASSUME NEW n \in 0 .. top - 1, n \in U PROVE n + 1 \in U
    <3>1. n + 1 \in UInt /\ n + 1 \in 0 .. top /\ n \in Nat
      BY <1>1
    <3>2. \A i \in 0 .. (n + 1) - 1 : r[i] = r[i] /\ r[i] \in S
      BY <2>2, <3>1
    <3>3. Turn(m, w, r, n + 1) \in S
      BY <3>1, <3>2, TurnOK
    <3>4. r[n + 1] \in S
      BY <3>1, <3>3, <1>8
    <3> QED BY <3>1, <3>4, <2>2
  <2>3. top \in U
    <3> HIDE DEF U
    <3>1. \A n \in 0 .. top : n \in U
      BY <1>1, <2>1, <2>2, UpTo
    <3> QED BY <3>1, <1>1
  <2> QED BY <2>3
<1> QED BY <1>1, <1>8, <1>9 DEF r

\* The ring is small against the index range.
LEMMA RangeFacts ==
  /\ HalfRange \in Nat /\ UIntMod \in Nat /\ BLK_CNT \in Nat /\ BLK_CNT > 0
  /\ BLK_CNT < UIntMod /\ UIntMod = HalfRange + HalfRange /\ BLK_CNT < HalfRange
BY HalfRangeAssumption, SPSCAssumption DEF UIntMod

\* j blocks after the index k blocks before w.
LEMMA BackIndex ==
  ASSUME NEW w \in UInt, NEW k \in 0 .. BLK_CNT, NEW j \in 0 .. k
  PROVE  Sub(w, k) \in UInt /\ Add(Sub(w, k), j) = Sub(w, k - j)
BY RangeFacts DEF Sub, Add, UInt

\* The memories c and m agree on the u blocks before w.
Agree(c, m, w, u) == \A d \in 1 .. u : c[Slot(Sub(w, d))] = m[Slot(Sub(w, d))]

\* Then a message that lies there is the same in both.
LEMMA FoundKept ==
  ASSUME NEW c, NEW m \in Memory, NEW w \in UInt, NEW u \in 0 .. BLK_CNT, Agree(c, m, w, u),
         NEW k \in 1 .. u
  PROVE  /\ HeaderAt(c, Sub(w, k)) = HeaderAt(m, Sub(w, k)) /\ Step(c, Sub(w, k)) = Step(m, Sub(w, k))
         /\ BlkSz(HeaderAt(m, Sub(w, k))) <= k => Found(c, Sub(w, k)) = Found(m, Sub(w, k))
<1> DEFINE i == Sub(w, k)
           z == HeaderAt(m, i)
           b == BlkSz(z)
<1>1. k \in 0 .. BLK_CNT /\ k \in Nat /\ i \in UInt
  BY RangeFacts, BackIndex
<1>2. HeaderAt(c, i) = z
  BY DEF Agree, HeaderAt
<1>3. b \in Nat
  BY <1>1, StepOK, BlkSzOK
<1>4. ASSUME b <= k, NEW j \in 1 .. b PROVE c[Slot(Add(i, j - 1))] = m[Slot(Add(i, j - 1))]
  <2>1. j - 1 \in 0 .. k /\ k - (j - 1) \in 1 .. u
    BY <1>1, <1>3, <1>4
  <2>2. Add(i, j - 1) = Sub(w, k - (j - 1))
    BY <2>1, <1>1, BackIndex
  <2> QED BY <2>1, <2>2 DEF Agree
<1>5. b <= k => Found(c, i) = Found(m, i)
  <2> HIDE DEF b, i
  <2> QED BY <1>2, <1>4 DEF Found, b
<1> QED BY <1>2, <1>5 DEF Step

\* A walk sees only what lies between its start and write_idx: stores elsewhere do not
\* change it.
LEMMA WalkKept ==
  ASSUME NEW c \in Memory, NEW m \in Memory, NEW w \in UInt, NEW u \in 0 .. BLK_CNT,
         Agree(c, m, w, u)
  PROVE  WalkOver(c, w)[u] = WalkOver(m, w)[u]
<1> DEFINE f == WalkOver(c, w)
           g == WalkOver(m, w)
           T == {n \in 0 .. u : \A k \in 0 .. n : f[k] = g[k]}
<1>1. u \in Nat /\ \A k \in 0 .. u : k \in UInt
  BY RangeFacts DEF UInt
<1>2. \A k \in 0 .. u : f[k] = Turn(c, w, f, k) /\ g[k] = Turn(m, w, g, k)
  BY <1>1, WalkTurn
<1> HIDE DEF f, g
<1>3. 0 \in T
  <2>1. f[0] = <<>> /\ g[0] = <<>>
    BY <1>1, <1>2 DEF Turn
  <2> QED BY <2>1, <1>1
<1>4. ASSUME NEW n \in 0 .. u - 1, n \in T PROVE n + 1 \in T
  <2> DEFINE k == n + 1
             i == Sub(w, k)
             d == Step(m, i)
  <2>1. k \in 1 .. u /\ k \in 0 .. u /\ n \in Nat /\ k \in 0 .. BLK_CNT /\ k # 0
    BY <1>1, RangeFacts
  <2>2. i \in UInt
    BY <2>1, BackIndex
  <2>3. d \in Nat \ {0} /\ HeaderAt(m, i) \in 0 .. UInt16Mod - 1
    BY <2>2, StepOK
  <2>4. /\ HeaderAt(c, i) = HeaderAt(m, i) /\ Step(c, i) = d
        /\ BlkSz(HeaderAt(m, i)) <= k => Found(c, i) = Found(m, i)
    BY <2>1, FoundKept
  <2>5. f[k] = Turn(c, w, f, k) /\ g[k] = Turn(m, w, g, k)
    BY <2>1, <1>2
  <2>6. \A j \in 0 .. n : f[j] = g[j]
    BY <1>4
  <2>7. HeaderAt(m, i) # 0 => d = BlkSz(HeaderAt(m, i))
    BY DEF Step
  <2>8. k = n + 1
    OBVIOUS
  <2> HIDE DEF k, d
  <2>9. f[k] = g[k]
    <3>1. CASE k > BLK_CNT \/ d > k
      BY <3>1, <2>4, <2>5 DEF Turn, d
    <3>2. CASE ~ (k > BLK_CNT \/ d > k)
      <4>1. k - d \in 0 .. n
        BY <3>2, <2>1, <2>3, <2>8, RangeFacts
      <4>2. f[k - d] = g[k - d]
        BY <4>1, <2>6
      <4>3. f[k] = Preceded(c, i, f[k - d]) /\ g[k] = Preceded(m, i, g[k - d])
        BY <3>2, <2>1, <2>4, <2>5 DEF Turn, d
      <4>4. HeaderAt(m, i) # 0 => Found(c, i) = Found(m, i)
        BY <3>2, <2>1, <2>3, <2>4, <2>7
      <4> HIDE DEF i
      <4> QED BY <4>2, <4>3, <4>4, <2>4 DEF Preceded
    <3> QED BY <3>1, <3>2
  <2>10. \A j \in 0 .. n + 1 : f[j] = g[j]
    BY <2>1, <2>6, <2>8, <2>9
  <2> QED BY <2>1, <2>8, <2>10
<1>5. u \in T
  <2> HIDE DEF T
  <2>1. \A n \in 0 .. u : n \in T
    BY <1>1, <1>3, <1>4, UpTo
  <2> QED BY <2>1, <1>1
<1>6. u \in 0 .. u
  BY <1>1
<1> QED BY <1>5, <1>6 DEF f, g

\* From every distance in D the step over the header there leads to another one, and
\* never beyond w.
Hops(m, w, u, D) ==
  /\ D \subseteq 0 .. u
  /\ \A k \in D : k # 0 => Step(m, Sub(w, k)) <= k /\ k - Step(m, Sub(w, k)) \in D

\* The message a header starts, or nothing for a rewind marker.
Alone(m, i) == Preceded(m, i, <<>>)

\* The messages from a header on are its own and those behind it.
LEMMA Regroup ==
  ASSUME NEW m \in Memory, NEW i \in UInt, NEW y \in Seq(Items(m)), NEW x \in Seq(Items(m))
  PROVE  Preceded(m, i, y \o x) = Preceded(m, i, y) \o x
<1> DEFINE S == Items(m)
           e == <<Found(m, i)>>
<1>1. e \in Seq(S)
  BY StepOK
<1> HIDE DEF S, e
<1>2. e \o (y \o x) = (e \o y) \o x
  BY <1>1, ConcatAssociative DEF S
<1> QED BY <1>2 DEF Preceded, e

\* The index v is behind the segment of d blocks that starts at w.
Extends(m, w, u, D, d, v) ==
  Hops(m, w, u, D) /\ d = Step(m, w) /\ u + d <= BLK_CNT /\ v = Add(w, d)

\* The walk from p blocks before w, ended at v, finds what the one that ends at w does and x.
Gains(m, w, v, d, p, x) == WalkOver(m, v)[p + d] = WalkOver(m, w)[p] \o x

\* When write_idx moves over the segment behind it, the walk finds in addition what that
\* segment holds.
LEMMA WalkExtended ==
  ASSUME NEW m \in Memory, NEW w \in UInt, NEW u \in Nat, NEW D, NEW d \in Nat,
         NEW v \in UInt, Extends(m, w, u, D, d, v), NEW p \in D
  PROVE  Gains(m, w, v, d, p, Alone(m, w))
<1> Hops(m, w, u, D) /\ d = Step(m, w) /\ u + d <= BLK_CNT /\ v = Add(w, d)
  BY DEF Extends
<1> DEFINE f == WalkOver(m, v)
           g == WalkOver(m, w)
           x == Alone(m, w)
           S == Seq(Items(m))
           T == {n \in 0 .. u : \A k \in D : k <= n => f[k + d] = g[k] \o x}
<1>1. \A k \in 0 .. u : k \in UInt /\ k + d \in UInt /\ k \in Nat /\ k \in 0 .. BLK_CNT
  BY RangeFacts DEF UInt
<1>2. D \subseteq 0 .. u /\ 0 \in UInt /\ d # 0
  BY RangeFacts, StepOK DEF Hops, UInt
<1>3. \A k \in 0 .. u : /\ f[k + d] = Turn(m, v, f, k + d)
                        /\ g[k] = Turn(m, w, g, k) /\ g[k] \in S
  BY <1>1, WalkTurn
<1>4. f[0] = <<>>
  <2>1. f[0] = Turn(m, v, f, 0)
    BY <1>2, WalkTurn
  <2> QED BY <2>1 DEF Turn
<1>5. \A k \in 0 .. u : Sub(v, k + d) = Sub(w, k) /\ Sub(w, k) \in UInt
  BY RangeFacts DEF Sub, Add, UInt
<1>6. Sub(w, 0) = w
  BY RangeFacts DEF Sub, UInt
<1>7. x \in S
  <2>1. Found(m, w) \in Items(m)
    BY StepOK
  <2> QED BY <2>1 DEF Alone, Preceded
<1> HIDE DEF f, g, x, S
<1>8. 0 \in T
  <2>1. 0 \in 0 .. u /\ d <= BLK_CNT /\ 0 + d = d /\ d - d = 0
    BY RangeFacts
  <2>2. f[d] = Turn(m, v, f, d) /\ g[0] = Turn(m, w, g, 0) /\ Sub(v, d) = w
    BY <2>1, <1>3, <1>5, <1>6
  <2>3. g[0] = <<>>
    BY <2>2 DEF Turn
  <2>4. f[d] = Preceded(m, w, f[d - d])
    <3>1. d # 0 /\ ~ (d > BLK_CNT \/ d > d)
      BY <2>1, <1>2, RangeFacts
    <3> QED BY <3>1, <2>2 DEF Turn
  <2>5. f[d] = x
    BY <2>1, <2>4, <1>4 DEF x, Alone
  <2>6. x = <<>> \o x
    BY <1>7 DEF S
  <2>7. f[0 + d] = g[0] \o x
    BY <2>1, <2>3, <2>5, <2>6
  <2>8. \A k \in D : k <= 0 => k = 0
    BY <1>1, <1>2
  <2> QED BY <2>1, <2>7, <2>8
<1>9. ASSUME NEW n \in 0 .. u - 1, n \in T PROVE n + 1 \in T
  <2>1. n \in Nat /\ n + 1 \in 0 .. u
    OBVIOUS
  <2>2. ASSUME NEW k \in D, k = n + 1 PROVE f[k + d] = g[k] \o x
    <3> DEFINE i == Sub(w, k)
               s == Step(m, i)
               y == g[k - s]
    <3>1. k \in 0 .. u /\ k \in Nat /\ k # 0 /\ k \in UInt /\ k <= BLK_CNT
      BY <2>1, <2>2, <1>1
    <3>2. i \in UInt /\ Sub(v, k + d) = i
      BY <3>1, <1>5
    <3>3. s \in Nat \ {0}
      BY <3>2, StepOK
    <3>4. s <= k /\ k - s \in D
      BY <3>1 DEF Hops
    <3>5. f[k + d] = Turn(m, v, f, k + d) /\ g[k] = Turn(m, w, g, k)
      BY <3>1, <1>3
    <3> HIDE DEF i, s
    <3>6. k - s <= n /\ k - s \in 0 .. u /\ (k + d) - s = (k - s) + d
      BY <3>1, <3>3, <3>4, <2>2
    <3>7. y \in S /\ f[(k - s) + d] = y \o x
      BY <3>4, <3>6, <1>3, <1>9
    <3>8. g[k] = Preceded(m, i, y)
      <4>1. ~ (k > BLK_CNT \/ Step(m, Sub(w, k)) > k)
        BY <3>1, <3>3, <3>4, RangeFacts DEF s, i
      <4> QED BY <4>1, <3>1, <3>5 DEF Turn, i, s
    <3>9. f[k + d] = Preceded(m, i, f[(k + d) - s])
      <4>1. k + d # 0 /\ ~ (k + d > BLK_CNT \/ s > k + d)
        BY <3>1, <3>3, <3>4, RangeFacts
      <4> QED BY <4>1, <3>2, <3>5 DEF Turn, s
    <3> HIDE DEF y
    <3>10. f[k + d] = Preceded(m, i, y \o x)
      BY <3>6, <3>7, <3>9
    <3>11. Preceded(m, i, y \o x) = Preceded(m, i, y) \o x
      BY <3>2, <3>7, <1>7, Regroup DEF S
    <3> QED BY <3>8, <3>10, <3>11
  <2>3. ASSUME NEW k \in D, k <= n + 1 PROVE f[k + d] = g[k] \o x
    <3>1. k \in Nat
      BY <1>1, <1>2
    <3>2. CASE k = n + 1
      BY <3>2, <2>2
    <3>3. CASE k # n + 1
      <4>1. k <= n
        BY <3>1, <3>3, <2>1, <2>3
      <4> QED BY <4>1, <1>9
    <3> QED BY <3>2, <3>3
  <2> QED BY <2>1, <2>3
<1>10. u \in T
  <2> HIDE DEF T
  <2>1. \A n \in 0 .. u : n \in T
    BY <1>8, <1>9, UpTo
  <2> QED BY <2>1
<1>11. p <= u
  BY <1>2
<1>12. f[p + d] = g[p] \o x
  BY <1>10, <1>11
<1> QED BY <1>12 DEF f, g, x, Gains

-----------------------------------------------------------------------------
(* The messages in the ring.                                               *)

\* The memory has its type, and the model's names for its parts agree.
LEMMA MemoryOK ==
  ASSUME TypeOK
  PROVE  blk \in Memory /\ \A i : SegLen(i) = Step(blk, i)
BY DEF TypeOK, Memory, SegLen, Step, HeaderAt

\* What the ring holds.
LEMMA ContentsIs == Contents = WalkOver(blk, write_idx)[Used]
BY WalkIs DEF Contents

\* What it holds after a step.
LEMMA ContentsNext == Contents' = WalkOver(blk', write_idx')[Used']
BY WalkNext DEF Contents

\* The indices are a ring apart at most.
LEMMA UsedOK ==
  ASSUME TypeOK, NoOverrun
  PROVE  /\ write_idx \in UInt /\ read_idx \in UInt
         /\ Used \in Nat /\ Used <= BLK_CNT /\ Used \in 0 .. BLK_CNT
<1>1. write_idx \in UInt /\ read_idx \in UInt
  BY DEF TypeOK
<1>2. Used \in Nat /\ Granted \in Nat
  BY StateFacts
<1>3. Used + Granted <= BLK_CNT
  BY DEF NoOverrun
<1> QED BY <1>1, <1>2, <1>3, RangeFacts

\* The cut of the ring, as distances from write_idx.
LEMMA HopsOf ==
  ASSUME IInv
  PROVE  \E D : Hops(blk, write_idx, Used, D) /\ Used \in D
<1>1. TypeOK /\ NoOverrun /\ Segmented
  BY DEF IInv
<1>2. PICK H \in SUBSET UInt : Boundaries(H) /\ ReaderOn(H)
  BY <1>1 DEF Segmented
<1>3. write_idx \in UInt /\ read_idx \in UInt /\ Used \in Nat /\ Used <= BLK_CNT
  BY <1>1, UsedOK
<1> DEFINE D == {Sub(write_idx, h) : h \in H}
<1>4. ASSUME NEW h \in H
      PROVE  /\ h \in UInt /\ Sub(write_idx, h) \in 0 .. Used
             /\ Sub(write_idx, Sub(write_idx, h)) = h
             /\ Sub(write_idx, h) = Used - Sub(h, read_idx)
             /\ (h = write_idx <=> Sub(write_idx, h) = 0)
  <2>1. h \in UInt /\ Sub(h, read_idx) <= Used
    BY <1>2 DEF Boundaries
  <2> QED BY <2>1, <1>3, RangeFacts DEF Used, Sub, UInt
<1>5. ASSUME NEW h \in H, h # write_idx
      PROVE  /\ Step(blk, h) <= Sub(write_idx, h)
             /\ Sub(write_idx, h) - Step(blk, h) \in D
  <2> DEFINE s == SegLen(h)
             e == Add(h, s)
             k == Sub(write_idx, h)
  <2>1. s = Step(blk, h) /\ s \in Nat \ {0} /\ h \in UInt /\ k \in 0 .. Used /\ k # 0
        /\ k = Used - Sub(h, read_idx)
    BY <1>1, <1>4, <1>5, MemoryOK, SegLenOK
  <2>2. e \in H
    BY <1>2, <1>5 DEF Boundaries
  <2>3. \/ Sub(write_idx, read_idx) <= Sub(h, read_idx)
        \/ Sub(write_idx, read_idx) >= Sub(h, read_idx) + s
    BY <1>2, <1>5 DEF Boundaries
  <2>4. Sub(h, read_idx) \in Nat
    BY <2>1, <1>3, SubOK
  <2> HIDE DEF s, k
  <2>5. s <= k
    BY <2>1, <2>3, <2>4, <1>3 DEF Used
  <2>6. Sub(write_idx, e) = k - s
    BY <2>1, <2>5, <1>3, RangeFacts DEF k, Sub, Add, UInt
  <2>7. k - s \in D
    BY <2>2, <2>6
  <2> QED BY <2>1, <2>5, <2>7 DEF k
<1>6. D \subseteq 0 .. Used
  BY <1>4
<1>7. ASSUME NEW k \in D, k # 0
      PROVE  Step(blk, Sub(write_idx, k)) <= k /\ k - Step(blk, Sub(write_idx, k)) \in D
  <2>1. PICK h \in H : k = Sub(write_idx, h)
    OBVIOUS
  <2>2. h # write_idx /\ Sub(write_idx, k) = h
    BY <2>1, <1>4, <1>7
  <2> HIDE DEF D
  <2> QED BY <2>1, <2>2, <1>5
<1>8. Used \in D
  <2>1. read_idx \in H
    BY <1>2 DEF Boundaries
  <2> QED BY <2>1 DEF Used
<1> HIDE DEF D
<1> QED BY <1>6, <1>7, <1>8 DEF Hops

\* A ring that is not empty holds what its first header starts, and the rest.
LEMMA Oldest ==
  ASSUME IInv, read_idx # write_idx
  PROVE  /\ SegLen(read_idx) \in 1 .. Used
         /\ Contents = Preceded(blk, read_idx, WalkOver(blk, write_idx)[Used - SegLen(read_idx)])
         /\ WalkOver(blk, write_idx)[Used - SegLen(read_idx)] \in Seq(Items(blk))
<1> DEFINE f == WalkOver(blk, write_idx)
           d == SegLen(read_idx)
           u == Used
<1>1. TypeOK /\ NoOverrun
  BY DEF IInv
<1>2. write_idx \in UInt /\ read_idx \in UInt /\ u \in Nat /\ u <= BLK_CNT
  BY <1>1, UsedOK
<1>3. blk \in Memory /\ d = Step(blk, read_idx) /\ d \in Nat \ {0}
  BY <1>1, <1>2, MemoryOK, SegLenOK
<1>4. Sub(write_idx, u) = read_idx /\ u # 0
  BY <1>2, RangeFacts DEF Used, Sub, UInt
<1>5. d <= u
  BY <1>3, <1>4, HopsOf DEF Hops
<1> HIDE DEF u, d
<1>6. u \in UInt /\ u - d \in UInt
  BY <1>2, <1>3, <1>5, RangeFacts DEF UInt
<1>7. f[u] = Turn(blk, write_idx, f, u) /\ f[u - d] \in Seq(Items(blk))
  BY <1>2, <1>3, <1>6, WalkTurn
<1>8. ~ (u > BLK_CNT \/ d > u)
  BY <1>2, <1>3, <1>5, RangeFacts
<1>9. f[u] = Preceded(blk, read_idx, f[u - d])
  BY <1>3, <1>4, <1>7, <1>8 DEF Turn
<1>10. Contents = f[u]
  BY ContentsIs DEF u
<1> QED BY <1>2, <1>3, <1>5, <1>7, <1>9, <1>10 DEF u, d

\* The blocks from read_idx to write_idx are those that no step overwrites.
LEMMA AgreeAfter ==
  ASSUME IInv, [Next]_vars
  PROVE  Agree(blk', blk, write_idx, Used)
<1>1. TypeOK /\ NoOverrun
  BY DEF IInv
<1>2. write_idx \in UInt /\ read_idx \in UInt /\ Used \in Nat /\ Used <= BLK_CNT
  BY <1>1, UsedOK
<1>3. ASSUME NEW d \in 1 .. Used PROVE Slot(Sub(write_idx, d)) \in LiveSlots
  <2>1. Used - d \in 0 .. Used - 1
    BY <1>2
  <2>2. Sub(write_idx, d) = Add(read_idx, Used - d)
    BY <2>1, <1>2, RangeFacts DEF Used, Sub, Add, UInt
  <2> QED BY <2>1, <2>2 DEF LiveSlots
<1> QED BY <1>3, NextClobbersNothing DEF Agree

\* A step that moves no index leaves the messages in the ring alone, and the one a reader
\* stands on.
LEMMA ContentsKept ==
  ASSUME IInv, IInv', [Next]_vars, write_idx' = write_idx, read_idx' = read_idx
  PROVE  /\ Contents' = Contents
         /\ read_idx # write_idx /\ HeaderAt(blk, read_idx) # 0 =>
              Found(blk', read_idx) = Found(blk, read_idx)
<1>1. TypeOK /\ NoOverrun /\ TypeOK'
  BY DEF IInv
<1>2. write_idx \in UInt /\ read_idx \in UInt /\ Used \in 0 .. BLK_CNT
  BY <1>1, UsedOK
<1>3. blk \in Memory /\ blk' \in Memory
  BY <1>1 DEF TypeOK, Memory
<1>4. Agree(blk', blk, write_idx, Used)
  BY AgreeAfter
<1>5. Used' = Used
  BY DEF Used
<1>6. Contents' = Contents
  <2> DEFINE c == blk'
             u == Used
             w == write_idx
  <2>1. c \in Memory /\ blk \in Memory /\ w \in UInt /\ u \in 0 .. BLK_CNT /\ Agree(c, blk, w, u)
    BY <1>2, <1>3, <1>4
  <2>2. Contents' = WalkOver(c, w)[u] /\ Contents = WalkOver(blk, w)[u]
    BY <1>5, ContentsIs, ContentsNext
  <2> HIDE DEF c, u, w
  <2>3. WalkOver(c, w)[u] = WalkOver(blk, w)[u]
    BY <2>1, WalkKept
  <2> QED BY <2>2, <2>3
<1>7. ASSUME read_idx # write_idx, HeaderAt(blk, read_idx) # 0
      PROVE  Found(blk', read_idx) = Found(blk, read_idx)
  <2> DEFINE c == blk'
             u == Used
             w == write_idx
  <2>1. c \in Memory /\ blk \in Memory /\ w \in UInt /\ u \in 0 .. BLK_CNT /\ Agree(c, blk, w, u)
    BY <1>2, <1>3, <1>4
  <2>2. SegLen(read_idx) \in 1 .. u /\ SegLen(read_idx) = BlkSz(HeaderAt(blk, read_idx))
    BY <1>7, Oldest DEF SegLen, HeaderAt
  <2>3. Sub(w, u) = read_idx /\ u # 0
    BY <1>2, <1>7, RangeFacts DEF Used, Sub, UInt
  <2> HIDE DEF c, u, w
  <2>4. u \in 1 .. u /\ BlkSz(HeaderAt(blk, Sub(w, u))) <= u
    BY <2>1, <2>2, <2>3, RangeFacts
  <2>5. Found(c, Sub(w, u)) = Found(blk, Sub(w, u))
    BY <2>1, <2>4, FoundKept
  <2> QED BY <2>3, <2>5 DEF c
<1> QED BY <1>6, <1>7

-----------------------------------------------------------------------------
(* The ring implements the abstract queue.                                 *)

\* The reader's user holds the message at read_idx, or nothing.
Shows == IF rpc = "read" THEN shown = Found(blk, read_idx) ELSE shown = NoMsg

\* Before Push() the writer's blocks carry one payload.
Written ==
  wpc = "filled" =>
    \E v \in Values : \A j \in 1 .. BlkSz(wsize) : blk[Slot(Add(write_idx, j - 1))].data = v

\* What a step is to the abstract queue.
FifoStep == [Fifo!Next]_Fifo!fifoVars

\* A step that leaves queue and reader alone is none of the abstract queue.
LEMMA Stutters ==
  ASSUME Contents' = Contents, shown' = shown
  PROVE  FifoStep
BY DEF FifoStep, Fifo!fifoVars

\* The message in the user's hands stays while its blocks do.
LEMMA ShowsKept ==
  ASSUME IInv, WeakRewind = FALSE, Shows, rpc' = rpc, shown' = shown, read_idx' = read_idx,
         read_idx # write_idx /\ HeaderAt(blk, read_idx) # 0 =>
           Found(blk', read_idx) = Found(blk, read_idx)
  PROVE  Shows'
<1>1. rpc = "read" => read_idx # write_idx /\ HeaderAt(blk, read_idx) # 0
  BY ReaderStands DEF HeaderAt
<1> QED BY <1>1 DEF Shows

\* The writer's stores before Push(), and its crash.
LEMMA StoreFifo ==
  ASSUME IInv, IInv', WeakRewind = FALSE, Shows, [Next]_vars,
         write_idx' = write_idx, read_idx' = read_idx, rpc' = rpc, shown' = shown
  PROVE  FifoStep /\ Shows'
<1>1. /\ Contents' = Contents
      /\ read_idx # write_idx /\ HeaderAt(blk, read_idx) # 0 =>
           Found(blk', read_idx) = Found(blk, read_idx)
  BY ContentsKept
<1> QED BY <1>1, Stutters, ShowsKept

\* The payload the user writes.
LEMMA FillWrites ==
  ASSUME IInv, NEW v \in Values, Fill(v)
  PROVE  Written'
<1>1. TypeOK /\ WriterInv
  BY DEF IInv
<1>2. Slot(write_idx) \in 0 .. BLK_CNT - 1 /\ BlkSz(wsize) \in Nat /\ write_idx \in UInt
  BY <1>1, StateFacts DEF TypeOK
<1> DEFINE first == Slot(write_idx)
           b == BlkSz(wsize)
<1>3. /\ wpc = "alloced" /\ wsize' = wsize /\ write_idx' = write_idx
      /\ blk' = [x \in 0 .. BLK_CNT - 1 |->
                   IF x \notin first .. first + b - 1 THEN blk[x]
                   ELSE [size |-> IF x = first THEN blk[x].size ELSE v, data |-> v]]
  BY DEF Fill
<1>4. first + b <= BLK_CNT
  BY <1>1, <1>3 DEF WriterInv
<1>5. ASSUME NEW j \in 1 .. b PROVE blk'[Slot(Add(write_idx, j - 1))].data = v
  <2> DEFINE d == j - 1
  <2>1. d \in Nat /\ first + d < BLK_CNT /\ first + d <= BLK_CNT
        /\ first + d \in first .. first + b - 1 /\ first + d \in 0 .. BLK_CNT - 1
    BY <1>2, <1>4, RangeFacts
  <2> HIDE DEF d
  <2>2. Slot(Add(write_idx, d)) = first + d
    BY <2>1, <1>2, SlotNext
  <2>3. blk'[first + d].data = v
    BY <2>1, <1>3
  <2> QED BY <2>2, <2>3 DEF d
<1>6. \A j \in 1 .. BlkSz(wsize') : blk'[Slot(Add(write_idx', j - 1))].data = v
  BY <1>3, <1>5
<1> QED BY <1>6 DEF Written

\* When write_idx moves over the segment behind it, the ring holds in addition what that
\* segment does.
LEMMA ContentsExtended ==
  ASSUME IInv, IInv', blk' = blk, read_idx' = read_idx,
         write_idx' = Add(write_idx, SegLen(write_idx)),
         Used' = Used + SegLen(write_idx)
  PROVE  Contents' = Contents \o Alone(blk, write_idx) /\ Contents \in Seq(Items(blk))
<1> DEFINE w == write_idx
           v == write_idx'
           u == Used
           d == SegLen(write_idx)
<1>1. TypeOK /\ NoOverrun /\ TypeOK' /\ NoOverrun'
  BY DEF IInv
<1>2. w \in UInt /\ u \in Nat /\ blk \in Memory /\ d = Step(blk, w) /\ d \in Nat /\ u \in 0 .. BLK_CNT
  BY <1>1, UsedOK, MemoryOK, SegLenOK
<1>3. v \in UInt /\ v = Add(w, d)
  BY <1>1 DEF TypeOK
<1>4. u + d <= BLK_CNT
  <2>1. Used' + Granted' <= BLK_CNT
    BY <1>1 DEF NoOverrun
  <2>2. Granted' \in Nat
    <3>1. Granted' = 0 \/ Granted' = Padding' + BlkSz(wsize)' \/ Granted' = BlkSz(wsize)'
      BY DEF Granted
    <3>2. wsize' \in AllocSizes \cup {0}
      BY <1>1 DEF TypeOK
    <3>3. wsize' \in 0 .. UInt16Mod - 1
      BY <3>2, AllocSizeOK, UInt16ModIs
    <3>4. BlkSz(wsize') \in Nat
      BY <3>3, BlkSzOK
    <3>5. v \in Nat
      BY <1>3, RangeFacts DEF UInt
    <3>6. Slot(v) \in 0 .. BLK_CNT - 1
      BY <3>5, SlotDiv
    <3>7. Padding' \in Nat
      BY <3>6, RangeFacts DEF Padding
    <3> QED BY <3>1, <3>4, <3>7
  <2> QED BY <2>1, <2>2, <1>2, RangeFacts
<1>5. Contents = WalkOver(blk, w)[u] /\ Contents' = WalkOver(blk, v)[u + d]
  BY ContentsIs, ContentsNext
<1>6. PICK D : Hops(blk, w, u, D) /\ u \in D
  BY HopsOf
<1>7. u \in UInt
  BY <1>2, RangeFacts DEF UInt
<1> HIDE DEF w, v, u, d
<1>8. WalkOver(blk, v)[u + d] = WalkOver(blk, w)[u] \o Alone(blk, w)
  <2>1. blk \in Memory /\ w \in UInt /\ v \in UInt /\ u \in Nat /\ d \in Nat
    BY <1>2, <1>3
  <2>2. Extends(blk, w, u, D, d, v)
    BY <1>2, <1>3, <1>4, <1>6 DEF Extends
  <2>3. Gains(blk, w, v, d, u, Alone(blk, w))
    BY <2>1, <2>2, <1>6, WalkExtended
  <2> QED BY <2>3 DEF Gains
<1>9. WalkOver(blk, w)[u] \in Seq(Items(blk))
  BY <1>2, <1>7, WalkTurn
<1> QED BY <1>5, <1>8, <1>9 DEF w

\* The rewind marker is no message.
LEMMA BumpFifo ==
  ASSUME IInv, IInv', WeakRewind = FALSE, Shows, AllocBump
  PROVE  FifoStep /\ Shows' /\ Written'
<1>1. TypeOK /\ NoOverrun /\ WriterInv /\ Segmented
  BY DEF IInv
<1>2. /\ wpc = "bump" /\ wpc' = "header" /\ write_idx' = Add(write_idx, Padding)
      /\ blk' = blk /\ read_idx' = read_idx /\ rpc' = rpc /\ rw' = rw /\ shown' = shown
  BY DEF AllocBump, readerVars
<1>3. blk[Slot(write_idx)].size = 0 /\ Slot(write_idx) # 0 /\ SegLen(write_idx) = Padding
  BY <1>1, <1>2 DEF WriterInv, SegLen, Padding
<1>4. Used + Padding <= BLK_CNT
  <2>1. BlkSz(wsize) \in Nat /\ Used \in Nat /\ Padding \in 1 .. BLK_CNT
    BY <1>1, StateFacts
  <2>2. Used + (Padding + BlkSz(wsize)) <= BLK_CNT
    BY <1>1, <1>2 DEF NoOverrun, Granted
  <2> QED BY <2>1, <2>2, RangeFacts
<1>5. Used' = Used + SegLen(write_idx)
  BY <1>1, <1>2, <1>3, <1>4, SegmentedExtended
<1>6. Contents' = Contents \o Alone(blk, write_idx) /\ Contents \in Seq(Items(blk))
  BY <1>2, <1>3, <1>5, ContentsExtended
<1>7. Alone(blk, write_idx) = <<>>
  BY <1>3 DEF Alone, Preceded, HeaderAt
<1>8. Contents' = Contents
  BY <1>6, <1>7
<1>9. Shows' /\ Written'
  BY <1>2, ShowsKept DEF Written
<1> QED BY <1>2, <1>8, <1>9, Stutters

\* Push() appends the message.
LEMMA PushFifo ==
  ASSUME IInv, IInv', WeakRewind = FALSE, Shows, Written, Push
  PROVE  FifoStep /\ Shows' /\ Written'
<1>1. TypeOK /\ NoOverrun /\ WriterInv /\ Segmented
  BY DEF IInv
<1>2. /\ wpc = "filled" /\ wpc' = "idle"
      /\ write_idx' = Add(write_idx, BlkSz(blk[Slot(write_idx)].size))
      /\ blk' = blk /\ read_idx' = read_idx /\ rw' = rw /\ shown' = shown
      /\ rpc' = IF rpc = "asleep" THEN "wait" ELSE rpc
  BY DEF Push
<1>3. wsize \in AllocSizes /\ blk[Slot(write_idx)].size = wsize
  BY <1>1, <1>2 DEF WriterInv
<1>4. wsize # 0 /\ SegLen(write_idx) = BlkSz(wsize)
  BY <1>3, AllocSizeOK, UInt16ModIs DEF SegLen
<1>5. Used + BlkSz(wsize) <= BLK_CNT
  BY <1>1, <1>2 DEF NoOverrun, Granted
<1>6. Used' = Used + SegLen(write_idx)
  BY <1>1, <1>2, <1>3, <1>4, <1>5, SegmentedExtended
<1>7. Contents' = Contents \o Alone(blk, write_idx) /\ Contents \in Seq(Items(blk))
  BY <1>2, <1>3, <1>4, <1>6, ContentsExtended
<1> DEFINE e == Found(blk, write_idx)
<1>8. Alone(blk, write_idx) = <<e>> \o <<>>
  BY <1>3, <1>4 DEF Alone, Preceded, HeaderAt
<1>9. e \in Items(blk)
  BY <1>1, MemoryOK, StepOK DEF TypeOK
<1>10. e \in Messages
  <2>1. PICK v \in Values : \A j \in 1 .. BlkSz(wsize) : blk[Slot(Add(write_idx, j - 1))].data = v
    BY <1>2 DEF Written
  <2>2. e = [size |-> wsize, data |-> [j \in 1 .. BlkSz(wsize) |-> blk[Slot(Add(write_idx, j - 1))].data]]
    BY <1>3 DEF Found, HeaderAt
  <2>3. e = [size |-> wsize, data |-> [j \in 1 .. BlkSz(wsize) |-> v]]
    BY <2>1, <2>2
  <2> DEFINE M(size, x) == [size |-> size, data |-> [j \in 1 .. BlkSz(size) |-> x]]
  <2>4. Messages = {M(size, x) : size \in AllocSizes, x \in Values}
    BY DEF Messages
  <2>5. e = M(wsize, v)
    BY <2>3
  <2> HIDE DEF M
  <2> QED BY <2>4, <2>5, <1>3
<1> HIDE DEF e
<1>11. Contents' = Append(Contents, e)
  <2> DEFINE q == Contents
             S == Items(blk)
  <2>1. q \in Seq(S) /\ e \in S
    BY <1>7, <1>9
  <2>2. Contents' = q \o (<<e>> \o <<>>)
    BY <1>7, <1>8
  <2> HIDE DEF q, S
  <2>3. q \o (<<e>> \o <<>>) = Append(q, e)
    BY <2>1
  <2> QED BY <2>2, <2>3 DEF q
<1>12. FifoStep
  BY <1>2, <1>10, <1>11 DEF FifoStep, Fifo!Next, Fifo!Push
<1>13. Shows' /\ Written'
  BY <1>2 DEF Written, Shows
<1> QED BY <1>12, <1>13

\* Nothing of the writer changes.
LEMMA WrittenKept ==
  ASSUME Written, UNCHANGED <<blk, write_idx, wpc, wsize>>
  PROVE  Written'
BY DEF Written

\* The reader stands on the oldest message.
LEMMA Foremost ==
  ASSUME IInv, WeakRewind = FALSE, rpc \in {"front", "read"}
  PROVE  /\ Contents # <<>> /\ Head(Contents) = Found(blk, read_idx)
         /\ Tail(Contents) = WalkOver(blk, write_idx)[Used - SegLen(read_idx)]
         /\ Found(blk, read_idx) # NoMsg
<1> DEFINE e == Found(blk, read_idx)
           rest == WalkOver(blk, write_idx)[Used - SegLen(read_idx)]
           S == Items(blk)
<1>1. TypeOK
  BY DEF IInv
<1>2. read_idx # write_idx /\ HeaderAt(blk, read_idx) # 0
  BY ReaderStands DEF HeaderAt
<1>3. Contents = Preceded(blk, read_idx, rest) /\ rest \in Seq(S)
  BY <1>2, Oldest
<1>4. e \in S
  BY <1>1, MemoryOK, StepOK DEF TypeOK
<1>5. e.size # NoMsg.size
  BY <1>2 DEF Found, NoMsg
<1>6. Contents = <<e>> \o rest
  BY <1>2, <1>3 DEF Preceded
<1> HIDE DEF e, rest, S
<1>7. <<e>> \o rest # <<>> /\ Head(<<e>> \o rest) = e /\ Tail(<<e>> \o rest) = rest
  BY <1>3, <1>4
<1> QED BY <1>5, <1>6, <1>7 DEF e, rest

\* What is left when read_idx moves over the segment before it.
LEMMA ContentsShrunk ==
  ASSUME IInv, read_idx # write_idx, read_idx' = Add(read_idx, SegLen(read_idx)),
         blk' = blk, write_idx' = write_idx
  PROVE  Contents' = WalkOver(blk, write_idx)[Used - SegLen(read_idx)]
<1>1. TypeOK /\ NoOverrun
  BY DEF IInv
<1>2. SegLen(read_idx) \in 1 .. Used
  BY Oldest
<1>3. write_idx \in UInt /\ read_idx \in UInt /\ Used \in Nat /\ Used <= BLK_CNT
  BY <1>1, UsedOK
<1> DEFINE d == SegLen(read_idx)
<1>4. read_idx' = Add(read_idx, d) /\ d \in 1 .. Used
  BY <1>2
<1> HIDE DEF d
<1>5. Used' = Used - d
  BY <1>3, <1>4, RangeFacts DEF Used, Sub, Add, UInt
<1> QED BY <1>5, ContentsNext DEF d

\* Steps of the reader before it has a message.
LEMMA LookFifo ==
  ASSUME Shows, Front \/ FrontSize \/ WaitForData \/ WaitCheck
  PROVE  FifoStep /\ Shows'
<1>1. /\ blk' = blk /\ write_idx' = write_idx /\ read_idx' = read_idx
      /\ rpc # "read" /\ rpc' # "read" /\ shown' = shown
  BY DEF Front, FrontSize, WaitForData, WaitCheck, shared
<1>2. Contents' = Contents
  BY <1>1 DEF Contents, Walk, Used, MsgAt
<1>3. Shows'
  BY <1>1 DEF Shows
<1> QED BY <1>1, <1>2, <1>3, Stutters

\* The rewind skips a marker, which is no message.
LEMMA RewindFifo ==
  ASSUME IInv, WeakRewind = FALSE, Shows, FrontRewind
  PROVE  FifoStep /\ Shows'
<1>1. /\ rpc = "rewind" /\ rpc' # "read" /\ shown' = shown /\ blk' = blk /\ write_idx' = write_idx
      /\ read_idx' = Add(read_idx, BLK_CNT - Slot(read_idx))
  BY DEF FrontRewind
<1>2. read_idx # write_idx /\ HeaderAt(blk, read_idx) = 0
  BY <1>1, ReaderStands DEF HeaderAt
<1>3. SegLen(read_idx) = BLK_CNT - Slot(read_idx)
  BY <1>2 DEF SegLen, HeaderAt
<1>4. Contents' = WalkOver(blk, write_idx)[Used - SegLen(read_idx)]
  BY <1>1, <1>2, <1>3, ContentsShrunk
<1>5. Contents = WalkOver(blk, write_idx)[Used - SegLen(read_idx)]
  BY <1>2, Oldest DEF Preceded
<1>6. Shows'
  BY <1>1 DEF Shows
<1> QED BY <1>1, <1>4, <1>5, <1>6, Stutters

\* The callback is shown the oldest message.
LEMMA ReadFifo ==
  ASSUME IInv, WeakRewind = FALSE, Shows, ReadMsg
  PROVE  FifoStep /\ Shows'
<1>1. /\ rpc = "front" /\ rpc' = "read" /\ blk' = blk /\ write_idx' = write_idx /\ read_idx' = read_idx
      /\ \E size \in SizesAt(Slot(read_idx)) : shown' = MsgAt(read_idx, size)
  BY DEF ReadMsg, shared
<1>2. SizesAt(Slot(read_idx)) = {HeaderAt(blk, read_idx)}
  BY ReaderStands DEF HeaderAt
<1>3. shown' = Found(blk, read_idx)
  BY <1>1, <1>2 DEF MsgAt, Found
<1>4. Contents # <<>> /\ Head(Contents) = Found(blk, read_idx)
  BY <1>1, Foremost
<1>5. Contents' = Contents
  BY <1>1 DEF Contents, Walk, Used, MsgAt
<1>6. shown = NoMsg
  BY <1>1 DEF Shows
<1>7. FifoStep
  BY <1>3, <1>4, <1>5, <1>6 DEF FifoStep, Fifo!Next, Fifo!Front
<1>8. Shows'
  BY <1>1, <1>3 DEF Shows
<1> QED BY <1>7, <1>8

\* Pop() removes the message that was shown.
LEMMA PopFifo ==
  ASSUME IInv, WeakRewind = FALSE, Shows, Pop
  PROVE  FifoStep /\ Shows'
<1>1. /\ rpc = "read" /\ rpc' = "idle" /\ shown' = NoMsg /\ blk' = blk /\ write_idx' = write_idx
      /\ \E size \in SizesAt(Slot(read_idx)) : read_idx' = Add(read_idx, BlkSz(size))
  BY DEF Pop
<1>2. /\ SizesAt(Slot(read_idx)) = {HeaderAt(blk, read_idx)}
      /\ read_idx # write_idx /\ HeaderAt(blk, read_idx) # 0
  BY <1>1, ReaderStands DEF HeaderAt
<1>3. read_idx' = Add(read_idx, SegLen(read_idx))
  BY <1>1, <1>2 DEF SegLen, HeaderAt
<1>4. Contents' = WalkOver(blk, write_idx)[Used - SegLen(read_idx)]
  BY <1>1, <1>2, <1>3, ContentsShrunk
<1>5. /\ Contents # <<>> /\ Head(Contents) = Found(blk, read_idx)
      /\ Tail(Contents) = WalkOver(blk, write_idx)[Used - SegLen(read_idx)]
  BY <1>1, Foremost
<1>6. shown = Head(Contents) /\ Contents' = Tail(Contents)
  BY <1>1, <1>4, <1>5 DEF Shows
<1>7. FifoStep
  BY <1>1, <1>5, <1>6 DEF FifoStep, Fifo!Next, Fifo!Pop
<1>8. Shows'
  BY <1>1 DEF Shows
<1> QED BY <1>7, <1>8

\* A callback that does not pop, or a reader that dies, leaves the message there.
LEMMA LeaveFifo ==
  ASSUME IInv, WeakRewind = FALSE, Shows, Leave \/ ReaderCrash
  PROVE  FifoStep /\ Shows'
<1>1. /\ blk' = blk /\ write_idx' = write_idx /\ read_idx' = read_idx
      /\ rpc' = "idle" /\ shown' = NoMsg
  BY DEF Leave, ReaderCrash, shared
<1>2. Contents' = Contents
  BY <1>1 DEF Contents, Walk, Used, MsgAt
<1>3. Shows'
  BY <1>1 DEF Shows
<1>4. CASE rpc = "read"
  <2>1. shown # NoMsg
    BY <1>4, Foremost DEF Shows
  <2>2. FifoStep
    BY <1>1, <1>2, <2>1 DEF FifoStep, Fifo!Next, Fifo!Leave
  <2> QED BY <2>2, <1>3
<1>5. CASE rpc # "read"
  <2>1. shown' = shown
    BY <1>1, <1>5 DEF Shows
  <2> QED BY <2>1, <1>2, <1>3, Stutters
<1> QED BY <1>4, <1>5

\* Every step is one of the abstract queue, or nothing to it.
LEMMA NextFifo ==
  ASSUME IInv, WeakRewind = FALSE, Shows, Written, [Next]_vars
  PROVE  FifoStep /\ Shows' /\ Written'
<1>1. IInv'
  BY NextIInv
<1>2. CASE (\E usize \in Sizes : Alloc(usize)) \/ AllocMarker \/ AllocHeader \/ WriterCrash
  <2>1. write_idx' = write_idx /\ read_idx' = read_idx /\ rpc' = rpc /\ shown' = shown
    BY <1>2 DEF Alloc, AllocMarker, AllocHeader, WriterCrash, shared, readerVars
  <2>2. wpc' # "filled"
    BY <1>2 DEF Alloc, AllocMarker, AllocHeader, WriterCrash
  <2> QED BY <2>1, <2>2, <1>1, StoreFifo DEF Written
<1>3. CASE \E v \in Values : Fill(v)
  <2>1. write_idx' = write_idx /\ read_idx' = read_idx /\ rpc' = rpc /\ shown' = shown
    BY <1>3 DEF Fill, readerVars
  <2> QED BY <2>1, <1>1, <1>3, StoreFifo, FillWrites
<1>4. CASE AllocBump
  BY <1>1, <1>4, BumpFifo
<1>5. CASE Push
  BY <1>1, <1>5, PushFifo
<1>6. CASE ReaderStep \/ Leave \/ WaitForData \/ WaitCheck \/ ReaderCrash
  <2>1. UNCHANGED <<blk, write_idx, wpc, wsize>>
    BY <1>6 DEF ReaderStep, Front, FrontSize, FrontRewind, ReadMsg, Pop, Leave, WaitForData,
       WaitCheck, ReaderCrash, shared, writerVars
  <2>2. Written'
    BY <2>1, WrittenKept
  <2>3. FifoStep /\ Shows'
    BY <1>6, LookFifo, RewindFifo, ReadFifo, PopFifo, LeaveFifo DEF ReaderStep
  <2> QED BY <2>2, <2>3
<1>7. CASE UNCHANGED vars
  <2>1. UNCHANGED <<blk, write_idx, read_idx, wpc, wsize, rpc, shown>>
    BY <1>7 DEF vars, shared, writerVars, readerVars
  <2>2. Written'
    BY <2>1, WrittenKept
  <2> QED BY <2>1, <2>2, <1>1, StoreFifo
<1> QED BY <1>2, <1>3, <1>4, <1>5, <1>6, <1>7 DEF Next, WriterStep

\* The abstract queue starts empty.
LEMMA InitFifo == Init => Fifo!Init /\ Shows /\ Written
<1> SUFFICES ASSUME Init PROVE Fifo!Init /\ Shows /\ Written
  OBVIOUS
<1>1. IInv
  BY InitIInv
<1>2. TypeOK
  BY <1>1 DEF IInv
<1>3. Used = 0 /\ 0 \in UInt
  BY RangeFacts DEF Init, Used, Sub, UInt
<1>4. blk \in Memory /\ write_idx \in UInt
  BY <1>2, MemoryOK DEF TypeOK
<1>5. WalkOver(blk, write_idx)[0] = Turn(blk, write_idx, WalkOver(blk, write_idx), 0)
  BY <1>3, <1>4, WalkTurn
<1>6. Contents = <<>>
  BY <1>3, <1>5, ContentsIs DEF Turn
<1> QED BY <1>6 DEF Init, Fifo!Init, Shows, Written

-----------------------------------------------------------------------------
(* The results, with the marker store visible no later than the rewound    *)
(* write_idx, as on hardware that keeps the order of stores (x86).         *)

\* Every reachable state satisfies the inductive invariant.
THEOREM InvariantHolds ==
  ASSUME WeakRewind = FALSE
  PROVE  Spec => []IInv
<1>1. Init => IInv
  BY InitIInv
<1>2. IInv /\ [Next]_vars => IInv'
  BY NextIInv
<1> QED BY <1>1, <1>2, PTL DEF Spec

\* The indices, headers and locals keep their types through wrap-around,
\* crashes and every interleaving of the two sides.
THEOREM TypeCorrect ==
  ASSUME WeakRewind = FALSE
  PROVE  Spec => []TypeOK
<1>1. IInv => TypeOK
  BY DEF IInv
<1> QED BY <1>1, InvariantHolds, PTL

\* Alloc() never grants more blocks than the reader has released, whatever the
\* age of read_idx_cach and across the wrap-around of the uint32_t indices.
THEOREM RingNeverOverrun ==
  ASSUME WeakRewind = FALSE
  PROVE  Spec => []NoOverrun
<1>1. IInv => NoOverrun
  BY DEF IInv
<1> QED BY <1>1, InvariantHolds, PTL

\* Walking from header to header the reader always lands on write_idx, never
\* beyond it and never in the middle of a message.
THEOREM RingSegmented ==
  ASSUME WeakRewind = FALSE
  PROVE  Spec => []Segmented
<1>1. IInv => Segmented
  BY DEF IInv
<1> QED BY <1>1, InvariantHolds, PTL

\* Published blocks are never overwritten before they are popped.
THEOREM PublishedBlocksKept ==
  ASSUME WeakRewind = FALSE
  PROVE  Spec => NoClobber
<1>1. IInv /\ [Next]_vars => [\A b \in LiveSlots : blk'[b] = blk[b]]_vars
  BY NextClobbersNothing
<1> QED BY <1>1, InvariantHolds, PTL DEF Spec, NoClobber

\* The ring implements the abstract queue: what Front() hands out is the oldest message
\* that was pushed and not popped, whole, and Pop() removes exactly that one, with the two
\* processes interleaved at every store and dying anywhere.
THEOREM RingImplementsFifo ==
  ASSUME WeakRewind = FALSE
  PROVE  Spec => ImplementsFifo
<1>1. Init => Fifo!Init /\ Shows /\ Written
  BY InitFifo
<1>2. IInv /\ Shows /\ Written /\ [Next]_vars => [Fifo!Next]_Fifo!fifoVars /\ Shows' /\ Written'
  BY NextFifo DEF FifoStep
<1>3. Spec => Fifo!Spec
  BY <1>1, <1>2, InvariantHolds, PTL DEF Spec, Fifo!Spec
<1> QED BY <1>3 DEF ImplementsFifo

\* The message in the user's hands between Front() and Pop() is the oldest one that is
\* published: the counterpart of the run in which the marker store is seen late.
THEOREM RingShowsOldest ==
  ASSUME WeakRewind = FALSE
  PROVE  Spec => []ShownIsOldest
<1>1. Init => Shows /\ Written
  BY InitFifo
<1>2. IInv /\ Shows /\ Written /\ [Next]_vars => Shows' /\ Written'
  BY NextFifo
<1>3. IInv /\ Shows => ShownIsOldest
  BY Foremost DEF Shows, ShownIsOldest
<1> QED BY <1>1, <1>2, <1>3, InvariantHolds, PTL DEF Spec

=============================================================================
