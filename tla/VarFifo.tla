------------------------------- MODULE VarFifo -------------------------------
(***************************************************************************)
(* What a message queue of tcpshm promises its user, whatever it is made   *)
(* of: messages come out whole, once and in the order in which they were   *)
(* pushed.  Front() shows the oldest message without removing it, so that  *)
(* a user who does not Pop() is shown the same message again.              *)
(***************************************************************************)
EXTENDS Sequences

CONSTANTS
  Msg,      \* the messages a user may push
  NoMsg     \* what the reader holds between Pop() and the next Front()

VARIABLES
  queue,    \* messages pushed and not yet popped, oldest first
  shown     \* the message Front() handed to the reader, or NoMsg

fifoVars == <<queue, shown>>

Init ==
  /\ queue = <<>>
  /\ shown = NoMsg

Push(m) ==
  /\ queue' = Append(queue, m)
  /\ UNCHANGED shown

Front ==
  /\ shown = NoMsg
  /\ queue # <<>>
  /\ shown' = Head(queue)
  /\ UNCHANGED queue

Pop ==
  /\ queue # <<>>
  /\ shown = Head(queue)
  /\ queue' = Tail(queue)
  /\ shown' = NoMsg

\* The reader returns from its callback without Pop(), or crashes.
Leave ==
  /\ shown # NoMsg
  /\ shown' = NoMsg
  /\ UNCHANGED queue

Next == (\E m \in Msg : Push(m)) \/ Front \/ Pop \/ Leave

Spec == Init /\ [][Next]_fifoVars

=============================================================================
