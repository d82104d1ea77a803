----------------------------- MODULE InputQueue -----------------------------
(***************************************************************************)
(* What programs expect of the input of the serial port: a queue of the    *)
(* characters typed, in order.  A character that finds the queue full is   *)
(* lost, and is not echoed.                                                *)
(***************************************************************************)
EXTENDS Naturals, Sequences

CONSTANTS Chars, Capacity, Lengths, Normal(_)
VARIABLES queue, echo, out   \* the queue, the last echo, the last read

Init == queue = <<>> /\ echo = <<>> /\ out = <<>>

Receive(c) ==
  /\ IF Len(queue) < Capacity
     THEN queue' = Append(queue, Normal(c)) /\ echo' = <<Normal(c)>>
     ELSE UNCHANGED <<queue, echo>>
  /\ UNCHANGED out

Read(len) ==
  LET n == IF len > Len(queue) THEN Len(queue) ELSE len
  IN /\ out' = SubSeq(queue, 1, n)
     /\ queue' = SubSeq(queue, n + 1, Len(queue))
     /\ UNCHANGED echo

Next == (\E c \in Chars : Receive(c)) \/ (\E len \in Lengths : Read(len))
Spec == Init /\ [][Next]_<<queue, echo, out>>
=============================================================================
