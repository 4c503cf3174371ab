---------------------------- MODULE BoundedFifo ----------------------------
(***************************************************************************)
(* What one transport ring promises: a bounded first-in first-out channel  *)
(* whose entries are put by any number of producers and taken, each once   *)
(* and in the order of the puts, by one consumer.  The submission ring     *)
(* (SqRing) and the completion ring (CqDrain) implement it.                 *)
(***************************************************************************)
EXTENDS Naturals, Sequences

CONSTANTS Items,    \* the message bodies
          Capacity  \* cells of the ring

VARIABLES queue,    \* put and not yet taken, oldest first
          taken     \* everything the consumer has accepted, in order

vars == <<queue, taken>>

Init == queue = <<>> /\ taken = <<>>

Put(item) == /\ Len(queue) < Capacity
             /\ queue' = Append(queue, item)
             /\ UNCHANGED taken

Take == /\ queue # <<>>
        /\ taken' = Append(taken, Head(queue))
        /\ queue' = Tail(queue)

Next == Take \/ \E item \in Items : Put(item)

Spec == Init /\ [][Next]_vars
=============================================================================
