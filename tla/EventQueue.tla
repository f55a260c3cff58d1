------------------------------ MODULE EventQueue ------------------------------
(***************************************************************************)
(* What the telemetry ring promises, whatever its threads do: a bounded    *)
(* first-in first-out queue.  Events are taken in batches from its front;  *)
(* closing it throws away what is queued, and nothing enters it afterwards.*)
(***************************************************************************)
EXTENDS Integers, Sequences

CONSTANTS
  Items,      \* events that may be queued
  Capacity,   \* the queue never holds more
  MaxBatch    \* events taken at once

VARIABLES
  open,       \* the queue accepts events
  queue,      \* events queued, oldest first
  taken       \* events taken so far, in order

vars == <<open, queue, taken>>

Init == open = FALSE /\ queue = <<>> /\ taken = <<>>

Open ==
  /\ ~open
  /\ open' = TRUE
  /\ UNCHANGED <<queue, taken>>

Put(e) ==
  /\ open /\ Len(queue) < Capacity
  /\ queue' = Append(queue, e)
  /\ UNCHANGED <<open, taken>>

Take(n) ==
  /\ open /\ n <= Len(queue)
  /\ taken' = taken \o SubSeq(queue, 1, n)
  /\ queue' = SubSeq(queue, n + 1, Len(queue))
  /\ UNCHANGED open

Close ==
  /\ open
  /\ open' = FALSE
  /\ queue' = <<>>
  /\ UNCHANGED taken

Next ==
  \/ Open \/ Close
  \/ \E e \in Items : Put(e)
  \/ \E n \in 1..MaxBatch : Take(n)

Spec == Init /\ [][Next]_vars
===============================================================================
