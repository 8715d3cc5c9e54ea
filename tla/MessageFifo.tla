---------------------------- MODULE MessageFifo ----------------------------
(***************************************************************************)
(* What one direction of the channel between the client and a sandbox      *)
(* promises: messages arrive in the order in which they were enqueued,     *)
(* each at most once, and, as long as neither process has died, each one   *)
(* arrives.  After a death some may be missing.                            *)
(*                                                                         *)
(* A message is the number of its enqueue call.                            *)
(***************************************************************************)
EXTENDS Integers, Sequences

VARIABLES
  enqueued,   \* how many messages have been enqueued
  delivered,  \* the messages that have arrived, in order
  broken      \* one of the two processes has died

vars == <<enqueued, delivered, broken>>

LastDelivered == IF delivered = <<>> THEN 0 ELSE delivered[Len(delivered)]

Enqueue ==
  /\ enqueued' = enqueued + 1
  /\ UNCHANGED <<delivered, broken>>

\* The next message arrives; a later one may only when a process has died.
Deliver(m) ==
  /\ m \in LastDelivered + 1 .. enqueued
  /\ ~broken => m = LastDelivered + 1
  /\ delivered' = Append(delivered, m)
  /\ UNCHANGED <<enqueued, broken>>

Break ==
  /\ broken' = TRUE
  /\ UNCHANGED <<enqueued, delivered>>

Init == enqueued = 0 /\ delivered = <<>> /\ broken = FALSE

Next == Enqueue \/ Break \/ \E m \in 1 .. enqueued : Deliver(m)

Spec == Init /\ [][Next]_vars

LiveSpec ==
  /\ Spec
  /\ WF_vars(~broken /\ \E m \in 1 .. enqueued : Deliver(m))

=============================================================================
