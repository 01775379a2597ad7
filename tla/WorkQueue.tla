------------------------------ MODULE WorkQueue ------------------------------
(***************************************************************************)
(* What the run queue promises to whoever enqueues a run, with no workers,  *)
(* leases or database in sight: an offer is delivered at most once.  A      *)
(* delivery may be missing (an offer can be withdrawn, or be absorbed by    *)
(* one that is already waiting) but it is never repeated.                   *)
(***************************************************************************)
EXTENDS Naturals

CONSTANT Job

VARIABLES
  waiting,     \* the jobs a worker may be handed
  offered,     \* how often each job was offered
  delivered    \* how often each job was handed to a worker

vars == <<waiting, offered, delivered>>

TypeOK ==
  /\ waiting \in SUBSET Job
  /\ offered \in [Job -> Nat]
  /\ delivered \in [Job -> Nat]

Init ==
  /\ waiting = {}
  /\ offered = [j \in Job |-> 0]
  /\ delivered = [j \in Job |-> 0]

\* A job is offered.  An offer made on stale information may leave the job out
\* of the waiting set although it was not there.
Offer(j) ==
  /\ offered' = [offered EXCEPT ![j] = @ + 1]
  /\ waiting' \in {waiting, waiting \cup {j}}
  /\ UNCHANGED delivered

Deliver(j) ==
  /\ j \in waiting
  /\ waiting' = waiting \ {j}
  /\ delivered' = [delivered EXCEPT ![j] = @ + 1]
  /\ UNCHANGED offered

Withdraw ==
  /\ waiting' \in SUBSET waiting
  /\ UNCHANGED <<offered, delivered>>

Next == (\E j \in Job : Offer(j) \/ Deliver(j)) \/ Withdraw

Spec == Init /\ [][Next]_vars

\* No job is delivered more often than it was offered, and one that waits has
\* an offer left.
AtMostOnce ==
  \A j \in Job : /\ delivered[j] <= offered[j]
                 /\ j \in waiting => delivered[j] < offered[j]
=============================================================================
