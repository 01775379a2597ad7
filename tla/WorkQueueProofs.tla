-------------------------- MODULE WorkQueueProofs --------------------------
(* What the abstract work queue promises, for every set of jobs.            *)
EXTENDS WorkQueue, TLAPS

\* A delivery consumes the offer its job was waiting for.
LEMMA StepPromise == TypeOK /\ AtMostOnce /\ [Next]_vars => TypeOK' /\ AtMostOnce'
<1> SUFFICES ASSUME TypeOK, AtMostOnce, [Next]_vars PROVE TypeOK' /\ AtMostOnce'
  OBVIOUS
<1> USE DEF TypeOK, AtMostOnce
<1>1. ASSUME NEW j \in Job, Offer(j) PROVE TypeOK' /\ AtMostOnce'
  <2>1. \A k \in Job : offered'[k] = IF k = j THEN offered[k] + 1 ELSE offered[k]
    BY <1>1 DEF Offer
  <2>2. TypeOK'
    BY <1>1, <2>1 DEF Offer
  <2>3. AtMostOnce'
    BY <1>1, <2>1 DEF Offer
  <2> QED
    BY <2>2, <2>3
<1>2. ASSUME NEW j \in Job, Deliver(j) PROVE TypeOK' /\ AtMostOnce'
  <2>1. \A k \in Job : delivered'[k] = IF k = j THEN delivered[k] + 1 ELSE delivered[k]
    BY <1>2 DEF Deliver
  <2>2. TypeOK'
    BY <1>2, <2>1 DEF Deliver
  <2>3. AtMostOnce'
    BY <1>2, <2>1 DEF Deliver
  <2> QED
    BY <2>2, <2>3
<1>3. CASE Withdraw
  BY <1>3 DEF Withdraw
<1>4. CASE UNCHANGED vars
  BY <1>4 DEF vars
<1> QED
  BY <1>1, <1>2, <1>3, <1>4 DEF Next

\* No job is delivered more often than it was offered.
THEOREM DeliveredAtMostOnce == Spec => []AtMostOnce
<1>1. Init => TypeOK /\ AtMostOnce
  BY DEF Init, TypeOK, AtMostOnce
<1> QED
  BY <1>1, StepPromise, PTL DEF Spec
=============================================================================
