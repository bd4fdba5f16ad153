---------------------------- MODULE InboxProofs ----------------------------
(***************************************************************************)
(* The properties of the webhook inbox for every number of concurrent      *)
(* deliveries, every set of bodies and every bound.  What handlers hold in *)
(* their hands is part of the inductive invariant: a handler at work       *)
(* brought the body that the row has, one that is about to finish has      *)
(* applied it, and one whose lease did not run out is the one that the row *)
(* names.                                                                  *)
(***************************************************************************)
EXTENDS ProviderInbox, TLAPS

\* A delivery gets past its receipt only when the row is there.
RowFirst ==
    /\ \A d \in Deliveries : handler[d] \notin {"free", "receive"} => inbox # "NONE"
    /\ inbox = "NONE" => applied = {}
    /\ inbox = "PROCESSING" => token \in Deliveries

\* What a handler at work holds.
HandsKnown ==
    \A d \in Deliveries :
        /\ handler[d] # "free" => brought[d] \in Bodies
        /\ AtWork(d) => brought[d] = body
        /\ handler[d] = "finish" => body \in applied
        /\ AtWork(d) /\ d \notin overdue => inbox = "PROCESSING" /\ token = d /\ ~expired

IInv ==
    /\ InboxTypeOK
    /\ RowFirst
    /\ HandsKnown
    /\ AppliedBeforeProcessed

LEMMA InitInv == InboxInit => IInv
<1> SUFFICES ASSUME InboxInit PROVE IInv
  OBVIOUS
<1>1. InboxTypeOK
  <2>1. expired \in BOOLEAN /\ applied \subseteq Bodies /\ overdue \subseteq Deliveries
    BY DEF InboxInit
  <2>2. handler \in [Deliveries -> HandlerStates]
    BY DEF InboxInit, HandlerStates
  <2>3. brought \in [Deliveries -> Bodies \cup {NoBody}]
    BY DEF InboxInit
  <2>4. deliveries \in 0 .. MaxDeliveries
    BY InboxAssumption DEF InboxInit
  <2>5. QED
    BY <2>1, <2>2, <2>3, <2>4 DEF InboxInit, InboxTypeOK, InboxStatus
<1>2. RowFirst
  BY DEF InboxInit, RowFirst
<1>3. HandsKnown
  BY DEF InboxInit, HandsKnown, AtWork
<1>4. AppliedBeforeProcessed
  BY DEF InboxInit, AppliedBeforeProcessed
<1>5. QED
  BY <1>1, <1>2, <1>3, <1>4 DEF IInv

LEMMA StepInv ==
  ASSUME IInv, [InboxNext]_inboxVars
  PROVE  IInv'
<1> USE InboxAssumption DEF IInv, InboxTypeOK, RowFirst, HandsKnown, AppliedBeforeProcessed, AtWork,
                            InboxStatus, HandlerStates, Go
<1>1. CASE UNCHANGED inboxVars
  BY <1>1 DEF inboxVars
<1>2. ASSUME NEW d \in Deliveries, Deliver(d)
      PROVE  IInv'
  BY <1>2 DEF Deliver
<1>3. ASSUME NEW d \in Deliveries, Receive(d)
      PROVE  IInv'
  BY <1>3 DEF Receive
<1>4. ASSUME NEW d \in Deliveries, Claim(d)
      PROVE  IInv'
  BY <1>4 DEF Claim, SameBody, Claimable
<1>5. ASSUME NEW d \in Deliveries, LoadAttempt(d)
      PROVE  IInv'
  BY <1>5 DEF LoadAttempt
<1>6. ASSUME NEW d \in Deliveries, AskProvider(d)
      PROVE  IInv'
  BY <1>6 DEF AskProvider
<1>7. ASSUME NEW d \in Deliveries, ApplyResult(d)
      PROVE  IInv'
  <2>1. CASE Go(d, "finish") /\ applied' = applied \cup {brought[d]}
    BY <1>7, <2>1 DEF ApplyResult
  <2>2. CASE Go(d, "reset") /\ UNCHANGED applied
    BY <1>7, <2>2 DEF ApplyResult
  <2>3. CASE Go(d, "free") /\ UNCHANGED applied
    BY <1>7, <2>3 DEF ApplyResult
  <2>4. QED
    BY <1>7, <2>1, <2>2, <2>3 DEF ApplyResult
<1>8. ASSUME NEW d \in Deliveries, Reset(d)
      PROVE  IInv'
  BY <1>8 DEF Reset, EndClaim, OwnsEvent
<1>9. ASSUME NEW d \in Deliveries, Finish(d)
      PROVE  IInv'
  BY <1>9 DEF Finish, EndClaim, OwnsEvent
<1>10. CASE LeaseExpires
  BY <1>10 DEF LeaseExpires
<1>11. CASE ReleaseExpired
  BY <1>11 DEF ReleaseExpired
<1>12. CASE Crash
  BY <1>12 DEF Crash
<1>13. QED
  BY <1>1, <1>2, <1>3, <1>4, <1>5, <1>6, <1>7, <1>8, <1>9, <1>10, <1>11, <1>12
     DEF InboxNext, HandlerStep

(* The inductive invariant holds in every reachable state. *)
THEOREM InboxInvariant == InboxSpec => []IInv
  BY InitInv, StepInv, PTL DEF InboxSpec

(* For every number of deliveries: only the body received first is applied, and an event
   marked as processed was applied (receive_provider_event, finish_provider_event). *)
THEOREM AppliedCorrect == InboxSpec => []AppliedBeforeProcessed
<1>1. IInv => AppliedBeforeProcessed
  BY DEF IInv
<1>2. QED
  BY InboxInvariant, <1>1, PTL

(* For every number of deliveries: handlers that keep their lease work one after the other
   (the token in reset_provider_event and finish_provider_event). *)
THEOREM OneHandlerCorrect == InboxSpec => []OneHandlerPerLease
<1>1. IInv => OneHandlerPerLease
  BY DEF IInv, HandsKnown, OneHandlerPerLease
<1>2. QED
  BY InboxInvariant, <1>1, PTL

=============================================================================
