--------------------------- MODULE ProviderInbox ---------------------------
(***************************************************************************)
(* The inbox of provider webhooks for one event: receipt, lease,           *)
(* deduplication and completion (apps/api/app/provider_callbacks.py), the  *)
(* handler around them (GenerationExecutionService.handle_webhook in       *)
(* provider_execution.py) and the release of expired leases by the         *)
(* reconciler (control_plane.py).  Execution models what applying a result *)
(* does to the job.                                                        *)
(*                                                                         *)
(* A delivery is answered with 202 whatever the event's status is, unless  *)
(* its handler raises, so the provider has no reason to deliver an event   *)
(* again that was reset: it is left to the poll of its job.                *)
(***************************************************************************)
EXTENDS Naturals

CONSTANTS
    Deliveries,     \* webhook requests being handled
    NoDelivery,     \* lock_token NULL
    Bodies,         \* hashes of the bodies that carry the event's id
    NoBody,
    MaxDeliveries   \* bound: deliveries of the event

ASSUME InboxAssumption ==
    /\ NoDelivery \notin Deliveries
    /\ NoBody \notin Bodies
    /\ MaxDeliveries \in Nat

VARIABLES
    inbox,        \* provider_event_inbox.status, NONE before the first delivery
    body,         \* payload_hash
    token,        \* lock_token: the delivery that claimed the event last
    expired,      \* locked_at is older than the lease
    handler, brought,         \* where each delivery is, and its body
    applied,      \* bodies whose result was applied to the attempt
    overdue,      \* deliveries whose lease ran out while they worked
    deliveries

inboxVars == <<inbox, body, token, expired, handler, brought, applied, overdue, deliveries>>

InboxStatus == {"NONE", "RECEIVED", "PROCESSING", "PROCESSED"}
HandlerStates == {"free", "receive", "claim", "load", "ask", "apply", "reset", "finish"}

InboxTypeOK ==
    /\ inbox \in InboxStatus
    /\ body \in Bodies \cup {NoBody}
    /\ token \in Deliveries \cup {NoDelivery}
    /\ expired \in BOOLEAN
    /\ handler \in [Deliveries -> HandlerStates]
    /\ brought \in [Deliveries -> Bodies \cup {NoBody}]
    /\ applied \subseteq Bodies
    /\ overdue \subseteq Deliveries
    /\ deliveries \in 0 .. MaxDeliveries

InboxInit ==
    /\ inbox = "NONE"
    /\ body = NoBody
    /\ token = NoDelivery
    /\ expired = FALSE
    /\ handler = [d \in Deliveries |-> "free"]
    /\ brought = [d \in Deliveries |-> NoBody]
    /\ applied = {}
    /\ overdue = {}
    /\ deliveries = 0

Go(d, state) == handler' = [handler EXCEPT ![d] = state]

\* A webhook whose signature was verified.
Deliver(d) ==
    /\ handler[d] = "free"
    /\ deliveries < MaxDeliveries
    /\ deliveries' = deliveries + 1
    /\ \E b \in Bodies : brought' = [brought EXCEPT ![d] = b]
    /\ Go(d, "receive")
    /\ UNCHANGED <<inbox, body, token, expired, applied, overdue>>

\* receive_provider_event, the first commit: the unique index keeps one row.
Receive(d) ==
    /\ handler[d] = "receive"
    /\ IF inbox = "NONE"
         THEN inbox' = "RECEIVED" /\ body' = brought[d]
         ELSE UNCHANGED <<inbox, body>>
    /\ Go(d, "claim")
    /\ UNCHANGED <<token, expired, brought, applied, overdue, deliveries>>

Claimable == inbox = "RECEIVED" \/ (inbox = "PROCESSING" /\ expired)

SameBody_Any(d) == TRUE

SameBody(d) == brought[d] = body

\* The second commit: another body under the same id is a conflict, and an event that
\* is held or processed is a duplicate; both are only acknowledged.
Claim(d) ==
    /\ handler[d] = "claim"
    /\ IF SameBody(d) /\ Claimable
         THEN /\ inbox' = "PROCESSING" /\ token' = d /\ expired' = FALSE
              /\ overdue' = overdue \ {d}
              /\ Go(d, "load")
         ELSE UNCHANGED <<inbox, token, expired, overdue>> /\ Go(d, "free")
    /\ UNCHANGED <<body, brought, applied, deliveries>>

\* load_attempt_by_provider_job: the event may come before the submission is recorded.
LoadAttempt(d) ==
    /\ handler[d] = "load"
    /\ Go(d, "ask") \/ Go(d, "reset")
    /\ UNCHANGED <<inbox, body, token, expired, brought, applied, overdue, deliveries>>

\* result_for_event and with_terminal_cost, which may raise.
AskProvider(d) ==
    /\ handler[d] = "ask"
    /\ Go(d, "apply") \/ Go(d, "reset")
    /\ UNCHANGED <<inbox, body, token, expired, brought, applied, overdue, deliveries>>

\* apply_provider_result; a terminal event whose job is not terminal at the provider is
\* kept for later, and an exception leaves the event to the end of its lease.
ApplyResult(d) ==
    /\ handler[d] = "apply"
    /\ \/ Go(d, "finish") /\ applied' = applied \cup {brought[d]}
       \/ Go(d, "reset") /\ UNCHANGED applied
       \/ Go(d, "free") /\ UNCHANGED applied
    /\ UNCHANGED <<inbox, body, token, expired, brought, overdue, deliveries>>

OwnsEvent_AnyToken(d) == inbox = "PROCESSING"

OwnsEvent(d) == inbox = "PROCESSING" /\ token = d

\* reset_provider_event and finish_provider_event
EndClaim(d, state, status) ==
    /\ handler[d] = state
    /\ IF OwnsEvent(d)
         THEN inbox' = status /\ token' = NoDelivery /\ expired' = FALSE
         ELSE UNCHANGED <<inbox, token, expired>>
    /\ Go(d, "free")
    /\ UNCHANGED <<body, brought, applied, overdue, deliveries>>

Reset(d) == EndClaim(d, "reset", "RECEIVED")

Finish(d) == EndClaim(d, "finish", "PROCESSED")

AtWork(d) == handler[d] \in {"load", "ask", "apply", "reset", "finish"}

\* The lease runs out under a handler that still works, or after it died.
LeaseExpires ==
    /\ inbox = "PROCESSING" /\ ~expired
    /\ expired' = TRUE
    /\ overdue' = overdue \cup {token}
    /\ UNCHANGED <<inbox, body, token, handler, brought, applied, deliveries>>

\* _release_expired_provider_leases
ReleaseExpired ==
    /\ inbox = "PROCESSING" /\ expired
    /\ inbox' = "RECEIVED" /\ token' = NoDelivery /\ expired' = FALSE
    /\ UNCHANGED <<body, handler, brought, applied, overdue, deliveries>>

\* The process dies with its handlers.
Crash ==
    /\ \E d \in Deliveries : handler[d] # "free"
    /\ handler' = [d \in Deliveries |-> "free"]
    /\ UNCHANGED <<inbox, body, token, expired, brought, applied, overdue, deliveries>>

HandlerStep(d) ==
    \/ Receive(d) \/ Claim(d) \/ LoadAttempt(d) \/ AskProvider(d) \/ ApplyResult(d)
    \/ Reset(d) \/ Finish(d)

InboxNext ==
    \/ \E d \in Deliveries : Deliver(d) \/ HandlerStep(d)
    \/ LeaseExpires \/ ReleaseExpired \/ Crash

InboxSpec == InboxInit /\ [][InboxNext]_inboxVars

-----------------------------------------------------------------------------
(* Properties *)

(* Only the body that was received first is ever applied, and an event that is marked as
   processed was applied: a repeated delivery with another body, before or after a
   lease ran out, has no effect of its own. *)
AppliedBeforeProcessed ==
    /\ applied \subseteq {body}
    /\ inbox = "PROCESSED" => body \in applied

(* Handlers of an event work one after the other, except those whose lease ran out while
   they worked: when such a one ends, it does not end the lease of its successor, which
   would let in a third. *)
OneHandlerPerLease ==
    \A d, e \in Deliveries \ overdue : AtWork(d) /\ AtWork(e) => d = e

=============================================================================
