------------------------------- MODULE Outbox -------------------------------
(***************************************************************************)
(* The table of generation events and the transactions on it               *)
(* (apps/api/app/outbox.py, dead_letters.py).  Each operation is one       *)
(* database transaction.  The lock token of a claim is a fresh UUID; a     *)
(* dispatcher works on one claim at a time and forgets an older one, so    *)
(* the name of the dispatcher stands for the token of its last claim.      *)
(***************************************************************************)
EXTENDS Naturals

CONSTANTS
    Jobs,
    Dispatchers,    \* tasks that call dispatch_once
    NoOne,          \* lock_token NULL
    MaxAttempts     \* settings.outbox_max_attempts

ASSUME OutboxAssumption ==
    /\ MaxAttempts \in Nat \ {0}
    /\ NoOne \notin Dispatchers

VARIABLES
    event,      \* outbox_events.status, ABSENT before the job is accepted
    attempts,   \* outbox_events.attempt_count
    token,      \* outbox_events.lock_token
    due,        \* next_attempt_at of a PENDING event, or the lease of a
                \* PROCESSING one, has passed
    letter      \* dead_letter_events.status of the event

outboxVars == <<event, attempts, token, due, letter>>

OutboxStatus == {"ABSENT", "PENDING", "PROCESSING", "PUBLISHED", "DEAD_LETTER"}
DeadLetterStatus == {"NONE", "OPEN", "REPLAYED"}

OutboxTypeOK ==
    /\ event \in [Jobs -> OutboxStatus]
    /\ attempts \in [Jobs -> Nat]
    /\ token \in [Jobs -> Dispatchers \cup {NoOne}]
    /\ due \subseteq Jobs
    /\ letter \in [Jobs -> DeadLetterStatus]

OutboxInit ==
    /\ event = [j \in Jobs |-> "ABSENT"]
    /\ attempts = [j \in Jobs |-> 0]
    /\ token = [j \in Jobs |-> NoOne]
    /\ due = {}
    /\ letter = [j \in Jobs |-> "NONE"]

EnqueueGenerationWorkflow(j) ==
    /\ event[j] = "ABSENT"
    /\ event' = [event EXCEPT ![j] = "PENDING"]
    /\ due' = due \cup {j}
    /\ UNCHANGED <<attempts, token, letter>>

\* The clock passes next_attempt_at, or locked_at plus the lease.
BecomesDue(j) ==
    /\ event[j] \in {"PENDING", "PROCESSING"}
    /\ j \notin due
    /\ due' = due \cup {j}
    /\ UNCHANGED <<event, attempts, token, letter>>

Dispatchable(j) == event[j] \in {"PENDING", "PROCESSING"} /\ j \in due

ClaimOne(d, j) ==
    /\ Dispatchable(j)
    /\ event' = [event EXCEPT ![j] = "PROCESSING"]
    /\ attempts' = [attempts EXCEPT ![j] = @ + 1]
    /\ token' = [token EXCEPT ![j] = d]
    /\ due' = due \ {j}
    /\ UNCHANGED letter

\* The WHERE clause of every write that ends a claim.
HoldsLease(d, j) == event[j] = "PROCESSING" /\ token[j] = d

MarkPublished(d, j) ==
    /\ HoldsLease(d, j)
    /\ event' = [event EXCEPT ![j] = "PUBLISHED"]
    /\ token' = [token EXCEPT ![j] = NoOne]
    /\ due' = due \ {j}
    /\ UNCHANGED <<attempts, letter>>

\* A new letter, or the replayed one opened again for another cycle.
AddDeadLetter_KeepReplayed(j) ==
    letter' = [letter EXCEPT ![j] = IF @ = "NONE" THEN "OPEN" ELSE @]

AddDeadLetter(j) ==
    letter' = [letter EXCEPT ![j] = "OPEN"]

ScheduleRetry(d, j) ==
    /\ HoldsLease(d, j)
    /\ IF attempts[j] >= MaxAttempts
         THEN /\ event' = [event EXCEPT ![j] = "DEAD_LETTER"]
              /\ AddDeadLetter(j)
         ELSE /\ event' = [event EXCEPT ![j] = "PENDING"]
              /\ UNCHANGED letter
    /\ token' = [token EXCEPT ![j] = NoOne]
    /\ due' = due \ {j}
    /\ UNCHANGED attempts

ReplayDeadLetter(j) ==
    /\ letter[j] = "OPEN"
    /\ event[j] = "DEAD_LETTER"
    /\ event' = [event EXCEPT ![j] = "PENDING"]
    /\ attempts' = [attempts EXCEPT ![j] = 0]
    /\ token' = [token EXCEPT ![j] = NoOne]
    /\ due' = due \cup {j}
    /\ letter' = [letter EXCEPT ![j] = "REPLAYED"]

=============================================================================
