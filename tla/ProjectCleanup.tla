--------------------------- MODULE ProjectCleanup ---------------------------
(***************************************************************************)
(* The cleanup event of a deleted project and the list of its objects      *)
(* (apps/api/app/project_cleanup.py).  Each operation is one transaction.  *)
(* As in Outbox, the name of a task stands for the token of its last       *)
(* claim.                                                                  *)
(***************************************************************************)
EXTENDS Naturals

CONSTANTS
    Objects,          \* keys of assets, outputs and provider objects
    Holders,          \* tasks that run StorageCleanupDispatcher
    NoHolder,         \* lock_token NULL
    CleanupAttempts   \* settings.outbox_max_attempts

ASSUME CleanupAssumption ==
    /\ NoHolder \notin Holders
    /\ CleanupAttempts \in Nat \ {0}

VARIABLES
    project,     \* projects.status
    event,       \* storage_cleanup_events.status, NONE while the project is active
    attempts,    \* storage_cleanup_events.attempt_count
    token,       \* storage_cleanup_events.lock_token
    due,         \* next_attempt_at, or the lease of the claim, has passed
    letter,      \* dead_letter_events.status of the event
    item         \* storage_cleanup_objects.status

cleanupVars == <<project, event, attempts, token, due, letter, item>>

EventStatus == {"NONE", "PENDING", "PROCESSING", "PUBLISHED", "DEAD_LETTER"}
ItemStatus == {"NONE", "PENDING", "DELETED"}

CleanupTypeOK ==
    /\ project \in {"ACTIVE", "DELETED"}
    /\ event \in EventStatus
    /\ attempts \in Nat
    /\ token \in Holders \cup {NoHolder}
    /\ due \in BOOLEAN
    /\ letter \in {"NONE", "OPEN", "REPLAYED"}
    /\ item \in [Objects -> ItemStatus]

CleanupInit ==
    /\ project = "ACTIVE"
    /\ event = "NONE"
    /\ attempts = 0
    /\ token = NoHolder
    /\ due = FALSE
    /\ letter = "NONE"
    /\ item = [k \in Objects |-> "NONE"]

\* request_project_deletion: the event lists the objects that rows name now.
RequestDeletion(objects) ==
    /\ project = "ACTIVE"
    /\ project' = "DELETED"
    /\ event' = "PENDING"
    /\ due' = TRUE
    /\ item' = [k \in Objects |-> IF k \in objects THEN "PENDING" ELSE item[k]]
    /\ UNCHANGED <<attempts, token, letter>>

\* register_artifact in a deleted project: the object is put on the list, and a
\* published event is opened again.
ListObject(k) ==
    IF project = "DELETED"
      THEN /\ item' = [item EXCEPT ![k] = "PENDING"]
           /\ event' = IF event = "PUBLISHED" THEN "PENDING" ELSE event
           /\ due' = (due /\ event # "PUBLISHED")
           /\ UNCHANGED <<project, attempts, token, letter>>
      ELSE UNCHANGED cleanupVars

EventBecomesDue ==
    /\ event \in {"PENDING", "PROCESSING"}
    /\ ~due
    /\ due' = TRUE
    /\ UNCHANGED <<project, event, attempts, token, letter, item>>

Dispatchable_OnlyPending == event = "PENDING" /\ due

Dispatchable == event \in {"PENDING", "PROCESSING"} /\ due

ClaimEvent(c) ==
    /\ Dispatchable
    /\ event' = "PROCESSING"
    /\ attempts' = attempts + 1
    /\ token' = c
    /\ due' = FALSE
    /\ UNCHANGED <<project, letter, item>>

LeaseOwned(c) == event = "PROCESSING" /\ token = c

RenewLease(c) ==
    /\ LeaseOwned(c)
    /\ due' = FALSE
    /\ UNCHANGED <<project, event, attempts, token, letter, item>>

MarkObjectDeleted(c, k) ==
    /\ LeaseOwned(c)
    /\ item[k] = "PENDING"
    /\ item' = [item EXCEPT ![k] = "DELETED"]
    /\ UNCHANGED <<project, event, attempts, token, due, letter>>

ScheduleRetry(c) ==
    /\ LeaseOwned(c)
    /\ IF attempts >= CleanupAttempts
         THEN event' = "DEAD_LETTER" /\ letter' = "OPEN"
         ELSE event' = "PENDING" /\ UNCHANGED letter
    /\ token' = NoHolder
    /\ due' = FALSE
    /\ UNCHANGED <<project, attempts, item>>

PendingObjects == {k \in Objects : item[k] = "PENDING"}

\* _mark_published with objects that are still retained: the event waits for them,
\* and the claim is not counted as an attempt.
Defer_Counted(c) ==
    /\ LeaseOwned(c)
    /\ event' = "PENDING"
    /\ token' = NoHolder
    /\ due' = FALSE
    /\ UNCHANGED <<project, attempts, letter, item>>

Defer(c) ==
    /\ LeaseOwned(c)
    /\ event' = "PENDING"
    /\ attempts' = attempts - 1
    /\ token' = NoHolder
    /\ due' = FALSE
    /\ UNCHANGED <<project, letter, item>>

MarkPublished(c) ==
    /\ LeaseOwned(c)
    /\ event' = "PUBLISHED"
    /\ token' = NoHolder
    /\ due' = FALSE
    /\ UNCHANGED <<project, attempts, letter, item>>

\* replay_dead_letter for a storage cleanup event.
ReplayCleanup ==
    /\ letter = "OPEN"
    /\ event = "DEAD_LETTER"
    /\ event' = "PENDING"
    /\ attempts' = 0
    /\ due' = TRUE
    /\ letter' = "REPLAYED"
    /\ UNCHANGED <<project, token, item>>

=============================================================================
