------------------------------ MODULE Execution ------------------------------
(***************************************************************************)
(* The execution of one accepted generation job: the submit / poll /       *)
(* complete loop of GenerationExecutionService.execute, provider webhooks, *)
(* the cancel API and the provider-cancel dispatcher, all racing on the    *)
(* same job and attempt rows (apps/api/app/provider_*.py,                  *)
(* application_generations.cancel_generation, control_plane.py).           *)
(*                                                                         *)
(* One action is one database transaction or one call to the provider or   *)
(* to the object storage.  Where a transaction reads a row and another one *)
(* can change that row before it is written, the read is an action of its  *)
(* own; the row lock that fail_attempt and finish_cancelled hold on the    *)
(* job between the two is JobRowFree.  An exception that escapes a handler *)
(* ends the task where it stands: it is a Crash.                           *)
(***************************************************************************)
EXTENDS StateMachine, Naturals

CONSTANTS
    Workflow,      \* the durable generation workflow of the job
    Reconcilers,   \* control-plane reconciler tasks
    Hooks,         \* webhook requests being handled
    Dispatchers,   \* provider-cancel dispatchers
    MAX_ATTEMPTS_PER_CANDIDATE,
    MAX_ATTEMPTS_PER_JOB,
    MaximumPolls,  \* ProviderPollingPolicy.maximum_polls
    MaxCancelTries,\* max_attempts of the cancel dispatcher
    MaxSubmits,    \* bound: provider jobs accepted per attempt
    MaxObjects,    \* bound: objects published for the job
    MaxCrashes,    \* bound: tasks that die
    MaxCancels     \* bound: calls of the cancel API

Executors == {Workflow} \cup Reconcilers
Tasks == Executors \cup Hooks \cup Dispatchers

ASSUME TasksAssumption ==
    /\ Workflow \notin Reconcilers
    /\ Executors \cap Hooks = {}
    /\ Executors \cap Dispatchers = {}
    /\ Hooks \cap Dispatchers = {}

ASSUME BoundsAssumption ==
    /\ MAX_ATTEMPTS_PER_CANDIDATE \in Nat \ {0}
    /\ MAX_ATTEMPTS_PER_JOB \in Nat \ {0}
    /\ MaximumPolls \in Nat \ {0}
    /\ MaxCancelTries \in Nat \ {0}
    /\ MaxSubmits \in Nat \ {0}
    /\ MaxObjects \in Nat \ {0}
    /\ MaxCrashes \in Nat
    /\ MaxCancels \in Nat

Attempts == 1 .. MAX_ATTEMPTS_PER_JOB
ProviderJobs == Attempts \X (1 .. MaxSubmits)
NoJob == <<0, 0>>
MaybeJob == ProviderJobs \cup {NoJob}

VARIABLES
    jobStatus, settlement,   \* generation_jobs.status, .settlement_status
    attempts,                \* number of generation_attempts rows
    attStatus, pjid,         \* generation_attempts.status, .provider_job_id
    polls,                   \* provider.poll_started events per attempt
    overdue,                 \* attempts older than the polling deadline
    outputs, finalOutput,    \* generation_outputs keys, jobs.final_output_id
    objects, nextKey,        \* published objects in storage, next fresh key
    provider, submits,       \* provider side: status of its jobs, jobs accepted
    cancelEvent,             \* the provider.cancel.requested outbox row
    cancelSeen, cancels,     \* a cancel call in flight: attempts it loaded
    started,                 \* the workflow-start outbox event was delivered
    pc, ctx, res, obj,       \* the tasks: where they are and what they hold
    seen,                    \* the row status that their compare-and-set expects
    crashes

job == <<jobStatus, settlement>>
attemptRows == <<attempts, attStatus, pjid, polls>>
output == <<outputs, finalOutput, objects, nextKey>>
task == <<pc, ctx, res, obj, seen>>
outside == <<overdue, provider, submits, cancelEvent, cancelSeen, cancels, started,
             crashes>>
vars == <<jobStatus, settlement, attempts, attStatus, pjid, polls, overdue,
          outputs, finalOutput, objects, nextKey, provider, submits, cancelEvent,
          cancelSeen, cancels, started, pc, ctx, res, obj, seen, crashes>>

-----------------------------------------------------------------------------
(* Types *)

ActiveAttemptStatuses == AttemptStatuses \ ATTEMPT_TERMINAL_STATUSES
PollableStatuses == {"SUBMITTING", "SUBMITTED", "RUNNING"}
\* Mutant: the reconciler forgets a status.
ACTIVE_JOB_STATUSES_NoRouting == {"QUEUED", "SUBMITTED", "RUNNING"}

ACTIVE_JOB_STATUSES == {"QUEUED", "ROUTING", "SUBMITTED", "RUNNING"}

SettlementStatuses == {"RESERVED", "SETTLED", "RELEASED"}
ProviderStatuses == {"ABSENT", "RUNNING", "SUCCEEDED", "FAILED", "CANCELLED"}
OutboxStatuses == {"NONE", "PENDING", "PROCESSING", "PUBLISHED", "DEAD_LETTER"}

\* What a poll, a webhook, a submit error or a cancel answer means to the
\* completion path.  OUTPUT is a valid video; CORRUPT one that passes the media
\* policy and is no MP4; a missing output and one that fails a snapshot,
\* cost-source or namespace check are FINAL failures.
ResultKinds == {"NONE", "WAIT", "OUTPUT", "CORRUPT", "CANCELLED", "RETRYABLE",
                "FINAL", "TIMED_OUT"}

Labels == {"off", "load", "start", "reload", "submit", "accepted", "record", "apply",
           "recheck", "reserve", "poll", "event", "receive", "commit", "cas", "fail",
           "failing", "finish", "finishing", "cancel", "publish", "retry"}

Contexts == [att : Attempts, pjid : MaybeJob]
Results == [kind : ResultKinds, pjid : MaybeJob]
NoContext == [att |-> 1, pjid |-> NoJob]
NoResult == [kind |-> "NONE", pjid |-> NoJob]
CancelEvents == [status : OutboxStatuses, att : Attempts, tries : Nat,
                 owner : Dispatchers \cup {Workflow}]
NoCancelEvent == [status |-> "NONE", att |-> 1, tries |-> 0, owner |-> Workflow]

TypeOK ==
    /\ jobStatus \in JobStatuses
    /\ settlement \in SettlementStatuses
    /\ attempts \in Attempts
    /\ attStatus \in [Attempts -> AttemptStatuses]
    /\ pjid \in [Attempts -> MaybeJob]
    /\ polls \in [Attempts -> 0 .. MaximumPolls]
    /\ overdue \subseteq Attempts
    /\ outputs \subseteq Nat
    /\ finalOutput \in Nat
    /\ objects \subseteq Nat
    /\ nextKey \in Nat
    /\ provider \in [ProviderJobs -> ProviderStatuses]
    /\ submits \in [Attempts -> 0 .. MaxSubmits]
    /\ cancelEvent \in CancelEvents
    /\ cancelSeen \in Attempts \cup {0}
    /\ cancels \in Nat
    /\ started \in BOOLEAN
    /\ pc \in [Tasks -> Labels]
    /\ ctx \in [Tasks -> Contexts]
    /\ res \in [Tasks -> Results]
    /\ obj \in [Tasks -> Nat]
    /\ seen \in [Tasks -> JobStatuses \cup AttemptStatuses]
    /\ crashes \in Nat

\* The rows that the commit of application_generations.generate leaves.
Init ==
    /\ jobStatus = "QUEUED"
    /\ settlement = "RESERVED"
    /\ attempts = 1
    /\ attStatus = [a \in Attempts |-> "CREATED"]
    /\ pjid = [a \in Attempts |-> NoJob]
    /\ polls = [a \in Attempts |-> 0]
    /\ overdue = {}
    /\ outputs = {}
    /\ finalOutput = 0
    /\ objects = {}
    /\ nextKey = 1
    /\ provider = [j \in ProviderJobs |-> "ABSENT"]
    /\ submits = [a \in Attempts |-> 0]
    /\ cancelEvent = NoCancelEvent
    /\ cancelSeen = 0
    /\ cancels = 0
    /\ started = FALSE
    /\ pc = [t \in Tasks |-> "off"]
    /\ ctx = [t \in Tasks |-> NoContext]
    /\ res = [t \in Tasks |-> NoResult]
    /\ obj = [t \in Tasks |-> 0]
    /\ seen = [t \in Tasks |-> "QUEUED"]
    /\ crashes = 0

-----------------------------------------------------------------------------
(* Moves of a task *)

Goto(t, l) == pc' = [pc EXCEPT ![t] = l]

\* The task drops what it holds and stands at l.
Rest(t, l) ==
    /\ Goto(t, l)
    /\ ctx' = [ctx EXCEPT ![t] = NoContext]
    /\ res' = [res EXCEPT ![t] = NoResult]
    /\ obj' = [obj EXCEPT ![t] = 0]
    /\ seen' = [seen EXCEPT ![t] = "QUEUED"]

\* What follows ProviderExecutionStep(is_complete): run_durable_generation runs
\* the next step of an incomplete workflow, everybody else returns.
EndStep(t, isComplete) ==
    Rest(t, IF t \in Dispatchers THEN "publish"
            ELSE IF t = Workflow /\ ~isComplete THEN "load" ELSE "off")

\* ProviderResultAction.RETRY: execute continues its loop, the other callers of
\* the completion path ignore the action.
RetryAttempt(t) == IF t \in Executors THEN Rest(t, "load") ELSE EndStep(t, TRUE)

JobIsTerminal == jobStatus \in JOB_TERMINAL_STATUSES

\* context_for: what the task keeps of the attempt it loaded.
Context(a) == [att |-> a, pjid |-> pjid[a]]

\* No other task holds the lock of SELECT ... FOR UPDATE on the job row.
JobRowFree(t) == \A u \in Tasks \ {t} : pc[u] \notin {"failing", "finishing"}

-----------------------------------------------------------------------------
(* Entering and leaving the execution loop *)

\* OutboxDispatcher delivers generation.workflow.start; the stable key makes
\* later deliveries return the same run.
StartWorkflow ==
    /\ ~started
    /\ started' = TRUE
    /\ Rest(Workflow, "load")
    /\ UNCHANGED <<job, attemptRows, output, overdue, provider, submits, cancelEvent,
                   cancelSeen, cancels, crashes>>

\* ControlPlaneReconciler executes the jobs that _stuck_job_ids listed.  The list
\* is made once for a whole batch of jobs, so that the job may have moved since.
Reconcile(r) ==
    /\ pc[r] = "off"
    /\ jobStatus \in ACTIVE_JOB_STATUSES
    /\ \E a \in 1 .. attempts : attStatus[a] \in ActiveAttemptStatuses
    /\ Rest(r, "load")
    /\ UNCHANGED <<job, attemptRows, output, outside>>

\* load_active_attempt at the head of the loop.
Load(e) ==
    /\ pc[e] = "load"
    /\ IF JobIsTerminal
       THEN EndStep(e, TRUE)
       ELSE /\ ctx' = [ctx EXCEPT ![e] = Context(attempts)]
            /\ Goto(e, IF attStatus[attempts] = "CREATED" THEN "start" ELSE "recheck")
            /\ UNCHANGED <<res, obj, seen>>
    /\ UNCHANGED <<job, attemptRows, output, outside>>

\* A process dies, or an exception leaves the handler.  Hatchet replays the step
\* of a durable workflow, the local runner loses it.  finish_output deletes the
\* object it published when it is an exception that stops commit_output.
Crash(t) ==
    /\ crashes < MaxCrashes
    /\ pc[t] # "off"
    /\ crashes' = crashes + 1
    /\ \/ Rest(t, "off")
       \/ t = Workflow /\ Rest(t, "load")
    /\ objects' \in {objects, objects \ {obj[t]}}
    /\ UNCHANGED <<job, attemptRows, outputs, finalOutput, nextKey, overdue, provider,
                   submits, cancelEvent, cancelSeen, cancels, started>>

-----------------------------------------------------------------------------
(* Submission *)

\* Mutant: the attempt is claimed and the job stays QUEUED.
StartSubmit_JobStays(e) ==
    /\ pc[e] = "start"
    /\ attStatus[ctx[e].att] = "CREATED"
    /\ attStatus' = [attStatus EXCEPT ![ctx[e].att] = "SUBMITTING"]
    /\ Goto(e, "reload")
    /\ UNCHANGED <<job, attempts, pjid, polls, output, outside, ctx, res, obj, seen>>

\* start_submit: the attempt is claimed by compare-and-set, and with it the job
\* when it is still QUEUED.
StartSubmit(e) ==
    LET a == ctx[e].att IN
    /\ pc[e] = "start"
    /\ jobStatus = "QUEUED" => JobRowFree(e)
    /\ IF attStatus[a] = "CREATED"
       THEN /\ jobStatus' = IF jobStatus = "QUEUED" THEN "ROUTING" ELSE jobStatus
            /\ attStatus' = [attStatus EXCEPT ![a] = "SUBMITTING"]
            /\ Goto(e, "reload")
            /\ UNCHANGED <<ctx, res, obj, seen>>
       ELSE /\ EndStep(e, FALSE)
            /\ UNCHANGED <<jobStatus, attStatus>>
    /\ UNCHANGED <<settlement, attempts, pjid, polls, output, outside>>

\* The second load_active_attempt: its answer, not the attempt just claimed, is
\* what is submitted.
Reload(e) ==
    /\ pc[e] = "reload"
    /\ IF JobIsTerminal
       THEN EndStep(e, TRUE)
       ELSE /\ ctx' = [ctx EXCEPT ![e] = Context(attempts)]
            /\ Goto(e, "submit")
            /\ UNCHANGED <<res, obj, seen>>
    /\ UNCHANGED <<job, attemptRows, output, outside>>

\* provider.submit accepts the request; the answer arrives, or is lost and
\* recorded as provider.submit_unknown.
SubmitAccepted(e) ==
    LET a == ctx[e].att
        j == <<a, submits[a] + 1>> IN
    /\ pc[e] = "submit"
    /\ submits[a] < MaxSubmits
    /\ submits' = [submits EXCEPT ![a] = @ + 1]
    /\ provider' = [provider EXCEPT ![j] = "RUNNING"]
    /\ \/ /\ res' = [res EXCEPT ![e] = [kind |-> "NONE", pjid |-> j]]
          /\ Goto(e, "accepted")
       \/ /\ Goto(e, "recheck")
          /\ UNCHANGED res
    /\ UNCHANGED <<job, attemptRows, output, overdue, cancelEvent, cancelSeen, cancels,
                   started, crashes, ctx, obj, seen>>

\* Disposition UNKNOWN, or an exception, with nothing accepted.
SubmitUnknown(e) ==
    /\ pc[e] = "submit"
    /\ Goto(e, "recheck")
    /\ UNCHANGED <<job, attemptRows, output, outside, ctx, res, obj, seen>>

\* ProviderSubmissionError: the provider definitely refused.
SubmitRejected(e) ==
    /\ pc[e] = "submit"
    /\ \E k \in {"RETRYABLE", "FINAL"} :
          res' = [res EXCEPT ![e] = [kind |-> k, pjid |-> NoJob]]
    /\ Goto(e, "fail")
    /\ UNCHANGED <<job, attemptRows, output, outside, ctx, obj, seen>>

\* The read of record_submit_accepted: an attempt with another provider job id is
\* left alone.
ReadAccepted(e) ==
    /\ pc[e] = "accepted"
    /\ Goto(e, IF pjid[ctx[e].att] \in {NoJob, res[e].pjid} THEN "record"
               ELSE IF res[e].kind = "NONE" THEN "recheck" ELSE "apply")
    /\ UNCHANGED <<job, attemptRows, output, outside, ctx, res, obj, seen>>

\* Mutant: a late acceptance revives an attempt that was given up.
RecordSubmitAccepted_Revive(e) ==
    /\ pc[e] = "record"
    /\ pjid' = [pjid EXCEPT ![ctx[e].att] = res[e].pjid]
    /\ attStatus' = [attStatus EXCEPT ![ctx[e].att] = "RUNNING"]
    /\ jobStatus' = IF jobStatus = "ROUTING" THEN "RUNNING" ELSE jobStatus
    /\ Goto(e, IF res[e].kind = "NONE" THEN "recheck" ELSE "apply")
    /\ UNCHANGED <<settlement, attempts, polls, output, outside, ctx, res, obj, seen>>

\* The write of record_submit_accepted: the job and the attempt advance
\* independently of each other, each from its own status.
RecordSubmitAccepted(e) ==
    LET a == ctx[e].att IN
    /\ pc[e] = "record"
    /\ jobStatus \in {"ROUTING", "SUBMITTED"} => JobRowFree(e)
    /\ pjid' = [pjid EXCEPT ![a] = res[e].pjid]
    /\ jobStatus' = IF jobStatus \in {"ROUTING", "SUBMITTED"} THEN "RUNNING" ELSE jobStatus
    /\ attStatus' = IF attStatus[a] \in {"SUBMITTING", "SUBMITTED"}
                    THEN [attStatus EXCEPT ![a] = "RUNNING"] ELSE attStatus
    /\ Goto(e, IF res[e].kind = "NONE" THEN "recheck" ELSE "apply")
    /\ UNCHANGED <<settlement, attempts, polls, output, outside, ctx, res, obj, seen>>

-----------------------------------------------------------------------------
(* Polling *)

\* The third load_active_attempt of the loop.
Recheck(e) ==
    /\ pc[e] = "recheck"
    /\ IF JobIsTerminal \/ attStatus[attempts] \notin PollableStatuses
       THEN EndStep(e, TRUE)
       ELSE /\ Goto(e, "reserve")
            /\ ctx' = [ctx EXCEPT ![e] = Context(attempts)]
            /\ res' = [res EXCEPT ![e] = NoResult]
            /\ UNCHANGED <<obj, seen>>
    /\ UNCHANGED <<job, attemptRows, output, outside>>

\* Mutant: only the deadline ends the polling.
ReservePoll_DeadlineOnly(e) ==
    LET a == ctx[e].att IN
    /\ pc[e] = "reserve"
    /\ attStatus[a] \in PollableStatuses /\ a \notin overdue
    /\ polls' = [polls EXCEPT ![a] = @ + 1]
    /\ Goto(e, "poll")
    /\ UNCHANGED <<ctx, res, obj, seen, job, attempts, attStatus, pjid, output, outside>>

\* reserve_poll: a provider.poll_started event is stored before the call, so that
\* a crash consumes its budget.
ReservePoll(e) ==
    LET a == ctx[e].att IN
    /\ pc[e] = "reserve"
    /\ \/ /\ attStatus[a] \notin PollableStatuses
          /\ EndStep(e, FALSE)
          /\ UNCHANGED polls
       \/ /\ attStatus[a] \in PollableStatuses
          /\ a \in overdue \/ polls[a] = MaximumPolls
          /\ res' = [res EXCEPT ![e] = [kind |-> "TIMED_OUT", pjid |-> NoJob]]
          /\ Goto(e, "fail")
          /\ UNCHANGED <<polls, ctx, obj, seen>>
       \/ /\ attStatus[a] \in PollableStatuses
          /\ a \notin overdue /\ polls[a] < MaximumPolls
          /\ polls' = [polls EXCEPT ![a] = @ + 1]
          /\ Goto(e, "poll")
          /\ UNCHANGED <<ctx, res, obj, seen>>
    /\ UNCHANGED <<job, attempts, attStatus, pjid, output, outside>>

\* The dedup key of the slot makes one of two simultaneous reservations fail.
ReserveContended(e) ==
    /\ pc[e] = "reserve"
    /\ \E u \in Executors \ {e} : pc[u] = "poll" /\ ctx[u].att = ctx[e].att
    /\ EndStep(e, FALSE)
    /\ UNCHANGED <<job, attemptRows, output, outside>>

\* What poll may answer about an attempt.  RunPod's adapter turns an HTTP error or
\* timeout into a failure of the job; the simulators find the job of an attempt
\* whose provider job id was lost by its idempotency key.
PollResults(c) ==
    {r \in [kind : {"WAIT", "OUTPUT", "CORRUPT", "CANCELLED", "RETRYABLE", "FINAL"},
            pjid : ProviderJobs] :
        /\ r.pjid[1] = c.att
        /\ c.pjid \in {NoJob, r.pjid}
        /\ provider[r.pjid] # "ABSENT"
        /\ r.kind \in {"OUTPUT", "CORRUPT"} => provider[r.pjid] = "SUCCEEDED"
        /\ r.kind = "CANCELLED" => provider[r.pjid] = "CANCELLED"}

\* complete_provider_result: where each result is applied.
Complete(t, r) ==
    IF r.kind = "WAIT"
    THEN EndStep(t, FALSE)
    ELSE /\ Goto(t, CASE r.kind \in {"OUTPUT", "CORRUPT"} -> "receive"
                      [] r.kind = "CANCELLED" -> "finish"
                      [] OTHER -> "fail")
         /\ res' = [res EXCEPT ![t] = r]
         /\ UNCHANGED <<ctx, obj, seen>>

\* An exception or an answer that says nothing ends the step; an id that is new is
\* recorded before the result is applied.
Poll(e) ==
    /\ pc[e] = "poll"
    /\ \/ EndStep(e, FALSE)
       \/ \E r \in PollResults(ctx[e]) :
             IF ctx[e].pjid = NoJob
             THEN /\ Goto(e, "accepted")
                  /\ res' = [res EXCEPT ![e] = r]
                  /\ UNCHANGED <<ctx, obj, seen>>
             ELSE Complete(e, r)
    /\ UNCHANGED <<job, attemptRows, output, outside>>

\* apply_provider_result goes on with the attempt that has the recorded id.
ApplyReconciled(e) ==
    /\ pc[e] = "apply"
    /\ IF pjid[ctx[e].att] = res[e].pjid THEN Complete(e, res[e]) ELSE EndStep(e, FALSE)
    /\ UNCHANGED <<job, attemptRows, output, outside>>

-----------------------------------------------------------------------------
(* Webhooks *)

\* A verified event of a provider job that some attempt has recorded; deliveries
\* may repeat and come late.
HookReceive(h) ==
    /\ pc[h] = "off"
    /\ \E a \in 1 .. attempts :
          /\ pjid[a] # NoJob
          /\ provider[pjid[a]] \in {"SUCCEEDED", "FAILED", "CANCELLED"}
          /\ ctx' = [ctx EXCEPT ![h] = Context(a)]
    /\ Goto(h, "event")
    /\ UNCHANGED <<job, attemptRows, output, outside, res, obj, seen>>

\* result_for_event, which polls unless the event itself says how the job ended.
HookResult(h) ==
    /\ pc[h] = "event"
    /\ \/ EndStep(h, FALSE)
       \/ \E r \in PollResults(ctx[h]) : Complete(h, r)
    /\ UNCHANGED <<job, attemptRows, output, outside>>

-----------------------------------------------------------------------------
(* Completion *)

\* finish_reservation: the transfer back to the user or to the platform and the
\* settlement status, once.
FinishReservation(to) == settlement \in {"RESERVED", to} /\ settlement' = to

\* Mutant: the published key is the same for every copy.
ReceiveArtifact_FixedKey(t) ==
    /\ pc[t] = "receive"
    /\ objects' = objects \cup {1}
    /\ obj' = [obj EXCEPT ![t] = 1]
    /\ Goto(t, "commit")
    /\ UNCHANGED <<job, attemptRows, outputs, finalOutput, nextKey, outside, ctx, res, seen>>

\* receive_and_publish: the artifact is copied to a fresh key, or refused.
ReceiveArtifact(t) ==
    /\ pc[t] = "receive"
    /\ \/ /\ nextKey <= MaxObjects
          /\ objects' = objects \cup {nextKey}
          /\ obj' = [obj EXCEPT ![t] = nextKey]
          /\ nextKey' = nextKey + 1
          /\ Goto(t, "commit")
          /\ UNCHANGED res
       \/ /\ res' = [res EXCEPT ![t].kind = "FINAL"]
          /\ Goto(t, "fail")
          /\ UNCHANGED <<objects, nextKey, obj>>
    /\ UNCHANGED <<job, attemptRows, outputs, finalOutput, outside, ctx, seen>>

\* Mutant: an early return forgets the object.
DiscardObject_Keep(t) ==
    /\ EndStep(t, TRUE)
    /\ UNCHANGED <<job, attStatus, outputs, finalOutput, objects>>

\* commit_output gives up its object.
DiscardObject(t) ==
    /\ objects' = objects \ {obj[t]}
    /\ EndStep(t, TRUE)
    /\ UNCHANGED <<job, attStatus, outputs, finalOutput>>

\* The unlocked read at the head of commit_output.
ReadForCommit(t) ==
    /\ pc[t] = "commit"
    /\ IF jobStatus \in {"RUNNING", "CANCEL_REQUESTED"} /\ attStatus[ctx[t].att] = "RUNNING"
       THEN /\ seen' = [seen EXCEPT ![t] = jobStatus]
            /\ Goto(t, "cas")
            /\ UNCHANGED <<job, attStatus, outputs, finalOutput, objects, ctx, res, obj>>
       ELSE DiscardObject(t)
    /\ UNCHANGED <<attempts, pjid, polls, nextKey, outside>>

\* Mutant: the attempt is not compared again when the output is committed.
CommitOutput_AnyAttempt(t) ==
    /\ pc[t] = "cas"
    /\ jobStatus = seen[t]
    /\ outputs' = outputs \cup {obj[t]}
    /\ jobStatus' = "SUCCEEDED"
    /\ finalOutput' = obj[t]
    /\ FinishReservation("SETTLED")
    /\ EndStep(t, TRUE)
    /\ UNCHANGED <<attemptRows, objects, nextKey, outside>>

\* The rest of commit_output: POSTPROCESSING, VALIDATING and the terminal status
\* are reached in one transaction, or nothing is.
CommitOutput(t) ==
    LET a == ctx[t].att IN
    /\ pc[t] = "cas"
    /\ JobRowFree(t)
    /\ IF jobStatus = seen[t] /\ attStatus[a] = "RUNNING"
       THEN /\ outputs' = outputs \cup {obj[t]}
            /\ IF res[t].kind = "OUTPUT"
               THEN /\ jobStatus' = "SUCCEEDED"
                    /\ attStatus' = [attStatus EXCEPT ![a] = "SUCCEEDED"]
                    /\ finalOutput' = obj[t]
                    /\ FinishReservation("SETTLED")
               ELSE /\ jobStatus' = "FAILED_FINAL"
                    /\ attStatus' = [attStatus EXCEPT ![a] = "FAILED_FINAL"]
                    /\ FinishReservation("RELEASED")
                    /\ UNCHANGED finalOutput
            /\ EndStep(t, TRUE)
            /\ UNCHANGED objects
       ELSE DiscardObject(t)
    /\ UNCHANGED <<attempts, pjid, polls, nextKey, outside>>

\* fail_attempt and finish_cancelled lock the job row and then read the attempt.
LockJob(t) ==
    /\ pc[t] \in {"fail", "finish"}
    /\ JobRowFree(t)
    /\ seen' = [seen EXCEPT ![t] = attStatus[ctx[t].att]]
    /\ Goto(t, IF pc[t] = "fail" THEN "failing" ELSE "finishing")
    /\ UNCHANGED <<job, attemptRows, output, outside, ctx, res, obj>>

\* Mutant: the transition table of the attempt is not consulted.
AttemptCas_NoTable(t, to) == attStatus[ctx[t].att] = seen[t]

\* The compare-and-set of transition_attempt on the status read under the lock.
AttemptCas(t, to) == AttemptMay(attStatus[ctx[t].att], to) /\ attStatus[ctx[t].att] = seen[t]

\* Mutant: the reservation is not released.
CloseCancelled_NoRelease(t) ==
    /\ jobStatus' = "CANCELLED"
    /\ attStatus' = [attStatus EXCEPT ![ctx[t].att] = "CANCELLED"]
    /\ UNCHANGED settlement

CloseCancelled(t) ==
    /\ jobStatus' = "CANCELLED"
    /\ attStatus' = [attStatus EXCEPT ![ctx[t].att] = "CANCELLED"]
    /\ FinishReservation("RELEASED")

FailureTarget(kind) == CASE kind = "RETRYABLE" -> "FAILED_RETRYABLE"
                         [] kind = "TIMED_OUT" -> "TIMED_OUT"
                         [] OTHER -> "FAILED_FINAL"

\* AttemptBudget.allows_retry; all the attempts of a job have the same candidate.
AllowsRetry == attempts < MAX_ATTEMPTS_PER_JOB /\ attempts < MAX_ATTEMPTS_PER_CANDIDATE

\* fail_attempt.
FailAttempt(t) ==
    LET a == ctx[t].att
        target == FailureTarget(res[t].kind)
        retryable == res[t].kind \in {"RETRYABLE", "TIMED_OUT"} IN
    /\ pc[t] = "failing"
    /\ \/ /\ jobStatus = "CANCEL_REQUESTED" /\ AttemptCas(t, "CANCELLED")
          /\ CloseCancelled(t)
          /\ EndStep(t, TRUE)
          /\ UNCHANGED attempts
       \/ /\ jobStatus # "CANCEL_REQUESTED" /\ AttemptCas(t, target)
          /\ retryable /\ AllowsRetry
          /\ attStatus' = [attStatus EXCEPT ![a] = target, ![a + 1] = "CREATED"]
          /\ attempts' = a + 1
          /\ RetryAttempt(t)
          /\ UNCHANGED job
       \/ /\ jobStatus # "CANCEL_REQUESTED" /\ AttemptCas(t, target)
          /\ ~(retryable /\ AllowsRetry) /\ JobMay(jobStatus, "FAILED_FINAL")
          /\ attStatus' = [attStatus EXCEPT ![a] = target]
          /\ jobStatus' = "FAILED_FINAL"
          /\ FinishReservation("RELEASED")
          /\ EndStep(t, TRUE)
          /\ UNCHANGED attempts
       \/ /\ \/ ~AttemptCas(t, IF jobStatus = "CANCEL_REQUESTED" THEN "CANCELLED" ELSE target)
             \/ /\ jobStatus # "CANCEL_REQUESTED" /\ ~(retryable /\ AllowsRetry)
                /\ ~JobMay(jobStatus, "FAILED_FINAL")
          /\ EndStep(t, TRUE)
          /\ UNCHANGED <<job, attempts, attStatus>>
    /\ UNCHANGED <<pjid, polls, output, outside>>

\* finish_cancelled.
FinishCancelled(t) ==
    /\ pc[t] = "finishing"
    /\ IF /\ jobStatus \in {"ROUTING", "SUBMITTED", "RUNNING", "CANCEL_REQUESTED"}
          /\ AttemptCas(t, "CANCELLED")
       THEN CloseCancelled(t)
       ELSE UNCHANGED <<job, attStatus>>
    /\ EndStep(t, TRUE)
    /\ UNCHANGED <<attempts, pjid, polls, output, outside>>

-----------------------------------------------------------------------------
(* Cancellation *)

\* cancel_generation loads the job with its attempts before it locks the row.
CancelLoad ==
    /\ cancels < MaxCancels
    /\ cancelSeen = 0
    /\ cancels' = cancels + 1
    /\ cancelSeen' = attempts
    /\ UNCHANGED <<job, attemptRows, output, task, overdue, provider, submits,
                   cancelEvent, started, crashes>>

\* Mutant: the status is not refreshed under the lock, a finished job is accepted.
CancelCommit_Stale ==
    /\ cancelSeen # 0
    /\ cancelSeen' = 0
    /\ jobStatus' = "CANCEL_REQUESTED"
    /\ cancelEvent' = [status |-> "PENDING", att |-> cancelSeen, tries |-> 0,
                       owner |-> Workflow]
    /\ UNCHANGED <<settlement, attemptRows, output, task, overdue, provider, submits,
                   cancels, started, crashes>>

\* The locked part of cancel_generation: only the status is read again, so that
\* enqueue_provider_cancel binds the event to the last attempt of the load.
CancelCommit ==
    /\ cancelSeen # 0
    /\ \A t \in Tasks : pc[t] \notin {"failing", "finishing"}
    /\ cancelSeen' = 0
    /\ \/ /\ jobStatus \in {"ROUTING", "SUBMITTED", "RUNNING"}
          /\ jobStatus' = "CANCEL_REQUESTED"
          /\ cancelEvent' = [status |-> "PENDING", att |-> cancelSeen, tries |-> 0,
                             owner |-> Workflow]
          /\ UNCHANGED <<settlement, attStatus>>
       \/ /\ jobStatus \in {"CREATED", "RESERVED", "QUEUED"}
          /\ jobStatus' = "CANCELLED"
          /\ attStatus' = [a \in Attempts |->
                              IF a <= cancelSeen /\ attStatus[a] \in ActiveAttemptStatuses
                              THEN "CANCELLED" ELSE attStatus[a]]
          /\ FinishReservation("RELEASED")
          /\ UNCHANGED cancelEvent
       \/ /\ jobStatus \in JOB_TERMINAL_STATUSES
                           \cup {"CANCEL_REQUESTED", "POSTPROCESSING", "VALIDATING"}
          /\ UNCHANGED <<job, attStatus, cancelEvent>>
    /\ UNCHANGED <<attempts, pjid, polls, output, task, overdue, provider, submits,
                   cancels, started, crashes>>

\* ProviderCancelDispatcher._claim_one: a pending event, or one whose lease has
\* run out under another dispatcher.  attempt_count saturates here.
ClaimCancel(d) ==
    /\ pc[d] = "off"
    /\ cancelEvent.status \in {"PENDING", "PROCESSING"}
    /\ cancelEvent' = [cancelEvent EXCEPT !.status = "PROCESSING", !.owner = d,
                          !.tries = IF @ < MaxCancelTries THEN @ + 1 ELSE @]
    /\ Goto(d, "load")
    /\ UNCHANGED <<job, attemptRows, output, overdue, provider, submits, cancelSeen,
                   cancels, started, crashes, ctx, res, obj, seen>>

Owns(d) == cancelEvent.status = "PROCESSING" /\ cancelEvent.owner = d

\* The lease is renewed before the worker runs; request_cancel then loads the
\* attempt of the event if the job still waits for its cancellation.
LoadCancellable(d) ==
    /\ pc[d] = "load"
    /\ IF ~Owns(d)
       THEN Rest(d, "off")
       ELSE IF jobStatus # "CANCEL_REQUESTED"
            THEN Rest(d, "publish")
            ELSE /\ ctx' = [ctx EXCEPT ![d] = Context(cancelEvent.att)]
                 /\ Goto(d, "cancel")
                 /\ UNCHANGED <<res, obj, seen>>
    /\ UNCHANGED <<job, attemptRows, output, outside>>

\* provider.cancel: the provider stops its job or not, and the answer says so
\* (CANCELLED), says something else, or is an exception.  An attempt without a
\* provider job id is UNKNOWN to RunPod and CANCELLED to the mock.
ProviderCancel(d) ==
    LET j == ctx[d].pjid IN
    /\ pc[d] = "cancel"
    /\ \/ /\ j # NoJob /\ provider[j] = "RUNNING"
          /\ provider' = [provider EXCEPT ![j] = "CANCELLED"]
       \/ UNCHANGED provider
    /\ \/ Rest(d, "retry")
       \/ Rest(d, "publish")
       \/ /\ IF j = NoJob THEN TRUE ELSE provider'[j] = "CANCELLED"
          /\ Complete(d, [kind |-> "CANCELLED", pjid |-> j])
    /\ UNCHANGED <<job, attemptRows, output, overdue, submits, cancelEvent, cancelSeen,
                   cancels, started, crashes>>

\* _mark_published and _schedule_retry act only for the holder of the lock token.
MarkPublished(d) ==
    /\ pc[d] = "publish"
    /\ cancelEvent' = IF Owns(d) THEN [cancelEvent EXCEPT !.status = "PUBLISHED"]
                      ELSE cancelEvent
    /\ Rest(d, "off")
    /\ UNCHANGED <<job, attemptRows, output, overdue, provider, submits, cancelSeen,
                   cancels, started, crashes>>

\* Mutant: retries never become a dead letter.
ScheduleRetry_Forever(d) ==
    /\ pc[d] = "retry"
    /\ cancelEvent' = [cancelEvent EXCEPT !.status = "PENDING"]
    /\ Rest(d, "off")
    /\ UNCHANGED <<job, attemptRows, output, overdue, provider, submits, cancelSeen,
                   cancels, started, crashes>>

ScheduleRetry(d) ==
    /\ pc[d] = "retry"
    /\ cancelEvent' = IF Owns(d)
                      THEN [cancelEvent EXCEPT !.status = IF cancelEvent.tries >= MaxCancelTries
                                                          THEN "DEAD_LETTER" ELSE "PENDING"]
                      ELSE cancelEvent
    /\ Rest(d, "off")
    /\ UNCHANGED <<job, attemptRows, output, overdue, provider, submits, cancelSeen,
                   cancels, started, crashes>>

\* replay_dead_letter, by an administrator.
ReplayDeadLetter ==
    /\ cancelEvent.status = "DEAD_LETTER"
    /\ cancelEvent' = [cancelEvent EXCEPT !.status = "PENDING", !.tries = 0]
    /\ UNCHANGED <<job, attemptRows, output, task, overdue, provider, submits, cancelSeen,
                   cancels, started, crashes>>

-----------------------------------------------------------------------------
(* The clock and the provider *)

\* The polling deadline of an attempt, counted from its creation.  It is read only
\* while the attempt is active.
DeadlinePasses(a) ==
    /\ a <= attempts /\ attStatus[a] \in ActiveAttemptStatuses
    /\ a \notin overdue
    /\ overdue' = overdue \cup {a}
    /\ UNCHANGED <<job, attemptRows, output, task, provider, submits, cancelEvent,
                   cancelSeen, cancels, started, crashes>>

ProviderEnds(j) ==
    /\ provider[j] = "RUNNING"
    /\ \E s \in {"SUCCEEDED", "FAILED", "CANCELLED"} :
          provider' = [provider EXCEPT ![j] = s]
    /\ UNCHANGED <<job, attemptRows, output, task, overdue, submits, cancelEvent,
                   cancelSeen, cancels, started, crashes>>
-----------------------------------------------------------------------------
(* The system *)

ExecutorStep(e) ==
    \/ Load(e)
    \/ StartSubmit(e)
    \/ Reload(e)
    \/ SubmitAccepted(e)
    \/ SubmitUnknown(e)
    \/ SubmitRejected(e)
    \/ ReadAccepted(e)
    \/ RecordSubmitAccepted(e)
    \/ Recheck(e)
    \/ ReservePoll(e)
    \/ ReserveContended(e)
    \/ Poll(e)
    \/ ApplyReconciled(e)

CompletionStep(t) ==
    \/ ReceiveArtifact(t)
    \/ ReadForCommit(t)
    \/ CommitOutput(t)
    \/ LockJob(t)
    \/ FailAttempt(t)
    \/ FinishCancelled(t)

DispatcherStep(d) ==
    \/ ClaimCancel(d)
    \/ LoadCancellable(d)
    \/ ProviderCancel(d)
    \/ MarkPublished(d)
    \/ ScheduleRetry(d)

Next ==
    \/ StartWorkflow
    \/ \E r \in Reconcilers : Reconcile(r)
    \/ \E e \in Executors : ExecutorStep(e)
    \/ \E h \in Hooks : HookReceive(h) \/ HookResult(h)
    \/ \E t \in Tasks : CompletionStep(t)
    \/ \E t \in Tasks : Crash(t)
    \/ CancelLoad
    \/ CancelCommit
    \/ \E d \in Dispatchers : DispatcherStep(d)
    \/ ReplayDeadLetter
    \/ \E a \in Attempts : DeadlinePasses(a)
    \/ \E j \in ProviderJobs : ProviderEnds(j)

Spec == Init /\ [][Next]_vars

\* Every task that runs goes on, the outbox delivers the start, the reconciler and
\* the cancel dispatcher are scheduled periodically, a cancel call returns and the
\* polling deadline is a date.  Nothing is assumed of the provider: it need not
\* answer, finish or call back.
Fairness ==
    /\ WF_vars(StartWorkflow)
    /\ \A r \in Reconcilers : WF_vars(Reconcile(r))
    /\ \A e \in Executors : WF_vars(ExecutorStep(e) \/ CompletionStep(e))
    /\ \A d \in Dispatchers : WF_vars(DispatcherStep(d) \/ CompletionStep(d))
    /\ WF_vars(CancelCommit)
    /\ \A a \in Attempts : WF_vars(DeadlinePasses(a))

FairSpec == Spec /\ Fairness

-----------------------------------------------------------------------------
(* Properties *)

\* The user's frozen seconds follow the job whatever tasks race to end it: they stay
\* frozen while it lives, are consumed exactly when it SUCCEEDED, and are given
\* back exactly when it FAILED_FINAL or was CANCELLED (provider_settlement.py,
\* cancel_generation).
SettlementFollowsJob ==
    settlement = CASE jobStatus = "SUCCEEDED" -> "SETTLED"
                   [] jobStatus \in {"FAILED_FINAL", "CANCELLED"} -> "RELEASED"
                   [] OTHER -> "RESERVED"

\* A live job has exactly one active attempt, its last one, and a finished job has
\* none: neither a lost compare-and-set nor two tasks that fail the same attempt
\* leave two attempts active or a live job with nothing to execute (fail_attempt).
AttemptChain ==
    \A a \in 1 .. attempts :
        attStatus[a] \in ActiveAttemptStatuses <=> a = attempts /\ ~JobIsTerminal

\* An attempt that runs has its provider job id, and its job is RUNNING or waits
\* for a cancellation, the two states commit_output accepts an output in
\* (record_submit_accepted advances the two rows independently).
RunningAttempt ==
    attStatus[attempts] = "RUNNING" =>
        jobStatus \in {"RUNNING", "CANCEL_REQUESTED"} /\ pjid[attempts] # NoJob

\* A job has a final output exactly when it SUCCEEDED, and that object, like every
\* object a generation_outputs row names, is still in storage: a task that loses
\* the race in commit_output deletes its own object and never the winner's.
FinalOutputStored ==
    /\ outputs \subseteq objects
    /\ IF jobStatus = "SUCCEEDED" THEN finalOutput \in outputs ELSE finalOutput = 0

\* Unless a task died, every published object is named by an output row or is still
\* held by the task that published it: every early return and lost
\* compare-and-set of commit_output deletes what finish_output published.
NoOrphanObject ==
    crashes = 0 => \A k \in objects : k \in outputs \/ \E t \in Tasks : obj[t] = k

\* The user pays only for a job that the provider completed for the attempt which
\* succeeded: a late output of an attempt that was given up never completes the
\* job for its successor (commit_output checks the attempt of its context).
ChargedForOutput ==
    settlement = "SETTLED" =>
        /\ attStatus[attempts] = "SUCCEEDED"
        /\ \E n \in 1 .. MaxSubmits : provider[<<attempts, n>>] = "SUCCEEDED"

\* Nothing that arrives after the end of a job changes its status, its settlement,
\* its attempts or its outputs: late polls, webhooks, cancel calls and provider
\* cancellations are without effect (transition_job on a terminal status).
TerminalIsFinal ==
    [][JobIsTerminal =>
          UNCHANGED <<jobStatus, settlement, attempts, attStatus, outputs, finalOutput>>]_vars

\* Every change of the job and of an existing attempt that another session can see
\* is a path of JOB_TRANSITIONS and ATTEMPT_TRANSITIONS, although the handlers
\* decide on contexts that were loaded in earlier transactions.
StatusesFollowGraph ==
    [][/\ JobPath(jobStatus, jobStatus')
       /\ \A a \in 1 .. attempts : AttemptPath(attStatus[a], attStatus'[a])]_vars

\* A job that nobody cancels ends, whatever the provider does and although the
\* workflow may die or stop early: the reconciler re-enters it and the polling
\* budget ends every attempt (control_plane.py, provider_polling.py).
JobTerminates == <>(JobIsTerminal \/ cancels > 0)

\* A cancel request leaves the outbox: it is published or, when the provider fails
\* every time, becomes a dead letter (ProviderCancelDispatcher).
CancelEventSettles ==
    cancelEvent.status \in {"PENDING", "PROCESSING"} ~>
        cancelEvent.status \in {"PUBLISHED", "DEAD_LETTER"}

=============================================================================
