---------------------------- MODULE MCExecution ----------------------------
(***************************************************************************)
(* Instances of Execution for TLC (the .cfg files give the tasks and the   *)
(* bounds), and what the repository's documents and comments say of the    *)
(* execution of a job, to be compared with what the code does.             *)
(***************************************************************************)
EXTENDS Execution

\* docs/video-maker-improvement-plan.md on cancel requests: each has a final state, a
\* next action or an alert and is never silently stuck.  A next action is a task at
\* work on the job, an outbox row to deliver or a provider job that may still call
\* back; a dead letter is the alert.  The code breaks it: a job that stays
\* CANCEL_REQUESTED is outside ACTIVE_JOB_STATUSES of control_plane.py.
CancelHasNextAction ==
    jobStatus = "CANCEL_REQUESTED" =>
        \/ cancelEvent.status \in {"PENDING", "PROCESSING", "DEAD_LETTER"}
        \/ \E t \in Tasks : pc[t] # "off"
        \/ \E j \in ProviderJobs : provider[j] = "RUNNING"

\* runpod.py on a submission whose outcome is uncertain, and docs/90 on replays: an
\* attempt is never submitted twice.  The code breaks it: execute submits the
\* attempt that its second load returns, not the one start_submit claimed.
NeverResubmitted == \A a \in Attempts : submits[a] <= 1

\* docs/02 on cancelling: before the submission to the provider a job is reliably
\* cancelled.  Once the cancellation is accepted and no provider job exists, none
\* is created.  The code breaks it: execute does not look at CANCEL_REQUESTED
\* between start_submit and provider.submit.
CancelledBeforeSubmit ==
    [][jobStatus = "CANCEL_REQUESTED" /\ (\A j \in ProviderJobs : provider[j] = "ABSENT")
          => UNCHANGED provider]_vars

\* docs/02 on cancelling: nothing is given back before the provider confirmed that
\* it stopped.  The code breaks it: any failure of a poll ends a CANCEL_REQUESTED
\* job as CANCELLED in fail_attempt, while the provider's job runs on.
ReleasedAfterConfirmation ==
    [][jobStatus = "CANCEL_REQUESTED" /\ settlement' = "RELEASED"
          => \A j \in ProviderJobs : provider[j] # "RUNNING"]_vars
=============================================================================
