--------------------------- MODULE LocalWorkflow ---------------------------
(***************************************************************************)
(* The workflow runner inside the API process                              *)
(* (apps/api/app/local_workflow.py): one asyncio task per idempotency key, *)
(* registered in _runs.  The key is derived from the job, so the start of  *)
(* another job with the same key, which start refuses, cannot happen.      *)
(***************************************************************************)
EXTENDS Naturals

CONSTANT Keys   \* idempotency keys

VARIABLES
    accepting,   \* _accepting
    runs,        \* _runs: the state of the task registered for each key
    unfinished   \* how many tasks execute each key, registered or not

runnerVars == <<accepting, runs, unfinished>>

RunStates == {"NONE", "RUNNING", "COMPLETED", "FAILED", "CANCELLED"}

RunnerTypeOK ==
    /\ accepting \in BOOLEAN
    /\ runs \in [Keys -> RunStates]
    /\ unfinished \in [Keys -> Nat]

RunnerInit ==
    /\ accepting = FALSE
    /\ runs = [k \in Keys |-> "NONE"]
    /\ unfinished = [k \in Keys |-> 0]

RunnerStartup ==
    /\ accepting' = TRUE
    /\ UNCHANGED <<runs, unfinished>>

\* start: the caller shares the registered task unless that failed or was
\* cancelled.  There is no await between the look-up and the registration.
Startable_Always(k) == TRUE

Startable(k) == runs[k] \in {"NONE", "FAILED", "CANCELLED"}

StartRun(k) ==
    /\ IF Startable(k)
         THEN /\ runs' = [runs EXCEPT ![k] = "RUNNING"]
              /\ unfinished' = [unfinished EXCEPT ![k] = @ + 1]
         ELSE UNCHANGED <<runs, unfinished>>
    /\ UNCHANGED accepting

\* The task of _execute ends.
RunEnds(k, state) ==
    /\ runs' = [runs EXCEPT ![k] = state]
    /\ unfinished' = [unfinished EXCEPT ![k] = @ - 1]
    /\ UNCHANGED accepting

\* shutdown, first part: every registered task that does not wait for a thread is
\* cancelled at once; the others when their thread has ended.
CancelRuns(atOnce) ==
    /\ accepting' = FALSE
    /\ runs' = [k \in Keys |-> IF runs[k] = "RUNNING" /\ k \in atOnce THEN "CANCELLED" ELSE runs[k]]
    /\ unfinished' = [k \in Keys |-> IF runs[k] = "RUNNING" /\ k \in atOnce
                                       THEN unfinished[k] - 1 ELSE unfinished[k]]

\* shutdown, last part: gather has returned.
RunnerStopped ==
    /\ \A k \in Keys : runs[k] # "RUNNING"
    /\ runs' = [k \in Keys |-> "NONE"]
    /\ UNCHANGED <<accepting, unfinished>>

=============================================================================
