---------------------------- MODULE StateMachine ----------------------------
(***************************************************************************)
(* The status graphs of a generation job and of its attempts               *)
(* (apps/api/app/state_machine.py).  transition_job and transition_attempt *)
(* are compare-and-set updates: they succeed only along an edge of these   *)
(* graphs and only while the row still has the status that was read.       *)
(***************************************************************************)

JobStatuses ==
    {"CREATED", "RESERVED", "QUEUED", "ROUTING", "SUBMITTED", "RUNNING",
     "CANCEL_REQUESTED", "POSTPROCESSING", "VALIDATING", "SUCCEEDED",
     "FAILED_FINAL", "CANCELLED", "EXPIRED", "REJECTED_POLICY"}

JOB_TERMINAL_STATUSES ==
    {"SUCCEEDED", "FAILED_FINAL", "CANCELLED", "EXPIRED", "REJECTED_POLICY"}

AttemptStatuses ==
    {"CREATED", "SUBMITTING", "SUBMITTED", "RUNNING", "SUCCEEDED",
     "FAILED_RETRYABLE", "FAILED_FINAL", "CANCELLED", "TIMED_OUT"}

ATTEMPT_TERMINAL_STATUSES ==
    {"SUCCEEDED", "FAILED_RETRYABLE", "FAILED_FINAL", "CANCELLED", "TIMED_OUT"}

JOB_TRANSITIONS ==
    [s \in JobStatuses |->
        CASE s = "CREATED"   -> {"RESERVED", "CANCELLED", "EXPIRED", "REJECTED_POLICY"}
          [] s = "RESERVED"  -> {"QUEUED", "CANCELLED", "EXPIRED"}
          [] s = "QUEUED"    -> {"ROUTING", "FAILED_FINAL", "CANCELLED", "EXPIRED",
                                 "REJECTED_POLICY"}
          [] s = "ROUTING"   -> {"SUBMITTED", "CANCEL_REQUESTED", "FAILED_FINAL",
                                 "CANCELLED", "EXPIRED", "REJECTED_POLICY"}
          [] s = "SUBMITTED" -> {"RUNNING", "CANCEL_REQUESTED", "FAILED_FINAL",
                                 "CANCELLED", "EXPIRED"}
          [] s = "RUNNING"   -> {"POSTPROCESSING", "FAILED_FINAL", "CANCEL_REQUESTED",
                                 "CANCELLED"}
          [] s = "CANCEL_REQUESTED" -> {"POSTPROCESSING", "FAILED_FINAL", "CANCELLED"}
          [] s = "POSTPROCESSING"   -> {"VALIDATING", "FAILED_FINAL", "CANCELLED"}
          [] s = "VALIDATING"       -> {"SUCCEEDED", "FAILED_FINAL", "CANCELLED"}
          [] OTHER -> {}]

_ATTEMPT_FAILURES == {"FAILED_RETRYABLE", "FAILED_FINAL", "CANCELLED", "TIMED_OUT"}

ATTEMPT_TRANSITIONS ==
    [s \in AttemptStatuses |->
        CASE s = "CREATED"    -> {"SUBMITTING", "CANCELLED"}
          [] s = "SUBMITTING" -> {"SUBMITTED"} \cup _ATTEMPT_FAILURES
          [] s = "SUBMITTED"  -> {"RUNNING"} \cup _ATTEMPT_FAILURES
          [] s = "RUNNING"    -> {"SUCCEEDED"} \cup _ATTEMPT_FAILURES
          [] OTHER -> {}]

\* What the compare-and-set of transition_job / transition_attempt allows
\* when the row has status s.
JobMay(s, to) == to \in JOB_TRANSITIONS[s]
AttemptMay(s, to) == to \in ATTEMPT_TRANSITIONS[s]

\* A handler may take several edges in one transaction; what other sessions
\* then see is the end of a path.
JobPath(s, to) ==
    \/ s = to
    \/ JobMay(s, to)
    \/ \E m \in JobStatuses : JobMay(s, m) /\ JobMay(m, to)
    \/ \E m, n \in JobStatuses : JobMay(s, m) /\ JobMay(m, n) /\ JobMay(n, to)

AttemptPath(s, to) ==
    \/ s = to
    \/ AttemptMay(s, to)
    \/ \E m \in AttemptStatuses : AttemptMay(s, m) /\ AttemptMay(m, to)
=============================================================================
