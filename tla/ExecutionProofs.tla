-------------------------- MODULE ExecutionProofs --------------------------
(***************************************************************************)
(* Proofs about Execution, for every number of reconcilers, webhooks and   *)
(* dispatchers and every value of the attempt, polling and retry limits.   *)
(***************************************************************************)
EXTENDS Execution, TLAPS

-----------------------------------------------------------------------------
(* The inductive invariant *)

\* The statuses that transactions leave behind: the others are passed through
\* inside one transaction or belong to the creation of the job.
VisibleStatus ==
    jobStatus \in {"QUEUED", "ROUTING", "RUNNING", "CANCEL_REQUESTED", "SUCCEEDED",
                   "FAILED_FINAL", "CANCELLED"}

\* While the job is QUEUED nothing was claimed, so that a cancellation which loaded
\* the attempts before it locked the job still cancels all of them.
QueuedIsFresh == jobStatus = "QUEUED" => attempts = 1 /\ attStatus[1] = "CREATED"

\* A task about to record a provider job id has one.
HasId(t) == pc[t] \in {"accepted", "record"} => res[t].pjid # NoJob

\* What a task loaded is a row that exists.
LoadedRows ==
    /\ \A t \in Tasks : ctx[t].att <= attempts /\ HasId(t)
    /\ cancelSeen <= attempts
    /\ cancelEvent.att <= attempts

RowsInv ==
    /\ VisibleStatus
    /\ QueuedIsFresh
    /\ AttemptChain
    /\ SettlementFollowsJob
    /\ RunningAttempt

IInv == TypeOK /\ LoadedRows /\ RowsInv

-----------------------------------------------------------------------------
(* The moves of a task *)

TaskInv ==
    /\ pc \in [Tasks -> Labels]
    /\ ctx \in [Tasks -> Contexts]
    /\ res \in [Tasks -> Results]
    /\ obj \in [Tasks -> Nat]
    /\ seen \in [Tasks -> JobStatuses \cup AttemptStatuses]
    /\ \A t \in Tasks : ctx[t].att <= attempts /\ HasId(t)

\* Rows are only ever added.
Grows == attempts \in Attempts /\ attempts' \in Attempts /\ attempts <= attempts'

\* The constants of the resting state have their types.
LEMMA RestingValues ==
    /\ NoContext \in Contexts /\ NoContext.att = 1
    /\ NoResult \in Results
    /\ NoJob \in MaybeJob
    /\ 1 \in Attempts
    /\ "QUEUED" \in JobStatuses
    /\ Attempts \subseteq Nat
    /\ \A a \in Attempts : 1 <= a
BY BoundsAssumption
   DEF NoContext, Contexts, NoResult, Results, ResultKinds, NoJob, MaybeJob, Attempts,
       JobStatuses

\* A task that drops what it holds and stands at a label.
LEMMA RestMove ==
    ASSUME TaskInv, Grows, NEW t \in Tasks, NEW l \in Labels \ {"accepted", "record"},
           Rest(t, l)
    PROVE  TaskInv'
<1>1. \A u \in Tasks : ctx[u].att \in Nat /\ ctx[u].att <= attempts
  BY RestingValues DEF TaskInv, Contexts
<1>n. attempts \in Nat /\ attempts' \in Nat /\ attempts <= attempts' /\ 1 <= attempts'
  BY RestingValues DEF Grows
<1>2. \A u \in Tasks : ctx'[u].att <= attempts'
  BY <1>1, <1>n, RestingValues DEF TaskInv, Rest
<1>3. \A u \in Tasks : HasId(u)'
  BY DEF TaskInv, HasId, Rest, Goto
<1> QED BY <1>2, <1>3, RestingValues DEF TaskInv, Rest, Goto

\* A task that ended its step.
LEMMA EndStepMove ==
    ASSUME TaskInv, Grows, NEW t \in Tasks, NEW b \in BOOLEAN, EndStep(t, b)
    PROVE  TaskInv'
<1>1. "publish" \in Labels /\ "load" \in Labels /\ "off" \in Labels
  BY DEF Labels
<1> QED BY <1>1, RestMove DEF EndStep

\* A task that retries.
LEMMA RetryMove ==
    ASSUME TaskInv, Grows, NEW t \in Tasks, RetryAttempt(t)
    PROVE  TaskInv'
<1>1. "load" \in Labels
  BY DEF Labels
<1> QED BY <1>1, RestMove, EndStepMove DEF RetryAttempt

\* A task that goes on with the context it has.
LEMMA GotoMove ==
    ASSUME TaskInv, Grows, NEW t \in Tasks, NEW l \in Labels, Goto(t, l), UNCHANGED ctx,
           res' \in [Tasks -> Results], obj' \in [Tasks -> Nat],
           seen' \in [Tasks -> JobStatuses \cup AttemptStatuses],
           \A u \in Tasks : HasId(u)'
    PROVE  TaskInv'
<1>1. \A u \in Tasks : ctx[u].att \in Nat /\ ctx[u].att <= attempts
  BY RestingValues DEF TaskInv, Contexts
<1>n. attempts \in Nat /\ attempts' \in Nat /\ attempts <= attempts' /\ 1 <= attempts'
  BY RestingValues DEF Grows
<1>2. \A u \in Tasks : ctx'[u].att <= attempts'
  BY <1>1, <1>n, RestingValues DEF TaskInv
<1> QED BY <1>2 DEF TaskInv, Goto

\* A task that goes on and records no provider job id.
LEMMA PlainMove ==
    ASSUME TaskInv, Grows, NEW t \in Tasks, NEW l \in Labels \ {"accepted", "record"},
           Goto(t, l), UNCHANGED ctx, res' \in [Tasks -> Results],
           \A u \in Tasks \ {t} : res'[u] = res[u], obj' \in [Tasks -> Nat],
           seen' \in [Tasks -> JobStatuses \cup AttemptStatuses]
    PROVE  TaskInv'
<1>1. \A u \in Tasks : HasId(u)'
  BY DEF TaskInv, HasId, Goto
<1> QED BY <1>1, GotoMove

\* A task that loads an attempt.
LEMMA LoadMove ==
    ASSUME TaskInv, TypeOK, attempts' = attempts, NEW t \in Tasks,
           NEW l \in Labels \ {"accepted", "record"},
           Goto(t, l), NEW a \in 1 .. attempts, ctx' = [ctx EXCEPT ![t] = Context(a)],
           res' \in [Tasks -> Results], \A u \in Tasks \ {t} : res'[u] = res[u],
           UNCHANGED <<obj, seen>>
    PROVE  TaskInv'
<1>1. a \in Attempts
  BY BoundsAssumption DEF TypeOK, Attempts
<1>2. Context(a) \in Contexts /\ Context(a).att = a
  BY <1>1 DEF TypeOK, Context, Contexts
<1>3. \A u \in Tasks : ctx'[u].att <= attempts'
  BY <1>2 DEF TaskInv
<1>4. \A u \in Tasks : HasId(u)'
  BY DEF TaskInv, HasId, Goto
<1> QED BY <1>2, <1>3, <1>4 DEF TaskInv, Goto

\* A task that starts to apply a result.
LEMMA CompleteMove ==
    ASSUME TaskInv, Grows, NEW t \in Tasks, NEW r \in Results, Complete(t, r)
    PROVE  TaskInv'
<1>1. CASE r.kind = "WAIT"
  BY <1>1, EndStepMove DEF Complete
<1>2. CASE r.kind # "WAIT"
  <2> DEFINE l == CASE r.kind \in {"OUTPUT", "CORRUPT"} -> "receive"
                    [] r.kind = "CANCELLED" -> "finish"
                    [] OTHER -> "fail"
  <2>1. l \in {"receive", "finish", "fail"}
    BY Zenon
  <2>4. l \in Labels \ {"accepted", "record"}
    BY <2>1 DEF Labels
  <2>2. Goto(t, l) /\ res' = [res EXCEPT ![t] = r] /\ UNCHANGED <<ctx, obj, seen>>
    BY <1>2, Zenon DEF Complete
  <2>3. res' \in [Tasks -> Results]
    BY <2>2 DEF TaskInv
  <2> HIDE DEF l
  <2> QED BY <2>2, <2>3, <2>4, PlainMove DEF TaskInv
<1> QED BY <1>1, <1>2

\* Every answer of a poll is a result.
LEMMA PollResultsType ==
    ASSUME NEW c
    PROVE  PollResults(c) \subseteq Results
BY DEF PollResults, Results, ResultKinds, MaybeJob

\* TypeOK and LoadedRows say of the tasks what TaskInv says.
LEMMA TaskInvHolds == TypeOK /\ LoadedRows => TaskInv
BY DEF TypeOK, LoadedRows, TaskInv

\* While no row is added, rows grow.
LEMMA Stays == TypeOK /\ UNCHANGED attempts => Grows
<1>1. ASSUME TypeOK, UNCHANGED attempts PROVE Grows
  BY <1>1, RestingValues DEF TypeOK, Grows
<1> QED BY <1>1

-----------------------------------------------------------------------------
(* Steps that change only the tasks *)

\* A step that leaves the rows alone preserves what is said of them.
LEMMA Frame ==
    ASSUME RowsInv, UNCHANGED <<jobStatus, settlement, attempts, attStatus, pjid>>
    PROVE  RowsInv'
BY DEF RowsInv, VisibleStatus, QueuedIsFresh, AttemptChain, SettlementFollowsJob,
       RunningAttempt, JobIsTerminal

\* A step that changes only the tasks preserves the invariant when they move well.
LEMMA TasksOnly ==
    ASSUME IInv, TaskInv', UNCHANGED <<job, attemptRows, output, outside>>
    PROVE  IInv'
<1>1. TypeOK'
  BY DEF IInv, TypeOK, TaskInv, job, attemptRows, output, outside
<1>2. LoadedRows'
  BY DEF IInv, LoadedRows, TaskInv, attemptRows, outside
<1>3. RowsInv'
  BY Frame DEF IInv, job, attemptRows
<1> QED BY <1>1, <1>2, <1>3 DEF IInv

\* The labels, one by one.
LEMMA LabelNames ==
    /\ "off" \in Labels /\ "load" \in Labels /\ "start" \in Labels /\ "reload" \in Labels
    /\ "submit" \in Labels /\ "accepted" \in Labels /\ "record" \in Labels
    /\ "apply" \in Labels /\ "recheck" \in Labels /\ "reserve" \in Labels
    /\ "poll" \in Labels /\ "event" \in Labels /\ "commit" \in Labels /\ "cas" \in Labels
    /\ "fail" \in Labels /\ "failing" \in Labels /\ "finishing" \in Labels
    /\ "cancel" \in Labels /\ "publish" \in Labels /\ "retry" \in Labels
BY DEF Labels

\* Steps of the execution loop that change no row.
LEMMA ExecutorQuiet ==
    ASSUME IInv, NEW e \in Tasks,
           \/ Load(e) \/ Reload(e) \/ SubmitUnknown(e) \/ SubmitRejected(e)
           \/ ReadAccepted(e) \/ Recheck(e) \/ ReserveContended(e)
    PROVE  IInv'
<1> USE LabelNames
<1>i. TypeOK /\ TaskInv
  BY TaskInvHolds DEF IInv
<1>a. attempts \in 1 .. attempts
  BY <1>i, BoundsAssumption DEF TypeOK, Attempts
<1>1. CASE Load(e)
  <2>1. UNCHANGED <<job, attemptRows, output, outside>> /\ Grows
    BY <1>1, <1>i, Stays DEF Load, attemptRows
  <2>2. CASE JobIsTerminal
    BY <1>1, <1>i, <2>1, <2>2, EndStepMove, TasksOnly DEF Load
  <2>3. CASE ~JobIsTerminal
    <3>1. \E l \in Labels \ {"accepted", "record"} : Goto(e, l)
      BY <1>1, <2>3 DEF Load
    <3>2. /\ ctx' = [ctx EXCEPT ![e] = Context(attempts)]
          /\ UNCHANGED <<res, obj, seen>> /\ attempts' = attempts
      BY <1>1, <2>1, <2>3 DEF Load, attemptRows
    <3>3. TaskInv'
      BY <1>i, <1>a, <3>1, <3>2, LoadMove DEF TaskInv
    <3> QED BY <2>1, <3>3, TasksOnly
  <2> QED BY <2>2, <2>3
<1>2. CASE Reload(e)
  <2>1. UNCHANGED <<job, attemptRows, output, outside>> /\ Grows
    BY <1>2, <1>i, Stays DEF Reload, attemptRows
  <2>2. CASE JobIsTerminal
    BY <1>2, <1>i, <2>1, <2>2, EndStepMove, TasksOnly DEF Reload
  <2>3. CASE ~JobIsTerminal
    <3>1. Goto(e, "submit")
      BY <1>2, <2>3 DEF Reload
    <3>2. /\ ctx' = [ctx EXCEPT ![e] = Context(attempts)]
          /\ UNCHANGED <<res, obj, seen>> /\ attempts' = attempts
      BY <1>2, <2>1, <2>3 DEF Reload, attemptRows
    <3>3. TaskInv'
      BY <1>i, <1>a, <3>1, <3>2, LoadMove DEF TaskInv
    <3> QED BY <2>1, <3>3, TasksOnly
  <2> QED BY <2>2, <2>3
<1>3. CASE SubmitUnknown(e)
  BY <1>3, <1>i, Stays, PlainMove, TasksOnly DEF SubmitUnknown, attemptRows, TaskInv
<1>4. CASE SubmitRejected(e)
  <2>1. res' \in [Tasks -> Results]
    BY <1>4, <1>i DEF SubmitRejected, TaskInv, Results, ResultKinds, MaybeJob
  <2> QED
    BY <1>4, <1>i, <2>1, Stays, PlainMove, TasksOnly DEF SubmitRejected, attemptRows, TaskInv
<1>5. CASE ReadAccepted(e)
  <2>1. \E l \in Labels : Goto(e, l)
    BY <1>5 DEF ReadAccepted
  <2>2. pc[e] = "accepted" /\ HasId(e)
    BY <1>5, <1>i DEF ReadAccepted, TaskInv
  <2>3. \A u \in Tasks : HasId(u)'
    BY <1>5, <1>i, <2>1, <2>2 DEF ReadAccepted, TaskInv, HasId, Goto
  <2> QED
    BY <1>5, <1>i, <2>1, <2>3, Stays, GotoMove, TasksOnly DEF ReadAccepted, attemptRows,
       TaskInv
<1>6. CASE Recheck(e)
  <2>1. UNCHANGED <<job, attemptRows, output, outside>> /\ Grows
    BY <1>6, <1>i, Stays DEF Recheck, attemptRows
  <2>2. CASE JobIsTerminal \/ attStatus[attempts] \notin PollableStatuses
    BY <1>6, <1>i, <2>1, <2>2, EndStepMove, TasksOnly DEF Recheck
  <2>3. CASE ~(JobIsTerminal \/ attStatus[attempts] \notin PollableStatuses)
    <3>1. Goto(e, "reserve")
      BY <1>6, <2>3 DEF Recheck
    <3>2. /\ ctx' = [ctx EXCEPT ![e] = Context(attempts)]
          /\ res' = [res EXCEPT ![e] = NoResult]
          /\ UNCHANGED <<obj, seen>> /\ attempts' = attempts
      BY <1>6, <2>1, <2>3 DEF Recheck, attemptRows
    <3>3. res' \in [Tasks -> Results]
      BY <3>2, <1>i, RestingValues DEF TaskInv
    <3>4. TaskInv'
      BY <1>i, <1>a, <3>1, <3>2, <3>3, LoadMove
    <3> QED BY <2>1, <3>4, TasksOnly
  <2> QED BY <2>2, <2>3
<1>7. CASE ReserveContended(e)
  BY <1>7, <1>i, Stays, EndStepMove, TasksOnly DEF ReserveContended, attemptRows
<1> QED BY <1>1, <1>2, <1>3, <1>4, <1>5, <1>6, <1>7

\* Results of polls, webhooks and reconciled ids reach the completion path.
LEMMA ResultQuiet ==
    ASSUME IInv, NEW e \in Tasks,
           \/ Poll(e) \/ ApplyReconciled(e) \/ HookReceive(e) \/ HookResult(e)
           \/ LockJob(e) \/ LoadCancellable(e)
    PROVE  IInv'
<1> USE LabelNames
<1>i. TypeOK /\ TaskInv
  BY TaskInvHolds DEF IInv
<1>u. UNCHANGED <<job, attemptRows, output, outside>>
  BY DEF Poll, ApplyReconciled, HookReceive, HookResult, LockJob, LoadCancellable
<1>g. Grows /\ attempts' = attempts
  BY <1>i, <1>u, Stays DEF attemptRows
<1>s. SUFFICES TaskInv'
  BY <1>u, TasksOnly
<1>1. CASE Poll(e)
  <2>1. CASE EndStep(e, FALSE)
    BY <1>i, <1>g, <2>1, EndStepMove
  <2>2. ASSUME NEW r \in PollResults(ctx[e]),
               IF ctx[e].pjid = NoJob
               THEN /\ Goto(e, "accepted")
                    /\ res' = [res EXCEPT ![e] = r]
                    /\ UNCHANGED <<ctx, obj, seen>>
               ELSE Complete(e, r)
        PROVE  TaskInv'
    <3>1. r \in Results
      BY PollResultsType
    <3>2. CASE ctx[e].pjid # NoJob
      BY <1>i, <1>g, <2>2, <3>1, <3>2, CompleteMove
    <3>3. CASE ctx[e].pjid = NoJob
      <4>1. res' \in [Tasks -> Results]
        BY <1>i, <2>2, <3>1, <3>3 DEF TaskInv
      <4>2. r.pjid # NoJob
        BY BoundsAssumption DEF PollResults, ProviderJobs, Attempts, NoJob
      <4>3. \A u \in Tasks : HasId(u)'
        BY <1>i, <2>2, <3>3, <4>2 DEF TaskInv, HasId, Goto
      <4> QED BY <1>i, <1>g, <2>2, <3>3, <4>1, <4>3, GotoMove DEF TaskInv
    <3> QED BY <3>2, <3>3
  <2> QED BY <1>1, <2>1, <2>2 DEF Poll
<1>2. CASE ApplyReconciled(e)
  <2>1. res[e] \in Results
    BY <1>i DEF TaskInv
  <2> QED BY <1>2, <1>i, <1>g, <2>1, CompleteMove, EndStepMove DEF ApplyReconciled
<1>3. CASE HookReceive(e)
  <2>1. PICK a \in 1 .. attempts : ctx' = [ctx EXCEPT ![e] = Context(a)]
    BY <1>3 DEF HookReceive
  <2> QED BY <1>3, <1>i, <1>g, <2>1, LoadMove DEF HookReceive, TaskInv
<1>4. CASE HookResult(e)
  BY <1>4, <1>i, <1>g, EndStepMove, CompleteMove, PollResultsType DEF HookResult
<1>5. CASE LockJob(e)
  <2>1. \E l \in Labels \ {"accepted", "record"} : Goto(e, l)
    BY <1>5 DEF LockJob
  <2>2. ctx[e].att \in Attempts
    BY <1>i DEF TaskInv, Contexts
  <2>3. seen' \in [Tasks -> JobStatuses \cup AttemptStatuses]
    BY <1>5, <1>i, <2>2 DEF LockJob, TaskInv, TypeOK
  <2> QED BY <1>5, <1>i, <1>g, <2>1, <2>3, PlainMove DEF LockJob, TaskInv
<1>6. CASE LoadCancellable(e)
  <2>1. CASE ~Owns(e)
    BY <1>6, <1>i, <1>g, <2>1, RestMove DEF LoadCancellable
  <2>2. CASE Owns(e) /\ jobStatus # "CANCEL_REQUESTED"
    BY <1>6, <1>i, <1>g, <2>2, RestMove DEF LoadCancellable
  <2>3. CASE Owns(e) /\ jobStatus = "CANCEL_REQUESTED"
    <3>1. cancelEvent.att \in 1 .. attempts
      BY RestingValues DEF IInv, TypeOK, LoadedRows, CancelEvents, Attempts
    <3> QED BY <1>6, <1>i, <1>g, <2>3, <3>1, LoadMove DEF LoadCancellable, TaskInv
  <2> QED BY <2>1, <2>2, <2>3
<1> QED BY <1>1, <1>2, <1>3, <1>4, <1>5, <1>6

-----------------------------------------------------------------------------
(* Steps that change no job or attempt status *)

\* The part of the invariant that such a step has to re-establish.
LEMMA RowsKept ==
    ASSUME IInv, TypeOK', TaskInv',
           UNCHANGED <<jobStatus, settlement, attempts, attStatus, pjid>>,
           cancelSeen' <= attempts, cancelEvent'.att <= attempts
    PROVE  IInv'
<1>1. LoadedRows'
  BY DEF LoadedRows, TaskInv
<1>2. RowsInv'
  BY Frame DEF IInv
<1> QED BY <1>1, <1>2 DEF IInv

\* The outbox delivers the start of the workflow.
LEMMA StartWorkflowStep == ASSUME IInv, StartWorkflow PROVE IInv'
<1>i. TypeOK /\ TaskInv /\ LoadedRows
  BY TaskInvHolds DEF IInv
<1>1. TaskInv'
  BY <1>i, Stays, RestMove, LabelNames DEF StartWorkflow, attemptRows, Tasks, Executors
<1>2. TypeOK'
  BY <1>i, <1>1 DEF StartWorkflow, TypeOK, TaskInv, job, attemptRows, output
<1> QED BY <1>i, <1>1, <1>2, RowsKept DEF StartWorkflow, job, attemptRows, LoadedRows

\* A task dies.
LEMMA CrashStep == ASSUME IInv, NEW t \in Tasks, Crash(t) PROVE IInv'
<1>i. TypeOK /\ TaskInv /\ LoadedRows
  BY TaskInvHolds DEF IInv
<1>1. TaskInv'
  BY <1>i, Stays, RestMove, LabelNames DEF Crash, attemptRows
<1>2. TypeOK'
  BY <1>i, <1>1 DEF Crash, TypeOK, TaskInv, job, attemptRows
<1> QED BY <1>i, <1>1, <1>2, RowsKept DEF Crash, job, attemptRows, LoadedRows

\* The provider accepts a submission.
LEMMA SubmitAcceptedStep == ASSUME IInv, NEW e \in Tasks, SubmitAccepted(e) PROVE IInv'
<1>i. TypeOK /\ TaskInv /\ LoadedRows
  BY TaskInvHolds DEF IInv
<1> DEFINE a == ctx[e].att
           j == <<a, submits[a] + 1>>
<1>1. a \in Attempts /\ submits[a] \in Nat
  BY <1>i, BoundsAssumption DEF TaskInv, Contexts, TypeOK
<1>2. submits[a] + 1 \in 1 .. MaxSubmits
  BY <1>1, BoundsAssumption DEF SubmitAccepted
<1>3. j \in ProviderJobs
  BY <1>1, <1>2 DEF ProviderJobs
<1>4. /\ res' \in [Tasks -> Results]
      /\ \E l \in Labels : Goto(e, l)
      /\ \A u \in Tasks : HasId(u)'
  <2>1. [kind |-> "NONE", pjid |-> j] \in Results
    BY <1>3 DEF Results, ResultKinds, MaybeJob
  <2>2. \/ res' = [res EXCEPT ![e] = [kind |-> "NONE", pjid |-> j]] /\ Goto(e, "accepted")
        \/ UNCHANGED res /\ Goto(e, "recheck")
    BY DEF SubmitAccepted
  <2>3. j # NoJob
    BY <1>1, BoundsAssumption DEF Attempts, NoJob
  <2> HIDE DEF j
  <2>4. res' \in [Tasks -> Results] /\ \E l \in Labels : Goto(e, l)
    BY <1>i, <2>1, <2>2, LabelNames DEF TaskInv
  <2>5. \A u \in Tasks : HasId(u)'
    BY <1>i, <2>2, <2>3 DEF TaskInv, HasId, Goto
  <2> QED BY <2>4, <2>5
<1>5. TaskInv'
  BY <1>i, <1>4, Stays, GotoMove DEF SubmitAccepted, attemptRows, TaskInv
<1>6. submits' \in [Attempts -> 0 .. MaxSubmits]
  BY <1>i, <1>1, <1>2 DEF SubmitAccepted, TypeOK
<1>7. provider' \in [ProviderJobs -> ProviderStatuses]
  BY <1>i, <1>3 DEF SubmitAccepted, TypeOK, ProviderStatuses
<1>8. TypeOK'
  BY <1>i, <1>5, <1>6, <1>7 DEF SubmitAccepted, TypeOK, TaskInv, job, attemptRows, output
<1> QED BY <1>i, <1>5, <1>8, RowsKept DEF SubmitAccepted, job, attemptRows, LoadedRows

\* A poll slot is taken, refused or found exhausted.
LEMMA ReservePollStep == ASSUME IInv, NEW e \in Tasks, ReservePoll(e) PROVE IInv'
<1>i. TypeOK /\ TaskInv /\ LoadedRows
  BY TaskInvHolds DEF IInv
<1> DEFINE a == ctx[e].att
<1>1. a \in Attempts /\ polls[a] \in 0 .. MaximumPolls
  BY <1>i DEF TaskInv, Contexts, TypeOK
<1>2. polls' \in [Attempts -> 0 .. MaximumPolls]
  <2>1. \/ UNCHANGED polls
        \/ polls[a] < MaximumPolls /\ polls' = [polls EXCEPT ![a] = polls[a] + 1]
    BY DEF ReservePoll
  <2>2. polls[a] < MaximumPolls => polls[a] + 1 \in 0 .. MaximumPolls
    BY <1>1, BoundsAssumption
  <2> HIDE DEF a
  <2> QED BY <1>i, <1>1, <2>1, <2>2 DEF TypeOK
<1>3. Grows
  BY <1>i, Stays DEF ReservePoll
<1>4. TaskInv'
  <2>1. CASE EndStep(e, FALSE)
    BY <1>i, <1>3, <2>1, EndStepMove
  <2>2. CASE /\ res' = [res EXCEPT ![e] = [kind |-> "TIMED_OUT", pjid |-> NoJob]]
             /\ Goto(e, "fail")
             /\ UNCHANGED <<ctx, obj, seen>>
    <3>1. res' \in [Tasks -> Results]
      BY <1>i, <2>2 DEF TaskInv, Results, ResultKinds, MaybeJob
    <3> QED BY <1>i, <1>3, <2>2, <3>1, PlainMove, LabelNames DEF TaskInv
  <2>3. CASE Goto(e, "poll") /\ UNCHANGED <<ctx, res, obj, seen>>
    BY <1>i, <1>3, <2>3, PlainMove, LabelNames DEF TaskInv
  <2> QED BY <2>1, <2>2, <2>3 DEF ReservePoll
<1>5. TypeOK'
  BY <1>i, <1>2, <1>4 DEF ReservePoll, TypeOK, TaskInv, job, output, outside
<1> QED BY <1>i, <1>4, <1>5, RowsKept DEF ReservePoll, job, outside, LoadedRows

\* An artifact is received or refused.
LEMMA ReceiveArtifactStep == ASSUME IInv, NEW t \in Tasks, ReceiveArtifact(t) PROVE IInv'
<1>i. TypeOK /\ TaskInv /\ LoadedRows
  BY TaskInvHolds DEF IInv
<1>1. nextKey \in Nat /\ objects \subseteq Nat
  BY <1>i DEF TypeOK
<1>2. /\ obj' \in [Tasks -> Nat] /\ res' \in [Tasks -> Results]
      /\ objects' \subseteq Nat /\ nextKey' \in Nat
  BY <1>i, <1>1 DEF ReceiveArtifact, TaskInv, Results, ResultKinds
<1>3. \E l \in Labels \ {"accepted", "record"} : Goto(t, l)
  BY LabelNames DEF ReceiveArtifact
<1>4. TaskInv'
  BY <1>i, <1>2, <1>3, Stays, PlainMove DEF ReceiveArtifact, attemptRows, TaskInv
<1>5. TypeOK'
  BY <1>i, <1>2, <1>4 DEF ReceiveArtifact, TypeOK, TaskInv, job, attemptRows, outside
<1> QED BY <1>i, <1>4, <1>5, RowsKept DEF ReceiveArtifact, job, attemptRows, outside, LoadedRows

\* commit_output reads the rows, and may give up its object.
LEMMA ReadForCommitStep == ASSUME IInv, NEW t \in Tasks, ReadForCommit(t) PROVE IInv'
<1>i. TypeOK /\ TaskInv /\ LoadedRows
  BY TaskInvHolds DEF IInv
<1>1. UNCHANGED <<jobStatus, settlement, attempts, attStatus, pjid, polls, outputs,
                  finalOutput, nextKey, outside>> /\ objects' \subseteq Nat
  BY <1>i DEF ReadForCommit, DiscardObject, job, TypeOK
<1>2. Grows
  BY <1>i, <1>1, Stays
<1>3. TaskInv'
  <2>1. CASE EndStep(t, TRUE)
    BY <1>i, <1>2, <2>1, EndStepMove
  <2>2. CASE /\ seen' = [seen EXCEPT ![t] = jobStatus]
             /\ Goto(t, "cas")
             /\ UNCHANGED <<ctx, res, obj>>
    <3>1. seen' \in [Tasks -> JobStatuses \cup AttemptStatuses]
      BY <1>i, <2>2 DEF TaskInv, TypeOK
    <3> QED BY <1>i, <1>2, <2>2, <3>1, PlainMove, LabelNames DEF TaskInv
  <2> QED BY <2>1, <2>2 DEF ReadForCommit, DiscardObject
<1>4. TypeOK'
  BY <1>i, <1>1, <1>3 DEF TypeOK, TaskInv, outside
<1> QED BY <1>i, <1>1, <1>3, <1>4, RowsKept DEF outside, LoadedRows

\* A cancel call loads the job.
LEMMA CancelLoadStep == ASSUME IInv, CancelLoad PROVE IInv'
<1>i. TypeOK /\ TaskInv /\ LoadedRows
  BY TaskInvHolds DEF IInv
<1>1. TaskInv'
  BY <1>i DEF CancelLoad, TaskInv, HasId, task, attemptRows
<1>2. TypeOK'
  BY <1>i, <1>1 DEF CancelLoad, TypeOK, TaskInv, job, attemptRows, output
<1>3. attempts <= attempts
  BY <1>i, RestingValues DEF TypeOK
<1> QED BY <1>i, <1>1, <1>2, <1>3, RowsKept DEF CancelLoad, job, attemptRows, LoadedRows

\* The dispatcher claims the cancel event.
LEMMA ClaimCancelStep == ASSUME IInv, NEW d \in Dispatchers, ClaimCancel(d) PROVE IInv'
<1>i. TypeOK /\ TaskInv /\ LoadedRows
  BY TaskInvHolds DEF IInv
<1>t. d \in Tasks
  BY DEF Tasks
<1>1. TaskInv'
  BY <1>i, <1>t, Stays, PlainMove, LabelNames DEF ClaimCancel, attemptRows, TaskInv
<1>2. cancelEvent' \in CancelEvents /\ cancelEvent'.att = cancelEvent.att
  <2> DEFINE n == IF cancelEvent.tries < MaxCancelTries THEN cancelEvent.tries + 1
                  ELSE cancelEvent.tries
  <2>1. cancelEvent \in CancelEvents /\ cancelEvent.tries \in Nat
    BY <1>i DEF TypeOK, CancelEvents
  <2>2. n \in Nat
    BY <2>1, BoundsAssumption
  <2>3. cancelEvent' = [cancelEvent EXCEPT !.status = "PROCESSING", !.owner = d, !.tries = n]
    BY DEF ClaimCancel
  <2> HIDE DEF n
  <2> QED BY <2>1, <2>2, <2>3 DEF CancelEvents, OutboxStatuses
<1>3. TypeOK'
  BY <1>i, <1>1, <1>2 DEF ClaimCancel, TypeOK, TaskInv, job, attemptRows, output
<1> QED BY <1>i, <1>1, <1>2, <1>3, RowsKept DEF ClaimCancel, job, attemptRows, LoadedRows

\* The provider is asked to cancel.
LEMMA ProviderCancelStep == ASSUME IInv, NEW d \in Dispatchers, ProviderCancel(d) PROVE IInv'
<1>i. TypeOK /\ TaskInv /\ LoadedRows
  BY TaskInvHolds DEF IInv
<1>t. d \in Tasks
  BY DEF Tasks
<1>1. ctx[d].pjid \in MaybeJob
  BY <1>i, <1>t DEF TaskInv, Contexts
<1>2. [kind |-> "CANCELLED", pjid |-> ctx[d].pjid] \in Results
  BY <1>1 DEF Results, ResultKinds
<1>3. Grows
  BY <1>i, Stays DEF ProviderCancel, attemptRows
<1>4. \/ Rest(d, "retry") \/ Rest(d, "publish")
      \/ Complete(d, [kind |-> "CANCELLED", pjid |-> ctx[d].pjid])
  BY DEF ProviderCancel
<1>5. TaskInv'
  BY <1>i, <1>t, <1>2, <1>3, <1>4, RestMove, CompleteMove, LabelNames
<1>6. provider' \in [ProviderJobs -> ProviderStatuses]
  BY <1>i DEF ProviderCancel, TypeOK, ProviderStatuses
<1>7. TypeOK'
  BY <1>i, <1>5, <1>6 DEF ProviderCancel, TypeOK, TaskInv, job, attemptRows, output
<1> QED BY <1>i, <1>5, <1>7, RowsKept DEF ProviderCancel, job, attemptRows, LoadedRows

\* The dispatcher ends its turn.
LEMMA DispatcherEndStep ==
    ASSUME IInv, NEW d \in Dispatchers, MarkPublished(d) \/ ScheduleRetry(d)
    PROVE  IInv'
<1>i. TypeOK /\ TaskInv /\ LoadedRows
  BY TaskInvHolds DEF IInv
<1>t. d \in Tasks
  BY DEF Tasks
<1>u. UNCHANGED <<job, attemptRows, output, overdue, provider, submits, cancelSeen,
                  cancels, started, crashes>> /\ Rest(d, "off")
  BY DEF MarkPublished, ScheduleRetry
<1>1. TaskInv'
  BY <1>i, <1>t, <1>u, Stays, RestMove, LabelNames DEF attemptRows
<1>2. cancelEvent' \in CancelEvents /\ cancelEvent'.att = cancelEvent.att
  BY <1>i DEF MarkPublished, ScheduleRetry, TypeOK, CancelEvents, OutboxStatuses
<1>3. TypeOK'
  BY <1>i, <1>u, <1>1, <1>2 DEF TypeOK, TaskInv, job, attemptRows, output
<1> QED BY <1>i, <1>u, <1>1, <1>2, <1>3, RowsKept DEF job, attemptRows, LoadedRows

\* An administrator, the clock and the provider.
LEMMA EnvironmentStep ==
    ASSUME IInv,
           \/ ReplayDeadLetter
           \/ \E a \in Attempts : DeadlinePasses(a)
           \/ \E j \in ProviderJobs : ProviderEnds(j)
    PROVE  IInv'
<1>i. TypeOK /\ TaskInv /\ LoadedRows
  BY TaskInvHolds DEF IInv
<1>u. UNCHANGED <<job, attemptRows, output, task, submits, cancelSeen, cancels, started,
                  crashes>>
  BY DEF ReplayDeadLetter, DeadlinePasses, ProviderEnds
<1>1. TaskInv'
  BY <1>i, <1>u DEF TaskInv, HasId, task, attemptRows
<1>2. cancelEvent' \in CancelEvents /\ cancelEvent'.att = cancelEvent.att
  <2>1. \/ UNCHANGED cancelEvent
        \/ cancelEvent' = [cancelEvent EXCEPT !.status = "PENDING", !.tries = 0]
    BY DEF ReplayDeadLetter, DeadlinePasses, ProviderEnds
  <2>2. cancelEvent \in CancelEvents
    BY <1>i DEF TypeOK
  <2>3. CASE UNCHANGED cancelEvent
    BY <2>2, <2>3
  <2>4. CASE cancelEvent' = [cancelEvent EXCEPT !.status = "PENDING", !.tries = 0]
    BY <2>2, <2>4 DEF CancelEvents, OutboxStatuses
  <2> QED BY <2>1, <2>3, <2>4
<1>3. overdue' \subseteq Attempts /\ provider' \in [ProviderJobs -> ProviderStatuses]
  BY <1>i DEF ReplayDeadLetter, DeadlinePasses, ProviderEnds, TypeOK, ProviderStatuses
<1>4. TypeOK'
  BY <1>i, <1>u, <1>1, <1>2, <1>3 DEF TypeOK, TaskInv, job, attemptRows, output
<1> QED BY <1>i, <1>u, <1>1, <1>2, <1>4, RowsKept DEF job, attemptRows, LoadedRows

-----------------------------------------------------------------------------
(* Steps that change the job or an attempt *)

\* An edge of ATTEMPT_TRANSITIONS leaves an active status.
LEMMA AttemptMayActive ==
    ASSUME NEW s \in AttemptStatuses, NEW to, AttemptMay(s, to)
    PROVE  s \in ActiveAttemptStatuses
<1>1. ATTEMPT_TRANSITIONS[s] =
        CASE s = "CREATED"    -> {"SUBMITTING", "CANCELLED"}
          [] s = "SUBMITTING" -> {"SUBMITTED"} \cup _ATTEMPT_FAILURES
          [] s = "SUBMITTED"  -> {"RUNNING"} \cup _ATTEMPT_FAILURES
          [] s = "RUNNING"    -> {"SUCCEEDED"} \cup _ATTEMPT_FAILURES
          [] OTHER -> {}
  BY Zenon DEF ATTEMPT_TRANSITIONS
<1>2. s \notin ATTEMPT_TERMINAL_STATUSES
  BY <1>1, Zenon DEF AttemptMay, ATTEMPT_TERMINAL_STATUSES
<1> QED BY <1>2 DEF ActiveAttemptStatuses

\* Every failure is stored as a terminal status of the attempt.
LEMMA FailureTargetTerminal ==
    ASSUME NEW k
    PROVE  FailureTarget(k) \in {"FAILED_RETRYABLE", "TIMED_OUT", "FAILED_FINAL"}
BY Zenon DEF FailureTarget

\* SettlementFollowsJob, case by case.
LEMMA SettlementCases ==
    ASSUME SettlementFollowsJob
    PROVE  /\ jobStatus = "SUCCEEDED" => settlement = "SETTLED"
           /\ jobStatus \in {"FAILED_FINAL", "CANCELLED"} => settlement = "RELEASED"
           /\ jobStatus \notin {"SUCCEEDED", "FAILED_FINAL", "CANCELLED"}
                  => settlement = "RESERVED"
BY Zenon DEF SettlementFollowsJob

\* The converse, for the next state.
LEMMA SettlementFromCases ==
    ASSUME jobStatus' = "SUCCEEDED" => settlement' = "SETTLED",
           jobStatus' \in {"FAILED_FINAL", "CANCELLED"} => settlement' = "RELEASED",
           jobStatus' \notin {"SUCCEEDED", "FAILED_FINAL", "CANCELLED"}
               => settlement' = "RESERVED"
    PROVE  SettlementFollowsJob'
BY Zenon DEF SettlementFollowsJob

\* An active attempt that exists is the last one, and its job lives.
LEMMA ActiveIsLast ==
    ASSUME IInv, NEW a \in Attempts, a <= attempts, attStatus[a] \in ActiveAttemptStatuses
    PROVE  /\ a = attempts
           /\ jobStatus \in {"QUEUED", "ROUTING", "RUNNING", "CANCEL_REQUESTED"}
           /\ settlement = "RESERVED"
<1>1. a \in 1 .. attempts
  BY BoundsAssumption DEF IInv, TypeOK, Attempts
<1>2. a = attempts /\ ~JobIsTerminal
  BY <1>1 DEF IInv, RowsInv, AttemptChain
<1>3. jobStatus \in {"QUEUED", "ROUTING", "RUNNING", "CANCEL_REQUESTED"}
  BY <1>2 DEF IInv, RowsInv, VisibleStatus, JobIsTerminal, JOB_TERMINAL_STATUSES
<1>4. settlement = "RESERVED"
  BY <1>3, SettlementCases DEF IInv, RowsInv
<1> QED BY <1>2, <1>3, <1>4

\* A transaction that ends the job together with its active attempt.
LEMMA JobCloses ==
    ASSUME IInv, NEW a \in Attempts, a <= attempts,
           attStatus[a] \in ActiveAttemptStatuses,
           NEW s \in ATTEMPT_TERMINAL_STATUSES,
           attStatus' = [attStatus EXCEPT ![a] = s], UNCHANGED <<attempts, pjid>>,
           \/ jobStatus' = "SUCCEEDED" /\ settlement' = "SETTLED"
           \/ jobStatus' \in {"FAILED_FINAL", "CANCELLED"} /\ settlement' = "RELEASED"
    PROVE  RowsInv'
<1>1. a = attempts
  BY ActiveIsLast
<1>2. attStatus \in [Attempts -> AttemptStatuses] /\ attempts \in Attempts
  BY DEF IInv, TypeOK
<1>3. attStatus'[a] = s /\ \A b \in Attempts : b # a => attStatus'[b] = attStatus[b]
  BY <1>2
<1>4. s \notin ActiveAttemptStatuses /\ s # "RUNNING"
  BY DEF ActiveAttemptStatuses, ATTEMPT_TERMINAL_STATUSES
<1>5. JobIsTerminal'
  BY DEF JobIsTerminal, JOB_TERMINAL_STATUSES
<1>6. AttemptChain'
  <2> SUFFICES ASSUME NEW b \in 1 .. attempts
               PROVE  attStatus'[b] \notin ActiveAttemptStatuses
    BY <1>5 DEF AttemptChain
  <2>1. b \in Attempts
    BY <1>2, BoundsAssumption DEF Attempts
  <2>2. b # attempts => attStatus[b] \notin ActiveAttemptStatuses
    BY DEF IInv, RowsInv, AttemptChain
  <2> QED BY <1>1, <1>3, <1>4, <2>1, <2>2
<1>7. VisibleStatus' /\ QueuedIsFresh'
  BY DEF VisibleStatus, QueuedIsFresh
<1>8. RunningAttempt'
  BY <1>1, <1>3, <1>4 DEF RunningAttempt
<1>9. SettlementFollowsJob'
  BY SettlementFromCases
<1> QED BY <1>6, <1>7, <1>8, <1>9 DEF RowsInv

\* A transaction that leaves the job alive and moves its last attempt to another
\* active status.
LEMMA JobLives ==
    ASSUME IInv, UNCHANGED <<settlement, attempts>>,
           jobStatus \in {"QUEUED", "ROUTING", "RUNNING", "CANCEL_REQUESTED"},
           jobStatus' \in {"ROUTING", "RUNNING", "CANCEL_REQUESTED"},
           NEW s \in ActiveAttemptStatuses,
           attStatus' = [attStatus EXCEPT ![attempts] = s],
           RunningAttempt'
    PROVE  RowsInv'
<1>2. attStatus \in [Attempts -> AttemptStatuses] /\ attempts \in Attempts
  BY DEF IInv, TypeOK
<1>3. /\ attStatus'[attempts] = s
      /\ \A b \in Attempts : b # attempts => attStatus'[b] = attStatus[b]
  BY <1>2
<1>5. ~JobIsTerminal /\ ~JobIsTerminal'
  BY DEF JobIsTerminal, JOB_TERMINAL_STATUSES
<1>6. AttemptChain'
  <2> SUFFICES ASSUME NEW b \in 1 .. attempts
               PROVE  attStatus'[b] \in ActiveAttemptStatuses <=> b = attempts
    BY <1>5 DEF AttemptChain
  <2>1. b \in Attempts
    BY <1>2, BoundsAssumption DEF Attempts
  <2>2. b # attempts => attStatus[b] \notin ActiveAttemptStatuses
    BY DEF IInv, RowsInv, AttemptChain
  <2> QED BY <1>3, <2>1, <2>2
<1>7. VisibleStatus' /\ QueuedIsFresh'
  BY DEF VisibleStatus, QueuedIsFresh
<1>8. settlement = "RESERVED"
  BY SettlementCases DEF IInv, RowsInv
<1>9. SettlementFollowsJob'
  BY <1>8, SettlementFromCases
<1> QED BY <1>6, <1>7, <1>9 DEF RowsInv

\* What a transaction on the rows has to establish.
LEMMA RowsMove ==
    ASSUME IInv, Grows, TaskInv', RowsInv',
           attStatus' \in [Attempts -> AttemptStatuses], pjid' \in [Attempts -> MaybeJob],
           outputs' \subseteq Nat, finalOutput' \in Nat, objects' \subseteq Nat,
           UNCHANGED <<polls, nextKey, outside>>
    PROVE  IInv'
<1>1. jobStatus' \in JobStatuses
  BY DEF RowsInv, VisibleStatus, JobStatuses
<1>2. settlement' \in SettlementStatuses
  BY Zenon DEF RowsInv, SettlementFollowsJob, SettlementStatuses
<1>3. TypeOK'
  <2>1. polls' \in [Attempts -> 0 .. MaximumPolls] /\ nextKey' \in Nat
    BY DEF IInv, TypeOK
  <2>2. /\ overdue' \subseteq Attempts
        /\ provider' \in [ProviderJobs -> ProviderStatuses]
        /\ submits' \in [Attempts -> 0 .. MaxSubmits]
        /\ cancelEvent' \in CancelEvents
        /\ cancelSeen' \in Attempts \cup {0}
        /\ cancels' \in Nat
        /\ started' \in BOOLEAN
        /\ crashes' \in Nat
    BY DEF IInv, TypeOK, outside
  <2>3. attempts' \in Attempts
    BY DEF Grows
  <2> QED BY <1>1, <1>2, <2>1, <2>2, <2>3 DEF TypeOK, TaskInv
<1>4. LoadedRows'
  <2>1. cancelSeen \in Attempts \cup {0} /\ cancelEvent \in CancelEvents
    BY DEF IInv, TypeOK
  <2>2. attempts \in Nat /\ attempts' \in Nat /\ attempts <= attempts'
    BY RestingValues DEF Grows
  <2>3. cancelEvent.att \in Attempts
    BY <2>1 DEF CancelEvents
  <2>4. cancelSeen \in Nat /\ cancelEvent.att \in Nat
    BY <2>1, <2>3 DEF Attempts
  <2>5. cancelSeen <= attempts /\ cancelEvent.att <= attempts
    BY DEF IInv, LoadedRows
  <2>6. cancelSeen <= attempts' /\ cancelEvent.att <= attempts'
    BY <2>2, <2>4, <2>5
  <2> QED BY <2>6 DEF LoadedRows, TaskInv, outside
<1> QED BY <1>3, <1>4 DEF IInv

\* The attempt is claimed for its submission.
LEMMA StartSubmitStep == ASSUME IInv, NEW e \in Tasks, StartSubmit(e) PROVE IInv'
<1>i. TypeOK /\ TaskInv /\ LoadedRows
  BY TaskInvHolds DEF IInv
<1>u. UNCHANGED <<settlement, attempts, pjid, polls, output, outside>>
  BY DEF StartSubmit
<1>g. Grows
  BY <1>i, <1>u, Stays
<1> DEFINE a == ctx[e].att
<1>1. a \in Attempts /\ a <= attempts
  BY <1>i DEF TaskInv, Contexts
<1>2. CASE attStatus[a] # "CREATED"
  <2>1. EndStep(e, FALSE) /\ UNCHANGED <<jobStatus, attStatus>>
    BY <1>2 DEF StartSubmit
  <2>2. TaskInv'
    BY <1>i, <1>g, <2>1, EndStepMove
  <2> QED BY <1>u, <2>1, <2>2, TasksOnly DEF job, attemptRows
<1>3. CASE attStatus[a] = "CREATED"
  <2>1. /\ jobStatus' = IF jobStatus = "QUEUED" THEN "ROUTING" ELSE jobStatus
        /\ attStatus' = [attStatus EXCEPT ![a] = "SUBMITTING"]
        /\ Goto(e, "reload")
        /\ UNCHANGED <<ctx, res, obj, seen>>
    BY <1>3 DEF StartSubmit
  <2> HIDE DEF a
  <2>2. attStatus[a] \in ActiveAttemptStatuses
    BY <1>3 DEF ActiveAttemptStatuses, AttemptStatuses, ATTEMPT_TERMINAL_STATUSES
  <2>3. a = attempts /\ jobStatus \in {"QUEUED", "ROUTING", "RUNNING", "CANCEL_REQUESTED"}
    BY <1>1, <2>2, ActiveIsLast
  <2>4. attStatus'[attempts'] = "SUBMITTING" /\ attStatus' \in [Attempts -> AttemptStatuses]
    BY <1>i, <1>1, <1>u, <2>1, <2>3 DEF TypeOK, AttemptStatuses
  <2>5. RunningAttempt'
    BY <2>4 DEF RunningAttempt
  <2>6. "SUBMITTING" \in ActiveAttemptStatuses
    BY DEF ActiveAttemptStatuses, AttemptStatuses, ATTEMPT_TERMINAL_STATUSES
  <2>7. RowsInv'
    BY <1>u, <2>1, <2>3, <2>5, <2>6, JobLives
  <2>8. TaskInv'
    BY <1>i, <1>g, <2>1, PlainMove, LabelNames DEF TaskInv
  <2> QED BY <1>i, <1>u, <1>g, <2>4, <2>7, <2>8, RowsMove DEF output, TypeOK
<1> QED BY <1>2, <1>3

\* The provider job id is recorded, and the job and the attempt advance.
LEMMA RecordSubmitAcceptedStep ==
    ASSUME IInv, NEW e \in Tasks, RecordSubmitAccepted(e) PROVE IInv'
<1>i. TypeOK /\ TaskInv /\ LoadedRows
  BY TaskInvHolds DEF IInv
<1>u. UNCHANGED <<settlement, attempts, polls, output, outside, ctx, res, obj, seen>>
  BY DEF RecordSubmitAccepted
<1>g. Grows
  BY <1>i, <1>u, Stays
<1> DEFINE a == ctx[e].att
           claimed == attStatus[a] \in {"SUBMITTING", "SUBMITTED"}
           routed == jobStatus \in {"ROUTING", "SUBMITTED"}
<1>1. a \in Attempts /\ a <= attempts /\ attempts \in Attempts
  BY <1>i DEF TaskInv, Contexts, TypeOK
<1>2. res[e].pjid \in MaybeJob /\ res[e].pjid # NoJob
  BY <1>i DEF RecordSubmitAccepted, TaskInv, HasId, Results
<1>3. /\ pjid' = [pjid EXCEPT ![a] = res[e].pjid]
      /\ jobStatus' = IF routed THEN "RUNNING" ELSE jobStatus
      /\ attStatus' = IF claimed THEN [attStatus EXCEPT ![a] = "RUNNING"] ELSE attStatus
      /\ \E l \in Labels \ {"accepted", "record"} : Goto(e, l)
  BY LabelNames DEF RecordSubmitAccepted
<1> HIDE DEF a
<1>4. TaskInv'
  BY <1>i, <1>u, <1>g, <1>3, PlainMove DEF TaskInv
<1>5. /\ pjid' \in [Attempts -> MaybeJob]
      /\ pjid'[a] # NoJob
      /\ \A b \in Attempts : pjid'[b] = pjid[b] \/ pjid'[b] # NoJob
  BY <1>i, <1>1, <1>2, <1>3 DEF TypeOK
<1>6. attStatus' \in [Attempts -> AttemptStatuses]
  BY <1>i, <1>1, <1>3 DEF TypeOK, AttemptStatuses
<1>7. RowsInv'
  <2>1. CASE claimed
    <3>1. attStatus[a] \in ActiveAttemptStatuses
      BY <2>1 DEF ActiveAttemptStatuses, AttemptStatuses, ATTEMPT_TERMINAL_STATUSES
    <3>2. a = attempts /\ jobStatus \in {"QUEUED", "ROUTING", "RUNNING", "CANCEL_REQUESTED"}
      BY <1>1, <3>1, ActiveIsLast
    <3>3. jobStatus # "QUEUED"
      BY <2>1, <3>2 DEF IInv, RowsInv, QueuedIsFresh
    <3>4. jobStatus' \in {"RUNNING", "CANCEL_REQUESTED"}
      BY <1>3, <3>2, <3>3
    <3>5. RunningAttempt'
      BY <1>u, <1>5, <3>2, <3>4 DEF RunningAttempt
    <3>6. "RUNNING" \in ActiveAttemptStatuses
      BY DEF ActiveAttemptStatuses, AttemptStatuses, ATTEMPT_TERMINAL_STATUSES
    <3> QED BY <1>u, <1>3, <2>1, <3>2, <3>4, <3>5, <3>6, JobLives
  <2>2. CASE ~claimed /\ routed
    <3>1. ~JobIsTerminal
      BY <2>2 DEF JobIsTerminal, JOB_TERMINAL_STATUSES
    <3>2. attempts \in 1 .. attempts
      BY <1>1, BoundsAssumption DEF Attempts
    <3>3. attStatus[attempts] \in ActiveAttemptStatuses
      BY <3>1, <3>2 DEF IInv, RowsInv, AttemptChain
    <3>4. jobStatus = "ROUTING" /\ jobStatus' = "RUNNING"
      BY <1>3, <2>2 DEF IInv, RowsInv, VisibleStatus
    <3>5. attStatus' = [attStatus EXCEPT ![attempts] = attStatus[attempts]]
      BY <1>i, <1>1, <1>3, <2>2 DEF TypeOK
    <3>6. attStatus[attempts] # "RUNNING"
      BY <3>4 DEF IInv, RowsInv, RunningAttempt
    <3>7. RunningAttempt'
      BY <1>u, <1>3, <2>2, <3>6 DEF RunningAttempt
    <3> QED BY <1>u, <3>3, <3>4, <3>5, <3>7, JobLives
  <2>3. CASE ~claimed /\ ~routed
    <3>1. UNCHANGED <<jobStatus, settlement, attempts, attStatus>>
      BY <1>u, <1>3, <2>3
    <3>2. RunningAttempt'
      BY <1>1, <1>5, <3>1 DEF IInv, RowsInv, RunningAttempt
    <3> QED BY <3>1, <3>2 DEF IInv, RowsInv, VisibleStatus, QueuedIsFresh, AttemptChain,
                            SettlementFollowsJob, JobIsTerminal
  <2> QED BY <2>1, <2>2, <2>3
<1> QED BY <1>i, <1>u, <1>g, <1>4, <1>5, <1>6, <1>7, RowsMove DEF output, TypeOK

\* The output of the running attempt ends its job, or the object is given up.
LEMMA CommitOutputStep == ASSUME IInv, NEW t \in Tasks, CommitOutput(t) PROVE IInv'
<1>i. TypeOK /\ TaskInv /\ LoadedRows
  BY TaskInvHolds DEF IInv
<1>u. UNCHANGED <<attempts, pjid, polls, nextKey, outside>> /\ EndStep(t, TRUE)
  BY DEF CommitOutput, DiscardObject
<1>g. Grows
  BY <1>i, <1>u, Stays
<1>t. TaskInv'
  BY <1>i, <1>u, <1>g, EndStepMove
<1> DEFINE a == ctx[t].att
<1>1. a \in Attempts /\ a <= attempts /\ obj[t] \in Nat
  BY <1>i DEF TaskInv, Contexts
<1>2. CASE ~(jobStatus = seen[t] /\ attStatus[a] = "RUNNING")
  <2>1. UNCHANGED <<jobStatus, settlement, attStatus, outputs, finalOutput>>
        /\ objects' \subseteq Nat
    BY <1>i, <1>2 DEF CommitOutput, DiscardObject, TypeOK, job
  <2>2. RowsInv'
    BY <1>u, <2>1, Frame DEF IInv
  <2> QED BY <1>i, <1>u, <1>g, <1>t, <2>1, <2>2, RowsMove DEF TypeOK
<1>3. CASE jobStatus = seen[t] /\ attStatus[a] = "RUNNING"
  <2>1. /\ outputs' = outputs \cup {obj[t]} /\ UNCHANGED objects
        /\ finalOutput' \in {finalOutput, obj[t]}
        /\ \E s \in {"SUCCEEDED", "FAILED_FINAL"} :
              /\ attStatus' = [attStatus EXCEPT ![a] = s]
              /\ jobStatus' = s
              /\ settlement' = IF s = "SUCCEEDED" THEN "SETTLED" ELSE "RELEASED"
    BY <1>3 DEF CommitOutput, FinishReservation
  <2> HIDE DEF a
  <2>2. attStatus[a] \in ActiveAttemptStatuses
    BY <1>3 DEF ActiveAttemptStatuses, AttemptStatuses, ATTEMPT_TERMINAL_STATUSES
  <2>3. {"SUCCEEDED", "FAILED_FINAL"} \subseteq ATTEMPT_TERMINAL_STATUSES
    BY DEF ATTEMPT_TERMINAL_STATUSES
  <2>4. RowsInv'
    BY <1>1, <1>u, <2>1, <2>2, <2>3, JobCloses
  <2>5. attStatus' \in [Attempts -> AttemptStatuses]
    BY <1>i, <1>1, <2>1 DEF TypeOK, AttemptStatuses
  <2>6. outputs' \subseteq Nat /\ finalOutput' \in Nat /\ objects' \subseteq Nat
    BY <1>i, <1>1, <2>1 DEF TypeOK
  <2> QED BY <1>i, <1>u, <1>g, <1>t, <2>4, <2>5, <2>6, RowsMove DEF TypeOK
<1> QED BY <1>2, <1>3

\* A cancelled attempt closes its job.
LEMMA CloseCancelledStep ==
    ASSUME IInv, NEW t \in Tasks, EndStep(t, TRUE), AttemptCas(t, "CANCELLED"),
           CloseCancelled(t), UNCHANGED <<attempts, pjid, polls, output, outside>>
    PROVE  IInv'
<1>i. TypeOK /\ TaskInv /\ LoadedRows
  BY TaskInvHolds DEF IInv
<1>g. Grows
  BY <1>i, Stays
<1>t. TaskInv'
  BY <1>i, <1>g, EndStepMove
<1> DEFINE a == ctx[t].att
<1>1. a \in Attempts /\ a <= attempts
  BY <1>i DEF TaskInv, Contexts
<1>2. attStatus[a] \in AttemptStatuses
  BY <1>i, <1>1 DEF TypeOK
<1>3. attStatus[a] \in ActiveAttemptStatuses
  BY <1>2, AttemptMayActive DEF AttemptCas
<1>4. /\ attStatus' = [attStatus EXCEPT ![a] = "CANCELLED"]
      /\ jobStatus' = "CANCELLED" /\ settlement' = "RELEASED"
  BY DEF CloseCancelled, FinishReservation
<1>5. "CANCELLED" \in ATTEMPT_TERMINAL_STATUSES
  BY DEF ATTEMPT_TERMINAL_STATUSES
<1> HIDE DEF a
<1>6. RowsInv'
  BY <1>1, <1>3, <1>4, <1>5, JobCloses
<1>7. attStatus' \in [Attempts -> AttemptStatuses]
  BY <1>i, <1>1, <1>4 DEF TypeOK, AttemptStatuses
<1> QED BY <1>i, <1>g, <1>t, <1>6, <1>7, RowsMove DEF TypeOK, output

\* The cancellation of the provider job is applied.
LEMMA FinishCancelledStep == ASSUME IInv, NEW t \in Tasks, FinishCancelled(t) PROVE IInv'
<1>i. TypeOK /\ TaskInv /\ LoadedRows
  BY TaskInvHolds DEF IInv
<1>u. UNCHANGED <<attempts, pjid, polls, output, outside>> /\ EndStep(t, TRUE)
  BY DEF FinishCancelled
<1>1. CASE AttemptCas(t, "CANCELLED") /\ CloseCancelled(t)
  BY <1>u, <1>1, CloseCancelledStep
<1>2. CASE UNCHANGED <<job, attStatus>>
  <2>1. TaskInv'
    BY <1>i, <1>u, Stays, EndStepMove
  <2> QED BY <1>u, <1>2, <2>1, TasksOnly DEF attemptRows
<1> QED BY <1>1, <1>2 DEF FinishCancelled

\* Only a claimed attempt fails.
LEMMA FailureLeavesClaimed ==
    ASSUME NEW s \in AttemptStatuses,
           NEW to \in {"FAILED_RETRYABLE", "TIMED_OUT", "FAILED_FINAL"}, AttemptMay(s, to)
    PROVE  s # "CREATED"
<1>1. ATTEMPT_TRANSITIONS["CREATED"] = {"SUBMITTING", "CANCELLED"}
  BY DEF ATTEMPT_TRANSITIONS, AttemptStatuses
<1> QED BY <1>1 DEF AttemptMay

\* A failed attempt is followed by another one, ends its job, or was overtaken.
LEMMA FailAttemptStep == ASSUME IInv, NEW t \in Tasks, FailAttempt(t) PROVE IInv'
<1>i. TypeOK /\ TaskInv /\ LoadedRows
  BY TaskInvHolds DEF IInv
<1>u. UNCHANGED <<pjid, polls, output, outside>>
  BY DEF FailAttempt
<1> DEFINE a == ctx[t].att
           target == FailureTarget(res[t].kind)
<1>1. a \in Attempts /\ a <= attempts /\ attempts \in Attempts
  BY <1>i DEF TaskInv, Contexts, TypeOK
<1>2. target \in {"FAILED_RETRYABLE", "TIMED_OUT", "FAILED_FINAL"}
  BY FailureTargetTerminal
<1>3. attStatus[a] \in AttemptStatuses
  BY <1>i, <1>1 DEF TypeOK
<1>4. CASE AttemptCas(t, "CANCELLED") /\ CloseCancelled(t) /\ EndStep(t, TRUE)
           /\ UNCHANGED attempts
  BY <1>u, <1>4, CloseCancelledStep
<1>5. CASE /\ AttemptCas(t, target) /\ AllowsRetry /\ RetryAttempt(t)
           /\ attStatus' = [attStatus EXCEPT ![a] = target, ![a + 1] = "CREATED"]
           /\ attempts' = a + 1 /\ UNCHANGED job
  <2>1. AttemptMay(attStatus[a], target)
    BY <1>5 DEF AttemptCas
  <2> HIDE DEF target, a
  <2>2. attStatus[a] \in ActiveAttemptStatuses /\ attStatus[a] # "CREATED"
    BY <1>2, <1>3, <2>1, AttemptMayActive, FailureLeavesClaimed
  <2>3. a = attempts /\ jobStatus \in {"QUEUED", "ROUTING", "RUNNING", "CANCEL_REQUESTED"}
    BY <1>1, <2>2, ActiveIsLast
  <2>4. a + 1 \in Attempts /\ a # a + 1 /\ attempts' = a + 1 /\ a \in Nat
    BY <1>1, <1>5, <2>3, BoundsAssumption DEF AllowsRetry, Attempts
  <2>5. Grows
    BY <1>1, <2>3, <2>4 DEF Grows
  <2>6. TaskInv'
    BY <1>i, <1>5, <2>5, RetryMove
  <2>7. /\ attStatus' \in [Attempts -> AttemptStatuses]
        /\ attStatus'[a] = target /\ attStatus'[a + 1] = "CREATED"
        /\ \A b \in Attempts : b \notin {a, a + 1} => attStatus'[b] = attStatus[b]
    BY <1>i, <1>1, <1>2, <1>5, <2>4 DEF TypeOK, AttemptStatuses
  <2>8. target \notin ActiveAttemptStatuses /\ "CREATED" \in ActiveAttemptStatuses
    BY <1>2 DEF ActiveAttemptStatuses, AttemptStatuses, ATTEMPT_TERMINAL_STATUSES
  <2>9. jobStatus' = jobStatus /\ settlement' = settlement /\ ~JobIsTerminal'
    BY <1>5, <2>3 DEF job, JobIsTerminal, JOB_TERMINAL_STATUSES
  <2>10. AttemptChain'
    <3> SUFFICES ASSUME NEW b \in 1 .. a + 1
                 PROVE  attStatus'[b] \in ActiveAttemptStatuses <=> b = a + 1
      BY <2>4, <2>9 DEF AttemptChain
    <3>1. b \in Attempts
      BY <2>4, BoundsAssumption DEF Attempts
    <3>2. b \notin {a, a + 1} => attStatus[b] \notin ActiveAttemptStatuses
      BY <2>3, <2>4 DEF IInv, RowsInv, AttemptChain
    <3> QED BY <2>4, <2>7, <2>8, <3>1, <3>2
  <2>11. jobStatus # "QUEUED"
    BY <2>2, <2>3 DEF IInv, RowsInv, QueuedIsFresh
  <2>12. RunningAttempt'
    BY <2>4, <2>7 DEF RunningAttempt
  <2>13. RowsInv'
    BY <2>9, <2>10, <2>11, <2>12
       DEF IInv, RowsInv, VisibleStatus, QueuedIsFresh, SettlementFollowsJob
  <2> QED BY <1>i, <1>u, <2>5, <2>6, <2>7, <2>13, RowsMove DEF TypeOK, output
<1>6. CASE /\ AttemptCas(t, target) /\ EndStep(t, TRUE) /\ UNCHANGED attempts
           /\ attStatus' = [attStatus EXCEPT ![a] = target]
           /\ jobStatus' = "FAILED_FINAL" /\ FinishReservation("RELEASED")
  <2>1. AttemptMay(attStatus[a], target) /\ settlement' = "RELEASED"
    BY <1>6 DEF AttemptCas, FinishReservation
  <2> HIDE DEF target, a
  <2>2. attStatus[a] \in ActiveAttemptStatuses
    BY <1>3, <2>1, AttemptMayActive
  <2>3. target \in ATTEMPT_TERMINAL_STATUSES
    BY <1>2 DEF ATTEMPT_TERMINAL_STATUSES
  <2>4. RowsInv'
    BY <1>1, <1>u, <1>6, <2>1, <2>2, <2>3, JobCloses
  <2>5. Grows /\ TaskInv'
    BY <1>i, <1>6, Stays, EndStepMove
  <2>6. attStatus' \in [Attempts -> AttemptStatuses]
    BY <1>i, <1>1, <1>2, <1>6 DEF TypeOK, AttemptStatuses
  <2> QED BY <1>i, <1>u, <2>4, <2>5, <2>6, RowsMove DEF TypeOK, output
<1>7. CASE EndStep(t, TRUE) /\ UNCHANGED <<job, attempts, attStatus>>
  <2>1. TaskInv'
    BY <1>i, <1>7, Stays, EndStepMove
  <2> QED BY <1>u, <1>7, <2>1, TasksOnly DEF attemptRows
<1> QED BY <1>4, <1>5, <1>6, <1>7, Zenon DEF FailAttempt

\* The locked part of a cancel call.
LEMMA CancelCommitStep == ASSUME IInv, CancelCommit PROVE IInv'
<1>i. TypeOK /\ TaskInv /\ LoadedRows
  BY TaskInvHolds DEF IInv
<1>u. UNCHANGED <<attempts, pjid, polls, output, task, overdue, provider, submits,
                  cancels, started, crashes>> /\ cancelSeen' = 0
  BY DEF CancelCommit
<1>t. TaskInv'
  BY <1>i, <1>u DEF TaskInv, HasId, task
<1>1. /\ attempts \in Attempts /\ attStatus \in [Attempts -> AttemptStatuses]
      /\ attempts \in Nat /\ attempts \in 1 .. attempts
  BY <1>i, BoundsAssumption DEF TypeOK, Attempts
<1>2. cancelSeen \in Attempts /\ cancelSeen \in Nat /\ 1 <= cancelSeen
      /\ cancelSeen <= attempts
  <2>1. cancelSeen \in Attempts /\ cancelSeen <= attempts
    BY <1>i DEF CancelCommit, TypeOK, LoadedRows
  <2> QED BY <2>1, BoundsAssumption DEF Attempts
<1>3. cancelEvent' \in CancelEvents /\ cancelEvent'.att <= attempts
  <2>1. cancelEvent' \in {cancelEvent, [status |-> "PENDING", att |-> cancelSeen,
                                        tries |-> 0, owner |-> Workflow]}
    BY DEF CancelCommit
  <2>2. cancelEvent \in CancelEvents /\ cancelEvent.att <= attempts
    BY <1>i DEF TypeOK, LoadedRows
  <2> QED BY <1>2, <2>1, <2>2 DEF CancelEvents, OutboxStatuses
<1>4. attStatus' \in [Attempts -> AttemptStatuses] /\ RowsInv'
  <2>1. CASE /\ jobStatus \in {"ROUTING", "SUBMITTED", "RUNNING"}
             /\ jobStatus' = "CANCEL_REQUESTED"
             /\ UNCHANGED <<settlement, attStatus>>
    <3>1. jobStatus \in {"ROUTING", "RUNNING"} /\ ~JobIsTerminal
      BY <2>1 DEF IInv, RowsInv, VisibleStatus, JobIsTerminal, JOB_TERMINAL_STATUSES
    <3>2. attStatus[attempts] \in ActiveAttemptStatuses
      BY <1>1, <3>1 DEF IInv, RowsInv, AttemptChain
    <3>3. attStatus' = [attStatus EXCEPT ![attempts] = attStatus[attempts]]
      BY <1>1, <2>1
    <3>4. RunningAttempt'
      BY <1>u, <2>1 DEF IInv, RowsInv, RunningAttempt
    <3>5. RowsInv'
      BY <1>u, <2>1, <3>1, <3>2, <3>3, <3>4, JobLives
    <3> QED BY <1>1, <2>1, <3>5
  <2>2. CASE /\ jobStatus \in {"CREATED", "RESERVED", "QUEUED"}
             /\ jobStatus' = "CANCELLED"
             /\ attStatus' = [a \in Attempts |->
                                 IF a <= cancelSeen /\ attStatus[a] \in ActiveAttemptStatuses
                                 THEN "CANCELLED" ELSE attStatus[a]]
             /\ FinishReservation("RELEASED")
    <3>1. jobStatus = "QUEUED"
      BY <2>2 DEF IInv, RowsInv, VisibleStatus
    <3>2. attempts = 1 /\ attStatus[1] = "CREATED"
      BY <3>1 DEF IInv, RowsInv, QueuedIsFresh
    <3>3. attStatus[1] \in ActiveAttemptStatuses
      BY <3>2 DEF ActiveAttemptStatuses, AttemptStatuses, ATTEMPT_TERMINAL_STATUSES
    <3>4. cancelSeen = 1
      BY <1>2, <3>2
    <3>5. \A a \in Attempts : a <= cancelSeen <=> a = 1
      BY <3>4 DEF Attempts
    <3>6. attStatus' = [attStatus EXCEPT ![1] = "CANCELLED"]
      BY <1>1, <2>2, <3>3, <3>5
    <3>7. "CANCELLED" \in ATTEMPT_TERMINAL_STATUSES /\ "CANCELLED" \in AttemptStatuses
      BY DEF ATTEMPT_TERMINAL_STATUSES, AttemptStatuses
    <3>8. settlement' = "RELEASED" /\ 1 \in Attempts /\ 1 <= attempts
      BY <1>1, <2>2, <3>2 DEF FinishReservation
    <3>9. RowsInv'
      BY <1>u, <2>2, <3>3, <3>6, <3>7, <3>8, JobCloses
    <3> QED BY <1>1, <3>6, <3>7, <3>9
  <2>3. CASE UNCHANGED <<job, attStatus>>
    BY <1>1, <1>u, <2>3, Frame DEF IInv, job
  <2> QED BY <2>1, <2>2, <2>3 DEF CancelCommit
<1>5. TypeOK'
  <2>1. jobStatus' \in JobStatuses
    BY <1>4 DEF RowsInv, VisibleStatus, JobStatuses
  <2>2. settlement' \in SettlementStatuses
    BY <1>4, Zenon DEF RowsInv, SettlementFollowsJob, SettlementStatuses
  <2> QED BY <1>i, <1>u, <1>t, <1>3, <1>4, <2>1, <2>2 DEF TypeOK, TaskInv, output
<1>6. LoadedRows'
  BY <1>u, <1>t, <1>1, <1>3 DEF LoadedRows, TaskInv
<1> QED BY <1>4, <1>5, <1>6 DEF IInv

\* The reconciler starts to execute a job.
LEMMA ReconcileStep == ASSUME IInv, NEW r \in Reconcilers, Reconcile(r) PROVE IInv'
<1>1. TypeOK /\ TaskInv /\ r \in Tasks
  BY TaskInvHolds DEF IInv, Tasks, Executors
<1>2. TaskInv'
  BY <1>1, Stays, RestMove, LabelNames DEF Reconcile, attemptRows
<1> QED BY <1>2, TasksOnly DEF Reconcile

-----------------------------------------------------------------------------
(* The invariant *)

\* The rows that generate commits satisfy the invariant.
LEMMA InitInv == Init => IInv
<1> SUFFICES ASSUME Init PROVE IInv
  OBVIOUS
<1> USE RestingValues
<1>1. TypeOK
  <2>1. /\ jobStatus \in JobStatuses /\ settlement \in SettlementStatuses
        /\ attempts \in Attempts /\ attStatus \in [Attempts -> AttemptStatuses]
        /\ pjid \in [Attempts -> MaybeJob] /\ overdue \subseteq Attempts
    BY DEF Init, SettlementStatuses, AttemptStatuses
  <2>2. polls \in [Attempts -> 0 .. MaximumPolls] /\ submits \in [Attempts -> 0 .. MaxSubmits]
    BY BoundsAssumption DEF Init
  <2>3. /\ outputs \subseteq Nat /\ finalOutput \in Nat /\ objects \subseteq Nat
        /\ nextKey \in Nat /\ provider \in [ProviderJobs -> ProviderStatuses]
    BY DEF Init, ProviderStatuses
  <2>4. /\ cancelEvent \in CancelEvents /\ cancelSeen \in Attempts \cup {0}
        /\ cancels \in Nat /\ started \in BOOLEAN /\ crashes \in Nat
    BY DEF Init, NoCancelEvent, CancelEvents, OutboxStatuses
  <2>5. /\ pc \in [Tasks -> Labels] /\ ctx \in [Tasks -> Contexts]
        /\ res \in [Tasks -> Results] /\ obj \in [Tasks -> Nat]
        /\ seen \in [Tasks -> JobStatuses \cup AttemptStatuses]
    BY DEF Init, Labels
  <2> QED BY <2>1, <2>2, <2>3, <2>4, <2>5 DEF TypeOK
<1>2. LoadedRows
  BY DEF Init, LoadedRows, HasId, NoCancelEvent
<1>3. RowsInv
  <2>1. ~JobIsTerminal
    BY DEF Init, JobIsTerminal, JOB_TERMINAL_STATUSES
  <2>2. AttemptChain
    BY <2>1 DEF Init, AttemptChain, ActiveAttemptStatuses, AttemptStatuses,
       ATTEMPT_TERMINAL_STATUSES
  <2>3. SettlementFollowsJob
    BY Zenon DEF Init, SettlementFollowsJob
  <2> QED BY <2>2, <2>3 DEF Init, RowsInv, VisibleStatus, QueuedIsFresh, RunningAttempt
<1> QED BY <1>1, <1>2, <1>3 DEF IInv

\* Every step preserves the invariant.
LEMMA NextInv == IInv /\ [Next]_vars => IInv'
<1> SUFFICES ASSUME IInv, [Next]_vars PROVE IInv'
  OBVIOUS
<1>e. Executors \subseteq Tasks /\ Hooks \subseteq Tasks /\ Dispatchers \subseteq Tasks
  BY DEF Tasks
<1>1. CASE StartWorkflow
  BY <1>1, StartWorkflowStep
<1>2. ASSUME NEW r \in Reconcilers, Reconcile(r) PROVE IInv'
  BY <1>2, ReconcileStep
<1>3. ASSUME NEW e \in Executors, ExecutorStep(e) PROVE IInv'
  BY <1>e, <1>3, ExecutorQuiet, ResultQuiet, StartSubmitStep, SubmitAcceptedStep,
     RecordSubmitAcceptedStep, ReservePollStep DEF ExecutorStep
<1>4. ASSUME NEW h \in Hooks, HookReceive(h) \/ HookResult(h) PROVE IInv'
  BY <1>e, <1>4, ResultQuiet
<1>5. ASSUME NEW t \in Tasks, CompletionStep(t) PROVE IInv'
  BY <1>5, ResultQuiet, ReceiveArtifactStep, ReadForCommitStep, CommitOutputStep,
     FailAttemptStep, FinishCancelledStep DEF CompletionStep
<1>6. ASSUME NEW t \in Tasks, Crash(t) PROVE IInv'
  BY <1>6, CrashStep
<1>7. CASE CancelLoad
  BY <1>7, CancelLoadStep
<1>8. CASE CancelCommit
  BY <1>8, CancelCommitStep
<1>9. ASSUME NEW d \in Dispatchers, DispatcherStep(d) PROVE IInv'
  BY <1>e, <1>9, ClaimCancelStep, ResultQuiet, ProviderCancelStep, DispatcherEndStep
     DEF DispatcherStep
<1>10. CASE \/ ReplayDeadLetter
            \/ \E a \in Attempts : DeadlinePasses(a)
            \/ \E j \in ProviderJobs : ProviderEnds(j)
  BY <1>10, EnvironmentStep
<1>11. CASE UNCHANGED vars
  <2>1. UNCHANGED <<job, attemptRows, output, task, outside>>
    BY <1>11 DEF vars, job, attemptRows, output, task, outside
  <2>2. TaskInv'
    BY <2>1, TaskInvHolds DEF IInv, TaskInv, HasId, task, attemptRows
  <2> QED BY <2>1, <2>2, TasksOnly
<1> QED BY <1>1, <1>2, <1>3, <1>4, <1>5, <1>6, <1>7, <1>8, <1>9, <1>10, <1>11 DEF Next

\* The inductive invariant holds throughout.
THEOREM Invariance == Spec => []IInv
BY InitInv, NextInv, PTL DEF Spec

\* Every row and every task keeps its type: in particular the attempts stay within
\* MAX_ATTEMPTS_PER_JOB and the polls of an attempt within maximum_polls.
THEOREM TypeCorrect == Spec => []TypeOK
<1>1. IInv => TypeOK
  BY DEF IInv
<1> QED BY <1>1, Invariance, PTL

\* The frozen seconds follow the job: consumed exactly when it succeeded, returned
\* exactly when it failed or was cancelled, frozen otherwise.
THEOREM SettlementCorrect == Spec => []SettlementFollowsJob
<1>1. IInv => SettlementFollowsJob
  BY DEF IInv, RowsInv
<1> QED BY <1>1, Invariance, PTL

\* A live job has exactly one active attempt, the last one, and a finished job none.
THEOREM ChainCorrect == Spec => []AttemptChain
<1>1. IInv => AttemptChain
  BY DEF IInv, RowsInv
<1> QED BY <1>1, Invariance, PTL

\* A running attempt has its provider job id and a job that accepts its output.
THEOREM RunningCorrect == Spec => []RunningAttempt
<1>1. IInv => RunningAttempt
  BY DEF IInv, RowsInv
<1> QED BY <1>1, Invariance, PTL

-----------------------------------------------------------------------------
(* Nothing happens after the end *)

\* No attempt of a finished job is active.
LEMMA TerminalHasNoActive ==
    ASSUME IInv, JobIsTerminal, NEW t \in Tasks
    PROVE  /\ attStatus[ctx[t].att] \in ATTEMPT_TERMINAL_STATUSES
           /\ \A to : ~AttemptCas(t, to)
<1> DEFINE a == ctx[t].att
<1>1. TaskInv /\ TypeOK
  BY TaskInvHolds DEF IInv
<1>2. a \in Attempts /\ a <= attempts
  BY <1>1 DEF TaskInv, Contexts
<1>3. a \in 1 .. attempts /\ attStatus[a] \in AttemptStatuses
  BY <1>1, <1>2, BoundsAssumption DEF TypeOK, Attempts
<1>4. attStatus[a] \notin ActiveAttemptStatuses
  BY <1>3 DEF IInv, RowsInv, AttemptChain
<1>5. \A to : ~AttemptMay(attStatus[a], to)
  BY <1>3, <1>4, AttemptMayActive
<1> QED BY <1>3, <1>4, <1>5 DEF AttemptCas, ActiveAttemptStatuses

\* No step changes the rows of a finished job.
LEMMA TerminalStep ==
    ASSUME IInv, JobIsTerminal, Next
    PROVE  UNCHANGED <<jobStatus, settlement, attempts, attStatus, outputs, finalOutput>>
<1> USE DEF job, attemptRows, output, outside, task
<1>j. jobStatus \in {"SUCCEEDED", "FAILED_FINAL", "CANCELLED"}
  BY DEF IInv, RowsInv, VisibleStatus, JobIsTerminal, JOB_TERMINAL_STATUSES
<1>e. Executors \subseteq Tasks /\ Hooks \subseteq Tasks /\ Dispatchers \subseteq Tasks
  BY DEF Tasks
<1>1. CASE StartWorkflow
  BY <1>1 DEF StartWorkflow
<1>2. ASSUME NEW r \in Reconcilers, Reconcile(r) PROVE FALSE
  BY <1>j, <1>2 DEF Reconcile, ACTIVE_JOB_STATUSES
<1>3. ASSUME NEW e \in Executors, ExecutorStep(e)
      PROVE  UNCHANGED <<jobStatus, settlement, attempts, attStatus, outputs, finalOutput>>
  <2>1. attStatus[ctx[e].att] \in ATTEMPT_TERMINAL_STATUSES
    BY <1>e, TerminalHasNoActive
  <2>2. CASE StartSubmit(e)
    BY <2>1, <2>2 DEF StartSubmit, ATTEMPT_TERMINAL_STATUSES
  <2>3. CASE RecordSubmitAccepted(e)
    BY <1>j, <2>1, <2>3 DEF RecordSubmitAccepted, ATTEMPT_TERMINAL_STATUSES
  <2>4. CASE Load(e) \/ Reload(e) \/ SubmitAccepted(e) \/ SubmitUnknown(e)
    BY <2>4 DEF Load, Reload, SubmitAccepted, SubmitUnknown
  <2>5. CASE SubmitRejected(e) \/ ReadAccepted(e) \/ Recheck(e)
    BY <2>5 DEF SubmitRejected, ReadAccepted, Recheck
  <2>6. CASE ReservePoll(e) \/ ReserveContended(e) \/ Poll(e) \/ ApplyReconciled(e)
    BY <2>6 DEF ReservePoll, ReserveContended, Poll, ApplyReconciled
  <2> QED BY <1>3, <2>2, <2>3, <2>4, <2>5, <2>6 DEF ExecutorStep
<1>4. ASSUME NEW h \in Hooks, HookReceive(h) \/ HookResult(h)
      PROVE  UNCHANGED <<jobStatus, settlement, attempts, attStatus, outputs, finalOutput>>
  BY <1>4 DEF HookReceive, HookResult
<1>5. ASSUME NEW t \in Tasks, CompletionStep(t)
      PROVE  UNCHANGED <<jobStatus, settlement, attempts, attStatus, outputs, finalOutput>>
  <2>1. /\ attStatus[ctx[t].att] \in ATTEMPT_TERMINAL_STATUSES
        /\ \A to : ~AttemptCas(t, to)
    BY TerminalHasNoActive
  <2>2. CASE ReceiveArtifact(t) \/ LockJob(t)
    BY <2>2 DEF ReceiveArtifact, LockJob
  <2>3. CASE ReadForCommit(t) \/ CommitOutput(t)
    BY <2>1, <2>3 DEF ReadForCommit, CommitOutput, DiscardObject, ATTEMPT_TERMINAL_STATUSES
  <2>4. CASE FailAttempt(t) \/ FinishCancelled(t)
    BY <2>1, <2>4 DEF FailAttempt, FinishCancelled
  <2> QED BY <1>5, <2>2, <2>3, <2>4 DEF CompletionStep
<1>6. ASSUME NEW t \in Tasks, Crash(t)
      PROVE  UNCHANGED <<jobStatus, settlement, attempts, attStatus, outputs, finalOutput>>
  BY <1>6 DEF Crash
<1>7. CASE CancelLoad
  BY <1>7 DEF CancelLoad
<1>8. CASE CancelCommit
  BY <1>j, <1>8 DEF CancelCommit
<1>9. ASSUME NEW d \in Dispatchers, DispatcherStep(d)
      PROVE  UNCHANGED <<jobStatus, settlement, attempts, attStatus, outputs, finalOutput>>
  BY <1>9 DEF DispatcherStep, ClaimCancel, LoadCancellable, ProviderCancel, MarkPublished,
     ScheduleRetry
<1>10. CASE \/ ReplayDeadLetter
            \/ \E a \in Attempts : DeadlinePasses(a)
            \/ \E j \in ProviderJobs : ProviderEnds(j)
  BY <1>10 DEF ReplayDeadLetter, DeadlinePasses, ProviderEnds
<1> QED BY <1>1, <1>2, <1>3, <1>4, <1>5, <1>6, <1>7, <1>8, <1>9, <1>10 DEF Next

\* Whatever arrives after the end of a job - polls, webhooks, cancel calls, answers
\* of the provider - leaves its status, settlement, attempts and outputs alone.
THEOREM TerminalCorrect == Spec => TerminalIsFinal
<1>1. IInv /\ [Next]_vars =>
        [JobIsTerminal =>
           UNCHANGED <<jobStatus, settlement, attempts, attStatus, outputs, finalOutput>>]_vars
  BY TerminalStep
<1> QED BY <1>1, Invariance, PTL DEF Spec, TerminalIsFinal
=============================================================================
