----------------------------- MODULE OutputProofs -----------------------------
(***************************************************************************)
(* Proofs about the outputs of Execution: the objects that completion      *)
(* publishes, the results it charges for, and the paths that the statuses  *)
(* take.  They rest on the invariant of ExecutionProofs and hold for every *)
(* number of tasks and every limit.                                        *)
(***************************************************************************)
EXTENDS ExecutionProofs

-----------------------------------------------------------------------------
(* The inductive invariant *)

\* The labels between the publication of an object and its commit.
HoldingLabels == {"commit", "cas"}

\* A task holds an object from its publication to its commit, and at no other time.
Holding(t) == IF pc[t] \in HoldingLabels THEN obj[t] \in objects \ outputs ELSE obj[t] = 0

\* The workflow runs only once it was started.
WorkflowWaits == ~started => pc[Workflow] = "off"

\* Keys are fresh, and two tasks never hold the same object.
ObjectsInv ==
    /\ WorkflowWaits
    /\ nextKey # 0
    /\ \A k \in objects : k # 0 /\ k < nextKey
    /\ \A t \in Tasks : Holding(t)
    /\ \A t, u \in Tasks : t # u /\ obj[t] # 0 => obj[t] # obj[u]
    /\ FinalOutputStored
    /\ NoOrphanObject

\* The labels at which a task holds an answer of the provider it has not applied yet.
AnswerLabels == {"accepted", "record", "apply", "receive"} \cup HoldingLabels

\* An output that a task carries was produced for the attempt of its context.
AnswerTrue(t) ==
    pc[t] \in AnswerLabels /\ res[t].kind = "OUTPUT" =>
        /\ res[t].pjid \in ProviderJobs
        /\ res[t].pjid[1] = ctx[t].att
        /\ provider[res[t].pjid] = "SUCCEEDED"

\* The provider has not seen the submissions that are still to come.
Unsubmitted == \A a \in Attempts : \A n \in 1 .. MaxSubmits :
                  n > submits[a] => provider[<<a, n>>] = "ABSENT"

AnswersInv ==
    /\ Unsubmitted
    /\ \A t \in Tasks : AnswerTrue(t)
    /\ ChargedForOutput

-----------------------------------------------------------------------------
(* The moves of a task *)

\* The task goes to a label outside HoldingLabels and lets go of nothing it could keep.
GoesAway(t) ==
    \E l \in Labels \ HoldingLabels :
        pc' = [pc EXCEPT ![t] = l] /\ obj' \in {obj, [obj EXCEPT ![t] = 0]}

\* The task changes nothing that belongs to another task.
OnlyOwn(t) == \A u \in Tasks \ {t} : /\ pc'[u] = pc[u] /\ ctx'[u] = ctx[u]
                                     /\ res'[u] = res[u] /\ obj'[u] = obj[u]

LEMMA RestAway ==
    ASSUME TypeOK, NEW t \in Tasks, NEW l \in Labels \ HoldingLabels, Rest(t, l)
    PROVE  GoesAway(t) /\ OnlyOwn(t) /\ pc'[t] = l /\ obj' = [obj EXCEPT ![t] = 0]
BY DEF Rest, Goto, GoesAway, OnlyOwn, TypeOK

LEMMA EndStepAway ==
    ASSUME TypeOK, NEW t \in Tasks, NEW b, EndStep(t, b)
    PROVE  /\ GoesAway(t) /\ OnlyOwn(t) /\ pc'[t] \in {"publish", "load", "off"}
           /\ obj' = [obj EXCEPT ![t] = 0]
<1>1. PICK l \in {"publish", "load", "off"} : Rest(t, l)
    BY DEF EndStep
<1>2. l \in Labels \ HoldingLabels
    BY DEF Labels, HoldingLabels
<1> QED
    BY <1>1, <1>2, RestAway

LEMMA RetryAway ==
    ASSUME TypeOK, NEW t \in Tasks, RetryAttempt(t)
    PROVE  /\ GoesAway(t) /\ OnlyOwn(t) /\ pc'[t] \in {"publish", "load", "off"}
           /\ obj' = [obj EXCEPT ![t] = 0]
<1>1. "load" \in Labels \ HoldingLabels
    BY DEF Labels, HoldingLabels
<1> QED
    BY <1>1, RestAway, EndStepAway DEF RetryAttempt

\* A task that takes up a result, and keeps the attempt it loaded.
LEMMA CompleteAway ==
    ASSUME TypeOK, NEW t \in Tasks, NEW r \in Results, Complete(t, r)
    PROVE  /\ GoesAway(t) /\ OnlyOwn(t)
           /\ \/ pc'[t] \notin AnswerLabels
              \/ pc'[t] = "receive" /\ res'[t] = r /\ ctx'[t] = ctx[t]
<1>1. CASE r.kind = "WAIT"
    BY <1>1, EndStepAway DEF Complete, AnswerLabels, HoldingLabels
<1>2. CASE r.kind # "WAIT"
    <2> DEFINE l == CASE r.kind \in {"OUTPUT", "CORRUPT"} -> "receive"
                      [] r.kind = "CANCELLED" -> "finish"
                      [] OTHER -> "fail"
    <2>1. l \in {"receive", "finish", "fail"}
        BY Zenon
    <2>2. l \in Labels \ HoldingLabels
        BY <2>1 DEF Labels, HoldingLabels
    <2>3. Goto(t, l) /\ res' = [res EXCEPT ![t] = r] /\ UNCHANGED <<ctx, obj, seen>>
        BY <1>2, Zenon DEF Complete
    <2> HIDE DEF l
    <2>4. GoesAway(t) /\ OnlyOwn(t) /\ pc'[t] = l /\ res'[t] = r /\ ctx'[t] = ctx[t]
        BY <2>2, <2>3 DEF Goto, GoesAway, OnlyOwn, TypeOK
    <2> QED
        BY <2>1, <2>4 DEF AnswerLabels, HoldingLabels
<1> QED
    BY <1>1, <1>2

-----------------------------------------------------------------------------
(* The objects *)

\* A task that neither publishes nor commits.
LEMMA ObjectsAway ==
    ASSUME TypeOK, ObjectsInv, NEW t \in Tasks, pc[t] \notin HoldingLabels, GoesAway(t),
           WorkflowWaits',
           UNCHANGED <<outputs, finalOutput, objects, nextKey, crashes>>,
           jobStatus = "SUCCEEDED" <=> jobStatus' = "SUCCEEDED"
    PROVE  ObjectsInv'
<1>1. obj[t] = 0
    BY DEF ObjectsInv, Holding
<1>2. PICK l \in Labels \ HoldingLabels : pc' = [pc EXCEPT ![t] = l]
    BY DEF GoesAway
<1>3. obj' = obj
    BY <1>1 DEF GoesAway, TypeOK
<1>4. \A u \in Tasks : Holding(u)'
    BY <1>1, <1>2, <1>3 DEF ObjectsInv, Holding, TypeOK
<1>5. FinalOutputStored' /\ NoOrphanObject'
    BY <1>3 DEF ObjectsInv, FinalOutputStored, NoOrphanObject
<1> QED
    BY <1>3, <1>4, <1>5 DEF ObjectsInv

\* Nobody moves.
LEMMA ObjectsStay ==
    ASSUME ObjectsInv, UNCHANGED <<outputs, finalOutput, objects, nextKey, crashes, pc, obj>>,
           UNCHANGED started,
           jobStatus = "SUCCEEDED" <=> jobStatus' = "SUCCEEDED"
    PROVE  ObjectsInv'
BY DEF ObjectsInv, Holding, WorkflowWaits, FinalOutputStored, NoOrphanObject

\* The object that a task gives up is its own: the objects of rows and of other tasks stay.
LEMMA ObjectsDiscard ==
    ASSUME TypeOK, ObjectsInv, NEW t \in Tasks, GoesAway(t), obj' = [obj EXCEPT ![t] = 0],
           WorkflowWaits', crashes' = 0 => crashes = 0 /\ objects' = objects \ {obj[t]},
           objects' \in {objects, objects \ {obj[t]}},
           UNCHANGED <<outputs, finalOutput, nextKey, jobStatus>>
    PROVE  ObjectsInv'
<1>1. PICK l \in Labels \ HoldingLabels : pc' = [pc EXCEPT ![t] = l]
    BY DEF GoesAway
<1>2. obj[t] \notin outputs
    BY DEF ObjectsInv, Holding, FinalOutputStored
<1>3. obj'[t] = 0 /\ pc'[t] \notin HoldingLabels
      /\ \A u \in Tasks \ {t} : obj'[u] = obj[u] /\ pc'[u] = pc[u]
    BY <1>1 DEF TypeOK
<1>4. ASSUME NEW u \in Tasks PROVE Holding(u)'
    BY <1>3 DEF ObjectsInv, Holding
<1>5. FinalOutputStored'
    BY <1>2 DEF ObjectsInv, FinalOutputStored
<1>6. NoOrphanObject'
    BY <1>3 DEF ObjectsInv, NoOrphanObject
<1>7. \A x, u \in Tasks : x # u /\ obj'[x] # 0 => obj'[x] # obj'[u]
    BY <1>3 DEF ObjectsInv
<1> QED
    BY <1>4, <1>5, <1>6, <1>7 DEF ObjectsInv

-----------------------------------------------------------------------------
(* The steps of the tasks that neither publish nor commit *)

\* What the task carries after its step was produced for the attempt of its context.
CarriesTrue(t) ==
    pc'[t] \in AnswerLabels /\ res'[t].kind = "OUTPUT" =>
        /\ res'[t].pjid \in ProviderJobs
        /\ res'[t].pjid[1] = ctx'[t].att
        /\ provider[res'[t].pjid] = "SUCCEEDED"

\* A task that stands still carries what it carried.
LEMMA CarriesOn ==
    ASSUME TypeOK, NEW t \in Tasks, AnswerTrue(t), pc[t] \in AnswerLabels,
           res'[t] = res[t], ctx'[t] = ctx[t]
    PROVE  CarriesTrue(t)
BY DEF AnswerTrue, CarriesTrue

\* A task that ended its step carries nothing.
LEMMA CarriesNothing ==
    ASSUME NEW t \in Tasks, pc'[t] \notin AnswerLabels
    PROVE  CarriesTrue(t)
BY DEF CarriesTrue

LEMMA AwayLabels ==
    /\ "off" \notin AnswerLabels /\ "load" \notin AnswerLabels /\ "publish" \notin AnswerLabels
    /\ {"off", "load", "start", "reload", "submit", "accepted", "record", "apply", "recheck",
        "reserve", "poll", "event", "fail", "failing", "finishing", "cancel", "publish",
        "retry"} \subseteq Labels \ HoldingLabels
BY DEF AnswerLabels, HoldingLabels, Labels

\* The answer of a poll is true of the attempt it was asked for.
LEMMA PollIsTrue ==
    ASSUME TypeOK, NEW t \in Tasks, NEW r \in PollResults(ctx[t])
    PROVE  /\ r \in Results
           /\ r.pjid \in ProviderJobs
           /\ r.pjid[1] = ctx[t].att
           /\ r.kind = "OUTPUT" => provider[r.pjid] = "SUCCEEDED"
BY PollResultsType DEF PollResults

LEMMA CompleteCarries ==
    ASSUME TypeOK, NEW t \in Tasks, NEW r \in Results, Complete(t, r),
           r.kind = "OUTPUT" => /\ r.pjid \in ProviderJobs
                                /\ r.pjid[1] = ctx[t].att
                                /\ provider[r.pjid] = "SUCCEEDED"
    PROVE  GoesAway(t) /\ OnlyOwn(t) /\ CarriesTrue(t)
BY CompleteAway DEF CarriesTrue

Moves(t) == GoesAway(t) /\ OnlyOwn(t) /\ CarriesTrue(t) /\ pc[t] \notin HoldingLabels

LEMMA EndStepMoves ==
    ASSUME TypeOK, NEW t \in Tasks, NEW b, EndStep(t, b), pc[t] \notin HoldingLabels
    PROVE  Moves(t)
BY EndStepAway, AwayLabels, CarriesNothing DEF Moves

LEMMA RestMoves ==
    ASSUME TypeOK, NEW t \in Tasks, NEW l \in {"off", "load", "publish", "retry"}, Rest(t, l),
           pc[t] \notin HoldingLabels
    PROVE  Moves(t)
<1>1. l \in Labels \ HoldingLabels /\ l \notin AnswerLabels
    BY DEF AnswerLabels, HoldingLabels, Labels
<1> QED
    BY <1>1, RestAway, CarriesNothing DEF Moves

\* A task that goes on.
LEMMA GotoMoves ==
    ASSUME TypeOK, NEW t \in Tasks, NEW l \in Labels \ HoldingLabels, Goto(t, l),
           OnlyOwn(t), CarriesTrue(t), UNCHANGED obj, pc[t] \notin HoldingLabels
    PROVE  Moves(t)
BY DEF Goto, GoesAway, Moves

\* The steps of the execution loop before it polls.
LEMMA SubmissionMoves ==
    ASSUME TypeOK, AnswersInv, NEW e \in Tasks,
           \/ Load(e) \/ StartSubmit(e) \/ Reload(e) \/ SubmitAccepted(e) \/ SubmitUnknown(e)
           \/ SubmitRejected(e) \/ ReadAccepted(e) \/ RecordSubmitAccepted(e)
    PROVE  Moves(e)
<1> USE AwayLabels
<1>1. CASE Load(e)
    <2>1. pc[e] \notin HoldingLabels
        BY <1>1 DEF Load, HoldingLabels
    <2>2. CASE JobIsTerminal
        BY <1>1, <2>1, <2>2, EndStepMoves DEF Load
    <2>3. CASE ~JobIsTerminal
        <3>1. PICK l \in {"start", "recheck"} : Goto(e, l)
            BY <1>1, <2>3 DEF Load
        <3>2. OnlyOwn(e) /\ UNCHANGED obj /\ pc'[e] = l
            BY <1>1, <2>3, <3>1 DEF Load, OnlyOwn, Goto, TypeOK
        <3>3. CarriesTrue(e)
            BY <3>2, CarriesNothing DEF AnswerLabels, HoldingLabels
        <3> QED
            BY <2>1, <3>1, <3>2, <3>3, GotoMoves
    <2> QED
        BY <2>2, <2>3
<1>2. CASE StartSubmit(e)
    <2>1. pc[e] \notin HoldingLabels
        BY <1>2 DEF StartSubmit, HoldingLabels
    <2>2. CASE attStatus[ctx[e].att] # "CREATED"
        BY <1>2, <2>1, <2>2, EndStepMoves DEF StartSubmit
    <2>3. CASE attStatus[ctx[e].att] = "CREATED"
        <3>1. Goto(e, "reload") /\ UNCHANGED <<ctx, res, obj>>
            BY <1>2, <2>3 DEF StartSubmit
        <3>2. OnlyOwn(e) /\ UNCHANGED obj /\ pc'[e] = "reload"
            BY <3>1 DEF OnlyOwn, Goto, TypeOK
        <3>3. CarriesTrue(e)
            BY <3>2, CarriesNothing DEF AnswerLabels, HoldingLabels
        <3> QED
            BY <2>1, <3>1, <3>2, <3>3, GotoMoves
    <2> QED
        BY <2>2, <2>3
<1>3. CASE Reload(e)
    <2>1. pc[e] \notin HoldingLabels
        BY <1>3 DEF Reload, HoldingLabels
    <2>2. CASE JobIsTerminal
        BY <1>3, <2>1, <2>2, EndStepMoves DEF Reload
    <2>3. CASE ~JobIsTerminal
        <3>1. Goto(e, "submit")
            BY <1>3, <2>3 DEF Reload
        <3>2. OnlyOwn(e) /\ UNCHANGED obj /\ pc'[e] = "submit"
            BY <1>3, <2>3 DEF Reload, OnlyOwn, Goto, TypeOK
        <3>3. CarriesTrue(e)
            BY <3>2, CarriesNothing DEF AnswerLabels, HoldingLabels
        <3> QED
            BY <2>1, <3>1, <3>2, <3>3, GotoMoves
    <2> QED
        BY <2>2, <2>3
<1>4. CASE SubmitAccepted(e)
    <2>1. pc[e] \notin HoldingLabels
        BY <1>4 DEF SubmitAccepted, HoldingLabels
    <2>2. PICK l \in {"accepted", "recheck"} :
            Goto(e, l) /\ (l = "accepted" => res'[e].kind = "NONE")
        BY <1>4 DEF SubmitAccepted, TypeOK
    <2>3. OnlyOwn(e) /\ UNCHANGED obj /\ pc'[e] = l
        BY <1>4, <2>2 DEF SubmitAccepted, OnlyOwn, Goto, TypeOK
    <2>4. CarriesTrue(e)
        BY <2>2, <2>3 DEF CarriesTrue, AnswerLabels, HoldingLabels
    <2> QED
        BY <2>1, <2>2, <2>3, <2>4, GotoMoves
<1>5. CASE SubmitUnknown(e) \/ SubmitRejected(e)
    <2>1. pc[e] \notin HoldingLabels
        BY <1>5 DEF SubmitUnknown, SubmitRejected, HoldingLabels
    <2>2. PICK l \in {"fail", "recheck"} : Goto(e, l)
        BY <1>5 DEF SubmitUnknown, SubmitRejected
    <2>3. OnlyOwn(e) /\ UNCHANGED obj /\ pc'[e] = l
        BY <1>5, <2>2 DEF SubmitUnknown, SubmitRejected, OnlyOwn, Goto, TypeOK
    <2>4. CarriesTrue(e)
        BY <2>3, CarriesNothing DEF AnswerLabels, HoldingLabels
    <2> QED
        BY <2>1, <2>2, <2>3, <2>4, GotoMoves
<1>6. CASE ReadAccepted(e) \/ RecordSubmitAccepted(e)
    <2>1. pc[e] \in AnswerLabels \ HoldingLabels
        BY <1>6 DEF ReadAccepted, RecordSubmitAccepted, AnswerLabels, HoldingLabels
    <2>2. PICK l \in {"record", "recheck", "apply"} : Goto(e, l)
        BY <1>6 DEF ReadAccepted, RecordSubmitAccepted
    <2>3. OnlyOwn(e) /\ UNCHANGED <<obj, res, ctx>>
        BY <1>6, <2>2 DEF ReadAccepted, RecordSubmitAccepted, OnlyOwn, Goto, TypeOK
    <2>4. CarriesTrue(e)
        BY <2>1, <2>3, CarriesOn DEF AnswersInv
    <2> QED
        BY <2>1, <2>2, <2>3, <2>4, GotoMoves
<1> QED
    BY <1>1, <1>2, <1>3, <1>4, <1>5, <1>6

\* Polls and webhooks, up to the completion path.
LEMMA PollMoves ==
    ASSUME TypeOK, AnswersInv, NEW e \in Tasks,
           \/ Recheck(e) \/ ReservePoll(e) \/ ReserveContended(e) \/ Poll(e)
           \/ ApplyReconciled(e) \/ HookReceive(e) \/ HookResult(e)
    PROVE  Moves(e)
<1> USE AwayLabels
<1>1. CASE Recheck(e)
    <2>1. pc[e] \notin HoldingLabels
        BY <1>1 DEF Recheck, HoldingLabels
    <2>2. CASE EndStep(e, TRUE)
        BY <2>1, <2>2, EndStepMoves
    <2>3. CASE ~EndStep(e, TRUE)
        <3>1. Goto(e, "reserve")
            BY <1>1, <2>3 DEF Recheck
        <3>2. OnlyOwn(e) /\ UNCHANGED obj /\ pc'[e] = "reserve"
            BY <1>1, <2>3 DEF Recheck, OnlyOwn, Goto, TypeOK
        <3>3. CarriesTrue(e)
            BY <3>2, CarriesNothing DEF AnswerLabels, HoldingLabels
        <3> QED
            BY <2>1, <3>1, <3>2, <3>3, GotoMoves
    <2> QED
        BY <2>2, <2>3
<1>2. CASE ReservePoll(e)
    <2>1. pc[e] \notin HoldingLabels
        BY <1>2 DEF ReservePoll, HoldingLabels
    <2>2. CASE EndStep(e, FALSE)
        BY <2>1, <2>2, EndStepMoves
    <2>3. CASE ~EndStep(e, FALSE)
        <3>1. PICK l \in {"fail", "poll"} : Goto(e, l)
            BY <1>2, <2>3 DEF ReservePoll
        <3>2. OnlyOwn(e) /\ UNCHANGED obj /\ pc'[e] = l
            BY <1>2, <2>3, <3>1 DEF ReservePoll, OnlyOwn, Goto, TypeOK
        <3>3. CarriesTrue(e)
            BY <3>2, CarriesNothing DEF AnswerLabels, HoldingLabels
        <3> QED
            BY <2>1, <3>1, <3>2, <3>3, GotoMoves
    <2> QED
        BY <2>2, <2>3
<1>3. CASE ReserveContended(e)
    <2>1. pc[e] \notin HoldingLabels
        BY <1>3 DEF ReserveContended, HoldingLabels
    <2> QED
        BY <1>3, <2>1, EndStepMoves DEF ReserveContended
<1>4. CASE Poll(e)
    <2>1. pc[e] \notin HoldingLabels
        BY <1>4 DEF Poll, HoldingLabels
    <2>2. CASE EndStep(e, FALSE)
        BY <2>1, <2>2, EndStepMoves
    <2>3. ASSUME NEW r \in PollResults(ctx[e]),
                 IF ctx[e].pjid = NoJob
                 THEN /\ Goto(e, "accepted")
                      /\ res' = [res EXCEPT ![e] = r]
                      /\ UNCHANGED <<ctx, obj, seen>>
                 ELSE Complete(e, r)
          PROVE  Moves(e)
        <3>1. /\ r \in Results
              /\ r.pjid \in ProviderJobs
              /\ r.pjid[1] = ctx[e].att
              /\ r.kind = "OUTPUT" => provider[r.pjid] = "SUCCEEDED"
            BY PollIsTrue
        <3>2. CASE ctx[e].pjid # NoJob
            BY <2>1, <2>3, <3>1, <3>2, CompleteCarries DEF Moves
        <3>3. CASE ctx[e].pjid = NoJob
            <4>1. OnlyOwn(e) /\ UNCHANGED obj /\ res'[e] = r /\ ctx'[e] = ctx[e]
                BY <2>3, <3>3 DEF OnlyOwn, Goto, TypeOK
            <4>2. CarriesTrue(e)
                BY <3>1, <4>1 DEF CarriesTrue
            <4> QED
                BY <2>1, <2>3, <3>3, <4>1, <4>2, GotoMoves
        <3> QED
            BY <3>2, <3>3
    <2> QED
        BY <1>4, <2>2, <2>3 DEF Poll
<1>5. CASE ApplyReconciled(e)
    <2>1. pc[e] \in AnswerLabels \ HoldingLabels
        BY <1>5 DEF ApplyReconciled, AnswerLabels, HoldingLabels
    <2>2. CASE EndStep(e, FALSE)
        BY <2>1, <2>2, EndStepMoves
    <2>3. CASE Complete(e, res[e])
        <3>1. res[e] \in Results
            BY DEF TypeOK
        <3>2. AnswerTrue(e)
            BY DEF AnswersInv
        <3> QED
            BY <2>1, <2>3, <3>1, <3>2, CompleteCarries DEF AnswerTrue, Moves
    <2> QED
        BY <1>5, <2>2, <2>3 DEF ApplyReconciled
<1>6. CASE HookReceive(e)
    <2>1. pc[e] \notin HoldingLabels /\ Goto(e, "event")
        BY <1>6 DEF HookReceive, HoldingLabels
    <2>2. OnlyOwn(e) /\ UNCHANGED obj /\ pc'[e] = "event"
        BY <1>6 DEF HookReceive, OnlyOwn, Goto, TypeOK
    <2>3. CarriesTrue(e)
        BY <2>2, CarriesNothing DEF AnswerLabels, HoldingLabels
    <2> QED
        BY <2>1, <2>2, <2>3, GotoMoves
<1>7. CASE HookResult(e)
    <2>1. pc[e] \notin HoldingLabels
        BY <1>7 DEF HookResult, HoldingLabels
    <2>2. ASSUME NEW r \in PollResults(ctx[e]), Complete(e, r) PROVE Moves(e)
        BY <2>1, <2>2, PollIsTrue, CompleteCarries DEF Moves
    <2> QED
        BY <1>7, <2>1, <2>2, EndStepMoves DEF HookResult
<1> QED
    BY <1>1, <1>2, <1>3, <1>4, <1>5, <1>6, <1>7

\* The ends of attempts, and the cancel dispatcher.
LEMMA EndingMoves ==
    ASSUME TypeOK, AnswersInv, NEW t \in Tasks,
           \/ LockJob(t) \/ FailAttempt(t) \/ FinishCancelled(t) \/ Reconcile(t)
           \/ ClaimCancel(t) \/ LoadCancellable(t) \/ ProviderCancel(t) \/ MarkPublished(t)
           \/ ScheduleRetry(t)
    PROVE  Moves(t)
<1> USE AwayLabels
<1>1. CASE LockJob(t)
    <2>1. pc[t] \notin HoldingLabels
        BY <1>1 DEF LockJob, HoldingLabels
    <2>2. PICK l \in {"failing", "finishing"} : Goto(t, l)
        BY <1>1 DEF LockJob
    <2>3. OnlyOwn(t) /\ UNCHANGED obj /\ pc'[t] = l
        BY <1>1, <2>2 DEF LockJob, OnlyOwn, Goto, TypeOK
    <2>4. CarriesTrue(t)
        BY <2>3, CarriesNothing DEF AnswerLabels, HoldingLabels
    <2> QED
        BY <2>1, <2>2, <2>3, <2>4, GotoMoves
<1>2. CASE FailAttempt(t)
    <2>1. pc[t] \notin HoldingLabels
        BY <1>2 DEF FailAttempt, HoldingLabels
    <2>2. EndStep(t, TRUE) \/ RetryAttempt(t)
        BY <1>2 DEF FailAttempt
    <2> QED
        BY <2>1, <2>2, EndStepMoves, RetryAway, CarriesNothing DEF Moves
<1>3. CASE FinishCancelled(t)
    <2>1. pc[t] \notin HoldingLabels /\ EndStep(t, TRUE)
        BY <1>3 DEF FinishCancelled, HoldingLabels
    <2> QED
        BY <2>1, EndStepMoves
<1>4. CASE Reconcile(t)
    <2>1. pc[t] \notin HoldingLabels /\ Rest(t, "load")
        BY <1>4 DEF Reconcile, HoldingLabels
    <2> QED
        BY <2>1, RestMoves
<1>5. CASE ClaimCancel(t)
    <2>1. pc[t] \notin HoldingLabels /\ Goto(t, "load")
        BY <1>5 DEF ClaimCancel, HoldingLabels
    <2>2. OnlyOwn(t) /\ UNCHANGED obj /\ pc'[t] = "load"
        BY <1>5 DEF ClaimCancel, OnlyOwn, Goto, TypeOK
    <2> QED
        BY <2>1, <2>2, CarriesNothing, GotoMoves
<1>6. CASE LoadCancellable(t)
    <2>1. pc[t] \notin HoldingLabels
        BY <1>6 DEF LoadCancellable, HoldingLabels
    <2>2. CASE Rest(t, "off") \/ Rest(t, "publish")
        BY <2>1, <2>2, RestMoves
    <2>3. CASE ~(Rest(t, "off") \/ Rest(t, "publish"))
        <3>1. Goto(t, "cancel")
            BY <1>6, <2>3 DEF LoadCancellable
        <3>2. OnlyOwn(t) /\ UNCHANGED obj /\ pc'[t] = "cancel"
            BY <1>6, <2>3 DEF LoadCancellable, OnlyOwn, Goto, TypeOK
        <3>3. CarriesTrue(t)
            BY <3>2, CarriesNothing DEF AnswerLabels, HoldingLabels
        <3> QED
            BY <2>1, <3>1, <3>2, <3>3, GotoMoves
    <2> QED
        BY <2>2, <2>3
<1>7. CASE ProviderCancel(t)
    <2> DEFINE r == [kind |-> "CANCELLED", pjid |-> ctx[t].pjid]
    <2>1. pc[t] \notin HoldingLabels
        BY <1>7 DEF ProviderCancel, HoldingLabels
    <2>2. r \in Results /\ r.kind # "OUTPUT"
        BY DEF TypeOK, Contexts, Results, ResultKinds
    <2>3. Rest(t, "retry") \/ Rest(t, "publish") \/ Complete(t, r)
        BY <1>7 DEF ProviderCancel
    <2> HIDE DEF r
    <2> QED
        BY <2>1, <2>2, <2>3, RestMoves, CompleteCarries DEF Moves
<1>8. CASE MarkPublished(t) \/ ScheduleRetry(t)
    <2>1. pc[t] \notin HoldingLabels /\ Rest(t, "off")
        BY <1>8 DEF MarkPublished, ScheduleRetry, HoldingLabels
    <2> QED
        BY <2>1, RestMoves
<1> QED
    BY <1>1, <1>2, <1>3, <1>4, <1>5, <1>6, <1>7, <1>8

\* A step of a task that neither publishes nor commits nor dies.
Quiet(t) ==
    \/ t \in Executors /\ ExecutorStep(t)
    \/ t \in Hooks /\ (HookReceive(t) \/ HookResult(t))
    \/ LockJob(t) \/ FailAttempt(t) \/ FinishCancelled(t)
    \/ t \in Reconcilers /\ Reconcile(t)
    \/ t \in Dispatchers /\ DispatcherStep(t)

LEMMA QuietMoves ==
    ASSUME TypeOK, AnswersInv, NEW t \in Tasks, Quiet(t)
    PROVE  Moves(t)
BY SubmissionMoves, PollMoves, EndingMoves DEF Quiet, ExecutorStep, DispatcherStep

\* Such a step touches no output, and neither starts the workflow nor runs it before its start.
LEMMA QuietOutputs ==
    ASSUME NEW t \in Tasks, Quiet(t)
    PROVE  /\ UNCHANGED <<outputs, finalOutput, objects, nextKey, crashes, started>>
           /\ t = Workflow => pc[t] # "off"
<1> USE DEF output, outside
<1>1. CASE t \in Executors /\ ExecutorStep(t)
    <2>1. CASE Load(t) \/ StartSubmit(t) \/ Reload(t) \/ SubmitAccepted(t) \/ SubmitUnknown(t)
        BY <2>1 DEF Load, StartSubmit, Reload, SubmitAccepted, SubmitUnknown
    <2>2. CASE SubmitRejected(t) \/ ReadAccepted(t) \/ RecordSubmitAccepted(t) \/ Recheck(t)
        BY <2>2 DEF SubmitRejected, ReadAccepted, RecordSubmitAccepted, Recheck
    <2>3. CASE ReservePoll(t) \/ ReserveContended(t) \/ Poll(t) \/ ApplyReconciled(t)
        BY <2>3 DEF ReservePoll, ReserveContended, Poll, ApplyReconciled
    <2> QED
        BY <1>1, <2>1, <2>2, <2>3 DEF ExecutorStep
<1>2. CASE t \in Hooks /\ (HookReceive(t) \/ HookResult(t))
    BY <1>2, TasksAssumption DEF HookReceive, HookResult, Executors
<1>3. CASE LockJob(t) \/ FailAttempt(t) \/ FinishCancelled(t)
    BY <1>3 DEF LockJob, FailAttempt, FinishCancelled
<1>4. CASE t \in Reconcilers /\ Reconcile(t)
    BY <1>4, TasksAssumption DEF Reconcile
<1>5. CASE t \in Dispatchers /\ DispatcherStep(t)
    BY <1>5, TasksAssumption DEF DispatcherStep, ClaimCancel, LoadCancellable, ProviderCancel,
       MarkPublished, ScheduleRetry, Executors
<1> QED
    BY <1>1, <1>2, <1>3, <1>4, <1>5 DEF Quiet

\* Only the commit of an output makes a job succeed and settles its reservation.
LEMMA QuietJob ==
    ASSUME NEW t \in Tasks, Quiet(t)
    PROVE  /\ jobStatus' = "SUCCEEDED" => jobStatus = "SUCCEEDED"
           /\ settlement' = "SETTLED" => settlement = "SETTLED"
<1> USE DEF job
<1>1. CASE t \in Executors /\ ExecutorStep(t)
    <2>1. CASE Load(t) \/ StartSubmit(t) \/ Reload(t) \/ SubmitAccepted(t) \/ SubmitUnknown(t)
        BY <2>1 DEF Load, StartSubmit, Reload, SubmitAccepted, SubmitUnknown
    <2>2. CASE SubmitRejected(t) \/ ReadAccepted(t) \/ RecordSubmitAccepted(t) \/ Recheck(t)
        BY <2>2 DEF SubmitRejected, ReadAccepted, RecordSubmitAccepted, Recheck
    <2>3. CASE ReservePoll(t) \/ ReserveContended(t) \/ Poll(t) \/ ApplyReconciled(t)
        BY <2>3 DEF ReservePoll, ReserveContended, Poll, ApplyReconciled
    <2> QED
        BY <1>1, <2>1, <2>2, <2>3 DEF ExecutorStep
<1>2. CASE t \in Hooks /\ (HookReceive(t) \/ HookResult(t))
    BY <1>2 DEF HookReceive, HookResult
<1>3. CASE LockJob(t) \/ FailAttempt(t) \/ FinishCancelled(t)
    BY <1>3 DEF LockJob, FailAttempt, FinishCancelled, CloseCancelled, FinishReservation
<1>4. CASE t \in Reconcilers /\ Reconcile(t)
    BY <1>4 DEF Reconcile
<1>5. CASE t \in Dispatchers /\ DispatcherStep(t)
    BY <1>5 DEF DispatcherStep, ClaimCancel, LoadCancellable, ProviderCancel, MarkPublished,
       ScheduleRetry
<1> QED
    BY <1>1, <1>2, <1>3, <1>4, <1>5 DEF Quiet

\* The steps that belong to no task.
Environment ==
    \/ CancelLoad \/ CancelCommit \/ ReplayDeadLetter
    \/ \E a \in Attempts : DeadlinePasses(a)
    \/ \E j \in ProviderJobs : ProviderEnds(j)

LEMMA EnvironmentOutputs ==
    ASSUME Environment
    PROVE  /\ UNCHANGED <<outputs, finalOutput, objects, nextKey, crashes, started, task>>
           /\ jobStatus' = "SUCCEEDED" => jobStatus = "SUCCEEDED"
           /\ settlement' = "SETTLED" => settlement = "SETTLED"
BY DEF Environment, CancelLoad, CancelCommit, ReplayDeadLetter, DeadlinePasses, ProviderEnds,
       FinishReservation, job, output

\* The steps of the system, by what they do to the outputs.
LEMMA StepKinds ==
    ASSUME Next
    PROVE  \/ StartWorkflow \/ Environment
           \/ \E t \in Tasks : \/ Quiet(t) \/ Crash(t) \/ ReceiveArtifact(t)
                               \/ ReadForCommit(t) \/ CommitOutput(t)
BY DEF Next, Quiet, Environment, CompletionStep, Tasks, Executors

\* A finished job does not come back.
LEMMA SuccessStays ==
    ASSUME IInv, Next, jobStatus = "SUCCEEDED"
    PROVE  jobStatus' = "SUCCEEDED"
BY TerminalStep DEF JobIsTerminal, JOB_TERMINAL_STATUSES

-----------------------------------------------------------------------------
(* Every step keeps the invariant on the objects *)

LEMMA WaitsOn ==
    ASSUME WorkflowWaits, NEW t \in Tasks, OnlyOwn(t), t = Workflow => pc[t] # "off",
           UNCHANGED started
    PROVE  WorkflowWaits'
BY DEF WorkflowWaits, OnlyOwn, Tasks, Executors

\* A task that publishes an object gets a key that nobody holds.
LEMMA ReceiveObjects ==
    ASSUME IInv, ObjectsInv, NEW t \in Tasks, ReceiveArtifact(t)
    PROVE  ObjectsInv'
<1>1. TypeOK
    BY DEF IInv
<1>2. pc[t] = "receive" /\ pc[t] \notin HoldingLabels /\ obj[t] = 0
    BY DEF ReceiveArtifact, ObjectsInv, Holding, HoldingLabels
<1>3. UNCHANGED <<outputs, finalOutput, crashes, started, jobStatus, ctx>>
    BY DEF ReceiveArtifact, job, outside
<1>4. OnlyOwn(t)
    BY <1>1 DEF ReceiveArtifact, OnlyOwn, Goto, TypeOK
<1>5. WorkflowWaits'
    BY <1>2, <1>3, <1>4, WaitsOn DEF ObjectsInv
<1>6. CASE Goto(t, "fail") /\ UNCHANGED <<objects, nextKey, obj>>
    <2>1. GoesAway(t)
        BY <1>6 DEF Goto, GoesAway, Labels, HoldingLabels
    <2> QED
        BY <1>1, <1>2, <1>3, <1>5, <1>6, <2>1, ObjectsAway
<1>7. CASE /\ Goto(t, "commit") /\ objects' = objects \cup {nextKey}
           /\ obj' = [obj EXCEPT ![t] = nextKey] /\ nextKey' = nextKey + 1
    <2>1. nextKey \in Nat /\ nextKey' \in Nat /\ nextKey < nextKey' /\ objects \subseteq Nat
        BY <1>1, <1>7 DEF TypeOK
    <2>2. nextKey \notin objects
        BY <2>1 DEF ObjectsInv
    <2>3. \A k \in objects' : k # 0 /\ k < nextKey'
        BY <1>7, <2>1 DEF ObjectsInv
    <2>4. obj'[t] = nextKey /\ pc'[t] = "commit"
        BY <1>1, <1>7 DEF TypeOK, Goto
    <2>5. outputs \subseteq objects
        BY DEF ObjectsInv, FinalOutputStored
    <2>6. ASSUME NEW u \in Tasks PROVE Holding(u)'
        BY <1>2, <1>3, <1>4, <1>7, <2>2, <2>4, <2>5
           DEF ObjectsInv, Holding, OnlyOwn, HoldingLabels
    <2>7. \A u \in Tasks : obj[u] # nextKey
        BY <2>2 DEF ObjectsInv, Holding
    <2>8. \A x, u \in Tasks : x # u /\ obj'[x] # 0 => obj'[x] # obj'[u]
        BY <1>4, <2>4, <2>7 DEF ObjectsInv, OnlyOwn
    <2>9. FinalOutputStored'
        BY <1>3, <1>7 DEF ObjectsInv, FinalOutputStored
    <2>10. NoOrphanObject'
        <3> SUFFICES ASSUME crashes' = 0, NEW k \in objects'
                     PROVE  k \in outputs' \/ \E u \in Tasks : obj'[u] = k
            BY DEF NoOrphanObject
        <3>1. CASE k = nextKey
            BY <2>4, <3>1
        <3>2. CASE k \in objects /\ k \notin outputs
            <4>1. PICK u \in Tasks : obj[u] = k
                BY <1>3, <3>2 DEF ObjectsInv, NoOrphanObject
            <4>2. u # t
                BY <1>2, <3>2, <4>1 DEF ObjectsInv
            <4> QED
                BY <1>4, <4>1, <4>2 DEF OnlyOwn
        <3> QED
            BY <1>3, <1>7, <3>1, <3>2
    <2> QED
        BY <1>5, <2>1, <2>3, <2>6, <2>8, <2>9, <2>10 DEF ObjectsInv
<1> QED
    BY <1>6, <1>7 DEF ReceiveArtifact

\* The first read of commit_output: the task keeps its object or deletes it.
LEMMA ReadObjects ==
    ASSUME IInv, ObjectsInv, NEW t \in Tasks, ReadForCommit(t)
    PROVE  ObjectsInv'
<1>1. TypeOK
    BY DEF IInv
<1>2. pc[t] = "commit" /\ pc[t] # "off"
    BY DEF ReadForCommit
<1>3. UNCHANGED <<nextKey, crashes, started>>
    BY DEF ReadForCommit, outside
<1>4. CASE DiscardObject(t)
    <2>1. EndStep(t, TRUE) /\ objects' = objects \ {obj[t]}
          /\ UNCHANGED <<jobStatus, outputs, finalOutput>>
        BY <1>4 DEF DiscardObject, job
    <2>2. GoesAway(t) /\ OnlyOwn(t) /\ obj' = [obj EXCEPT ![t] = 0]
        BY <1>1, <2>1, EndStepAway
    <2>3. WorkflowWaits'
        BY <1>2, <1>3, <2>2, WaitsOn DEF ObjectsInv
    <2> QED
        BY <1>1, <1>3, <2>1, <2>2, <2>3, ObjectsDiscard
<1>5. CASE ~DiscardObject(t)
    <2>1. Goto(t, "cas") /\ UNCHANGED <<jobStatus, outputs, finalOutput, objects, obj, ctx, res>>
        BY <1>5 DEF ReadForCommit, job
    <2>2. OnlyOwn(t) /\ pc'[t] = "cas"
        BY <1>1, <2>1 DEF OnlyOwn, Goto, TypeOK
    <2>3. WorkflowWaits'
        BY <1>2, <1>3, <2>2, WaitsOn DEF ObjectsInv
    <2>4. ASSUME NEW u \in Tasks PROVE Holding(u)'
        BY <1>2, <2>1, <2>2 DEF ObjectsInv, Holding, OnlyOwn, HoldingLabels
    <2>5. FinalOutputStored' /\ NoOrphanObject'
        BY <1>3, <2>1 DEF ObjectsInv, FinalOutputStored, NoOrphanObject
    <2> QED
        BY <1>3, <2>1, <2>3, <2>4, <2>5 DEF ObjectsInv
<1> QED
    BY <1>4, <1>5

\* The commit of an output names the object of its task; a lost race deletes it.
LEMMA CommitObjects ==
    ASSUME IInv, ObjectsInv, NEW t \in Tasks, CommitOutput(t)
    PROVE  ObjectsInv'
<1>1. TypeOK /\ TaskInv
    BY TaskInvHolds DEF IInv
<1>2. pc[t] = "cas" /\ pc[t] # "off"
    BY DEF CommitOutput
<1>3. UNCHANGED <<nextKey, crashes, started>>
    BY DEF CommitOutput, outside
<1>4. EndStep(t, TRUE)
    BY DEF CommitOutput, DiscardObject
<1>5. GoesAway(t) /\ OnlyOwn(t) /\ obj' = [obj EXCEPT ![t] = 0]
      /\ pc'[t] \in {"publish", "load", "off"}
    BY <1>1, <1>4, EndStepAway
<1>6. WorkflowWaits'
    BY <1>2, <1>3, <1>5, WaitsOn DEF ObjectsInv
<1>7. CASE DiscardObject(t)
    <2>1. objects' = objects \ {obj[t]} /\ UNCHANGED <<jobStatus, outputs, finalOutput>>
        BY <1>7 DEF DiscardObject, job
    <2> QED
        BY <1>1, <1>3, <1>5, <1>6, <2>1, ObjectsDiscard
<1>8. CASE ~DiscardObject(t)
    <2>1. /\ attStatus[ctx[t].att] = "RUNNING"
          /\ outputs' = outputs \cup {obj[t]} /\ UNCHANGED objects
          /\ \/ jobStatus' = "SUCCEEDED" /\ finalOutput' = obj[t]
             \/ jobStatus' = "FAILED_FINAL" /\ UNCHANGED finalOutput
        BY <1>8 DEF CommitOutput
    <2>2. obj[t] \in objects \ outputs /\ obj[t] # 0
        BY <1>2 DEF ObjectsInv, Holding, HoldingLabels
    <2>3. jobStatus # "SUCCEEDED"
        <3>1. ctx[t].att \in Attempts /\ ctx[t].att <= attempts
            BY <1>1 DEF TaskInv, Contexts
        <3>2. attStatus[ctx[t].att] \in ActiveAttemptStatuses
            BY <2>1 DEF ActiveAttemptStatuses, AttemptStatuses, ATTEMPT_TERMINAL_STATUSES
        <3>3. jobStatus \in {"QUEUED", "ROUTING", "RUNNING", "CANCEL_REQUESTED"}
            BY <3>1, <3>2, ActiveIsLast
        <3> QED
            BY <3>3
    <2>4. obj'[t] = 0
        BY <1>1, <1>5 DEF TypeOK
    <2>5. ASSUME NEW u \in Tasks PROVE Holding(u)'
        BY <1>5, <2>1, <2>2, <2>4 DEF ObjectsInv, Holding, OnlyOwn, HoldingLabels
    <2>6. FinalOutputStored'
        BY <2>1, <2>2, <2>3 DEF ObjectsInv, FinalOutputStored
    <2>7. NoOrphanObject'
        BY <1>3, <1>5, <2>1 DEF ObjectsInv, NoOrphanObject, OnlyOwn
    <2>8. \A x, u \in Tasks : x # u /\ obj'[x] # 0 => obj'[x] # obj'[u]
        BY <1>5, <2>4 DEF ObjectsInv, OnlyOwn
    <2> QED
        BY <1>3, <1>6, <2>1, <2>5, <2>6, <2>7, <2>8 DEF ObjectsInv
<1> QED
    BY <1>7, <1>8

\* A task that dies leaves its object behind, or deletes it; it never deletes another one.
LEMMA CrashObjects ==
    ASSUME IInv, ObjectsInv, NEW t \in Tasks, Crash(t)
    PROVE  ObjectsInv'
<1>1. TypeOK
    BY DEF IInv
<1>2. pc[t] # "off" /\ objects' \in {objects, objects \ {obj[t]}}
    BY DEF Crash
<1>3. UNCHANGED <<nextKey, started, outputs, finalOutput, jobStatus>>
    BY DEF Crash, job
<1>4. PICK l \in {"off", "load"} : Rest(t, l)
    BY DEF Crash
<1>5. l \in Labels \ HoldingLabels
    BY DEF Labels, HoldingLabels
<1>6. GoesAway(t) /\ OnlyOwn(t) /\ obj' = [obj EXCEPT ![t] = 0]
    BY <1>1, <1>4, <1>5, RestAway
<1>7. WorkflowWaits'
    BY <1>2, <1>3, <1>6, WaitsOn DEF ObjectsInv
<1>8. crashes' # 0
    BY <1>1 DEF Crash, TypeOK
<1> QED
    BY <1>1, <1>2, <1>3, <1>6, <1>7, <1>8, ObjectsDiscard

LEMMA ObjectsStep ==
    ASSUME IInv, ObjectsInv, AnswersInv, [Next]_vars
    PROVE  ObjectsInv'
<1>1. TypeOK
    BY DEF IInv
<1>2. CASE UNCHANGED vars
    BY <1>2, ObjectsStay DEF vars
<1>3. CASE Next /\ StartWorkflow
    <2>1. ~started /\ started' /\ Rest(Workflow, "load") /\ Workflow \in Tasks
        BY <1>3 DEF StartWorkflow, Tasks, Executors
    <2>2. UNCHANGED <<outputs, finalOutput, objects, nextKey, crashes, jobStatus>>
        BY <1>3 DEF StartWorkflow, job, output
    <2>3. pc[Workflow] \notin HoldingLabels
        BY <2>1 DEF ObjectsInv, WorkflowWaits, HoldingLabels
    <2>4. GoesAway(Workflow)
        BY <1>1, <2>1, <2>3, RestMoves DEF Moves
    <2>5. WorkflowWaits'
        BY <2>1 DEF WorkflowWaits
    <2> QED
        BY <1>1, <2>1, <2>2, <2>3, <2>4, <2>5, ObjectsAway
<1>4. CASE Next /\ Environment
    <2>1. UNCHANGED <<outputs, finalOutput, objects, nextKey, crashes, started, pc, obj>>
        BY <1>4, EnvironmentOutputs DEF task
    <2>2. jobStatus = "SUCCEEDED" <=> jobStatus' = "SUCCEEDED"
        BY <1>4, EnvironmentOutputs, SuccessStays
    <2> QED
        BY <2>1, <2>2, ObjectsStay
<1>5. ASSUME Next, NEW t \in Tasks, Quiet(t) PROVE ObjectsInv'
    <2>1. Moves(t)
        BY <1>1, <1>5, QuietMoves
    <2>2. /\ UNCHANGED <<outputs, finalOutput, objects, nextKey, crashes, started>>
          /\ t = Workflow => pc[t] # "off"
        BY <1>5, QuietOutputs
    <2>3. jobStatus = "SUCCEEDED" <=> jobStatus' = "SUCCEEDED"
        BY <1>5, QuietJob, SuccessStays
    <2>4. WorkflowWaits'
        BY <2>1, <2>2, WaitsOn DEF ObjectsInv, Moves
    <2> QED
        BY <1>1, <2>1, <2>2, <2>3, <2>4, ObjectsAway DEF Moves
<1>6. ASSUME NEW t \in Tasks,
             Crash(t) \/ ReceiveArtifact(t) \/ ReadForCommit(t) \/ CommitOutput(t)
      PROVE  ObjectsInv'
    BY <1>6, CrashObjects, ReceiveObjects, ReadObjects, CommitObjects
<1> QED
    BY <1>2, <1>3, <1>4, <1>5, <1>6, StepKinds

-----------------------------------------------------------------------------
(* Every step keeps the invariant on the answers *)

\* What the provider completed stays completed.
ProviderKeeps == \A j \in ProviderJobs : provider[j] = "SUCCEEDED" => provider'[j] = "SUCCEEDED"

LEMMA ProviderStays ==
    ASSUME Unsubmitted, UNCHANGED <<provider, submits>>
    PROVE  Unsubmitted' /\ ProviderKeeps
BY DEF Unsubmitted, ProviderKeeps

\* A provider job that runs changes its status.
LEMMA ProviderChanges ==
    ASSUME TypeOK, Unsubmitted, NEW j \in ProviderJobs, NEW s, provider[j] = "RUNNING",
           provider' = [provider EXCEPT ![j] = s], UNCHANGED submits
    PROVE  Unsubmitted' /\ ProviderKeeps
<1>1. ProviderKeeps
    BY DEF ProviderKeeps, TypeOK
<1>2. ASSUME NEW a \in Attempts, NEW n \in 1 .. MaxSubmits, n > submits[a]
      PROVE  provider'[<<a, n>>] = "ABSENT"
    <2>1. <<a, n>> \in ProviderJobs /\ provider[<<a, n>>] = "ABSENT"
        BY <1>2 DEF Unsubmitted, ProviderJobs
    <2> QED
        BY <2>1 DEF TypeOK
<1> QED
    BY <1>1, <1>2 DEF Unsubmitted

\* A submission reaches the provider under a number that was not used before.
LEMMA ProviderAccepts ==
    ASSUME TypeOK, Unsubmitted, NEW e \in Tasks, SubmitAccepted(e)
    PROVE  Unsubmitted' /\ ProviderKeeps
<1>1. PICK a \in Attempts : a = ctx[e].att
    BY DEF TypeOK, Contexts
<1>2. PICK m \in 0 .. MaxSubmits : m = submits[a]
    BY DEF TypeOK
<1>3. m + 1 \in 1 .. MaxSubmits /\ m + 1 > submits[a]
    BY <1>1, <1>2, BoundsAssumption DEF SubmitAccepted
<1>4. <<a, m + 1>> \in ProviderJobs /\ provider[<<a, m + 1>>] = "ABSENT"
    BY <1>3 DEF Unsubmitted, ProviderJobs
<1>5. /\ provider' = [provider EXCEPT ![<<a, m + 1>>] = "RUNNING"]
      /\ submits' = [submits EXCEPT ![a] = m + 1]
    BY <1>1, <1>2 DEF SubmitAccepted
<1>6. ProviderKeeps
    BY <1>4, <1>5 DEF ProviderKeeps, TypeOK
<1>7. ASSUME NEW b \in Attempts, NEW n \in 1 .. MaxSubmits, n > submits'[b]
      PROVE  provider'[<<b, n>>] = "ABSENT"
    <2>1. <<b, n>> # <<a, m + 1>>
        BY <1>2, <1>5, <1>7 DEF TypeOK
    <2>2. n > submits[b]
        BY <1>2, <1>5, <1>7 DEF TypeOK
    <2>3. provider[<<b, n>>] = "ABSENT" /\ <<b, n>> \in ProviderJobs
        BY <2>2 DEF Unsubmitted, ProviderJobs
    <2> QED
        BY <1>5, <2>1, <2>3 DEF TypeOK
<1> QED
    BY <1>6, <1>7 DEF Unsubmitted

LEMMA ProviderStep ==
    ASSUME TypeOK, Unsubmitted, [Next]_vars
    PROVE  Unsubmitted' /\ ProviderKeeps
<1> USE DEF outside
<1>1. CASE UNCHANGED vars
    BY <1>1, ProviderStays DEF vars
<1>2. CASE StartWorkflow \/ (\E r \in Reconcilers : Reconcile(r))
    BY <1>2, ProviderStays DEF StartWorkflow, Reconcile
<1>3. ASSUME NEW e \in Executors, ExecutorStep(e) PROVE Unsubmitted' /\ ProviderKeeps
    <2>1. CASE SubmitAccepted(e)
        BY <2>1, ProviderAccepts DEF Tasks
    <2>2. CASE Load(e) \/ StartSubmit(e) \/ Reload(e) \/ SubmitUnknown(e) \/ SubmitRejected(e)
        BY <2>2, ProviderStays DEF Load, StartSubmit, Reload, SubmitUnknown, SubmitRejected
    <2>3. CASE ReadAccepted(e) \/ RecordSubmitAccepted(e) \/ Recheck(e) \/ ReservePoll(e)
        BY <2>3, ProviderStays DEF ReadAccepted, RecordSubmitAccepted, Recheck, ReservePoll
    <2>4. CASE ReserveContended(e) \/ Poll(e) \/ ApplyReconciled(e)
        BY <2>4, ProviderStays DEF ReserveContended, Poll, ApplyReconciled
    <2> QED
        BY <1>3, <2>1, <2>2, <2>3, <2>4 DEF ExecutorStep
<1>4. CASE \E h \in Hooks : HookReceive(h) \/ HookResult(h)
    BY <1>4, ProviderStays DEF HookReceive, HookResult
<1>5. ASSUME NEW t \in Tasks, CompletionStep(t) \/ Crash(t) PROVE Unsubmitted' /\ ProviderKeeps
    BY <1>5, ProviderStays DEF CompletionStep, ReceiveArtifact, ReadForCommit, CommitOutput,
       LockJob, FailAttempt, FinishCancelled, Crash
<1>6. CASE CancelLoad \/ CancelCommit \/ ReplayDeadLetter
    BY <1>6, ProviderStays DEF CancelLoad, CancelCommit, ReplayDeadLetter
<1>7. ASSUME NEW d \in Dispatchers, DispatcherStep(d) PROVE Unsubmitted' /\ ProviderKeeps
    <2>1. CASE ClaimCancel(d) \/ LoadCancellable(d) \/ MarkPublished(d) \/ ScheduleRetry(d)
        BY <2>1, ProviderStays DEF ClaimCancel, LoadCancellable, MarkPublished, ScheduleRetry
    <2>2. CASE ProviderCancel(d)
        <3>1. d \in Tasks /\ ctx[d].pjid \in MaybeJob
            BY DEF TypeOK, Contexts, Tasks
        <3>2. UNCHANGED submits
            BY <2>2 DEF ProviderCancel
        <3>3. CASE UNCHANGED provider
            BY <3>2, <3>3, ProviderStays
        <3>4. CASE /\ ctx[d].pjid # NoJob /\ provider[ctx[d].pjid] = "RUNNING"
                   /\ provider' = [provider EXCEPT ![ctx[d].pjid] = "CANCELLED"]
            <4>1. ctx[d].pjid \in ProviderJobs
                BY <3>1, <3>4 DEF MaybeJob
            <4> QED
                BY <3>2, <3>4, <4>1, ProviderChanges
        <3> QED
            BY <2>2, <3>3, <3>4 DEF ProviderCancel
    <2> QED
        BY <1>7, <2>1, <2>2 DEF DispatcherStep
<1>8. CASE \E a \in Attempts : DeadlinePasses(a)
    BY <1>8, ProviderStays DEF DeadlinePasses
<1>9. CASE \E j \in ProviderJobs : ProviderEnds(j)
    BY <1>9, ProviderChanges DEF ProviderEnds
<1> QED
    BY <1>1, <1>2, <1>3, <1>4, <1>5, <1>6, <1>7, <1>8, <1>9 DEF Next

\* The answers survive a step of one task that carries on truthfully.
LEMMA AnswersOn ==
    ASSUME TypeOK, AnswersInv, ProviderKeeps, NEW t \in Tasks, OnlyOwn(t), CarriesTrue(t)
    PROVE  \A u \in Tasks : AnswerTrue(u)'
<1>1. AnswerTrue(t)'
    BY DEF CarriesTrue, AnswerTrue, ProviderKeeps
<1>2. ASSUME NEW u \in Tasks, u # t PROVE AnswerTrue(u)'
    <2>1. AnswerTrue(u) /\ pc'[u] = pc[u] /\ res'[u] = res[u] /\ ctx'[u] = ctx[u]
        BY <1>2 DEF OnlyOwn, AnswersInv
    <2> QED
        BY <2>1 DEF AnswerTrue, ProviderKeeps
<1> QED
    BY <1>1, <1>2

\* What is charged stays charged for the same reason.
LEMMA ChargedOn ==
    ASSUME IInv, AnswersInv, ProviderKeeps, [Next]_vars,
           settlement' = "SETTLED" => settlement = "SETTLED"
    PROVE  ChargedForOutput'
<1>1. SUFFICES ASSUME settlement = "SETTLED" PROVE ChargedForOutput'
    BY DEF ChargedForOutput
<1>2. jobStatus = "SUCCEEDED"
    BY <1>1, SettlementCases DEF IInv, RowsInv
<1>3. UNCHANGED <<attempts, attStatus>>
    BY <1>2, TerminalStep DEF JobIsTerminal, JOB_TERMINAL_STATUSES, vars
<1>4. PICK n \in 1 .. MaxSubmits : provider[<<attempts, n>>] = "SUCCEEDED"
    BY <1>1 DEF AnswersInv, ChargedForOutput
<1>5. <<attempts, n>> \in ProviderJobs
    BY DEF IInv, TypeOK, ProviderJobs
<1>6. provider'[<<attempts', n>>] = "SUCCEEDED"
    BY <1>3, <1>4, <1>5 DEF ProviderKeeps
<1>7. attStatus'[attempts'] = "SUCCEEDED"
    BY <1>1, <1>3 DEF AnswersInv, ChargedForOutput
<1> QED
    BY <1>6, <1>7 DEF ChargedForOutput

\* A task commits an output only for the attempt that the provider completed.
LEMMA CommitCharges ==
    ASSUME IInv, AnswersInv, ProviderKeeps, NEW t \in Tasks, CommitOutput(t),
           settlement' = "SETTLED", settlement # "SETTLED"
    PROVE  ChargedForOutput'
<1>1. TypeOK /\ TaskInv
    BY TaskInvHolds DEF IInv
<1>2. /\ attStatus[ctx[t].att] = "RUNNING" /\ res[t].kind = "OUTPUT" /\ pc[t] = "cas"
      /\ attStatus' = [attStatus EXCEPT ![ctx[t].att] = "SUCCEEDED"]
      /\ UNCHANGED attempts
    BY DEF CommitOutput, DiscardObject, FinishReservation, job
<1>3. ctx[t].att \in Attempts /\ ctx[t].att <= attempts
    BY <1>1 DEF TaskInv, Contexts
<1>4. attStatus[ctx[t].att] \in ActiveAttemptStatuses
    BY <1>2 DEF ActiveAttemptStatuses, AttemptStatuses, ATTEMPT_TERMINAL_STATUSES
<1>5. ctx[t].att = attempts
    BY <1>3, <1>4, ActiveIsLast
<1>6. attStatus'[attempts'] = "SUCCEEDED"
    BY <1>1, <1>2, <1>3, <1>5 DEF TypeOK
<1>7. /\ res[t].pjid \in ProviderJobs /\ res[t].pjid[1] = attempts
      /\ provider[res[t].pjid] = "SUCCEEDED"
    BY <1>2, <1>5 DEF AnswersInv, AnswerTrue, AnswerLabels, HoldingLabels
<1>8. PICK n \in 1 .. MaxSubmits : res[t].pjid = <<attempts, n>>
    BY <1>7 DEF ProviderJobs
<1>9. provider'[<<attempts', n>>] = "SUCCEEDED"
    BY <1>2, <1>7, <1>8 DEF ProviderKeeps
<1> QED
    BY <1>6, <1>9 DEF ChargedForOutput

LEMMA AnswersStep ==
    ASSUME IInv, AnswersInv, [Next]_vars
    PROVE  AnswersInv'
<1>1. TypeOK
    BY DEF IInv
<1>2. Unsubmitted' /\ ProviderKeeps
    BY <1>1, ProviderStep DEF AnswersInv
<1>3. CASE UNCHANGED vars
    BY <1>3 DEF vars, AnswersInv, Unsubmitted, AnswerTrue, ChargedForOutput
<1>4. CASE Next /\ Environment
    <2>1. UNCHANGED <<pc, res, ctx>> /\ (settlement' = "SETTLED" => settlement = "SETTLED")
        BY <1>4, EnvironmentOutputs DEF task
    <2>2. \A u \in Tasks : AnswerTrue(u)'
        BY <1>2, <2>1 DEF AnswersInv, AnswerTrue, ProviderKeeps
    <2> QED
        BY <1>2, <2>1, <2>2, ChargedOn DEF AnswersInv
<1>5. CASE Next /\ StartWorkflow
    <2>1. Workflow \in Tasks /\ Rest(Workflow, "load") /\ UNCHANGED settlement
        BY <1>5 DEF StartWorkflow, Tasks, Executors, job
    <2>2. OnlyOwn(Workflow) /\ CarriesTrue(Workflow)
        BY <1>1, <2>1, RestAway, AwayLabels, CarriesNothing
    <2> QED
        BY <1>1, <1>2, <2>1, <2>2, AnswersOn, ChargedOn DEF AnswersInv
<1>6. ASSUME Next, NEW t \in Tasks, Quiet(t) PROVE AnswersInv'
    <2>1. OnlyOwn(t) /\ CarriesTrue(t)
        BY <1>1, <1>6, QuietMoves DEF Moves
    <2>2. settlement' = "SETTLED" => settlement = "SETTLED"
        BY <1>6, QuietJob
    <2> QED
        BY <1>1, <1>2, <2>1, <2>2, AnswersOn, ChargedOn DEF AnswersInv
<1>7. ASSUME Next, NEW t \in Tasks, Crash(t) PROVE AnswersInv'
    <2>1. PICK l \in {"off", "load"} : Rest(t, l)
        BY <1>7 DEF Crash
    <2>2. OnlyOwn(t) /\ CarriesTrue(t)
        BY <1>1, <2>1, RestAway, AwayLabels, CarriesNothing
    <2>3. UNCHANGED settlement
        BY <1>7 DEF Crash, job
    <2> QED
        BY <1>1, <1>2, <2>2, <2>3, AnswersOn, ChargedOn DEF AnswersInv
<1>8. ASSUME Next, NEW t \in Tasks, ReceiveArtifact(t) PROVE AnswersInv'
    <2>1. OnlyOwn(t) /\ UNCHANGED <<ctx, settlement>> /\ pc[t] = "receive"
          /\ (UNCHANGED res \/ pc'[t] = "fail")
        BY <1>1, <1>8 DEF ReceiveArtifact, OnlyOwn, Goto, TypeOK, job
    <2>2. CarriesTrue(t)
        BY <1>1, <2>1, CarriesOn, CarriesNothing DEF AnswersInv, AnswerLabels, HoldingLabels
    <2> QED
        BY <1>1, <1>2, <2>1, <2>2, AnswersOn, ChargedOn DEF AnswersInv
<1>9. ASSUME Next, NEW t \in Tasks, ReadForCommit(t) PROVE AnswersInv'
    <2>1. UNCHANGED settlement /\ pc[t] = "commit"
        BY <1>9 DEF ReadForCommit, DiscardObject, job
    <2>2. CASE EndStep(t, TRUE)
        <3>1. OnlyOwn(t) /\ CarriesTrue(t)
            BY <1>1, <2>2, EndStepAway, AwayLabels, CarriesNothing
        <3> QED
            BY <1>1, <1>2, <1>9, <2>1, <3>1, AnswersOn, ChargedOn DEF AnswersInv
    <2>3. CASE ~EndStep(t, TRUE)
        <3>1. OnlyOwn(t) /\ UNCHANGED <<ctx, res>>
            BY <1>1, <1>9, <2>3 DEF ReadForCommit, DiscardObject, OnlyOwn, Goto, TypeOK
        <3>2. CarriesTrue(t)
            BY <1>1, <2>1, <3>1, CarriesOn DEF AnswersInv, AnswerLabels, HoldingLabels
        <3> QED
            BY <1>1, <1>2, <1>9, <2>1, <3>1, <3>2, AnswersOn, ChargedOn DEF AnswersInv
    <2> QED
        BY <2>2, <2>3
<1>10. ASSUME Next, NEW t \in Tasks, CommitOutput(t) PROVE AnswersInv'
    <2>1. EndStep(t, TRUE)
        BY <1>10 DEF CommitOutput, DiscardObject
    <2>2. OnlyOwn(t) /\ CarriesTrue(t)
        BY <1>1, <2>1, EndStepAway, AwayLabels, CarriesNothing
    <2>3. ChargedForOutput'
        BY <1>2, <1>10, ChargedOn, CommitCharges
    <2> QED
        BY <1>1, <1>2, <2>2, <2>3, AnswersOn DEF AnswersInv
<1> QED
    BY <1>3, <1>4, <1>5, <1>6, <1>7, <1>8, <1>9, <1>10, StepKinds

-----------------------------------------------------------------------------
(* The outputs of every execution *)

OutputInv == IInv /\ ObjectsInv /\ AnswersInv

LEMMA InitOutputs == Init => ObjectsInv /\ AnswersInv
<1> SUFFICES ASSUME Init PROVE ObjectsInv /\ AnswersInv
    OBVIOUS
<1>1. Workflow \in Tasks
    BY DEF Tasks, Executors
<1>2. ObjectsInv
    BY <1>1 DEF Init, ObjectsInv, WorkflowWaits, Holding, HoldingLabels, FinalOutputStored,
                NoOrphanObject
<1>3. Unsubmitted
    BY DEF Init, Unsubmitted, ProviderJobs
<1>4. AnswersInv
    BY <1>3 DEF Init, AnswersInv, AnswerTrue, AnswerLabels, HoldingLabels, ChargedForOutput
<1> QED
    BY <1>2, <1>4

LEMMA OutputInvariance == Spec => []OutputInv
<1>1. Init => OutputInv
    BY InitInv, InitOutputs DEF OutputInv
<1>2. OutputInv /\ [Next]_vars => OutputInv'
    BY NextInv, ObjectsStep, AnswersStep DEF OutputInv
<1> QED
    BY <1>1, <1>2, PTL DEF Spec

\* A job has a final output exactly when it SUCCEEDED, and every object that an output row
\* names is in storage: what commit_output deletes after a lost race, and what a dying
\* finish_output deletes, is never the object of another task or of a row.
THEOREM OutputsAreStored == Spec => []FinalOutputStored
<1>1. OutputInv => FinalOutputStored
    BY DEF OutputInv, ObjectsInv
<1> QED
    BY <1>1, OutputInvariance, PTL

\* While no task died, every published object belongs to a row or to the task that
\* published it: no path through commit_output forgets one.
THEOREM NoOutputIsForgotten == Spec => []NoOrphanObject
<1>1. OutputInv => NoOrphanObject
    BY DEF OutputInv, ObjectsInv
<1> QED
    BY <1>1, OutputInvariance, PTL

\* A settled reservation means that the last attempt succeeded and that the provider
\* completed a job of that very attempt, whichever poll, webhook or reconciled submission
\* brought the result and however late (commit_output).
THEOREM ChargesAreEarned == Spec => []ChargedForOutput
<1>1. OutputInv => ChargedForOutput
    BY DEF OutputInv, AnswersInv
<1> QED
    BY <1>1, OutputInvariance, PTL

-----------------------------------------------------------------------------
(* The paths of the statuses *)

\* The edges of JOB_TRANSITIONS that the handlers use.
LEMMA JobEdges ==
    /\ JOB_TRANSITIONS["CREATED"] = {"RESERVED", "CANCELLED", "EXPIRED", "REJECTED_POLICY"}
    /\ JOB_TRANSITIONS["RESERVED"] = {"QUEUED", "CANCELLED", "EXPIRED"}
    /\ JOB_TRANSITIONS["QUEUED"] =
         {"ROUTING", "FAILED_FINAL", "CANCELLED", "EXPIRED", "REJECTED_POLICY"}
    /\ JOB_TRANSITIONS["ROUTING"] =
         {"SUBMITTED", "CANCEL_REQUESTED", "FAILED_FINAL", "CANCELLED", "EXPIRED",
          "REJECTED_POLICY"}
    /\ JOB_TRANSITIONS["SUBMITTED"] =
         {"RUNNING", "CANCEL_REQUESTED", "FAILED_FINAL", "CANCELLED", "EXPIRED"}
    /\ JOB_TRANSITIONS["RUNNING"] =
         {"POSTPROCESSING", "FAILED_FINAL", "CANCEL_REQUESTED", "CANCELLED"}
    /\ JOB_TRANSITIONS["CANCEL_REQUESTED"] = {"POSTPROCESSING", "FAILED_FINAL", "CANCELLED"}
    /\ JOB_TRANSITIONS["POSTPROCESSING"] = {"VALIDATING", "FAILED_FINAL", "CANCELLED"}
    /\ JOB_TRANSITIONS["VALIDATING"] = {"SUCCEEDED", "FAILED_FINAL", "CANCELLED"}
BY Zenon DEF JOB_TRANSITIONS, JobStatuses

LEMMA AttemptEdges ==
    /\ ATTEMPT_TRANSITIONS["CREATED"] = {"SUBMITTING", "CANCELLED"}
    /\ ATTEMPT_TRANSITIONS["SUBMITTING"] = {"SUBMITTED"} \cup _ATTEMPT_FAILURES
    /\ ATTEMPT_TRANSITIONS["SUBMITTED"] = {"RUNNING"} \cup _ATTEMPT_FAILURES
    /\ ATTEMPT_TRANSITIONS["RUNNING"] = {"SUCCEEDED"} \cup _ATTEMPT_FAILURES
BY Zenon DEF ATTEMPT_TRANSITIONS, AttemptStatuses

LEMMA JobPaths ==
    /\ \A s : JobPath(s, s)
    /\ \A s, to : JobMay(s, to) => JobPath(s, to)
    /\ JobPath("QUEUED", "ROUTING")
    /\ \A s \in {"ROUTING", "SUBMITTED"} : JobPath(s, "RUNNING")
    /\ \A s \in {"RUNNING", "CANCEL_REQUESTED"} :
          JobPath(s, "SUCCEEDED") /\ JobPath(s, "FAILED_FINAL")
    /\ \A s \in {"ROUTING", "SUBMITTED", "RUNNING"} : JobPath(s, "CANCEL_REQUESTED")
    /\ \A s \in {"CREATED", "RESERVED", "QUEUED", "ROUTING", "SUBMITTED", "RUNNING",
                 "CANCEL_REQUESTED"} : JobPath(s, "CANCELLED")
<1>1. /\ \A s : JobPath(s, s)
      /\ \A s, to : JobMay(s, to) => JobPath(s, to)
    BY DEF JobPath
<1>2. JobMay("ROUTING", "SUBMITTED") /\ JobMay("SUBMITTED", "RUNNING")
    BY JobEdges DEF JobMay
<1>3. \A s \in {"ROUTING", "SUBMITTED"} : JobPath(s, "RUNNING")
    BY <1>2 DEF JobPath, JobStatuses
<1>4. ASSUME NEW s \in {"RUNNING", "CANCEL_REQUESTED"}
      PROVE  JobPath(s, "SUCCEEDED") /\ JobPath(s, "FAILED_FINAL")
    <2>1. /\ JobMay(s, "POSTPROCESSING") /\ JobMay("POSTPROCESSING", "VALIDATING")
          /\ JobMay("VALIDATING", "SUCCEEDED") /\ JobMay(s, "FAILED_FINAL")
        BY JobEdges DEF JobMay
    <2>2. "POSTPROCESSING" \in JobStatuses /\ "VALIDATING" \in JobStatuses
        BY DEF JobStatuses
    <2> QED
        BY <2>1, <2>2 DEF JobPath
<1>5. /\ JobMay("QUEUED", "ROUTING")
      /\ \A s \in {"ROUTING", "SUBMITTED", "RUNNING"} : JobMay(s, "CANCEL_REQUESTED")
      /\ \A s \in {"CREATED", "RESERVED", "QUEUED", "ROUTING", "SUBMITTED", "RUNNING",
                   "CANCEL_REQUESTED"} : JobMay(s, "CANCELLED")
    BY JobEdges DEF JobMay
<1> QED
    BY <1>1, <1>3, <1>4, <1>5

LEMMA AttemptPaths ==
    /\ \A s : AttemptPath(s, s)
    /\ \A s, to : AttemptMay(s, to) => AttemptPath(s, to)
    /\ AttemptPath("CREATED", "SUBMITTING")
    /\ \A s \in {"SUBMITTING", "SUBMITTED"} : AttemptPath(s, "RUNNING")
    /\ AttemptPath("RUNNING", "SUCCEEDED") /\ AttemptPath("RUNNING", "FAILED_FINAL")
    /\ \A s \in ActiveAttemptStatuses : AttemptPath(s, "CANCELLED")
<1>1. /\ \A s : AttemptPath(s, s)
      /\ \A s, to : AttemptMay(s, to) => AttemptPath(s, to)
    BY DEF AttemptPath
<1>2. /\ AttemptMay("CREATED", "SUBMITTING")
      /\ AttemptMay("SUBMITTING", "SUBMITTED") /\ AttemptMay("SUBMITTED", "RUNNING")
      /\ AttemptMay("RUNNING", "SUCCEEDED") /\ AttemptMay("RUNNING", "FAILED_FINAL")
    BY AttemptEdges DEF AttemptMay, _ATTEMPT_FAILURES
<1>3. \A s \in {"SUBMITTING", "SUBMITTED"} : AttemptPath(s, "RUNNING")
    BY <1>2 DEF AttemptPath, AttemptStatuses
<1>4. \A s \in ActiveAttemptStatuses : AttemptMay(s, "CANCELLED")
    BY AttemptEdges DEF AttemptMay, _ATTEMPT_FAILURES, ActiveAttemptStatuses, AttemptStatuses,
                        ATTEMPT_TERMINAL_STATUSES
<1> QED
    BY <1>1, <1>2, <1>3, <1>4

FollowsGraph ==
    /\ JobPath(jobStatus, jobStatus')
    /\ \A a \in 1 .. attempts : AttemptPath(attStatus[a], attStatus'[a])

\* The statuses do not change.
LEMMA GraphStays ==
    ASSUME UNCHANGED <<jobStatus, attStatus>>
    PROVE  FollowsGraph
BY JobPaths, AttemptPaths DEF FollowsGraph

\* One attempt takes a path.
LEMMA GraphMoves ==
    ASSUME TypeOK, JobPath(jobStatus, jobStatus'), NEW a \in Attempts, NEW s,
           AttemptPath(attStatus[a], s), attStatus' = [attStatus EXCEPT ![a] = s]
    PROVE  FollowsGraph
<1>1. ASSUME NEW b \in 1 .. attempts PROVE AttemptPath(attStatus[b], attStatus'[b])
    <2>1. b \in Attempts
        BY BoundsAssumption DEF TypeOK, Attempts
    <2>2. attStatus'[b] = attStatus[b] \/ (b = a /\ attStatus'[b] = s)
        BY <2>1 DEF TypeOK
    <2> QED
        BY <2>2, AttemptPaths
<1> QED
    BY <1>1 DEF FollowsGraph

\* The job and its last attempt end together.
LEMMA CancelFollowsGraph ==
    ASSUME IInv, NEW t \in Tasks, CloseCancelled(t), AttemptCas(t, "CANCELLED"),
           jobStatus \in {"ROUTING", "SUBMITTED", "RUNNING", "CANCEL_REQUESTED"}
    PROVE  FollowsGraph
<1>1. TypeOK /\ ctx[t].att \in Attempts
    BY TaskInvHolds DEF IInv, TaskInv, Contexts
<1>2. AttemptPath(attStatus[ctx[t].att], "CANCELLED")
    BY AttemptPaths DEF AttemptCas
<1>3. JobPath(jobStatus, jobStatus')
    BY JobPaths DEF CloseCancelled
<1> QED
    BY <1>1, <1>2, <1>3, GraphMoves DEF CloseCancelled

LEMMA FailureFollowsGraph ==
    ASSUME IInv, NEW t \in Tasks, FailAttempt(t)
    PROVE  FollowsGraph
<1> DEFINE a == ctx[t].att
           target == FailureTarget(res[t].kind)
<1>1. TypeOK /\ TaskInv /\ a \in Attempts /\ a <= attempts
    BY TaskInvHolds DEF IInv, TaskInv, Contexts
<1>2. \/ jobStatus = "CANCEL_REQUESTED" /\ AttemptCas(t, "CANCELLED") /\ CloseCancelled(t)
      \/ /\ AttemptCas(t, target) /\ UNCHANGED jobStatus
         /\ attStatus' = [attStatus EXCEPT ![a] = target, ![a + 1] = "CREATED"]
      \/ /\ AttemptCas(t, target) /\ JobMay(jobStatus, "FAILED_FINAL")
         /\ jobStatus' = "FAILED_FINAL" /\ attStatus' = [attStatus EXCEPT ![a] = target]
      \/ UNCHANGED <<jobStatus, attStatus>>
    BY DEF FailAttempt, job
<1> HIDE DEF target
<1>3. CASE jobStatus = "CANCEL_REQUESTED" /\ AttemptCas(t, "CANCELLED") /\ CloseCancelled(t)
    BY <1>3, CancelFollowsGraph
<1>4. CASE /\ AttemptCas(t, target) /\ UNCHANGED jobStatus
           /\ attStatus' = [attStatus EXCEPT ![a] = target, ![a + 1] = "CREATED"]
    <2>1. AttemptMay(attStatus[a], target)
        BY <1>4 DEF AttemptCas
    <2>2. attStatus[a] \in ActiveAttemptStatuses
        BY <1>1, <2>1, AttemptMayActive DEF TypeOK
    <2>3. a = attempts
        BY <1>1, <2>2, ActiveIsLast
    <2>4. ASSUME NEW b \in 1 .. attempts PROVE AttemptPath(attStatus[b], attStatus'[b])
        <3>1. b \in Attempts /\ b # a + 1
            BY <1>1, <2>3, BoundsAssumption DEF TypeOK, Attempts
        <3>2. attStatus'[b] = attStatus[b] \/ (b = a /\ attStatus'[b] = target)
            BY <1>1, <1>4, <3>1 DEF TypeOK
        <3> QED
            BY <2>1, <3>2, AttemptPaths
    <2> QED
        BY <1>4, <2>4, JobPaths DEF FollowsGraph
<1>5. CASE /\ AttemptCas(t, target) /\ JobMay(jobStatus, "FAILED_FINAL")
           /\ jobStatus' = "FAILED_FINAL" /\ attStatus' = [attStatus EXCEPT ![a] = target]
    <2>1. AttemptPath(attStatus[a], target)
        BY <1>5, AttemptPaths DEF AttemptCas
    <2>2. JobPath(jobStatus, jobStatus')
        BY <1>5, JobPaths
    <2> QED
        BY <1>1, <1>5, <2>1, <2>2, GraphMoves
<1> QED
    BY <1>2, <1>3, <1>4, <1>5, GraphStays

LEMMA CommitFollowsGraph ==
    ASSUME IInv, NEW t \in Tasks, CommitOutput(t)
    PROVE  FollowsGraph
<1> DEFINE a == ctx[t].att
<1>1. TypeOK /\ TaskInv /\ a \in Attempts /\ a <= attempts
    BY TaskInvHolds DEF IInv, TaskInv, Contexts
<1>2. CASE DiscardObject(t)
    BY <1>2, GraphStays DEF DiscardObject, job
<1>3. CASE ~DiscardObject(t)
    <2>1. attStatus[a] = "RUNNING"
        BY <1>3 DEF CommitOutput
    <2>2. PICK s \in {"SUCCEEDED", "FAILED_FINAL"} :
            jobStatus' = s /\ attStatus' = [attStatus EXCEPT ![a] = s]
        BY <1>3 DEF CommitOutput
    <2>3. attStatus[a] \in ActiveAttemptStatuses
        BY <2>1 DEF ActiveAttemptStatuses, AttemptStatuses, ATTEMPT_TERMINAL_STATUSES
    <2>4. a = attempts
        BY <1>1, <2>3, ActiveIsLast
    <2>5. jobStatus \in {"RUNNING", "CANCEL_REQUESTED"}
        BY <2>1, <2>4 DEF IInv, RowsInv, RunningAttempt
    <2>6. JobPath(jobStatus, jobStatus') /\ AttemptPath(attStatus[a], s)
        BY <2>1, <2>2, <2>5, JobPaths, AttemptPaths
    <2> QED
        BY <1>1, <2>2, <2>6, GraphMoves
<1> QED
    BY <1>2, <1>3

LEMMA SubmissionFollowsGraph ==
    ASSUME IInv, NEW e \in Tasks, StartSubmit(e) \/ RecordSubmitAccepted(e)
    PROVE  FollowsGraph
<1> DEFINE a == ctx[e].att
<1>1. TypeOK /\ a \in Attempts
    BY TaskInvHolds DEF IInv, TaskInv, Contexts
<1>2. JobPath(jobStatus, jobStatus')
    BY JobPaths DEF StartSubmit, RecordSubmitAccepted
<1>3. \/ UNCHANGED attStatus
      \/ attStatus[a] = "CREATED" /\ attStatus' = [attStatus EXCEPT ![a] = "SUBMITTING"]
      \/ /\ attStatus[a] \in {"SUBMITTING", "SUBMITTED"}
         /\ attStatus' = [attStatus EXCEPT ![a] = "RUNNING"]
    BY DEF StartSubmit, RecordSubmitAccepted
<1>4. CASE UNCHANGED attStatus
    BY <1>2, <1>4, AttemptPaths DEF FollowsGraph
<1>5. CASE attStatus[a] = "CREATED" /\ attStatus' = [attStatus EXCEPT ![a] = "SUBMITTING"]
    BY <1>1, <1>2, <1>5, AttemptPaths, GraphMoves
<1>6. CASE /\ attStatus[a] \in {"SUBMITTING", "SUBMITTED"}
           /\ attStatus' = [attStatus EXCEPT ![a] = "RUNNING"]
    BY <1>1, <1>2, <1>6, AttemptPaths, GraphMoves
<1> QED
    BY <1>3, <1>4, <1>5, <1>6

LEMMA CancelCommitFollowsGraph ==
    ASSUME IInv, CancelCommit
    PROVE  FollowsGraph
<1>1. JobPath(jobStatus, jobStatus')
    BY JobPaths DEF CancelCommit, job
<1>2. ASSUME NEW a \in 1 .. attempts PROVE AttemptPath(attStatus[a], attStatus'[a])
    <2>1. a \in Attempts
        BY BoundsAssumption DEF IInv, TypeOK, Attempts
    <2>2. attStatus'[a] = attStatus[a]
          \/ (attStatus[a] \in ActiveAttemptStatuses /\ attStatus'[a] = "CANCELLED")
        BY <2>1 DEF CancelCommit
    <2> QED
        BY <2>2, AttemptPaths
<1> QED
    BY <1>1, <1>2 DEF FollowsGraph

LEMMA GraphStep ==
    ASSUME IInv, Next
    PROVE  FollowsGraph
<1> USE DEF job, attemptRows
<1>e. Executors \subseteq Tasks /\ Hooks \subseteq Tasks /\ Dispatchers \subseteq Tasks
    BY DEF Tasks
<1>1. CASE StartWorkflow \/ (\E r \in Reconcilers : Reconcile(r))
    BY <1>1, GraphStays DEF StartWorkflow, Reconcile
<1>2. ASSUME NEW e \in Executors, ExecutorStep(e) PROVE FollowsGraph
    <2>1. CASE StartSubmit(e) \/ RecordSubmitAccepted(e)
        BY <1>e, <2>1, SubmissionFollowsGraph
    <2>2. CASE Load(e) \/ Reload(e) \/ SubmitAccepted(e) \/ SubmitUnknown(e)
        BY <2>2, GraphStays DEF Load, Reload, SubmitAccepted, SubmitUnknown
    <2>3. CASE SubmitRejected(e) \/ ReadAccepted(e) \/ Recheck(e)
        BY <2>3, GraphStays DEF SubmitRejected, ReadAccepted, Recheck
    <2>4. CASE ReservePoll(e) \/ ReserveContended(e) \/ Poll(e) \/ ApplyReconciled(e)
        BY <2>4, GraphStays DEF ReservePoll, ReserveContended, Poll, ApplyReconciled
    <2> QED
        BY <1>2, <2>1, <2>2, <2>3, <2>4 DEF ExecutorStep
<1>3. CASE \E h \in Hooks : HookReceive(h) \/ HookResult(h)
    BY <1>3, GraphStays DEF HookReceive, HookResult
<1>4. ASSUME NEW t \in Tasks, CompletionStep(t) PROVE FollowsGraph
    <2>1. CASE ReceiveArtifact(t) \/ ReadForCommit(t) \/ LockJob(t)
        BY <2>1, GraphStays DEF ReceiveArtifact, ReadForCommit, DiscardObject, LockJob
    <2>2. CASE FinishCancelled(t)
        BY <2>2, GraphStays, CancelFollowsGraph DEF FinishCancelled
    <2> QED
        BY <1>4, <2>1, <2>2, CommitFollowsGraph, FailureFollowsGraph DEF CompletionStep
<1>5. CASE \E t \in Tasks : Crash(t)
    BY <1>5, GraphStays DEF Crash
<1>6. CASE CancelLoad \/ ReplayDeadLetter
    BY <1>6, GraphStays DEF CancelLoad, ReplayDeadLetter
<1>7. CASE CancelCommit
    BY <1>7, CancelCommitFollowsGraph
<1>8. ASSUME NEW d \in Dispatchers, DispatcherStep(d) PROVE FollowsGraph
    BY <1>8, GraphStays DEF DispatcherStep, ClaimCancel, LoadCancellable, ProviderCancel,
       MarkPublished, ScheduleRetry
<1>9. CASE (\E a \in Attempts : DeadlinePasses(a)) \/ (\E j \in ProviderJobs : ProviderEnds(j))
    BY <1>9, GraphStays DEF DeadlinePasses, ProviderEnds
<1> QED
    BY <1>1, <1>2, <1>3, <1>4, <1>5, <1>6, <1>7, <1>8, <1>9 DEF Next

\* Every status change of a job and of its attempts that another session can see is a path
\* of JOB_TRANSITIONS and ATTEMPT_TRANSITIONS, although most handlers act on what they
\* loaded in an earlier transaction (state_machine.py).
THEOREM StatusesFollowTheGraphs == Spec => StatusesFollowGraph
<1>1. IInv /\ [Next]_vars =>
        [/\ JobPath(jobStatus, jobStatus')
         /\ \A a \in 1 .. attempts : AttemptPath(attStatus[a], attStatus'[a])]_vars
    BY GraphStep DEF FollowsGraph
<1> QED
    BY <1>1, Invariance, PTL DEF Spec, StatusesFollowGraph
=============================================================================
