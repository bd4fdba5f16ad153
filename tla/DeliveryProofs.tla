--------------------------- MODULE DeliveryProofs ---------------------------
(***************************************************************************)
(* The safety of the delivery of accepted jobs for any number of jobs,     *)
(* dispatchers, slots, faults and stops.                                   *)
(*                                                                         *)
(* Each component keeps its own invariant under its own operations         *)
(* (OutboxInv, PoolInv, RunnerInv).  PartsStep shows that a step of the    *)
(* composition is, for each component, one of its operations or none.      *)
(* What remains relates the components: which threads run (ThreadsKnown),  *)
(* the phases of the process (LifespanInv) and what the dispatchers have   *)
(* in hand (WorkKnown).                                                    *)
(***************************************************************************)
EXTENDS Delivery, FiniteSetTheorems, TLAPS

-----------------------------------------------------------------------------
(* The outbox *)

OutboxInv == OutboxTypeOK /\ DeadLettersReplayable

\* Some transaction on the table.
OutboxOp ==
    \E j \in Jobs :
        \/ EnqueueGenerationWorkflow(j) \/ BecomesDue(j) \/ ReplayDeadLetter(j)
        \/ \E d \in Dispatchers : ClaimOne(d, j) \/ MarkPublished(d, j) \/ ScheduleRetry(d, j)

\* An event that is there stays there.
EventsStay == \A j \in Jobs : event[j] # "ABSENT" => event'[j] # "ABSENT"

LEMMA OutboxInitInv == OutboxInit => OutboxInv
  BY DEF OutboxInit, OutboxInv, OutboxTypeOK, DeadLettersReplayable, OutboxStatus, DeadLetterStatus

LEMMA OutboxOpInv ==
  ASSUME OutboxInv, OutboxOp \/ UNCHANGED outboxVars
  PROVE  OutboxInv' /\ EventsStay
<1> USE DEF OutboxInv, OutboxTypeOK, DeadLettersReplayable, OutboxStatus, DeadLetterStatus,
            EventsStay
<1>1. CASE UNCHANGED outboxVars
  BY <1>1 DEF outboxVars
<1>2. ASSUME NEW j \in Jobs, EnqueueGenerationWorkflow(j)
      PROVE  OutboxInv' /\ EventsStay
  BY <1>2 DEF EnqueueGenerationWorkflow
<1>3. ASSUME NEW j \in Jobs, BecomesDue(j)
      PROVE  OutboxInv' /\ EventsStay
  BY <1>3 DEF BecomesDue
<1>4. ASSUME NEW j \in Jobs, ReplayDeadLetter(j)
      PROVE  OutboxInv' /\ EventsStay
  BY <1>4 DEF ReplayDeadLetter
<1>5. ASSUME NEW j \in Jobs, NEW d \in Dispatchers, ClaimOne(d, j)
      PROVE  OutboxInv' /\ EventsStay
  BY <1>5 DEF ClaimOne, Dispatchable
<1>6. ASSUME NEW j \in Jobs, NEW d \in Dispatchers, MarkPublished(d, j)
      PROVE  OutboxInv' /\ EventsStay
  BY <1>6 DEF MarkPublished, HoldsLease
<1>7. ASSUME NEW j \in Jobs, NEW d \in Dispatchers, ScheduleRetry(d, j)
      PROVE  OutboxInv' /\ EventsStay
  <2>1. CASE attempts[j] >= MaxAttempts
    BY <1>7, <2>1 DEF ScheduleRetry, HoldsLease, AddDeadLetter
  <2>2. CASE ~(attempts[j] >= MaxAttempts)
    BY <1>7, <2>2 DEF ScheduleRetry, HoldsLease
  <2>3. QED
    BY <2>1, <2>2
<1>8. QED
  BY <1>1, <1>2, <1>3, <1>4, <1>5, <1>6, <1>7 DEF OutboxOp

-----------------------------------------------------------------------------
(* The pool *)

PoolInv ==
    /\ PoolTypeOK
    /\ IsFiniteSet(threads)
    /\ SlotsBoundThreads

PoolReset == slots' = MaxBlockingIO /\ threads' = {} /\ cancelled' = {}

PoolOp ==
    \/ \E t \in Tasks : Acquire(t) \/ Return(t)
    \/ \E ts \in SUBSET Tasks : CancelCalls(ts)
    \/ PoolReset

LEMMA PoolInitInv == PoolInit => PoolInv
  BY PoolAssumption, FS_EmptySet DEF PoolInit, PoolInv, PoolTypeOK, SlotsBoundThreads

LEMMA PoolOpInv ==
  ASSUME PoolInv, PoolOp \/ UNCHANGED poolVars
  PROVE  PoolInv'
<1> USE PoolAssumption DEF PoolInv, PoolTypeOK, SlotsBoundThreads
<1>0. Cardinality(threads) \in Nat
  BY FS_CardinalityType
<1>1. CASE UNCHANGED poolVars
  BY <1>1 DEF poolVars
<1>2. ASSUME NEW t \in Tasks, Acquire(t)
      PROVE  PoolInv'
  <2>1. IsFiniteSet(threads') /\ Cardinality(threads') = Cardinality(threads) + 1
    BY <1>2, FS_AddElement DEF Acquire
  <2>2. QED
    BY <1>0, <1>2, <2>1 DEF Acquire
<1>3. ASSUME NEW t \in Tasks, Return(t)
      PROVE  PoolInv'
  <2>1. IsFiniteSet(threads') /\ Cardinality(threads') = Cardinality(threads) - 1
    BY <1>3, FS_RemoveElement DEF Return
  <2>2. Cardinality(threads') \in Nat
    BY <2>1, FS_CardinalityType
  <2>3. QED
    BY <1>0, <1>3, <2>1, <2>2 DEF Return
<1>4. ASSUME NEW ts \in SUBSET Tasks, CancelCalls(ts)
      PROVE  PoolInv'
  BY <1>4 DEF CancelCalls
<1>5. CASE PoolReset
  BY <1>5, FS_EmptySet DEF PoolReset
<1>6. QED
  BY <1>1, <1>2, <1>3, <1>4, <1>5 DEF PoolOp

-----------------------------------------------------------------------------
(* The local runner *)

RunnerInv == RunnerTypeOK /\ OneRunPerKey

RunnerReset ==
    /\ accepting' = FALSE
    /\ runs' = [j \in Jobs |-> "NONE"]
    /\ unfinished' = [j \in Jobs |-> 0]

RunnerOp ==
    \/ RunnerStartup \/ RunnerStopped \/ RunnerReset
    \/ \E j \in Jobs : StartRun(j)
    \/ \E j \in Jobs, state \in {"COMPLETED", "FAILED", "CANCELLED"} :
         runs[j] = "RUNNING" /\ RunEnds(j, state)
    \/ \E atOnce \in SUBSET Jobs : CancelRuns(atOnce)

LEMMA RunnerInitInv == RunnerInit => RunnerInv
<1> SUFFICES ASSUME RunnerInit PROVE RunnerInv
  OBVIOUS
<1>1. accepting \in BOOLEAN
  BY DEF RunnerInit
<1>2. runs \in [Keys -> RunStates] /\ unfinished \in [Keys -> Nat]
  BY DEF RunnerInit, RunStates
<1>3. OneRunPerKey
  BY DeliveryAssumption DEF RunnerInit, OneRunPerKey
<1>4. QED
  BY <1>1, <1>2, <1>3 DEF RunnerInv, RunnerTypeOK

LEMMA RunnerOpInv ==
  ASSUME RunnerInv, RunnerOp \/ UNCHANGED runnerVars
  PROVE  RunnerInv'
<1> USE DeliveryAssumption DEF RunnerInv, RunnerTypeOK, RunStates, OneRunPerKey
<1>1. CASE UNCHANGED runnerVars
  BY <1>1 DEF runnerVars
<1>2. CASE RunnerStartup
  BY <1>2 DEF RunnerStartup
<1>3. CASE RunnerStopped
  BY <1>3 DEF RunnerStopped
<1>4. CASE RunnerReset
  BY <1>4 DEF RunnerReset
<1>5. ASSUME NEW j \in Jobs, StartRun(j)
      PROVE  RunnerInv'
  BY <1>5 DEF StartRun, Startable
<1>6. ASSUME NEW j \in Jobs, NEW state \in {"COMPLETED", "FAILED", "CANCELLED"},
             runs[j] = "RUNNING", RunEnds(j, state)
      PROVE  RunnerInv'
  BY <1>6 DEF RunEnds
<1>7. ASSUME NEW atOnce \in SUBSET Jobs, CancelRuns(atOnce)
      PROVE  RunnerInv'
  <2>1. accepting' \in BOOLEAN
    BY <1>7 DEF CancelRuns
  <2>2. runs' \in [Keys -> RunStates]
    BY <1>7 DEF CancelRuns
  <2>3. unfinished' \in [Keys -> Nat]
    BY <1>7 DEF CancelRuns
  <2>4. OneRunPerKey'
    BY <1>7 DEF CancelRuns
  <2>5. QED
    BY <2>1, <2>2, <2>3, <2>4
<1>8. QED
  BY <1>1, <1>2, <1>3, <1>4, <1>5, <1>6, <1>7 DEF RunnerOp

-----------------------------------------------------------------------------
(* The composition *)

\* The types of the variables that belong to no component.
ControlTypeOK ==
    /\ backend \in Backends
    /\ flows \in [Jobs -> FlowStates]
    /\ begun \subseteq Jobs
    /\ job \in [Jobs -> JobStates]
    /\ polls \in [Jobs -> 0 .. MaxPolls]
    /\ idle \subseteq Jobs
    /\ overtaken \subseteq Jobs
    /\ process \in ProcessStates
    /\ pc \in [Dispatchers -> Labels]
    /\ work \in [Dispatchers -> Jobs \cup {NoJob}]
    /\ todo \in [Dispatchers -> SUBSET Jobs]
    /\ expiries \in 0 .. MaxExpiries
    /\ faults \in 0 .. MaxFaults
    /\ stops \in 0 .. MaxStops
    /\ replays \in 0 .. MaxReplays

\* A thread belongs to a dispatcher inside a blocking call or to a registered run.
ThreadsKnown ==
    /\ \A d \in Dispatchers : d \in threads => pc[d] \in Blocking
    /\ \A j \in Jobs : j \in threads => runs[j] = "RUNNING"

LifespanInv ==
    /\ accepting <=> process \in {"up", "stopping"}
    /\ process \in {"down", "draining"} => \A d \in Dispatchers : pc[d] = "off"
    /\ process = "down" => threads = {} /\ \A j \in Jobs : runs[j] # "RUNNING"

\* What dispatchers have in hand was accepted, and was started before it is published.
WorkKnown ==
    /\ \A d \in Dispatchers :
         /\ pc[d] \in {"start", "sent", "publish", "retry", "execute"} =>
              work[d] \in Jobs /\ event[work[d]] # "ABSENT"
         /\ pc[d] \in {"sent", "publish"} => work[d] \in begun
         /\ \A j \in todo[d] : event[j] # "ABSENT"
    /\ \A j \in Jobs : job[j] # "NONE" => event[j] # "ABSENT"

Components == OutboxInv /\ PoolInv /\ RunnerInv

IInv == Components /\ ControlTypeOK /\ ThreadsKnown /\ LifespanInv /\ WorkKnown

OutboxStep == OutboxOp \/ UNCHANGED outboxVars
PoolStep == PoolOp \/ UNCHANGED poolVars
RunnerStep == RunnerOp \/ UNCHANGED runnerVars

(* A step of the system is an operation of each component, or leaves it alone. *)
LEMMA PartsStep ==
  ASSUME IInv, [Next]_vars
  PROVE  OutboxStep /\ PoolStep /\ RunnerStep
<1> DEFINE Parts == OutboxStep /\ PoolStep /\ RunnerStep
<1> USE DeliveryAssumption DEF OutboxStep, PoolStep, RunnerStep
<1>1. CASE UNCHANGED vars
  BY <1>1 DEF vars, outboxVars, poolVars, runnerVars
<1>2. ASSUME NEW j \in Jobs, Generate(j)
      PROVE  Parts
  BY <1>2 DEF Generate, OutboxOp
<1>3. ASSUME NEW j \in Jobs, TimePasses(j)
      PROVE  Parts
  BY <1>3 DEF TimePasses, OutboxOp
<1>4. ASSUME NEW j \in Jobs, LeaseExpires(j)
      PROVE  Parts
  BY <1>4 DEF LeaseExpires, OutboxOp
<1>5. ASSUME NEW j \in Jobs, GoesStale(j)
      PROVE  Parts
  BY <1>5 DEF GoesStale
<1>6. ASSUME NEW j \in Jobs, Replay(j)
      PROVE  Parts
  BY <1>6 DEF Replay, OutboxOp
<1>7. ASSUME NEW j \in Jobs, RunStep(j)
      PROVE  Parts
  BY <1>7 DEF RunStep, PoolOp, RunnerOp
<1>8. ASSUME NEW j \in Jobs, HatchetStep(j)
      PROVE  Parts
  BY <1>8 DEF HatchetStep
<1>9. ASSUME NEW t \in Tasks, AcquireSlot(t)
      PROVE  Parts
  BY <1>9 DEF AcquireSlot, PoolOp
<1>10. ASSUME NEW d \in Dispatchers, Poll(d)
      PROVE  Parts
  BY <1>10 DEF Poll
<1>11. ASSUME NEW d \in Dispatchers, Claim(d)
      PROVE  Parts
  BY <1>11 DEF Claim, CallEnds, OutboxOp, PoolOp, IInv, ControlTypeOK
<1>12. ASSUME NEW d \in Dispatchers, StartLocal(d)
      PROVE  Parts
  BY <1>12 DEF StartLocal, RunnerOp, IInv, WorkKnown
<1>13. ASSUME NEW d \in Dispatchers, HatchetAccepts(d)
      PROVE  Parts
  BY <1>13 DEF HatchetAccepts
<1>14. ASSUME NEW d \in Dispatchers, HatchetAnswers(d)
      PROVE  Parts
  BY <1>14 DEF HatchetAnswers
<1>15. ASSUME NEW d \in Dispatchers, HatchetRaises(d)
      PROVE  Parts
  BY <1>15 DEF HatchetRaises
<1>16. ASSUME NEW d \in Dispatchers, Publish(d)
      PROVE  Parts
  BY <1>16 DEF Publish, CallEnds, OutboxOp, PoolOp, IInv, WorkKnown
<1>17. ASSUME NEW d \in Dispatchers, Retry(d)
      PROVE  Parts
  BY <1>17 DEF Retry, CallEnds, OutboxOp, PoolOp, IInv, WorkKnown
<1>18. ASSUME NEW d \in Dispatchers, FindStuckJobs(d)
      PROVE  Parts
  BY <1>18 DEF FindStuckJobs, CallEnds, PoolOp
<1>19. ASSUME NEW d \in Dispatchers, ExecuteHere(d)
      PROVE  Parts
  BY <1>19 DEF ExecuteHere, CallEnds, PoolOp
<1>20. ASSUME NEW d \in Dispatchers, NEW j \in Jobs, RestartLocal(d, j)
      PROVE  Parts
  BY <1>20 DEF RestartLocal, RunnerOp
<1>21. ASSUME NEW d \in Dispatchers, NEW j \in Jobs, RestartHere(d, j)
      PROVE  Parts
  BY <1>21 DEF RestartHere
<1>22. CASE Startup
  BY <1>22 DEF Startup, RunnerOp
<1>23. CASE Stop
  BY <1>23 DEF Stop, PoolOp
<1>24. CASE StopRunner
  BY <1>24 DEF StopRunner, PoolOp, RunnerOp
<1>25. CASE Stopped
  BY <1>25 DEF Stopped, RunnerOp
<1>26. CASE Crash
  BY <1>26 DEF Crash, PoolOp, PoolReset, RunnerOp, RunnerReset
<1>27. QED
  BY <1>1, <1>2, <1>3, <1>4, <1>5, <1>6, <1>7, <1>8, <1>9, <1>10, <1>11, <1>12, <1>13, <1>14, <1>15,
     <1>16, <1>17, <1>18, <1>19, <1>20, <1>21, <1>22, <1>23, <1>24, <1>25, <1>26
     DEF Next, DispatcherStep, Lifespan

LEMMA ComponentsStep ==
  ASSUME IInv, [Next]_vars
  PROVE  Components' /\ EventsStay
  BY PartsStep, OutboxOpInv, PoolOpInv, RunnerOpInv
     DEF IInv, Components, OutboxStep, PoolStep, RunnerStep

(* A call of execute creates no job and keeps the types. *)
LEMMA ExecuteKeeps ==
  ASSUME ControlTypeOK, NEW j \in Jobs, NEW done \in BOOLEAN, Execute(j, done)
  PROVE  /\ job' \in [Jobs -> JobStates]
         /\ polls' \in [Jobs -> 0 .. MaxPolls]
         /\ idle' \subseteq Jobs
         /\ overtaken' \subseteq Jobs
         /\ faults' \in 0 .. MaxFaults
         /\ \A k \in Jobs : job[k] = "NONE" => job'[k] = "NONE"
<1> USE DeliveryAssumption DEF ControlTypeOK, JobStates
<1>1. CASE job[j] = "ACTIVE" /\ ~done
  BY <1>1 DEF Execute
<1>2. CASE job[j] = "ENDED"
  BY <1>2 DEF Execute, jobVars
<1>3. CASE job[j] = "ACTIVE" /\ done
  BY <1>3 DEF Execute, Fault
<1>4. QED
  BY <1>1, <1>2, <1>3 DEF Execute

LEMMA InitInv == Init => IInv
<1> SUFFICES ASSUME Init PROVE IInv
  OBVIOUS
<1>1. Components
  BY OutboxInitInv, PoolInitInv, RunnerInitInv DEF Init, Components
<1>2. ControlTypeOK
  BY DeliveryAssumption DEF Init, ControlTypeOK, FlowStates, JobStates, ProcessStates, Labels
<1>3. ThreadsKnown
  BY DEF Init, PoolInit, ThreadsKnown
<1>4. LifespanInv
  BY DeliveryAssumption DEF Init, PoolInit, RunnerInit, LifespanInv
<1>5. WorkKnown
  BY DEF Init, WorkKnown
<1>6. QED
  BY <1>1, <1>2, <1>3, <1>4, <1>5 DEF IInv

(* The variables between the components keep their invariants. *)
LEMMA ControlStep ==
  ASSUME IInv, [Next]_vars
  PROVE  (ControlTypeOK /\ ThreadsKnown /\ LifespanInv /\ WorkKnown)'
<1> DEFINE Control == ControlTypeOK /\ ThreadsKnown /\ LifespanInv /\ WorkKnown
<1> USE DeliveryAssumption, ComponentsStep
    DEF IInv, ControlTypeOK, ThreadsKnown, LifespanInv, WorkKnown, EventsStay,
        FlowStates, JobStates, ProcessStates, Labels, Blocking, Components, OutboxInv,
        OutboxTypeOK, PoolInv, PoolTypeOK, RunnerInv, RunnerTypeOK
<1>1. CASE UNCHANGED vars
  BY <1>1 DEF vars, outboxVars, poolVars, runnerVars, jobVars, taskVars, counters
<1>2. ASSUME NEW j \in Jobs, Generate(j)
      PROVE  Control'
  BY <1>2 DEF Generate, EnqueueGenerationWorkflow, poolVars, runnerVars, taskVars, counters
<1>3. ASSUME NEW j \in Jobs, TimePasses(j)
      PROVE  Control'
  BY <1>3 DEF TimePasses, BecomesDue, poolVars, runnerVars, jobVars, taskVars, counters
<1>4. ASSUME NEW j \in Jobs, LeaseExpires(j)
      PROVE  Control'
  BY <1>4 DEF LeaseExpires, BecomesDue, poolVars, runnerVars, jobVars, taskVars
<1>5. ASSUME NEW j \in Jobs, GoesStale(j)
      PROVE  Control'
  BY <1>5 DEF GoesStale, outboxVars, poolVars, runnerVars, taskVars, counters
<1>6. ASSUME NEW j \in Jobs, Replay(j)
      PROVE  Control'
  BY <1>6 DEF Replay, poolVars, runnerVars, jobVars, taskVars
<1>7. ASSUME NEW j \in Jobs, RunStep(j)
      PROVE  Control'
  BY <1>7, ExecuteKeeps DEF RunStep, Return, RunEnds, runnerVars, outboxVars, taskVars, jobVars,
       Fault
<1>8. ASSUME NEW j \in Jobs, HatchetStep(j)
      PROVE  Control'
  BY <1>8, ExecuteKeeps DEF HatchetStep, outboxVars, poolVars, runnerVars, taskVars, jobVars, Fault
<1>9. ASSUME NEW t \in Tasks, AcquireSlot(t)
      PROVE  Control'
  BY <1>9 DEF AcquireSlot, WantsSlot, Acquire, outboxVars, runnerVars, jobVars, taskVars, counters
<1>10. ASSUME NEW d \in Dispatchers, Poll(d)
      PROVE  Control'
  BY <1>10 DEF Poll, Goto, outboxVars, poolVars, runnerVars, jobVars, counters
<1>11. ASSUME NEW d \in Dispatchers, Claim(d)
      PROVE  Control'
  BY <1>11 DEF Claim, ClaimOne, Holding, CallEnds, Return, Goto, AfterDispatch, Dispatchable,
       outboxVars, runnerVars, jobVars, counters
<1>12. ASSUME NEW d \in Dispatchers, StartLocal(d)
      PROVE  Control'
  BY <1>12 DEF StartLocal, StartRun, Startable, Goto, outboxVars, poolVars, jobVars, counters
<1>13. ASSUME NEW d \in Dispatchers, HatchetAccepts(d)
      PROVE  Control'
  BY <1>13 DEF HatchetAccepts, Goto, outboxVars, poolVars, runnerVars, jobVars, counters
<1>14. ASSUME NEW d \in Dispatchers, HatchetAnswers(d)
      PROVE  Control'
  BY <1>14 DEF HatchetAnswers, Goto, outboxVars, poolVars, runnerVars, jobVars, counters
<1>15. ASSUME NEW d \in Dispatchers, HatchetRaises(d)
      PROVE  Control'
  BY <1>15 DEF HatchetRaises, Goto, Fault, outboxVars, poolVars, runnerVars, jobVars
<1>16. ASSUME NEW d \in Dispatchers, Publish(d)
      PROVE  Control'
  BY <1>16 DEF Publish, CallEnds, Return, Goto, AfterDispatch, outboxVars, runnerVars, jobVars,
       counters
<1>17. ASSUME NEW d \in Dispatchers, Retry(d)
      PROVE  Control'
  BY <1>17 DEF Retry, CallEnds, Return, Goto, AfterDispatch, outboxVars, runnerVars, jobVars,
       counters
<1>18. ASSUME NEW d \in Dispatchers, FindStuckJobs(d)
      PROVE  Control'
  BY <1>18 DEF FindStuckJobs, StuckJobs, CallEnds, Return, Goto, outboxVars, runnerVars, jobVars,
       counters
<1>19. ASSUME NEW d \in Dispatchers, ExecuteHere(d)
      PROVE  Control'
  BY <1>19, ExecuteKeeps DEF ExecuteHere, CallEnds, Return, Goto, outboxVars, runnerVars
<1>20. ASSUME NEW d \in Dispatchers, NEW j \in Jobs, RestartLocal(d, j)
      PROVE  Control'
  BY <1>20 DEF RestartLocal, StartRun, Startable, Goto, outboxVars, poolVars, jobVars, counters
<1>21. ASSUME NEW d \in Dispatchers, NEW j \in Jobs, RestartHere(d, j)
      PROVE  Control'
  BY <1>21 DEF RestartHere, Goto, outboxVars, poolVars, runnerVars, jobVars, counters
<1>22. CASE Startup
  BY <1>22 DEF Startup, RunnerStartup, outboxVars, poolVars, jobVars, counters
<1>23. CASE Stop
  BY <1>23 DEF Stop, CancelCalls, outboxVars, runnerVars, jobVars
<1>24. CASE StopRunner
  BY <1>24 DEF StopRunner, CancelRuns, CancelCalls, outboxVars, jobVars, taskVars, counters
<1>25. CASE Stopped
  BY <1>25 DEF Stopped, RunnerStopped, outboxVars, poolVars, jobVars, taskVars, counters
<1>26. CASE Crash
  BY <1>26 DEF Crash, outboxVars, jobVars
<1>27. QED
  BY <1>1, <1>2, <1>3, <1>4, <1>5, <1>6, <1>7, <1>8, <1>9, <1>10, <1>11, <1>12, <1>13, <1>14, <1>15,
     <1>16, <1>17, <1>18, <1>19, <1>20, <1>21, <1>22, <1>23, <1>24, <1>25, <1>26
     DEF Next, DispatcherStep, Lifespan

LEMMA StepInv ==
  ASSUME IInv, [Next]_vars
  PROVE  IInv'
  BY ComponentsStep, ControlStep DEF IInv

(* The inductive invariant holds in every reachable state. *)
THEOREM DeliveryInvariant == Spec => []IInv
  BY InitInv, StepInv, PTL DEF Spec

(* Every variable keeps its type; that the counters of slots and of running tasks stay in
   range needs the invariants of the pool and of the runner. *)
THEOREM TypeCorrect == Spec => []TypeOK
<1>1. IInv => TypeOK
  BY DEF IInv, Components, OutboxInv, PoolInv, RunnerInv, ControlTypeOK, TypeOK
<1>2. QED
  BY DeliveryInvariant, <1>1, PTL

(* For every number of tasks and slots: the slots in use are the threads that run,
   through cancellations, stops and crashes (BlockingIO.run in blocking_io.py). *)
THEOREM SlotsCorrect == Spec => []SlotsBoundThreads
<1>1. IInv => SlotsBoundThreads
  BY DEF IInv, Components, PoolInv
<1>2. QED
  BY DeliveryInvariant, <1>1, PTL

(* For every number of jobs and dispatchers: no task of a job runs twice in a process
   (LocalWorkflowStarter.start). *)
THEOREM OneRunCorrect == Spec => []OneRunPerKey
<1>1. IInv => OneRunPerKey
  BY DEF IInv, Components, RunnerInv
<1>2. QED
  BY DeliveryInvariant, <1>1, PTL

(* For every number of attempts and replays: an event that was given up can be replayed
   (_schedule_retry, add_dead_letter, replay_dead_letter). *)
THEOREM DeadLettersCorrect == Spec => []DeadLettersReplayable
<1>1. IInv => DeadLettersReplayable
  BY DEF IInv, Components, OutboxInv
<1>2. QED
  BY DeliveryInvariant, <1>1, PTL

(* For every number of dispatchers and jobs: the runner refuses starts only when no
   dispatcher is left, and a process that is down left no thread and no run behind
   (lifespan in main.py). *)
THEOREM ShutdownCorrect == Spec => []ShutdownInOrder
<1>1. IInv => ShutdownInOrder
  BY DeliveryAssumption
     DEF IInv, Components, RunnerInv, RunnerTypeOK, OneRunPerKey, ControlTypeOK, ProcessStates,
         LifespanInv, ShutdownInOrder
<1>2. QED
  BY DeliveryInvariant, <1>1, PTL

-----------------------------------------------------------------------------
(* Refinement *)

QueueBar == [j \in Jobs |-> QueueState(event[j])]

(* A step of the implementation is a step of the abstract queue, or is not seen. *)
LEMMA QueueStep ==
  ASSUME IInv, [Next]_vars
  PROVE  [Queue!Next]_(Queue!queueVars)
<1> DEFINE Same == UNCHANGED <<QueueBar, begun>>
<1> USE DEF IInv, Components, OutboxInv, OutboxTypeOK, OutboxStatus, ControlTypeOK,
            WorkKnown, QueueBar, QueueState
<1>0. Same => [Queue!Next]_(Queue!queueVars)
  BY DEF Queue!queueVars
<1>1. CASE UNCHANGED <<event, begun>>
  BY <1>0, <1>1
<1>2. ASSUME NEW j \in Jobs, Generate(j)
      PROVE  Queue!Next
  <2>1. Queue!Enqueue(j)
    BY <1>2 DEF Generate, EnqueueGenerationWorkflow, Queue!Enqueue, Queue!Move
  <2>2. QED
    BY <2>1 DEF Queue!Next
<1>3. ASSUME NEW j \in Jobs, Replay(j)
      PROVE  Queue!Next
  <2>1. Queue!Replay(j)
    BY <1>3 DEF Replay, ReplayDeadLetter, Queue!Replay, Queue!Move
  <2>2. QED
    BY <2>1 DEF Queue!Next
<1>4. ASSUME NEW d \in Dispatchers, Claim(d)
      PROVE  Same
  BY <1>4 DEF Claim, ClaimOne, Dispatchable, outboxVars
<1>5. ASSUME NEW j \in Jobs, event[j] # "ABSENT", begun' = begun \cup {j}, UNCHANGED outboxVars
      PROVE  Queue!Next
  <2>1. Queue!Begin(j)
    BY <1>5 DEF Queue!Begin, outboxVars
  <2>2. QED
    BY <2>1 DEF Queue!Next
<1>6. ASSUME NEW d \in Dispatchers, StartLocal(d) \/ HatchetAccepts(d) \/ ExecuteHere(d)
      PROVE  Queue!Next
  BY <1>5, <1>6 DEF StartLocal, HatchetAccepts, ExecuteHere
<1>7. ASSUME NEW d \in Dispatchers, NEW j \in Jobs, RestartLocal(d, j)
      PROVE  Queue!Next
  BY <1>5, <1>7 DEF RestartLocal
<1>8. ASSUME NEW d \in Dispatchers, Publish(d)
      PROVE  [Queue!Next]_(Queue!queueVars)
  <2>0. PICK j \in Jobs : j = work[d]
    BY <1>8 DEF Publish
  <2>1. CASE UNCHANGED outboxVars
    BY <1>1, <1>8, <2>1 DEF Publish, outboxVars
  <2>2. CASE MarkPublished(d, j)
    <3>1. Queue!Finish(j)
      BY <1>8, <2>0, <2>2 DEF Publish, MarkPublished, HoldsLease, Queue!Finish, Queue!Move
    <3>2. QED
      BY <3>1 DEF Queue!Next, Queue!Settle
  <2>3. QED
    BY <1>8, <2>0, <2>1, <2>2 DEF Publish
<1>9. ASSUME NEW d \in Dispatchers, Retry(d)
      PROVE  [Queue!Next]_(Queue!queueVars)
  <2>0. PICK j \in Jobs : j = work[d]
    BY <1>9 DEF Retry
  <2>1. CASE UNCHANGED outboxVars
    BY <1>1, <1>9, <2>1 DEF Retry, outboxVars
  <2>2. CASE ScheduleRetry(d, j) /\ attempts[j] >= MaxAttempts
    <3>1. Queue!GiveUp(j)
      <4>1. /\ event[j] = "PROCESSING"
            /\ event' = [event EXCEPT ![j] = "DEAD_LETTER"]
            /\ UNCHANGED begun
        BY <1>9, <2>2 DEF Retry, ScheduleRetry, HoldsLease
      <4>2. QED
        BY <4>1 DEF Queue!GiveUp, Queue!Move
    <3>2. QED
      BY <3>1 DEF Queue!Next, Queue!Settle
  <2>3. CASE ScheduleRetry(d, j) /\ ~(attempts[j] >= MaxAttempts)
    BY <1>0, <1>9, <2>0, <2>3 DEF Retry, ScheduleRetry, HoldsLease
  <2>4. QED
    BY <1>9, <2>0, <2>1, <2>2, <2>3 DEF Retry
<1>10. ASSUME NEW j \in Jobs, \/ TimePasses(j) \/ LeaseExpires(j) \/ GoesStale(j)
                              \/ RunStep(j) \/ HatchetStep(j)
       PROVE  UNCHANGED <<event, begun>>
  BY <1>10 DEF TimePasses, LeaseExpires, GoesStale, RunStep, HatchetStep, BecomesDue, outboxVars
<1>11. ASSUME NEW d \in Dispatchers, \/ Poll(d) \/ HatchetAnswers(d) \/ HatchetRaises(d)
                                     \/ FindStuckJobs(d) \/ \E j \in Jobs : RestartHere(d, j)
       PROVE  UNCHANGED <<event, begun>>
  BY <1>11 DEF Poll, HatchetAnswers, HatchetRaises, FindStuckJobs, RestartHere, outboxVars
<1>12. ASSUME \/ \E t \in Tasks : AcquireSlot(t)
              \/ Lifespan \/ Stop \/ Crash \/ UNCHANGED vars
       PROVE  UNCHANGED <<event, begun>>
  BY <1>12 DEF AcquireSlot, Lifespan, Startup, StopRunner, Stopped, Stop, Crash, vars, outboxVars
<1>13. QED
  BY <1>0, <1>1, <1>2, <1>3, <1>4, <1>6, <1>7, <1>8, <1>9, <1>10, <1>11, <1>12
     DEF Next, DispatcherStep

(* For every value of the constants: whatever dispatchers, leases, faults and crashes do,
   the outbox behaves like the abstract queue; an event is finished only after its
   workflow was started, and only open events are finished or given up.  (That open events
   do not stay open is the liveness part of QueuePromise, which is left to TLC.) *)
THEOREM QueueImplemented == Spec => Queue!Safe
<1>1. Init => Queue!Init
  BY DEF Init, OutboxInit, Queue!Init, QueueState
<1>2. QED
  BY <1>1, DeliveryInvariant, QueueStep, PTL DEF Spec, Queue!Safe

=============================================================================
