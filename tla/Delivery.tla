------------------------------ MODULE Delivery ------------------------------
(***************************************************************************)
(* From the accepted job to its execution: the outbox, its dispatchers and *)
(* the reconciler in the API process, the pool their blocking calls share, *)
(* the two workflow backends, and the start, the orderly stop and the      *)
(* crash of the process (apps/api/app/outbox.py, main.py, bootstrap.py,    *)
(* control_plane.py, workflow.py, hatchet_workflows.py).                   *)
(*                                                                         *)
(* What a call of GenerationExecutionService.execute does to the job is    *)
(* the subject of Execution; here a call makes some progress, which        *)
(* Execution shows to be bounded, or ends the job.                         *)
(***************************************************************************)
EXTENDS Outbox, BlockingIO, LocalWorkflow

CONSTANTS
    Reconcilers,   \* the dispatchers that are control_plane_reconciler_loop
    NoJob,
    Backends,      \* values of settings.workflow_backend
    MaxPolls,      \* bound: calls of execute that leave the job unfinished
    MaxExpiries,   \* bound: leases that expire while their holder works
    MaxFaults,     \* bound: calls that raise, answers that are lost, lost races
    MaxStops,      \* bound: orderly stops and crashes of the process
    MaxReplays     \* bound: replays of dead letters

ASSUME DeliveryAssumption ==
    /\ Tasks = Dispatchers \cup Jobs
    /\ Keys = Jobs      \* generation_workflow_key
    /\ Reconcilers \subseteq Dispatchers
    /\ Dispatchers \cap Jobs = {}
    /\ NoJob \notin Jobs
    /\ Backends \subseteq {"local", "hatchet"}
    /\ {MaxPolls, MaxExpiries, MaxFaults, MaxStops, MaxReplays} \subseteq Nat

VARIABLES
    backend,     \* the configured workflow backend
    flows,       \* durable runs of the Hatchet service
    begun,       \* history: jobs for which a start was accepted
    job, polls,  \* generation_jobs.status, and the progress made
    idle,        \* jobs whose updated_at is older than stuck_after
    overtaken,   \* history: jobs whose task ended because another party was faster
    process,     \* the lifespan of the API process
    pc, work,    \* dispatchers: where they are, and the event or job in hand
    todo,        \* reconcilers: jobs still to be restarted in this pass
    expiries, faults, stops, replays

jobVars == <<job, polls, idle, overtaken>>
taskVars == <<pc, work, todo>>
counters == <<expiries, faults, stops, replays>>
vars == <<outboxVars, poolVars, runnerVars, backend, flows, begun, jobVars, process, taskVars,
          counters>>

JobStates == {"NONE", "ACTIVE", "ENDED"}
FlowStates == {"NONE", "RUNNING", "OVER"}
ProcessStates == {"down", "up", "stopping", "draining"}

\* Where a dispatcher waits for the pool.
Blocking == {"claim", "publish", "retry", "stuck", "execute"}
Labels == Blocking \cup {"off", "poll", "start", "sent", "restart"}

TypeOK ==
    /\ OutboxTypeOK
    /\ PoolTypeOK
    /\ RunnerTypeOK
    /\ backend \in Backends
    /\ flows \in [Jobs -> FlowStates]
    /\ begun \subseteq Jobs
    /\ job \in [Jobs -> JobStates]
    /\ polls \in [Jobs -> 0 .. MaxPolls]
    /\ idle \subseteq Jobs
    /\ overtaken \subseteq Jobs
    /\ process \in ProcessStates
    /\ pc \in [Dispatchers -> Labels]
    /\ work \in [Dispatchers -> Jobs \cup {NoJob}]
    /\ todo \in [Dispatchers -> SUBSET Jobs]
    /\ expiries \in 0 .. MaxExpiries
    /\ faults \in 0 .. MaxFaults
    /\ stops \in 0 .. MaxStops
    /\ replays \in 0 .. MaxReplays

Init ==
    /\ OutboxInit
    /\ PoolInit
    /\ RunnerInit
    /\ backend \in Backends
    /\ flows = [j \in Jobs |-> "NONE"]
    /\ begun = {}
    /\ job = [j \in Jobs |-> "NONE"]
    /\ polls = [j \in Jobs |-> 0]
    /\ idle = {}
    /\ overtaken = {}
    /\ process = "down"
    /\ pc = [d \in Dispatchers |-> "off"]
    /\ work = [d \in Dispatchers |-> NoJob]
    /\ todo = [d \in Dispatchers |-> {}]
    /\ expiries = 0 /\ faults = 0 /\ stops = 0 /\ replays = 0

Fault == faults < MaxFaults /\ faults' = faults + 1

-----------------------------------------------------------------------------
(* The table, from outside the process *)

\* generate commits the job and its event together.
Generate(j) ==
    /\ job[j] = "NONE"
    /\ job' = [job EXCEPT ![j] = "ACTIVE"]
    /\ EnqueueGenerationWorkflow(j)
    /\ UNCHANGED <<poolVars, runnerVars, backend, flows, begun, polls, idle, overtaken, process,
                   taskVars, counters>>

\* Somebody works on the claim of the event.
Attended(j) ==
    /\ event[j] = "PROCESSING"
    /\ \E d \in Dispatchers : /\ token[j] = d
                              /\ work[d] = j
                              /\ pc[d] \in {"start", "sent", "publish", "retry"}

TimePasses(j) ==
    /\ BecomesDue(j)
    /\ ~Attended(j)
    /\ UNCHANGED <<poolVars, runnerVars, backend, flows, begun, jobVars, process, taskVars, counters>>

\* The holder of the claim is slower than the lease.
LeaseExpires(j) ==
    /\ BecomesDue(j)
    /\ Attended(j)
    /\ expiries < MaxExpiries
    /\ expiries' = expiries + 1
    /\ UNCHANGED <<poolVars, runnerVars, backend, flows, begun, jobVars, process, taskVars, faults,
                   stops, replays>>

\* Nothing updated the job for stuck_after.
GoesStale(j) ==
    /\ job[j] = "ACTIVE"
    /\ j \notin idle
    /\ idle' = idle \cup {j}
    /\ UNCHANGED <<outboxVars, poolVars, runnerVars, backend, flows, begun, job, polls, overtaken,
                   process, taskVars, counters>>

\* POST /admin/dead-letters/{id}/replay
Replay(j) ==
    /\ ReplayDeadLetter(j)
    /\ replays < MaxReplays
    /\ replays' = replays + 1
    /\ UNCHANGED <<poolVars, runnerVars, backend, flows, begun, jobVars, process, taskVars,
                   expiries, faults, stops>>

-----------------------------------------------------------------------------
(* Execution of a job, by whomever *)

\* One call of execute; done says whether the step reports is_complete.
Execute(j, done) ==
    \/ /\ job[j] = "ACTIVE"
       /\ ~done
       /\ polls[j] < MaxPolls
       /\ polls' = [polls EXCEPT ![j] = @ + 1]
       /\ idle' = idle \ {j}
       /\ UNCHANGED <<job, overtaken, faults>>
    \/ /\ job[j] = "ACTIVE"
       /\ done
       /\ job' = [job EXCEPT ![j] = "ENDED"]
       /\ idle' = idle \ {j}
       /\ UNCHANGED <<polls, overtaken, faults>>
    \/ /\ job[j] = "ENDED"
       /\ done
       /\ UNCHANGED <<jobVars, faults>>
    \* A webhook failed the attempt first and created its successor: fail_attempt
    \* returns False here and the step is complete although the job is not.
    \/ /\ job[j] = "ACTIVE"
       /\ done
       /\ Fault
       /\ overtaken' = overtaken \cup {j}
       /\ UNCHANGED <<job, polls, idle>>

\* The tasks that may ask the pool for a slot.
WantsSlot(t) ==
    \/ t \in Dispatchers /\ process = "up" /\ pc[t] \in Blocking
    \/ t \in Jobs /\ process \in {"up", "stopping"} /\ runs[t] = "RUNNING"

AcquireSlot(t) ==
    /\ WantsSlot(t)
    /\ Acquire(t)
    /\ UNCHANGED <<outboxVars, runnerVars, backend, flows, begun, jobVars, process, taskVars,
                   counters>>

\* LocalWorkflowStarter._execute: one round of the loop, or an exception.
RunStep(j) ==
    /\ runs[j] = "RUNNING"
    /\ Return(j)
    /\ \/ \E done \in BOOLEAN :
            /\ Execute(j, done)
            /\ IF j \in cancelled THEN RunEnds(j, "CANCELLED")
               ELSE IF done THEN RunEnds(j, "COMPLETED")
               ELSE UNCHANGED runnerVars
       \/ /\ j \notin cancelled
          /\ Fault
          /\ RunEnds(j, "FAILED")
          /\ UNCHANGED jobVars
    /\ UNCHANGED <<outboxVars, backend, flows, begun, process, taskVars, expiries, stops, replays>>

\* run_durable_generation and GenerationProviderStep on a Hatchet worker.
HatchetStep(j) ==
    /\ flows[j] = "RUNNING"
    /\ \/ \E done \in BOOLEAN :
            /\ Execute(j, done)
            /\ flows' = [flows EXCEPT ![j] = IF done THEN "OVER" ELSE @]
       \/ /\ Fault
          /\ flows' = [flows EXCEPT ![j] = "OVER"]
          /\ UNCHANGED jobVars
    /\ UNCHANGED <<outboxVars, poolVars, runnerVars, backend, begun, process, taskVars, expiries,
                   stops, replays>>

-----------------------------------------------------------------------------
(* dispatch_once and reconcile_once *)

Goto(d, label) == pc' = [pc EXCEPT ![d] = label]

\* The blocking call of d ends.  A cancelled dispatcher ends with it.
CallEnds(d, label) ==
    /\ Return(d)
    /\ Goto(d, IF d \in cancelled THEN "off" ELSE label)

Holding(d, j) == work' = [work EXCEPT ![d] = IF d \in cancelled THEN NoJob ELSE j]

\* The reconciler goes on after a dispatch that did not raise.
AfterDispatch(d) == IF d \in Reconcilers THEN "stuck" ELSE "poll"

Poll(d) ==
    /\ process = "up"
    /\ pc[d] = "poll"
    /\ Goto(d, "claim")
    /\ UNCHANGED <<outboxVars, poolVars, runnerVars, backend, flows, begun, jobVars, process, work,
                   todo, counters>>

Claim(d) ==
    /\ pc[d] = "claim"
    /\ \/ \E j \in Jobs :
            /\ ClaimOne(d, j)
            /\ Holding(d, j)
            /\ CallEnds(d, "start")
       \/ /\ \A j \in Jobs : ~Dispatchable(j)
          /\ CallEnds(d, AfterDispatch(d))
          /\ UNCHANGED <<outboxVars, work>>
    /\ UNCHANGED <<runnerVars, backend, flows, begun, jobVars, process, todo, counters>>

\* LocalWorkflowStarter.start does not wait for anything.
StartLocal(d) ==
    /\ pc[d] = "start"
    /\ backend = "local"
    /\ StartRun(work[d])
    /\ begun' = begun \cup {work[d]}
    /\ Goto(d, "publish")
    /\ UNCHANGED <<outboxVars, poolVars, backend, flows, jobVars, process, work, todo, counters>>

\* The service takes the run, or knows its key and answers with the existing run.
HatchetAccepts(d) ==
    /\ pc[d] = "start"
    /\ backend = "hatchet"
    /\ flows' = [flows EXCEPT ![work[d]] = IF @ = "NONE" THEN "RUNNING" ELSE @]
    /\ begun' = begun \cup {work[d]}
    /\ Goto(d, "sent")
    /\ UNCHANGED <<outboxVars, poolVars, runnerVars, backend, jobVars, process, work, todo, counters>>

HatchetAnswers(d) ==
    /\ pc[d] = "sent"
    /\ Goto(d, "publish")
    /\ UNCHANGED <<outboxVars, poolVars, runnerVars, backend, flows, begun, jobVars, process, work,
                   todo, counters>>

\* The call raises: before the service took the run, or after it.
HatchetRaises_Published(d) ==
    /\ pc[d] \in {"start", "sent"}
    /\ backend = "hatchet"
    /\ Fault
    /\ Goto(d, "publish")
    /\ UNCHANGED <<outboxVars, poolVars, runnerVars, backend, flows, begun, jobVars, process, work,
                   todo, expiries, stops, replays>>

HatchetRaises(d) ==
    /\ pc[d] \in {"start", "sent"}
    /\ backend = "hatchet"
    /\ Fault
    /\ Goto(d, "retry")
    /\ UNCHANGED <<outboxVars, poolVars, runnerVars, backend, flows, begun, jobVars, process, work,
                   todo, expiries, stops, replays>>

\* A claim that lost its lease raises, and the pass of the loop is over.
Publish(d) ==
    /\ pc[d] = "publish"
    /\ \/ MarkPublished(d, work[d]) /\ CallEnds(d, AfterDispatch(d))
       \/ ~HoldsLease(d, work[d]) /\ CallEnds(d, "poll") /\ UNCHANGED outboxVars
    /\ work' = [work EXCEPT ![d] = NoJob]
    /\ UNCHANGED <<runnerVars, backend, flows, begun, jobVars, process, todo, counters>>

Retry(d) ==
    /\ pc[d] = "retry"
    /\ \/ ScheduleRetry(d, work[d]) /\ CallEnds(d, AfterDispatch(d))
       \/ ~HoldsLease(d, work[d]) /\ CallEnds(d, "poll") /\ UNCHANGED outboxVars
    /\ work' = [work EXCEPT ![d] = NoJob]
    /\ UNCHANGED <<runnerVars, backend, flows, begun, jobVars, process, todo, counters>>

\* _stuck_job_ids: idle stands for the updated_at of the job and of its attempt.
StuckJobs_NotRunning == {j \in idle : job[j] = "ACTIVE" /\ polls[j] = 0}

StuckJobs == {j \in idle : job[j] = "ACTIVE"}

\* The pass takes batch_size of them, the oldest first; here, any part that is not empty.
FindStuckJobs(d) ==
    /\ pc[d] = "stuck"
    /\ \E batch \in SUBSET StuckJobs :
          /\ batch = {} => StuckJobs = {}
          /\ todo' = [todo EXCEPT ![d] = IF d \in cancelled THEN {} ELSE batch]
    /\ CallEnds(d, IF StuckJobs = {} THEN "poll" ELSE "restart")
    /\ UNCHANGED <<outboxVars, runnerVars, backend, flows, begun, jobVars, process, work, counters>>

\* reconcile_generation_job: the local runner is asked to start the job again, ...
RestartLocal(d, j) ==
    /\ pc[d] = "restart"
    /\ backend = "local"
    /\ j \in todo[d]
    /\ StartRun(j)
    /\ begun' = begun \cup {j}
    /\ todo' = [todo EXCEPT ![d] = @ \ {j}]
    /\ Goto(d, IF todo[d] = {j} THEN "poll" ELSE "restart")
    /\ UNCHANGED <<outboxVars, poolVars, backend, flows, jobVars, process, work, counters>>

\* ... and otherwise the reconciler executes a step of the job itself.
RestartHere(d, j) ==
    /\ pc[d] = "restart"
    /\ backend = "hatchet"
    /\ j \in todo[d]
    /\ todo' = [todo EXCEPT ![d] = @ \ {j}]
    /\ work' = [work EXCEPT ![d] = j]
    /\ Goto(d, "execute")
    /\ UNCHANGED <<outboxVars, poolVars, runnerVars, backend, flows, begun, jobVars, process,
                   counters>>

ExecuteHere(d) ==
    /\ pc[d] = "execute"
    /\ \E done \in BOOLEAN : Execute(work[d], done)
    /\ begun' = begun \cup {work[d]}
    /\ CallEnds(d, IF todo[d] = {} THEN "poll" ELSE "restart")
    /\ work' = [work EXCEPT ![d] = NoJob]
    /\ todo' = [todo EXCEPT ![d] = IF d \in cancelled THEN {} ELSE @]
    /\ UNCHANGED <<outboxVars, runnerVars, backend, flows, process, expiries, stops, replays>>

-----------------------------------------------------------------------------
(* lifespan *)

Startup ==
    /\ process = "down"
    /\ process' = "up"
    /\ RunnerStartup
    /\ pc' = [d \in Dispatchers |-> "poll"]
    /\ UNCHANGED <<outboxVars, poolVars, backend, flows, begun, jobVars, work, todo, counters>>

\* stop.set() and task.cancel(): a dispatcher without a thread ends at its await.
Stop ==
    /\ process = "up"
    /\ stops < MaxStops
    /\ stops' = stops + 1
    /\ process' = "stopping"
    /\ CancelCalls(Dispatchers)
    /\ pc' = [d \in Dispatchers |-> IF d \in threads THEN pc[d] ELSE "off"]
    /\ work' = [d \in Dispatchers |-> IF d \in threads THEN work[d] ELSE NoJob]
    /\ todo' = [d \in Dispatchers |-> IF d \in threads THEN todo[d] ELSE {}]
    /\ UNCHANGED <<outboxVars, runnerVars, backend, flows, begun, jobVars, expiries, faults, replays>>

\* gather has returned for all dispatchers, and the runner is shut down.
StopRunner_NoGather ==
    /\ process = "stopping"
    /\ process' = "draining"
    /\ CancelRuns(Jobs \ threads)
    /\ CancelCalls(Jobs)
    /\ UNCHANGED <<outboxVars, backend, flows, begun, jobVars, taskVars, counters>>

StopRunner ==
    /\ process = "stopping"
    /\ \A d \in Dispatchers : pc[d] = "off"
    /\ process' = "draining"
    /\ CancelRuns(Jobs \ threads)
    /\ CancelCalls(Jobs)
    /\ UNCHANGED <<outboxVars, backend, flows, begun, jobVars, taskVars, counters>>

Stopped ==
    /\ process = "draining"
    /\ RunnerStopped
    /\ process' = "down"
    /\ UNCHANGED <<outboxVars, poolVars, backend, flows, begun, jobVars, taskVars, counters>>

\* The process dies; transactions in its threads are rolled back.
Crash ==
    /\ process # "down"
    /\ stops < MaxStops
    /\ stops' = stops + 1
    /\ process' = "down"
    /\ slots' = MaxBlockingIO
    /\ threads' = {}
    /\ cancelled' = {}
    /\ accepting' = FALSE
    /\ runs' = [j \in Jobs |-> "NONE"]
    /\ unfinished' = [j \in Jobs |-> 0]
    /\ pc' = [d \in Dispatchers |-> "off"]
    /\ work' = [d \in Dispatchers |-> NoJob]
    /\ todo' = [d \in Dispatchers |-> {}]
    /\ UNCHANGED <<outboxVars, backend, flows, begun, jobVars, expiries, faults, replays>>

DispatcherStep(d) ==
    \/ Poll(d) \/ Claim(d) \/ StartLocal(d) \/ HatchetAccepts(d) \/ HatchetAnswers(d)
    \/ Publish(d) \/ Retry(d) \/ FindStuckJobs(d) \/ ExecuteHere(d)
    \/ \E j \in Jobs : RestartLocal(d, j) \/ RestartHere(d, j)

Lifespan == Startup \/ StopRunner \/ Stopped

Next ==
    \/ \E j \in Jobs : \/ Generate(j) \/ TimePasses(j) \/ LeaseExpires(j) \/ GoesStale(j)
                       \/ Replay(j) \/ RunStep(j) \/ HatchetStep(j)
    \/ \E t \in Tasks : AcquireSlot(t)
    \/ \E d \in Dispatchers : DispatcherStep(d) \/ HatchetRaises(d)
    \/ Lifespan \/ Stop \/ Crash

Spec == Init /\ [][Next]_vars

\* Time passes, the operator starts the process again, threads end, and the
\* semaphore serves its waiters in the order of their arrival.
FairSpec ==
    /\ Spec
    /\ \A j \in Jobs : /\ WF_vars(TimePasses(j)) /\ WF_vars(GoesStale(j))
                       /\ WF_vars(RunStep(j)) /\ WF_vars(HatchetStep(j))
    /\ \A t \in Tasks : SF_vars(AcquireSlot(t))
    /\ \A d \in Dispatchers : WF_vars(DispatcherStep(d))
    /\ WF_vars(Lifespan)

-----------------------------------------------------------------------------
(* Properties *)

(* The slots that are not free are exactly the threads that run: a cancelled caller keeps
   its slot, so shutdowns never let more than MAX_BLOCKING_IO threads run. *)
SlotsBoundThreads == slots + Cardinality(threads) = MaxBlockingIO

(* When the local runner stops accepting, no dispatcher is left that could start or
   publish something, and when the process is down none of its threads still writes to
   the database: lifespan drains the dispatchers before it shuts the runner down. *)
ShutdownInOrder ==
    /\ ~accepting => \A d \in Dispatchers : pc[d] = "off"
    /\ process = "down" => threads = {} /\ \A j \in Jobs : unfinished[j] = 0

(* Duplicate starts from the dispatcher, the retry after a lost lease and the
   reconciler share one task: a job is never executed by two tasks of one process. *)
OneRunPerKey == \A j \in Jobs : unfinished[j] = IF runs[j] = "RUNNING" THEN 1 ELSE 0

(* Every event that was given up, in its first or in a later cycle, has an open dead
   letter, and every open letter belongs to such an event: replay_dead_letter finds it
   and never raises. *)
DeadLettersReplayable == \A j \in Jobs : event[j] = "DEAD_LETTER" <=> letter[j] = "OPEN"

\* What the users of the outbox see of an event.
QueueState(status) ==
    CASE status = "ABSENT" -> "ABSENT"
      [] status \in {"PENDING", "PROCESSING"} -> "OPEN"
      [] status = "PUBLISHED" -> "DONE"
      [] status = "DEAD_LETTER" -> "DEAD"

Queue == INSTANCE DeliveryQueue WITH queue <- [j \in Jobs |-> QueueState(event[j])]

(* The outbox and its dispatchers implement the queue of DeliveryQueue, in spite of
   crashes, expired leases and lost answers: an event is published only after its
   workflow was started, a published event stays so, and no event stays open for ever. *)
QueuePromise == Queue!Spec

(* Every accepted job is executed to its end, although the process may die anywhere and
   the workflow may fail: the reconciler starts it again.  The exception is a job whose
   only task ended because a webhook was faster: the local runner regards its key as
   served and never starts it again in this process. *)
JobsEnd == \A j \in Jobs : (job[j] = "ACTIVE") ~> (job[j] = "ENDED" \/ j \in overtaken)

=============================================================================
