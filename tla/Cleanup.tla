------------------------------ MODULE Cleanup ------------------------------
(***************************************************************************)
(* The life of stored objects: who writes them, who names them in the      *)
(* database, and who deletes them after their retention or with their      *)
(* project.  Composes the registry of artifacts and the cleanup event of   *)
(* one project with the tasks that write (executors, the provider, asset   *)
(* uploads) and the tasks that clean (the storage cleanup loop and the     *)
(* reconciler) (apps/api/app/artifacts.py, application_assets.py,          *)
(* provider_submission.py, provider_completion.py, bootstrap.py).          *)
(*                                                                         *)
(* Assumed: a write that began with a registration ends before the         *)
(* retention does.  It holds for the default retention of a day; the       *)
(* setting (config.py, provider_artifact_retention_seconds) also admits 0. *)
(* Left out: a commit that took effect although its answer, or the refresh *)
(* after it, failed, so that its writer deletes an object that a row names *)
(* (save_asset and finish_output).                                         *)
(***************************************************************************)
EXTENDS ArtifactLifecycle, ProjectCleanup, FiniteSets

CONSTANTS
    Assets,        \* keys of uploaded reference assets
    NoKey,
    MaxDisruptions
        \* bound: late registrations, failed deletions before the last attempt, leases
        \* that expire while their holder works, and crashes, together

Keys == Artifacts \cup Assets

ASSUME KeysAssumption ==
    /\ Objects = Keys
    /\ Holders = Cleaners
    /\ NoHolder = Nobody
    /\ Assets \cap Artifacts = {}
    /\ NoKey \notin Keys
    /\ MaxDisruptions \in Nat

VARIABLES
    job,         \* the job of the project: ACTIVE or ENDED
    outputs,     \* generation_outputs.object_key
    assets,      \* project_assets.object_key of READY rows
    claims,      \* source keys that the provider can still write to
    writer,      \* tasks that write a final output or an asset
    pc, work,    \* cleaners
    disruptions

rowVars == <<job, outputs, assets>>
writeVars == <<claims, writer>>
cleanerVars == <<pc, work>>
vars == <<stored, artifactVars, cleanupVars, rowVars, writeVars, cleanerVars, disruptions>>

WriterStates == {"none", "ready", "written", "done", "dead"}
Labels == {"idle", "removing", "cleaned", "failed", "next", "renew", "delete", "mark", "fail", "settle", "publish"}

TypeOK ==
    /\ stored \subseteq Keys
    /\ ArtifactTypeOK
    /\ CleanupTypeOK
    /\ \A k \in Artifacts : artifact[k] = "PROCESSING" <=> holder[k] # Nobody
    /\ event = "PROCESSING" <=> token # NoHolder
    /\ job \in {"ACTIVE", "ENDED"}
    /\ outputs \subseteq Finals
    /\ assets \subseteq Assets
    /\ claims \subseteq Sources
    /\ writer \in [Finals \cup Assets -> WriterStates]
    /\ pc \in [Cleaners -> Labels]
    /\ work \in [Cleaners -> Keys \cup {NoKey}]
    /\ disruptions \in 0 .. MaxDisruptions

Init ==
    /\ stored = {}
    /\ ArtifactInit
    /\ CleanupInit
    /\ job = "ACTIVE"
    /\ outputs = {}
    /\ assets = {}
    /\ claims = {}
    /\ writer = [k \in Finals \cup Assets |-> "none"]
    /\ pc = [c \in Cleaners |-> "idle"]
    /\ work = [c \in Cleaners |-> NoKey]
    /\ disruptions = 0

Disruption ==
    /\ disruptions < MaxDisruptions
    /\ disruptions' = disruptions + 1

-----------------------------------------------------------------------------
(* The writers *)

\* register_artifact, one transaction under the lock of the project.
RegisterArtifact(k) == Register(k) /\ ListObject(k)

WriterGoes(k, state) == writer' = [writer EXCEPT ![k] = state]

\* submit_request registers the key of the claim before the provider knows it.
SubmitRequest(k) ==
    /\ job = "ACTIVE"
    /\ artifact[k] = "NONE"
    /\ RegisterArtifact(k)
    /\ claims' = claims \cup {k}
    /\ UNCHANGED <<stored, rowVars, writer, cleanerVars, disruptions>>

\* The provider uploads its output; the storage refuses an expired claim and an
\* existing object.
Upload(k) ==
    /\ k \in claims \ stored
    /\ Put(k)
    /\ UNCHANGED <<artifactVars, cleanupVars, rowVars, writeVars, cleanerVars, disruptions>>

\* complete_provider_result registers the reported object again, however late; so
\* does the inventory of local sources.
LateRegistration(k) ==
    /\ artifact[k] # "NONE"
    /\ Disruption
    /\ RegisterArtifact(k)
    /\ UNCHANGED <<stored, rowVars, writeVars, cleanerVars>>

\* receive_and_publish: the source is read, then the final key is registered, then
\* the copy is written.
ReceiveArtifact_Unregistered(k) ==
    /\ writer[k] = "none"
    /\ Sources \cap stored # {}
    /\ WriterGoes(k, "ready")
    /\ UNCHANGED <<stored, artifactVars, cleanupVars, rowVars, claims, cleanerVars, disruptions>>

ReceiveArtifact(k) ==
    /\ writer[k] = "none"
    /\ Sources \cap stored # {}
    /\ RegisterArtifact(k)
    /\ WriterGoes(k, "ready")
    /\ UNCHANGED <<stored, rowVars, claims, cleanerVars, disruptions>>

\* save_asset: the project is looked up without a lock, and the object is written.
\* Written before or after a deletion of the project, it is the same object.
UploadAsset(k) ==
    /\ writer[k] = "none"
    /\ project = "ACTIVE"
    /\ Put(k)
    /\ WriterGoes(k, "written")
    /\ UNCHANGED <<artifactVars, cleanupVars, rowVars, claims, cleanerVars, disruptions>>

WriteObject(k) ==
    /\ writer[k] = "ready"
    /\ Put(k)
    /\ WriterGoes(k, "written")
    /\ UNCHANGED <<artifactVars, cleanupVars, rowVars, claims, cleanerVars, disruptions>>

CommitOutput(k) ==
    /\ writer[k] = "written"
    /\ job = "ACTIVE"
    /\ job' = "ENDED"
    /\ outputs' = outputs \cup {k}
    /\ WriterGoes(k, "done")
    /\ UNCHANGED <<stored, artifactVars, cleanupVars, assets, claims, cleanerVars, disruptions>>

\* The second look at the project takes its lock.  The commit and the refresh after it
\* are answered; DropObject is the path of a commit that was not made.
CommitAsset(k) ==
    /\ writer[k] = "written"
    /\ project = "ACTIVE"
    /\ assets' = assets \cup {k}
    /\ WriterGoes(k, "done")
    /\ UNCHANGED <<stored, artifactVars, cleanupVars, job, outputs, claims, cleanerVars, disruptions>>

\* A writer whose row is not committed, because it comes too late, lost its attempt or
\* got an exception, deletes what it wrote; the deletion may fail too.
DropObject(k) ==
    /\ writer[k] = "written"
    /\ \/ Remove(k) /\ WriterGoes(k, "done")
       \/ WriterGoes(k, "dead") /\ UNCHANGED stored
    /\ UNCHANGED <<artifactVars, cleanupVars, rowVars, claims, cleanerVars, disruptions>>

\* The job ends without an output.
EndJob ==
    /\ job = "ACTIVE"
    /\ job' = "ENDED"
    /\ UNCHANGED <<stored, artifactVars, cleanupVars, outputs, assets, writeVars, cleanerVars, disruptions>>

\* DELETE /v1/projects/{id}, refused while a job is active.
DeleteProject ==
    /\ job = "ENDED"
    /\ RequestDeletion(assets \cup outputs \cup {k \in Artifacts : artifact[k] # "NONE"})
    /\ UNCHANGED <<stored, artifactVars, rowVars, writeVars, cleanerVars, disruptions>>

-----------------------------------------------------------------------------
(* Time *)

\* cleanup_due passes.  It is not before the end of the claim, after which the
\* provider cannot write any more; a registered copy has been written by then, as the
\* retention is assumed to be longer than a write.
RetentionEnds_IgnoresClaim(k) ==
    /\ job = "ENDED"
    /\ k \in retained
    /\ k \in Finals => writer[k] # "ready"
    /\ retained' = retained \ {k}
    /\ UNCHANGED <<stored, artifact, tries, holder, ripe, cleanupVars, rowVars, writeVars,
                   cleanerVars, disruptions>>

RetentionEnds(k) ==
    /\ job = "ENDED"
    /\ k \in retained
    /\ k \in Finals => writer[k] # "ready"
    /\ retained' = retained \ {k}
    /\ claims' = claims \ {k}
    /\ UNCHANGED <<stored, artifact, tries, holder, ripe, cleanupVars, rowVars, writer,
                   cleanerVars, disruptions>>

\* A cleaner is at work with the claim it holds.
AttendsArtifact(k) ==
    /\ artifact[k] = "PROCESSING"
    /\ \E c \in Cleaners : /\ holder[k] = c
                           /\ work[c] = k
                           /\ pc[c] \in {"removing", "cleaned", "failed"}

AttendsEvent ==
    /\ event = "PROCESSING"
    /\ \E c \in Cleaners : /\ token = c
                           /\ pc[c] \in {"next", "renew", "delete", "mark", "fail",
                                         "settle", "publish"}

TimePasses ==
    /\ \/ /\ EventBecomesDue /\ ~AttendsEvent
          /\ UNCHANGED artifactVars
       \/ /\ \E k \in Artifacts : ArtifactRipens(k) /\ ~AttendsArtifact(k)
          /\ UNCHANGED cleanupVars
    /\ UNCHANGED <<stored, rowVars, writeVars, cleanerVars, disruptions>>

LeaseExpires ==
    /\ Disruption
    /\ \/ /\ EventBecomesDue /\ AttendsEvent
          /\ UNCHANGED artifactVars
       \/ /\ \E k \in Artifacts : ArtifactRipens(k) /\ AttendsArtifact(k)
          /\ UNCHANGED cleanupVars
    /\ UNCHANGED <<stored, rowVars, writeVars, cleanerVars>>

Replay ==
    /\ ReplayCleanup
    /\ UNCHANGED <<stored, artifactVars, rowVars, writeVars, cleanerVars, disruptions>>

-----------------------------------------------------------------------------
(* The cleaners: one artifact, or else one project *)

Goto(c, label) == pc' = [pc EXCEPT ![c] = label]
TakeUp(c, k) == work' = [work EXCEPT ![c] = k]

CleanableNow(k) == Cleanable(k, job = "ENDED", outputs, project = "DELETED")

StartArtifact(c) ==
    /\ pc[c] = "idle"
    /\ \E k \in Artifacts : CleanableNow(k) /\ ClaimArtifact(c, k) /\ TakeUp(c, k)
    /\ Goto(c, "removing")
    /\ UNCHANGED <<stored, cleanupVars, rowVars, writeVars, disruptions>>

\* A deletion that fails for a holder without its lease changes nothing, and the last
\* attempt is only reached by an earlier disruption: neither needs a bound.
DeletionFails(holds, lastAttempt) ==
    IF holds /\ ~lastAttempt THEN Disruption ELSE UNCHANGED disruptions

RemoveArtifact(c) ==
    /\ pc[c] = "removing"
    /\ \/ Remove(work[c]) /\ Goto(c, "cleaned") /\ UNCHANGED disruptions
       \/ /\ DeletionFails(HoldsArtifact(c, work[c]), tries[work[c]] >= ArtifactAttempts)
          /\ Goto(c, "failed")
          /\ UNCHANGED stored
    /\ UNCHANGED <<artifactVars, cleanupVars, rowVars, writeVars, work>>

FinishArtifact(c) ==
    /\ \/ pc[c] = "cleaned" /\ ArtifactCleaned(c, work[c])
       \/ pc[c] = "failed" /\ ArtifactFailed(c, work[c])
    /\ Goto(c, "idle")
    /\ TakeUp(c, NoKey)
    /\ UNCHANGED <<stored, cleanupVars, rowVars, writeVars, disruptions>>

StartEvent(c) ==
    /\ pc[c] = "idle"
    /\ \A k \in Artifacts : ~CleanableNow(k)
    /\ ClaimEvent(c)
    /\ Goto(c, "next")
    /\ UNCHANGED <<stored, artifactVars, rowVars, writeVars, work, disruptions>>

\* _next_object: not_before of an artifact is the end of its retention.
DueObjects_All == PendingObjects

DueObjects == PendingObjects \ retained

NextObject(c) ==
    /\ pc[c] = "next"
    /\ \/ \E k \in DueObjects : TakeUp(c, k) /\ Goto(c, "renew")
       \/ DueObjects = {} /\ Goto(c, "settle") /\ TakeUp(c, NoKey)
    /\ UNCHANGED <<stored, artifactVars, cleanupVars, rowVars, writeVars, disruptions>>

\* An operation on the event that finds its lease lost, or the object no longer
\* pending, raises; the pass is over.
Raise(c) == Goto(c, "idle") /\ TakeUp(c, NoKey) /\ UNCHANGED cleanupVars

StillMine(c) == LeaseOwned(c) /\ item[work[c]] = "PENDING"

\* _renew_lease and _start_object_attempt
RenewAndAttempt(c) ==
    /\ pc[c] = "renew"
    /\ \/ StillMine(c) /\ RenewLease(c) /\ Goto(c, "delete") /\ UNCHANGED work
       \/ ~StillMine(c) /\ Raise(c)
    /\ UNCHANGED <<stored, artifactVars, rowVars, writeVars, disruptions>>

DeleteObject(c) ==
    /\ pc[c] = "delete"
    /\ \/ Remove(work[c]) /\ Goto(c, "mark") /\ UNCHANGED disruptions
       \/ /\ DeletionFails(LeaseOwned(c), attempts >= CleanupAttempts)
          /\ Goto(c, "fail")
          /\ UNCHANGED stored
    /\ UNCHANGED <<artifactVars, cleanupVars, rowVars, writeVars, work>>

ObjectDeleted(c) ==
    /\ pc[c] = "mark"
    /\ \/ /\ MarkObjectDeleted(c, work[c])
          /\ assets' = assets \ {work[c]}
          /\ IF work[c] \in Artifacts THEN ArtifactGone(work[c]) ELSE UNCHANGED artifactVars
          /\ Goto(c, "next") /\ TakeUp(c, NoKey)
       \/ ~StillMine(c) /\ Raise(c) /\ UNCHANGED <<artifactVars, assets>>
    /\ UNCHANGED <<stored, job, outputs, writeVars, disruptions>>

ObjectFailed(c) ==
    /\ pc[c] = "fail"
    /\ \/ StillMine(c) /\ ScheduleRetry(c) /\ Goto(c, "idle") /\ TakeUp(c, NoKey)
       \/ ~StillMine(c) /\ Raise(c)
    /\ UNCHANGED <<stored, artifactVars, rowVars, writeVars, disruptions>>

Settle(c) ==
    /\ pc[c] = "settle"
    /\ \/ PendingObjects # {} /\ Defer(c) /\ Goto(c, "idle") /\ UNCHANGED work
       \/ PendingObjects # {} /\ ~LeaseOwned(c) /\ Raise(c)
       \/ PendingObjects = {} /\ Goto(c, "publish") /\ UNCHANGED <<cleanupVars, work>>
    /\ UNCHANGED <<stored, artifactVars, rowVars, writeVars, disruptions>>

\* The UPDATE sees the objects as they were when it began: a registration that holds
\* the lock of the event in between adds an object that it overlooks.  A
\* registration before it makes it fail.
PublishEvent(c) ==
    /\ pc[c] = "publish"
    /\ \/ MarkPublished(c) /\ Goto(c, "idle") /\ UNCHANGED work
       \/ ~LeaseOwned(c) /\ Raise(c)
       \/ LeaseOwned(c) /\ PendingObjects # {} /\ Raise(c)
    /\ UNCHANGED <<stored, artifactVars, rowVars, writeVars, disruptions>>

\* The process dies with its cleaners and its writers.
Crash ==
    /\ Disruption
    /\ writer' = [k \in Finals \cup Assets |->
                    IF writer[k] \in {"ready", "written"} THEN "dead" ELSE writer[k]]
    /\ pc' = [c \in Cleaners |-> "idle"]
    /\ work' = [c \in Cleaners |-> NoKey]
    /\ UNCHANGED <<stored, artifactVars, cleanupVars, rowVars, claims>>

CleanerStep(c) ==
    \/ StartArtifact(c) \/ RemoveArtifact(c) \/ FinishArtifact(c)
    \/ StartEvent(c) \/ NextObject(c) \/ RenewAndAttempt(c) \/ DeleteObject(c)
    \/ ObjectDeleted(c) \/ ObjectFailed(c) \/ Settle(c) \/ PublishEvent(c)

WriterStep(k) ==
    \/ WriteObject(k) \/ DropObject(k)
    \/ k \in Finals /\ CommitOutput(k)
    \/ k \in Assets /\ CommitAsset(k)

Next ==
    \/ \E k \in Sources : SubmitRequest(k) \/ Upload(k) \/ LateRegistration(k)
    \/ \E k \in Finals : ReceiveArtifact(k)
    \/ \E k \in Assets : UploadAsset(k)
    \/ \E k \in Finals \cup Assets : WriterStep(k)
    \/ \E k \in Artifacts : RetentionEnds(k)
    \/ \E c \in Cleaners : CleanerStep(c)
    \/ EndJob \/ DeleteProject \/ TimePasses \/ LeaseExpires \/ Replay \/ Crash

Spec == Init /\ [][Next]_vars

\* Time passes, and tasks go on; nobody has to end the job or delete the project.
FairSpec ==
    /\ Spec
    /\ WF_vars(\E k \in Finals \cup Assets : WriterStep(k))
    /\ WF_vars(\E k \in Artifacts : RetentionEnds(k))
    /\ \A c \in Cleaners : WF_vars(CleanerStep(c))
    /\ WF_vars(TimePasses)

-----------------------------------------------------------------------------
(* Properties *)

(* While the project is active, every object that an output row or an asset row names is
   in the storage: no cleaner and no late writer deletes it. *)
ReferencedStored == project = "ACTIVE" => outputs \cup assets \subseteq stored

(* No object is stored that nobody will ever look at again: it is registered and not
   reported as cleaned, or it is an asset that a row or the open cleanup event names.
   The exception is an asset whose upload died before its row was written, or could
   neither commit the row nor delete the object. *)
NoForgottenObject ==
    \A k \in stored :
        \/ k \in Artifacts /\ artifact[k] \in {"PENDING", "PROCESSING", "DEAD_LETTER"}
        \/ k \in assets /\ (project = "DELETED" => item[k] = "PENDING" /\ event # "PUBLISHED")
        \/ k \in Assets /\ writer[k] \in {"written", "dead"}

(* A cleaner, even one that lost its lease long ago, removes an object only when the job
   has ended and the retention of the object is over, and an object that is named by a
   row only when the project was deleted. *)
RemovedAfterRetention ==
    [][\A k \in stored \ stored' :
          UNCHANGED writer => /\ job = "ENDED"
                              /\ k \notin retained
                              /\ k \in outputs \cup assets => project = "DELETED"]_vars

(* Waiting for retained objects, however often, does not use up the attempts of the
   cleanup event: only failures, lost leases, crashes, and the passes that published it
   do, one for the deletion and one for each registration that opened it again. *)
DeferralIsFree ==
    attempts <= 1 + disruptions + Cardinality({k \in Finals : writer[k] # "none"})

(* The objects of a deleted project all disappear, whatever was registered or uploaded
   while it was deleted and whoever died meanwhile, unless a deletion was given up. *)
DeletedProjectEmptied ==
    []<>(project = "DELETED" =>
            \A k \in stored : \/ event = "DEAD_LETTER"
                              \/ k \in Artifacts /\ artifact[k] = "DEAD_LETTER"
                              \/ k \in Assets /\ writer[k] = "dead")

=============================================================================
