---------------------------- MODULE CleanupProofs ----------------------------
(***************************************************************************)
(* Proofs about Cleanup for every number of keys and cleaners and every    *)
(* bound on the disruptions.  The inductive invariant rests on two facts:  *)
(* an object whose retention has ended is never written again, so that a   *)
(* cleaner that lost its lease long ago cannot hit a new object; and every *)
(* claim of the cleanup event that is not given back was paid for by a     *)
(* disruption or by a registration.                                        *)
(***************************************************************************)
EXTENDS Cleanup, FiniteSetTheorems, TLAPS

-----------------------------------------------------------------------------
(* The inductive invariant *)

\* Nobody can write the object any more.
Cold(k) == k \notin claims /\ (k \in Finals => writer[k] \notin {"none", "ready"})

\* The life of a key: registered before it is written, cold when its retention is over,
\* gone when it is reported as cleaned.
KeysInOrder ==
    /\ \A k \in Finals : artifact[k] = "NONE" <=> writer[k] = "none"
    /\ \A k \in claims : artifact[k] # "NONE"
    /\ \A k \in Artifacts :
          /\ k \in stored => artifact[k] # "NONE"
          /\ artifact[k] # "NONE" /\ k \notin retained => Cold(k)
          /\ artifact[k] = "PUBLISHED" => Cold(k) /\ k \notin stored

\* The rows that name objects, and the writers behind them.
RowsInOrder ==
    /\ \A k \in Assets : writer[k] # "ready"
    /\ \A k \in outputs \cup assets : writer[k] = "done"
    /\ \A k \in Finals : writer[k] = "written" /\ job = "ACTIVE" => k \in stored
    /\ \A k \in Assets : writer[k] = "written" /\ project = "ACTIVE" => k \in stored
    /\ \A k \in Assets \cap stored : k \in assets \/ writer[k] \in {"written", "dead"}
    /\ ReferencedStored

NoAssetPending == \A k \in Assets : item[k] # "PENDING"

\* The list of the objects of a deleted project.
ListInOrder ==
    /\ event = "NONE" <=> project = "ACTIVE"
    /\ project = "DELETED" => job = "ENDED"
    /\ \A k \in Keys : item[k] = "PENDING" =>
          /\ project = "DELETED"
          /\ k \in Artifacts => artifact[k] # "NONE"
          /\ k \in Assets => writer[k] = "done"
    /\ project = "DELETED" => \A k \in assets : item[k] = "PENDING"
    /\ event = "PUBLISHED" => NoAssetPending

ArtifactLabels == {"removing", "cleaned", "failed"}
EventLabels == {"next", "renew", "delete", "mark", "fail", "settle", "publish"}

\* What a cleaner knows of the object it works on, whether it still holds the lease or not.
Removable(k) ==
    /\ k \in Artifacts => artifact[k] # "NONE" /\ Cold(k)
    /\ k \in Assets => writer[k] = "done"

CleanerInOrder(c) ==
    /\ pc[c] \in ArtifactLabels => job = "ENDED" /\ work[c] \in Artifacts
    /\ pc[c] \in EventLabels => project = "DELETED"
    /\ pc[c] \in {"renew", "delete", "mark", "fail"} =>
          work[c] \in Keys /\ (LeaseOwned(c) => item[work[c]] = "PENDING")
    /\ pc[c] \in ArtifactLabels \cup {"renew", "delete", "mark", "fail"} => Removable(work[c])
    /\ pc[c] \in {"removing", "renew", "delete"} => ~(work[c] \in retained /\ work[c] \in stored)
    /\ pc[c] = "removing" => \/ work[c] \in Sources
                             \/ work[c] \notin outputs
                             \/ project = "DELETED"
    /\ pc[c] \in {"cleaned", "mark"} => work[c] \notin stored
    /\ pc[c] = "publish" => NoAssetPending

Started == {k \in Finals : writer[k] # "none"}

\* What has been paid for so far.
Paid == disruptions + Cardinality(Started)

\* The event will be claimed again.
Open ==
    \/ event \in {"NONE", "PENDING"}
    \/ event = "PROCESSING" /\ (due \/ ~AttendsEvent)

AttemptsInOrder ==
    /\ IsFiniteSet(Started)
    /\ attempts <= 1 + Paid
    /\ Open => attempts <= Paid
    /\ event = "PROCESSING" => attempts >= 1
    /\ \A c \in Cleaners : LeaseOwned(c) =>
          /\ pc[c] = "fail" /\ attempts < CleanupAttempts => attempts <= Paid
          /\ pc[c] = "publish" /\ PendingObjects # {} => attempts <= Paid

IInv ==
    /\ TypeOK
    /\ KeysInOrder
    /\ RowsInOrder
    /\ ListInOrder
    /\ \A c \in Cleaners : CleanerInOrder(c)
    /\ AttemptsInOrder

-----------------------------------------------------------------------------
(* What is paid for *)

LEMMA SameStarted ==
    ASSUME IInv, Started' = Started, disruptions' \in Nat
    PROVE  /\ Paid \in Nat
           /\ Paid' = Paid + (disruptions' - disruptions)
           /\ IsFiniteSet(Started)'
<1>1. disruptions \in Nat
    BY KeysAssumption DEF IInv, TypeOK
<1>2. PICK n \in Nat : n = Cardinality(Started)
    BY FS_CardinalityType DEF IInv, AttemptsInOrder
<1>3. Cardinality(Started') = n
    BY <1>2
<1>4. Paid = disruptions + n /\ Paid' = disruptions' + n
    BY <1>2, <1>3 DEF Paid
<1>5. IsFiniteSet(Started)'
    BY DEF IInv, AttemptsInOrder
<1> QED
    BY <1>1, <1>2, <1>4, <1>5

LEMMA OneMoreStarted ==
    ASSUME IInv, NEW k \in Finals, Started' = Started \cup {k}, k \notin Started,
           UNCHANGED disruptions
    PROVE  /\ Paid \in Nat
           /\ Paid' = Paid + 1
           /\ IsFiniteSet(Started)'
<1>1. disruptions \in Nat
    BY KeysAssumption DEF IInv, TypeOK
<1>2. IsFiniteSet(Started)
    BY DEF IInv, AttemptsInOrder
<1>3. PICK n \in Nat : n = Cardinality(Started)
    BY <1>2, FS_CardinalityType
<1>4. IsFiniteSet(Started \cup {k}) /\ Cardinality(Started \cup {k}) = n + 1
    BY <1>2, <1>3, FS_AddElement
<1>5. IsFiniteSet(Started)' /\ Cardinality(Started') = n + 1
    BY <1>4
<1>6. Paid = disruptions + n /\ Paid' = disruptions + (n + 1)
    BY <1>3, <1>5 DEF Paid
<1> QED
    BY <1>1, <1>3, <1>5, <1>6

-----------------------------------------------------------------------------
(* Every step keeps the invariant *)

\* A job is active, hence its project: the cleanup list is not touched.
LEMMA SubmitRequestStep ==
    ASSUME IInv, NEW k \in Sources, SubmitRequest(k)
    PROVE  IInv'
<1> USE KeysAssumption, ArtifactAssumption, CleanupAssumption
<1>1. due' \in BOOLEAN
    BY DEF IInv, SubmitRequest, RegisterArtifact, Register, ListObject, artifactVars,
       cleanupVars, rowVars, writeVars, cleanerVars, TypeOK, ArtifactTypeOK, CleanupTypeOK,
       ArtifactStatus, EventStatus, ItemStatus, WriterStates, Labels, Artifacts, Keys
<1>2. TypeOK'
    BY <1>1 DEF IInv, SubmitRequest, RegisterArtifact, Register, ListObject, cleanupVars,
       rowVars, cleanerVars, TypeOK, ArtifactTypeOK, CleanupTypeOK, ArtifactStatus, EventStatus,
       ItemStatus, WriterStates, Labels, Artifacts, Keys, AttemptsInOrder, LeaseOwned
<1>3. KeysInOrder'
    BY DEF IInv, SubmitRequest, RegisterArtifact, Register, cleanerVars, KeysInOrder, Cold,
       CleanerInOrder, Removable, ArtifactLabels, EventLabels, TypeOK, ArtifactTypeOK,
       CleanupTypeOK, ArtifactStatus, EventStatus, ItemStatus, WriterStates, Labels, Artifacts,
       Keys
<1>4. RowsInOrder'
    BY DEF IInv, SubmitRequest, rowVars, RowsInOrder, ReferencedStored, ListInOrder, Removable,
       ArtifactLabels, EventLabels, TypeOK, ArtifactTypeOK, CleanupTypeOK, ArtifactStatus,
       EventStatus
<1>5. ListInOrder'
    BY DEF IInv, SubmitRequest, RegisterArtifact, ListObject, cleanupVars, cleanerVars,
       ListInOrder, NoAssetPending
<1>6. ASSUME NEW e \in Cleaners PROVE CleanerInOrder(e)'
    BY <1>6 DEF IInv, SubmitRequest, cleanerVars, CleanerInOrder, ArtifactLabels, EventLabels,
       KeysInOrder, RowsInOrder, ReferencedStored, ListInOrder, PendingObjects, LeaseOwned
<1>7. Started' = Started
    BY DEF Started, IInv, SubmitRequest
<1>8. Paid' = Paid /\ Paid \in Nat /\ IsFiniteSet(Started)'
    BY <1>7, SameStarted DEF IInv, SubmitRequest, TypeOK
<1>9. AttemptsInOrder'
    BY <1>8 DEF IInv, SubmitRequest, RegisterArtifact, ListObject, cleanupVars, cleanerVars,
       AttemptsInOrder, Open, AttendsEvent, LeaseOwned, PendingObjects, ListInOrder, CleanerInOrder
<1> QED
    BY <1>2, <1>3, <1>4, <1>5, <1>6, <1>9 DEF IInv

\* Only a key with a claim is written, and a key with a claim is not cleaned yet.
LEMMA UploadStep ==
    ASSUME IInv, NEW k \in Sources, Upload(k)
    PROVE  IInv'
<1> USE KeysAssumption, ArtifactAssumption, CleanupAssumption
<1>1. TypeOK'
    BY DEF IInv, Upload, Put, artifactVars, cleanupVars, rowVars, writeVars, cleanerVars,
       TypeOK, ArtifactTypeOK, CleanupTypeOK, ArtifactStatus, EventStatus, ItemStatus,
       WriterStates, Labels, Artifacts, Keys, AttemptsInOrder, LeaseOwned, ListInOrder
<1>2. KeysInOrder'
    BY DEF IInv, Upload, Put, artifactVars, writeVars, KeysInOrder, Cold, CleanerInOrder,
       Removable
<1>3. RowsInOrder'
    BY DEF IInv, Upload, Put, cleanupVars, rowVars, writeVars, RowsInOrder, ReferencedStored,
       ListInOrder, CleanerInOrder, Labels, Artifacts, Keys
<1>4. ListInOrder'
    BY DEF IInv, Upload, artifactVars, cleanupVars, rowVars, writeVars, ListInOrder,
       NoAssetPending, RowsInOrder, KeysInOrder
<1>5. ASSUME NEW e \in Cleaners PROVE CleanerInOrder(e)'
    BY <1>5 DEF IInv, Upload, Put, artifactVars, cleanupVars, rowVars, writeVars, cleanerVars,
       CleanerInOrder, Removable, Cold, NoAssetPending, ArtifactLabels, EventLabels, KeysInOrder,
       RowsInOrder, ReferencedStored, ListInOrder, PendingObjects, LeaseOwned, TypeOK,
       ArtifactTypeOK, Labels, Artifacts, Keys
<1>6. Started' = Started
    BY DEF Started, IInv, Upload, writeVars, TypeOK, ArtifactTypeOK, CleanupTypeOK
<1>7. Paid' = Paid /\ Paid \in Nat /\ IsFiniteSet(Started)'
    BY <1>6, SameStarted DEF IInv, Upload, TypeOK
<1>8. AttemptsInOrder'
    BY <1>7 DEF IInv, Upload, cleanupVars, cleanerVars, AttemptsInOrder, Open, AttendsEvent,
       LeaseOwned, PendingObjects, ListInOrder, CleanerInOrder, EventLabels, TypeOK
<1> QED
    BY <1>1, <1>2, <1>3, <1>4, <1>5, <1>8 DEF IInv

\* A registration of a cleaned key opens its retention again; nobody can write the key.
LEMMA LateRegistrationStep ==
    ASSUME IInv, NEW k \in Sources, LateRegistration(k)
    PROVE  IInv'
<1> USE KeysAssumption, ArtifactAssumption, CleanupAssumption
<1>1. due' \in BOOLEAN
    BY DEF IInv, LateRegistration, RegisterArtifact, Register, ListObject, Disruption,
       artifactVars, cleanupVars, rowVars, writeVars, cleanerVars, TypeOK, ArtifactTypeOK,
       CleanupTypeOK, ArtifactStatus, EventStatus, ItemStatus, WriterStates, Labels, Artifacts,
       Keys
<1>2. TypeOK'
    BY <1>1 DEF IInv, LateRegistration, RegisterArtifact, Register, ListObject, Disruption,
       cleanupVars, rowVars, writeVars, cleanerVars, TypeOK, ArtifactTypeOK, CleanupTypeOK,
       ArtifactStatus, EventStatus, ItemStatus, WriterStates, Labels, Artifacts, Keys,
       AttemptsInOrder
<1>3. KeysInOrder'
    BY DEF IInv, LateRegistration, RegisterArtifact, Register, writeVars, cleanerVars,
       KeysInOrder, Cold, CleanerInOrder, Removable, ArtifactLabels, EventLabels, TypeOK,
       ArtifactTypeOK, CleanupTypeOK, ArtifactStatus, EventStatus, ItemStatus, WriterStates,
       Labels, Artifacts, Keys
<1>4. RowsInOrder'
    BY DEF IInv, LateRegistration, RegisterArtifact, ListObject, cleanupVars, rowVars,
       writeVars, cleanerVars, RowsInOrder, ReferencedStored, ListInOrder, CleanerInOrder,
       Removable, ArtifactLabels
<1>5. ListInOrder'
    BY DEF IInv, LateRegistration, RegisterArtifact, Register, ListObject, cleanupVars, rowVars,
       writeVars, cleanerVars, ListInOrder, ArtifactLabels, EventLabels, TypeOK, ArtifactTypeOK,
       CleanupTypeOK, Artifacts, Keys
<1>6. ASSUME NEW e \in Cleaners PROVE CleanerInOrder(e)'
    BY <1>6 DEF IInv, LateRegistration, RegisterArtifact, Register, ListObject, rowVars,
       writeVars, cleanerVars, CleanerInOrder, Removable, Cold, NoAssetPending, ArtifactLabels,
       EventLabels, KeysInOrder, RowsInOrder, ReferencedStored, ListInOrder, PendingObjects,
       LeaseOwned, TypeOK, ArtifactTypeOK, CleanupTypeOK, ArtifactStatus, EventStatus, ItemStatus,
       WriterStates, Labels, Artifacts, Keys
<1>7. Started' = Started
    BY DEF Started, IInv, LateRegistration, rowVars, writeVars, cleanerVars
<1>8. Paid' = Paid + 1 /\ Paid \in Nat /\ IsFiniteSet(Started)'
    BY <1>7, SameStarted DEF IInv, LateRegistration, Disruption, writeVars, cleanerVars, TypeOK
<1>9. AttemptsInOrder'
    BY <1>8 DEF IInv, LateRegistration, RegisterArtifact, ListObject, cleanupVars, writeVars,
       cleanerVars, AttemptsInOrder, CleanerInOrder, EventLabels, TypeOK, ArtifactTypeOK,
       CleanupTypeOK
<1> QED
    BY <1>2, <1>3, <1>4, <1>5, <1>6, <1>9 DEF IInv

\* A final key is registered before its copy is written, and pays for one more attempt.
LEMMA ReceiveArtifactStep ==
    ASSUME IInv, NEW k \in Finals, ReceiveArtifact(k)
    PROVE  IInv'
<1> USE KeysAssumption, ArtifactAssumption, CleanupAssumption
<1>1. due' \in BOOLEAN
    BY DEF IInv, ReceiveArtifact, RegisterArtifact, Register, ListObject, WriterGoes,
       artifactVars, cleanupVars, rowVars, writeVars, cleanerVars, TypeOK, ArtifactTypeOK,
       CleanupTypeOK, ArtifactStatus, EventStatus, ItemStatus, WriterStates, Labels, Artifacts,
       Keys
<1>2. TypeOK'
    BY <1>1 DEF IInv, ReceiveArtifact, RegisterArtifact, Register, ListObject, WriterGoes,
       cleanupVars, rowVars, writeVars, cleanerVars, TypeOK, ArtifactTypeOK, CleanupTypeOK,
       ArtifactStatus, EventStatus, ItemStatus, WriterStates, Labels, Artifacts, Keys,
       AttemptsInOrder
<1>3. KeysInOrder'
    BY DEF IInv, ReceiveArtifact, RegisterArtifact, Register, WriterGoes, writeVars,
       cleanerVars, KeysInOrder, Cold, CleanerInOrder, Removable, ArtifactLabels, EventLabels,
       TypeOK, ArtifactTypeOK, CleanupTypeOK, ArtifactStatus, EventStatus, ItemStatus,
       WriterStates, Labels, Artifacts, Keys
<1>4. RowsInOrder'
    BY DEF IInv, ReceiveArtifact, RegisterArtifact, ListObject, WriterGoes, cleanupVars,
       rowVars, writeVars, cleanerVars, RowsInOrder, ReferencedStored, ListInOrder, CleanerInOrder,
       Removable, ArtifactLabels, EventStatus, ItemStatus, WriterStates, Labels, Artifacts
<1>5. ListInOrder'
    BY DEF IInv, ReceiveArtifact, RegisterArtifact, Register, ListObject, WriterGoes,
       cleanupVars, rowVars, writeVars, cleanerVars, ListInOrder, ArtifactLabels, EventLabels,
       TypeOK, ArtifactTypeOK, CleanupTypeOK, Artifacts, Keys
<1>6. ASSUME NEW e \in Cleaners PROVE CleanerInOrder(e)'
    BY <1>6 DEF IInv, ReceiveArtifact, RegisterArtifact, Register, ListObject, WriterGoes,
       rowVars, writeVars, cleanerVars, CleanerInOrder, Removable, Cold, NoAssetPending,
       ArtifactLabels, EventLabels, LeaseOwned, TypeOK, ArtifactTypeOK, CleanupTypeOK,
       ArtifactStatus, EventStatus, ItemStatus, WriterStates, Labels, Artifacts, Keys
<1>7. Started' = Started \cup {k} /\ k \notin Started
    BY DEF Started, IInv, ReceiveArtifact, WriterGoes, TypeOK, CleanupTypeOK, ArtifactStatus,
       EventStatus
<1>8. UNCHANGED disruptions
    BY DEF ReceiveArtifact
<1>9. Paid' = Paid + 1 /\ Paid \in Nat /\ IsFiniteSet(Started)'
    BY <1>7, <1>8, OneMoreStarted DEF IInv
<1>10. AttemptsInOrder'
    BY <1>9 DEF IInv, ReceiveArtifact, RegisterArtifact, ListObject, cleanupVars, writeVars,
       cleanerVars, AttemptsInOrder, CleanerInOrder, EventLabels, TypeOK, ArtifactTypeOK,
       CleanupTypeOK
<1> QED
    BY <1>2, <1>3, <1>4, <1>5, <1>6, <1>10 DEF IInv

\* A new asset is stored before a row names it.
LEMMA UploadAssetStep ==
    ASSUME IInv, NEW k \in Assets, UploadAsset(k)
    PROVE  IInv'
<1> USE KeysAssumption, ArtifactAssumption, CleanupAssumption
<1>1. TypeOK'
    BY DEF IInv, UploadAsset, Put, WriterGoes, artifactVars, cleanupVars, rowVars, writeVars,
       cleanerVars, TypeOK, ArtifactTypeOK, CleanupTypeOK, ArtifactStatus, EventStatus, ItemStatus,
       WriterStates, Labels, Artifacts, Keys, AttemptsInOrder, LeaseOwned, ListInOrder
<1>2. KeysInOrder'
    BY DEF IInv, UploadAsset, Put, WriterGoes, artifactVars, KeysInOrder, Cold, CleanerInOrder,
       Labels, Artifacts, Keys
<1>3. RowsInOrder'
    BY DEF IInv, UploadAsset, Put, WriterGoes, rowVars, RowsInOrder, ReferencedStored,
       ListInOrder, CleanerInOrder, Removable, ArtifactLabels, EventLabels, TypeOK
<1>4. ListInOrder'
    BY DEF IInv, UploadAsset, cleanupVars, ListInOrder, NoAssetPending, RowsInOrder
<1>5. ASSUME NEW e \in Cleaners PROVE CleanerInOrder(e)'
    BY <1>5 DEF IInv, UploadAsset, Put, WriterGoes, artifactVars, rowVars, cleanerVars,
       CleanerInOrder, Removable, Cold, NoAssetPending, ArtifactLabels, EventLabels, KeysInOrder,
       RowsInOrder
<1>6. Started' = Started
    BY DEF Started, IInv, UploadAsset, WriterGoes, Artifacts, Keys
<1>7. Paid' = Paid /\ Paid \in Nat /\ IsFiniteSet(Started)'
    BY <1>6, SameStarted DEF IInv, UploadAsset, TypeOK
<1>8. AttemptsInOrder'
    BY <1>7 DEF IInv, UploadAsset, cleanupVars, AttemptsInOrder, Open, AttendsEvent, LeaseOwned,
       PendingObjects, ListInOrder, CleanerInOrder, EventLabels
<1> QED
    BY <1>1, <1>2, <1>3, <1>4, <1>5, <1>8 DEF IInv

\* Only a registered final key is written, within its retention.
LEMMA WriteObjectStep ==
    ASSUME IInv, NEW k \in Finals \cup Assets, WriteObject(k)
    PROVE  IInv'
<1> USE KeysAssumption, ArtifactAssumption, CleanupAssumption
<1>1. TypeOK'
    BY DEF IInv, WriteObject, Put, WriterGoes, artifactVars, cleanupVars, rowVars, writeVars,
       cleanerVars, TypeOK, ArtifactTypeOK, CleanupTypeOK, ArtifactStatus, EventStatus, ItemStatus,
       WriterStates, Labels, Artifacts, Keys, AttemptsInOrder, LeaseOwned, ListInOrder
<1>2. KeysInOrder'
    BY DEF IInv, WriteObject, Put, WriterGoes, artifactVars, KeysInOrder, Cold, CleanerInOrder
<1>3. RowsInOrder'
    BY DEF IInv, WriteObject, Put, WriterGoes, cleanupVars, rowVars, RowsInOrder,
       ReferencedStored, ListInOrder
<1>4. ListInOrder'
    BY DEF IInv, WriteObject, WriterGoes, artifactVars, cleanupVars, rowVars, ListInOrder,
       NoAssetPending, RowsInOrder
<1>5. ASSUME NEW e \in Cleaners PROVE CleanerInOrder(e)'
    BY <1>5 DEF IInv, WriteObject, Put, WriterGoes, artifactVars, cleanupVars, rowVars,
       cleanerVars, CleanerInOrder, Removable, Cold, NoAssetPending, ArtifactLabels, EventLabels,
       KeysInOrder, RowsInOrder, ReferencedStored, ListInOrder, PendingObjects, LeaseOwned, TypeOK,
       WriterStates, Labels, Artifacts, Keys
<1>6. Started' = Started
    BY DEF Started, IInv, WriteObject, WriterGoes
<1>7. Paid' = Paid /\ Paid \in Nat /\ IsFiniteSet(Started)'
    BY <1>6, SameStarted DEF IInv, WriteObject, TypeOK
<1>8. AttemptsInOrder'
    BY <1>7 DEF IInv, WriteObject, cleanupVars, cleanerVars, AttemptsInOrder, Open,
       AttendsEvent, LeaseOwned, PendingObjects, ListInOrder, CleanerInOrder, EventLabels
<1> QED
    BY <1>1, <1>2, <1>3, <1>4, <1>5, <1>8 DEF IInv

\* What a late writer deletes is named by no row.
LEMMA DropObjectStep ==
    ASSUME IInv, NEW k \in Finals \cup Assets, DropObject(k)
    PROVE  IInv'
<1> USE KeysAssumption, ArtifactAssumption, CleanupAssumption
<1>1. PICK s \in {"done", "dead"} :
         /\ writer' = [writer EXCEPT ![k] = s]
         /\ stored' = IF s = "done" THEN stored \ {k} ELSE stored
    BY DEF DropObject, Remove, WriterGoes
<1>2. /\ writer[k] = "written"
      /\ writer'[k] = s
      /\ \A x \in (Finals \cup Assets) \ {k} : writer'[x] = writer[x]
      /\ stored' \subseteq stored
      /\ stored \ stored' \subseteq {k}
      /\ s # "dead" => k \notin stored'
      /\ UNCHANGED <<artifactVars, cleanupVars, rowVars, claims, cleanerVars, disruptions>>
    BY <1>1 DEF DropObject, IInv, TypeOK
<1>3. TypeOK'
    BY <1>1, <1>2 DEF IInv, artifactVars, cleanupVars, rowVars, cleanerVars, TypeOK,
       ArtifactTypeOK, CleanupTypeOK, WriterStates
<1>4. KeysInOrder'
    BY <1>2 DEF IInv, artifactVars, KeysInOrder, Cold, Artifacts
<1>5. RowsInOrder'
    <2>1. k \notin outputs \cup assets
        BY <1>2 DEF IInv, RowsInOrder
    <2>2. ReferencedStored'
        BY <1>2, <2>1 DEF IInv, cleanupVars, rowVars, RowsInOrder, ReferencedStored
    <2> QED
        BY <1>2, <2>1, <2>2 DEF IInv, cleanupVars, rowVars, RowsInOrder, TypeOK
<1>6. ListInOrder'
    BY <1>2 DEF IInv, artifactVars, cleanupVars, rowVars, ListInOrder, NoAssetPending, Keys
<1>7. ASSUME NEW e \in Cleaners PROVE CleanerInOrder(e)'
    BY <1>2, <1>7 DEF IInv, artifactVars, cleanupVars, rowVars, cleanerVars, CleanerInOrder,
       Removable, Cold, NoAssetPending, ArtifactLabels, EventLabels, LeaseOwned
<1>8. Started' = Started
    BY <1>2 DEF Started
<1>9. Paid' = Paid /\ Paid \in Nat /\ IsFiniteSet(Started)'
    BY <1>2, <1>8, SameStarted DEF IInv, TypeOK
<1>10. AttemptsInOrder'
    BY <1>2, <1>9 DEF IInv, cleanupVars, cleanerVars, AttemptsInOrder, Open, AttendsEvent,
       LeaseOwned, PendingObjects, ListInOrder, CleanerInOrder, EventLabels
<1> QED
    BY <1>3, <1>4, <1>5, <1>6, <1>7, <1>10 DEF IInv

\* The row of an output names an object that nobody has deleted since it was written.
LEMMA CommitOutputStep ==
    ASSUME IInv, NEW k \in Finals, CommitOutput(k)
    PROVE  IInv'
<1> USE KeysAssumption, ArtifactAssumption, CleanupAssumption
<1>1. TypeOK'
    BY DEF IInv, CommitOutput, WriterGoes, artifactVars, cleanupVars, cleanerVars, TypeOK,
       ArtifactTypeOK, CleanupTypeOK, ArtifactStatus, EventStatus, ItemStatus, WriterStates,
       Labels, Artifacts
<1>2. KeysInOrder'
    BY DEF IInv, CommitOutput, WriterGoes, artifactVars, KeysInOrder, Cold, CleanerInOrder,
       Removable
<1>3. RowsInOrder'
    BY DEF IInv, CommitOutput, WriterGoes, cleanupVars, RowsInOrder, ReferencedStored,
       ListInOrder, CleanerInOrder, Removable, ArtifactLabels, EventLabels, TypeOK, ArtifactTypeOK,
       Labels, Artifacts, Keys
<1>4. ListInOrder'
    BY DEF IInv, CommitOutput, cleanupVars, ListInOrder, NoAssetPending, RowsInOrder,
       KeysInOrder
<1>5. ASSUME NEW e \in Cleaners PROVE CleanerInOrder(e)'
    BY <1>5 DEF IInv, CommitOutput, cleanerVars, CleanerInOrder, ArtifactLabels, EventLabels,
       KeysInOrder, RowsInOrder, ReferencedStored, ListInOrder, PendingObjects, LeaseOwned, TypeOK,
       ArtifactTypeOK
<1>6. Started' = Started
    BY DEF Started, IInv, CommitOutput, WriterGoes
<1>7. Paid' = Paid /\ Paid \in Nat /\ IsFiniteSet(Started)'
    BY <1>6, SameStarted DEF IInv, CommitOutput, TypeOK
<1>8. AttemptsInOrder'
    BY <1>7 DEF IInv, CommitOutput, cleanupVars, AttemptsInOrder, Open, AttendsEvent,
       LeaseOwned, PendingObjects, ListInOrder, CleanerInOrder, EventLabels, TypeOK
<1> QED
    BY <1>1, <1>2, <1>3, <1>4, <1>5, <1>8 DEF IInv

\* The row of an asset is committed under the lock of an active project.
LEMMA CommitAssetStep ==
    ASSUME IInv, NEW k \in Assets, CommitAsset(k)
    PROVE  IInv'
<1> USE KeysAssumption, ArtifactAssumption, CleanupAssumption
<1>1. TypeOK'
    BY DEF IInv, CommitAsset, WriterGoes, artifactVars, cleanupVars, cleanerVars, TypeOK,
       ArtifactTypeOK, CleanupTypeOK, ArtifactStatus, EventStatus, ItemStatus, WriterStates,
       Labels, Artifacts
<1>2. KeysInOrder'
    BY DEF IInv, CommitAsset, WriterGoes, artifactVars, KeysInOrder, Cold, CleanerInOrder,
       Removable
<1>3. RowsInOrder'
    BY DEF IInv, CommitAsset, WriterGoes, RowsInOrder, ReferencedStored, ListInOrder,
       CleanerInOrder, Removable, ArtifactLabels, EventLabels, TypeOK, ArtifactTypeOK
<1>4. ListInOrder'
    BY DEF IInv, CommitAsset, cleanupVars, ListInOrder, NoAssetPending, RowsInOrder, KeysInOrder
<1>5. ASSUME NEW e \in Cleaners PROVE CleanerInOrder(e)'
    BY <1>5 DEF IInv, CommitAsset, WriterGoes, artifactVars, cleanupVars, cleanerVars,
       CleanerInOrder, Removable, Cold, NoAssetPending, ListInOrder, PendingObjects, LeaseOwned,
       TypeOK, ArtifactTypeOK
<1>6. Started' = Started
    BY DEF Started, IInv, CommitAsset, WriterGoes
<1>7. Paid' = Paid /\ Paid \in Nat /\ IsFiniteSet(Started)'
    BY <1>6, SameStarted DEF IInv, CommitAsset, TypeOK
<1>8. AttemptsInOrder'
    BY <1>7 DEF IInv, CommitAsset, cleanupVars, AttemptsInOrder, Open, AttendsEvent, LeaseOwned,
       PendingObjects, ListInOrder, CleanerInOrder, EventLabels, TypeOK
<1> QED
    BY <1>1, <1>2, <1>3, <1>4, <1>5, <1>8 DEF IInv

\* At the end of its retention a key is cold.
LEMMA RetentionEndsStep ==
    ASSUME IInv, NEW k \in Artifacts, RetentionEnds(k)
    PROVE  IInv'
<1> USE KeysAssumption, ArtifactAssumption, CleanupAssumption
<1>1. TypeOK'
    BY DEF IInv, RetentionEnds, cleanupVars, rowVars, cleanerVars, TypeOK, ArtifactTypeOK,
       CleanupTypeOK, ArtifactStatus, EventStatus
<1>2. KeysInOrder'
    BY DEF IInv, RetentionEnds, KeysInOrder, Cold
<1>3. RowsInOrder'
    BY DEF IInv, RetentionEnds, cleanupVars, rowVars, RowsInOrder, ReferencedStored,
       ListInOrder, CleanerInOrder, Removable
<1>4. ListInOrder'
    BY DEF IInv, RetentionEnds, cleanupVars, rowVars, ListInOrder, NoAssetPending, RowsInOrder,
       KeysInOrder, CleanerInOrder
<1>5. ASSUME NEW e \in Cleaners PROVE CleanerInOrder(e)'
    BY <1>5 DEF IInv, RetentionEnds, cleanupVars, rowVars, cleanerVars, CleanerInOrder,
       Removable, Cold, NoAssetPending, ArtifactLabels, PendingObjects, LeaseOwned, TypeOK,
       ArtifactTypeOK, CleanupTypeOK
<1>6. Started' = Started
    BY DEF Started, IInv, RetentionEnds
<1>7. Paid' = Paid /\ Paid \in Nat /\ IsFiniteSet(Started)'
    BY <1>6, SameStarted DEF IInv, RetentionEnds, TypeOK
<1>8. AttemptsInOrder'
    BY <1>7 DEF IInv, RetentionEnds, cleanupVars, cleanerVars, AttemptsInOrder, Open,
       AttendsEvent, LeaseOwned, PendingObjects
<1> QED
    BY <1>1, <1>2, <1>3, <1>4, <1>5, <1>8 DEF IInv

LEMMA EndJobStep ==
    ASSUME IInv, EndJob
    PROVE  IInv'
<1> USE KeysAssumption, ArtifactAssumption, CleanupAssumption
<1>1. TypeOK'
    BY DEF IInv, EndJob, artifactVars, cleanupVars, writeVars, cleanerVars, TypeOK,
       ArtifactTypeOK, CleanupTypeOK, ArtifactStatus, EventStatus
<1>2. KeysInOrder'
    BY DEF IInv, EndJob, artifactVars, writeVars, KeysInOrder, Cold, CleanerInOrder, Removable,
       ArtifactLabels
<1>3. RowsInOrder'
    BY DEF IInv, EndJob, cleanupVars, writeVars, RowsInOrder, ReferencedStored, ListInOrder,
       CleanerInOrder, Removable
<1>4. ListInOrder'
    BY DEF IInv, EndJob, cleanupVars, ListInOrder, NoAssetPending, RowsInOrder, KeysInOrder,
       CleanerInOrder
<1>5. ASSUME NEW e \in Cleaners PROVE CleanerInOrder(e)'
    BY <1>5 DEF IInv, EndJob, artifactVars, cleanupVars, writeVars, cleanerVars, CleanerInOrder,
       Removable, Cold, NoAssetPending, ArtifactLabels, PendingObjects, LeaseOwned, TypeOK,
       ArtifactTypeOK, CleanupTypeOK
<1>6. Started' = Started
    BY DEF Started, IInv, EndJob, writeVars
<1>7. Paid' = Paid /\ Paid \in Nat /\ IsFiniteSet(Started)'
    BY <1>6, SameStarted DEF IInv, EndJob, TypeOK
<1>8. AttemptsInOrder'
    BY <1>7 DEF IInv, EndJob, cleanupVars, cleanerVars, AttemptsInOrder, Open, AttendsEvent,
       LeaseOwned, PendingObjects
<1> QED
    BY <1>1, <1>2, <1>3, <1>4, <1>5, <1>8 DEF IInv

\* The deletion lists every object that a row names.
LEMMA DeleteProjectStep ==
    ASSUME IInv, DeleteProject
    PROVE  IInv'
<1> USE KeysAssumption, ArtifactAssumption, CleanupAssumption
<1>1. due' \in BOOLEAN
    BY DEF IInv, DeleteProject, RequestDeletion
<1>2. TypeOK'
    BY <1>1 DEF IInv, DeleteProject, RequestDeletion, artifactVars, cleanupVars, rowVars,
       writeVars, cleanerVars, TypeOK, ArtifactTypeOK, CleanupTypeOK, ArtifactStatus, EventStatus,
       ItemStatus, WriterStates, Labels, Artifacts, Keys, AttemptsInOrder, LeaseOwned, ListInOrder
<1>3. KeysInOrder'
    BY DEF IInv, DeleteProject, artifactVars, writeVars, KeysInOrder, Cold, CleanerInOrder,
       Removable
<1>4. RowsInOrder'
    BY DEF IInv, DeleteProject, RequestDeletion, rowVars, writeVars, RowsInOrder,
       ReferencedStored, ListInOrder, CleanerInOrder
<1>5. ListInOrder'
    BY DEF IInv, DeleteProject, RequestDeletion, artifactVars, rowVars, writeVars, ListInOrder,
       NoAssetPending, RowsInOrder, KeysInOrder, CleanerInOrder, Removable, ArtifactLabels,
       EventLabels, TypeOK, WriterStates, Labels, Artifacts, Keys
<1>6. ASSUME NEW e \in Cleaners PROVE CleanerInOrder(e)'
    BY <1>6 DEF IInv, DeleteProject, RequestDeletion, artifactVars, rowVars, writeVars,
       cleanerVars, CleanerInOrder, Removable, Cold, NoAssetPending, ArtifactLabels, EventLabels,
       KeysInOrder, RowsInOrder, ReferencedStored
<1>7. Started' = Started
    BY DEF Started, IInv, DeleteProject, writeVars, TypeOK, ArtifactTypeOK, CleanupTypeOK
<1>8. Paid' = Paid /\ Paid \in Nat /\ IsFiniteSet(Started)'
    BY <1>7, SameStarted DEF IInv, DeleteProject, TypeOK
<1>9. AttemptsInOrder'
    BY <1>8 DEF IInv, DeleteProject, RequestDeletion, AttemptsInOrder, Open, AttendsEvent,
       LeaseOwned, PendingObjects, ListInOrder, CleanerInOrder, EventLabels, TypeOK
<1> QED
    BY <1>2, <1>3, <1>4, <1>5, <1>6, <1>9 DEF IInv

\* Only a claim that nobody works on becomes due without a disruption.
LEMMA TimePassesStep ==
    ASSUME IInv, TimePasses
    PROVE  IInv'
<1> USE KeysAssumption, ArtifactAssumption, CleanupAssumption
<1>1. due' \in BOOLEAN
    BY DEF IInv, TimePasses, EventBecomesDue, ArtifactRipens, artifactVars, cleanupVars,
       rowVars, writeVars, cleanerVars, TypeOK, ArtifactTypeOK, CleanupTypeOK, ArtifactStatus,
       EventStatus, ItemStatus, WriterStates, Labels, Artifacts, Keys
<1>2. TypeOK'
    BY <1>1 DEF IInv, TimePasses, EventBecomesDue, ArtifactRipens, artifactVars, cleanupVars,
       rowVars, writeVars, cleanerVars, TypeOK, ArtifactTypeOK, CleanupTypeOK
<1>3. KeysInOrder'
    BY DEF IInv, TimePasses, ArtifactRipens, artifactVars, writeVars, KeysInOrder, Cold,
       CleanerInOrder
<1>4. RowsInOrder'
    BY DEF IInv, TimePasses, EventBecomesDue, cleanupVars, rowVars, writeVars, RowsInOrder,
       ReferencedStored, ListInOrder
<1>5. ListInOrder'
    BY DEF IInv, TimePasses, EventBecomesDue, ArtifactRipens, artifactVars, cleanupVars,
       rowVars, writeVars, ListInOrder, NoAssetPending, RowsInOrder
<1>6. ASSUME NEW e \in Cleaners PROVE CleanerInOrder(e)'
    BY <1>6 DEF IInv, TimePasses, EventBecomesDue, ArtifactRipens, artifactVars, cleanupVars,
       rowVars, writeVars, cleanerVars, CleanerInOrder, Removable, Cold, NoAssetPending,
       ArtifactLabels, EventLabels, KeysInOrder, RowsInOrder, ReferencedStored, ListInOrder,
       PendingObjects, LeaseOwned, TypeOK
<1>7. Started' = Started
    BY DEF Started, IInv, TimePasses, writeVars, cleanerVars, TypeOK, ArtifactTypeOK
<1>8. Paid' = Paid /\ Paid \in Nat /\ IsFiniteSet(Started)'
    BY <1>7, SameStarted DEF IInv, TimePasses, TypeOK
<1>9. AttemptsInOrder'
    BY <1>8 DEF IInv, TimePasses, EventBecomesDue, cleanupVars, cleanerVars, AttemptsInOrder,
       Open, AttendsEvent, LeaseOwned, PendingObjects, ListInOrder, CleanerInOrder, EventLabels
<1> QED
    BY <1>2, <1>3, <1>4, <1>5, <1>6, <1>9 DEF IInv

\* A lease that expires under its holder pays for the next claim.
LEMMA LeaseExpiresStep ==
    ASSUME IInv, LeaseExpires
    PROVE  IInv'
<1> USE KeysAssumption, ArtifactAssumption, CleanupAssumption
<1>1. due' \in BOOLEAN
    BY DEF IInv, LeaseExpires, EventBecomesDue, ArtifactRipens, Disruption, artifactVars,
       cleanupVars, rowVars, writeVars, cleanerVars, TypeOK, ArtifactTypeOK, CleanupTypeOK,
       ArtifactStatus, EventStatus, ItemStatus, WriterStates, Labels, Artifacts, Keys
<1>2. TypeOK'
    BY <1>1 DEF IInv, LeaseExpires, EventBecomesDue, ArtifactRipens, Disruption, artifactVars,
       cleanupVars, rowVars, writeVars, cleanerVars, TypeOK, ArtifactTypeOK, CleanupTypeOK,
       ArtifactStatus, EventStatus, ItemStatus, WriterStates
<1>3. KeysInOrder'
    BY DEF IInv, LeaseExpires, ArtifactRipens, artifactVars, writeVars, cleanerVars,
       KeysInOrder, Cold
<1>4. RowsInOrder'
    BY DEF IInv, LeaseExpires, EventBecomesDue, cleanupVars, rowVars, writeVars, cleanerVars,
       RowsInOrder, ReferencedStored
<1>5. ListInOrder'
    BY DEF IInv, LeaseExpires, EventBecomesDue, ArtifactRipens, artifactVars, cleanupVars,
       rowVars, writeVars, cleanerVars, ListInOrder, NoAssetPending
<1>6. ASSUME NEW e \in Cleaners PROVE CleanerInOrder(e)'
    BY <1>6 DEF IInv, LeaseExpires, EventBecomesDue, ArtifactRipens, artifactVars, cleanupVars,
       rowVars, writeVars, cleanerVars, CleanerInOrder, Removable, Cold, NoAssetPending,
       ArtifactLabels, EventLabels, KeysInOrder, RowsInOrder, ReferencedStored, ListInOrder,
       PendingObjects, LeaseOwned
<1>7. Started' = Started
    BY DEF Started, IInv, LeaseExpires, writeVars, cleanerVars, TypeOK
<1>8. Paid' = Paid + 1 /\ Paid \in Nat /\ IsFiniteSet(Started)'
    BY <1>7, SameStarted DEF IInv, LeaseExpires, Disruption, cleanerVars, TypeOK
<1>9. AttemptsInOrder'
    BY <1>8 DEF IInv, LeaseExpires, EventBecomesDue, cleanupVars, cleanerVars, AttemptsInOrder,
       Open, EventLabels, TypeOK, ArtifactTypeOK, CleanupTypeOK, EventStatus
<1> QED
    BY <1>2, <1>3, <1>4, <1>5, <1>6, <1>9 DEF IInv

\* A replay starts counting again.
LEMMA ReplayStep ==
    ASSUME IInv, Replay
    PROVE  IInv'
<1> USE KeysAssumption, ArtifactAssumption, CleanupAssumption
<1>1. TypeOK'
    BY DEF IInv, Replay, ReplayCleanup, artifactVars, rowVars, writeVars, cleanerVars, TypeOK,
       ArtifactTypeOK, CleanupTypeOK, ArtifactStatus, EventStatus, ItemStatus, WriterStates,
       Labels, Artifacts
<1>2. KeysInOrder'
    BY DEF IInv, Replay, artifactVars, writeVars, KeysInOrder, Cold, CleanerInOrder, Removable
<1>3. RowsInOrder'
    BY DEF IInv, Replay, ReplayCleanup, rowVars, writeVars, RowsInOrder, ReferencedStored,
       ListInOrder, CleanerInOrder
<1>4. ListInOrder'
    BY DEF IInv, Replay, ReplayCleanup, artifactVars, rowVars, writeVars, ListInOrder,
       NoAssetPending, RowsInOrder, KeysInOrder
<1>5. ASSUME NEW e \in Cleaners PROVE CleanerInOrder(e)'
    BY <1>5 DEF IInv, Replay, ReplayCleanup, artifactVars, rowVars, writeVars, cleanerVars,
       CleanerInOrder, Removable, Cold, NoAssetPending, ListInOrder, PendingObjects, LeaseOwned,
       TypeOK, ArtifactTypeOK
<1>6. Started' = Started
    BY DEF Started, IInv, Replay, writeVars, TypeOK, ArtifactTypeOK, CleanupTypeOK
<1>7. Paid' = Paid /\ Paid \in Nat /\ IsFiniteSet(Started)'
    BY <1>6, SameStarted DEF IInv, Replay, TypeOK
<1>8. AttemptsInOrder'
    BY <1>7 DEF IInv, Replay, ReplayCleanup, AttemptsInOrder, Open, AttendsEvent, LeaseOwned
<1> QED
    BY <1>1, <1>2, <1>3, <1>4, <1>5, <1>8 DEF IInv

\* A crash pays for the claim of the event that it abandons.
LEMMA CrashStep ==
    ASSUME IInv, Crash
    PROVE  IInv'
<1> USE KeysAssumption, ArtifactAssumption, CleanupAssumption
<1>1. TypeOK'
    BY DEF IInv, Crash, Disruption, artifactVars, cleanupVars, rowVars, TypeOK, ArtifactTypeOK,
       CleanupTypeOK, ArtifactStatus, EventStatus, ItemStatus, WriterStates, Labels, Artifacts
<1>2. KeysInOrder'
    BY DEF IInv, Crash, artifactVars, KeysInOrder, Cold, CleanerInOrder, Removable
<1>3. RowsInOrder'
    BY DEF IInv, Crash, cleanupVars, rowVars, RowsInOrder, ReferencedStored, ListInOrder,
       CleanerInOrder, Removable, ArtifactLabels, EventLabels, TypeOK, ArtifactTypeOK
<1>4. ListInOrder'
    BY DEF IInv, Crash, artifactVars, cleanupVars, rowVars, ListInOrder, NoAssetPending,
       RowsInOrder, KeysInOrder
<1>5. ASSUME NEW e \in Cleaners PROVE CleanerInOrder(e)'
    BY <1>5 DEF IInv, Crash, CleanerInOrder, ArtifactLabels, EventLabels, KeysInOrder,
       RowsInOrder, ReferencedStored
<1>6. Started' = Started
    BY DEF Started, IInv, Crash
<1>7. Paid' = Paid + 1 /\ Paid \in Nat /\ IsFiniteSet(Started)'
    BY <1>6, SameStarted DEF IInv, Crash, Disruption, TypeOK
<1>8. AttemptsInOrder'
    BY <1>7 DEF IInv, Crash, cleanupVars, AttemptsInOrder, Open, AttendsEvent, LeaseOwned,
       PendingObjects, ListInOrder, CleanerInOrder, EventLabels, TypeOK, ArtifactTypeOK,
       CleanupTypeOK, EventStatus, ItemStatus, Labels
<1> QED
    BY <1>1, <1>2, <1>3, <1>4, <1>5, <1>8 DEF IInv

\* What is claimed is cold, past its retention, and not named by a row of an active
\* project.
LEMMA StartArtifactStep ==
    ASSUME IInv, NEW c \in Cleaners, StartArtifact(c)
    PROVE  IInv'
<1> USE KeysAssumption, ArtifactAssumption, CleanupAssumption
<1>1. TypeOK'
    BY DEF IInv, StartArtifact, ClaimArtifact, TakeUp, Goto, cleanupVars, rowVars, writeVars,
       cleanerVars, TypeOK, ArtifactTypeOK, CleanupTypeOK, ArtifactStatus, EventStatus, ItemStatus,
       WriterStates, Labels, Artifacts, Keys
<1>2. KeysInOrder'
    BY DEF IInv, StartArtifact, CleanableNow, Cleanable, ClaimArtifact, rowVars, writeVars,
       cleanerVars, KeysInOrder, Cold, CleanerInOrder, Removable, ArtifactLabels
<1>3. RowsInOrder'
    BY DEF IInv, StartArtifact, cleanupVars, rowVars, writeVars, RowsInOrder, ReferencedStored,
       ListInOrder, CleanerInOrder, Removable
<1>4. ListInOrder'
    BY DEF IInv, StartArtifact, ClaimArtifact, cleanupVars, rowVars, writeVars, cleanerVars,
       ListInOrder, NoAssetPending, RowsInOrder, KeysInOrder, CleanerInOrder
<1>5. CleanerInOrder(c)'
    BY DEF IInv, StartArtifact, CleanableNow, Cleanable, ClaimArtifact, TakeUp, Goto,
       cleanupVars, rowVars, writeVars, cleanerVars, CleanerInOrder, Removable, Cold,
       NoAssetPending, ArtifactLabels, EventLabels, KeysInOrder, RowsInOrder, ReferencedStored,
       ListInOrder, PendingObjects, LeaseOwned, TypeOK, ArtifactTypeOK, CleanupTypeOK
<1>6. ASSUME NEW e \in Cleaners, e # c PROVE CleanerInOrder(e)'
    BY <1>6 DEF IInv, StartArtifact, ClaimArtifact, TakeUp, Goto, cleanupVars, rowVars,
       writeVars, cleanerVars, CleanerInOrder, Removable, Cold, NoAssetPending, ArtifactLabels,
       PendingObjects, LeaseOwned, TypeOK, ArtifactTypeOK, CleanupTypeOK
<1>7. Started' = Started
    BY DEF Started, IInv, StartArtifact, cleanupVars, rowVars, writeVars
<1>8. Paid' = Paid /\ Paid \in Nat /\ IsFiniteSet(Started)'
    BY <1>7, SameStarted DEF IInv, StartArtifact, TypeOK
<1>9. AttemptsInOrder'
    BY <1>8 DEF IInv, StartArtifact, Goto, cleanupVars, rowVars, writeVars, cleanerVars,
       AttemptsInOrder, Open, AttendsEvent, LeaseOwned, PendingObjects
<1> QED
    BY <1>1, <1>2, <1>3, <1>4, <1>5, <1>6, <1>9 DEF IInv

\* What is removed stays removed, whatever became of the claim.
LEMMA RemoveArtifactStep ==
    ASSUME IInv, NEW c \in Cleaners, RemoveArtifact(c)
    PROVE  IInv'
<1> USE KeysAssumption, ArtifactAssumption, CleanupAssumption
<1>1. TypeOK'
    BY DEF IInv, RemoveArtifact, Remove, DeletionFails, Disruption, Goto, artifactVars,
       cleanupVars, rowVars, writeVars, cleanerVars, TypeOK, ArtifactTypeOK, CleanupTypeOK,
       ArtifactStatus, EventStatus, ItemStatus, WriterStates, Labels, Artifacts, Keys,
       AttemptsInOrder
<1>2. KeysInOrder'
    BY DEF IInv, RemoveArtifact, Remove, artifactVars, writeVars, cleanerVars, KeysInOrder,
       Cold, CleanerInOrder, Removable, ArtifactLabels, EventLabels
<1>3. RowsInOrder'
    BY DEF IInv, RemoveArtifact, Remove, cleanupVars, rowVars, writeVars, cleanerVars,
       RowsInOrder, ReferencedStored, ListInOrder, CleanerInOrder, Removable, ArtifactLabels,
       EventLabels, TypeOK, ArtifactTypeOK, CleanupTypeOK, ArtifactStatus
<1>4. ListInOrder'
    BY DEF IInv, RemoveArtifact, artifactVars, cleanupVars, rowVars, writeVars, cleanerVars,
       ListInOrder, NoAssetPending, RowsInOrder, KeysInOrder, CleanerInOrder, Removable
<1>5. CleanerInOrder(c)'
    BY DEF IInv, RemoveArtifact, Remove, Goto, artifactVars, rowVars, writeVars, cleanerVars,
       CleanerInOrder, Removable, Cold, NoAssetPending, ArtifactLabels, EventLabels, LeaseOwned,
       TypeOK, ArtifactTypeOK, CleanupTypeOK, ArtifactStatus
<1>6. ASSUME NEW e \in Cleaners, e # c PROVE CleanerInOrder(e)'
    BY <1>6 DEF IInv, RemoveArtifact, Remove, Goto, artifactVars, cleanupVars, rowVars,
       writeVars, cleanerVars, CleanerInOrder, Removable, Cold, NoAssetPending, ArtifactLabels,
       EventLabels, LeaseOwned, TypeOK, ArtifactTypeOK, CleanupTypeOK, ArtifactStatus
<1>7. Started' = Started
    BY DEF Started, IInv, RemoveArtifact, rowVars, writeVars, cleanerVars
<1>8. disruptions' - disruptions \in Nat
    BY DEF IInv, RemoveArtifact, DeletionFails, Disruption, writeVars, cleanerVars, TypeOK
<1>9. Paid' = Paid + (disruptions' - disruptions) /\ Paid \in Nat /\ IsFiniteSet(Started)'
    BY <1>7, <1>8, SameStarted DEF IInv, RemoveArtifact, DeletionFails, Disruption, writeVars,
       cleanerVars, TypeOK
<1>10. AttemptsInOrder'
    BY <1>9 DEF IInv, RemoveArtifact, DeletionFails, Disruption, Goto, cleanupVars, writeVars,
       cleanerVars, AttemptsInOrder, Open, AttendsEvent, LeaseOwned, PendingObjects, ListInOrder,
       CleanerInOrder, EventLabels, TypeOK, ArtifactTypeOK, CleanupTypeOK
<1> QED
    BY <1>1, <1>2, <1>3, <1>4, <1>5, <1>6, <1>10 DEF IInv

\* A holder reports the object as cleaned after it was removed.
LEMMA FinishArtifactStep ==
    ASSUME IInv, NEW c \in Cleaners, FinishArtifact(c)
    PROVE  IInv'
<1> USE KeysAssumption, ArtifactAssumption, CleanupAssumption
<1>1. TypeOK'
    BY DEF IInv, FinishArtifact, ArtifactCleaned, ArtifactFailed, TakeUp, Goto, artifactVars,
       cleanupVars, rowVars, writeVars, cleanerVars, TypeOK, ArtifactTypeOK, CleanupTypeOK,
       ArtifactStatus, EventStatus, ItemStatus, WriterStates, Labels, Artifacts, Keys
<1>2. KeysInOrder'
    BY DEF IInv, FinishArtifact, ArtifactCleaned, ArtifactFailed, artifactVars, rowVars,
       writeVars, cleanerVars, KeysInOrder, Cold, CleanerInOrder, Removable, ArtifactLabels,
       EventLabels, TypeOK, ArtifactTypeOK, CleanupTypeOK, ArtifactStatus, EventStatus, ItemStatus,
       WriterStates, Labels, Artifacts
<1>3. RowsInOrder'
    BY DEF IInv, FinishArtifact, cleanupVars, rowVars, writeVars, RowsInOrder, ReferencedStored,
       ListInOrder, CleanerInOrder, Removable
<1>4. ListInOrder'
    BY DEF IInv, FinishArtifact, ArtifactCleaned, ArtifactFailed, artifactVars, cleanupVars,
       rowVars, writeVars, cleanerVars, ListInOrder, NoAssetPending, RowsInOrder, KeysInOrder,
       CleanerInOrder, Removable, ArtifactLabels, EventLabels, TypeOK, ArtifactTypeOK
<1>5. CleanerInOrder(c)'
    BY DEF IInv, FinishArtifact, Goto, CleanerInOrder, Cold, NoAssetPending, ArtifactLabels,
       EventLabels, KeysInOrder, RowsInOrder, ReferencedStored, ListInOrder, PendingObjects,
       LeaseOwned, TypeOK, ArtifactTypeOK, CleanupTypeOK
<1>6. ASSUME NEW e \in Cleaners, e # c PROVE CleanerInOrder(e)'
    BY <1>6 DEF IInv, FinishArtifact, ArtifactCleaned, ArtifactFailed, TakeUp, Goto,
       artifactVars, cleanupVars, rowVars, writeVars, cleanerVars, CleanerInOrder, Removable, Cold,
       NoAssetPending, ArtifactLabels, PendingObjects, LeaseOwned, TypeOK, ArtifactTypeOK,
       CleanupTypeOK
<1>7. Started' = Started
    BY DEF Started, IInv, FinishArtifact, cleanupVars, rowVars, writeVars
<1>8. Paid' = Paid /\ Paid \in Nat /\ IsFiniteSet(Started)'
    BY <1>7, SameStarted DEF IInv, FinishArtifact, TypeOK
<1>9. AttemptsInOrder'
    BY <1>8 DEF IInv, FinishArtifact, Goto, cleanupVars, rowVars, writeVars, cleanerVars,
       AttemptsInOrder, Open, AttendsEvent, LeaseOwned, PendingObjects
<1> QED
    BY <1>1, <1>2, <1>3, <1>4, <1>5, <1>6, <1>9 DEF IInv

\* The claim uses up what the open event left over.
LEMMA StartEventStep ==
    ASSUME IInv, NEW c \in Cleaners, StartEvent(c)
    PROVE  IInv'
<1> USE KeysAssumption, ArtifactAssumption, CleanupAssumption
<1>1. due' \in BOOLEAN
    BY DEF IInv, StartEvent, ClaimEvent, Dispatchable, Goto, artifactVars, cleanupVars, rowVars,
       writeVars, cleanerVars, TypeOK, ArtifactTypeOK, CleanupTypeOK, ArtifactStatus, EventStatus,
       ItemStatus, WriterStates, Labels, Artifacts, Keys
<1>2. TypeOK'
    BY <1>1 DEF IInv, StartEvent, ClaimEvent, Goto, artifactVars, rowVars, writeVars,
       cleanerVars, TypeOK, ArtifactTypeOK, CleanupTypeOK, ArtifactStatus, EventStatus, ItemStatus,
       WriterStates, Labels, Artifacts, Keys, AttemptsInOrder, LeaseOwned
<1>3. KeysInOrder'
    BY DEF IInv, StartEvent, artifactVars, writeVars, cleanerVars, KeysInOrder, Cold
<1>4. RowsInOrder'
    BY DEF IInv, StartEvent, ClaimEvent, rowVars, writeVars, cleanerVars, RowsInOrder,
       ReferencedStored
<1>5. ListInOrder'
    BY DEF IInv, StartEvent, ClaimEvent, Dispatchable, artifactVars, rowVars, writeVars,
       cleanerVars, ListInOrder, NoAssetPending
<1>6. CleanerInOrder(c)'
    BY DEF IInv, StartEvent, ClaimEvent, Dispatchable, Goto, cleanerVars, CleanerInOrder,
       Removable, Cold, NoAssetPending, ArtifactLabels, EventLabels, KeysInOrder, RowsInOrder,
       ReferencedStored, ListInOrder, PendingObjects, LeaseOwned, TypeOK, ArtifactTypeOK,
       CleanupTypeOK, ArtifactStatus, EventStatus
<1>7. ASSUME NEW e \in Cleaners, e # c PROVE CleanerInOrder(e)'
    BY <1>7 DEF IInv, StartEvent, ClaimEvent, Goto, artifactVars, rowVars, writeVars,
       cleanerVars, CleanerInOrder, Removable, Cold, NoAssetPending, ArtifactLabels, EventLabels,
       KeysInOrder, RowsInOrder, ReferencedStored, ListInOrder, PendingObjects, LeaseOwned
<1>8. Started' = Started
    BY DEF Started, IInv, StartEvent, writeVars, cleanerVars, TypeOK
<1>9. Paid' = Paid /\ Paid \in Nat /\ IsFiniteSet(Started)'
    BY <1>8, SameStarted DEF IInv, StartEvent, TypeOK
<1>10. AttemptsInOrder'
    BY <1>9 DEF IInv, StartEvent, ClaimEvent, Dispatchable, Goto, cleanerVars, AttemptsInOrder,
       Open, AttendsEvent, LeaseOwned, PendingObjects, ListInOrder, CleanerInOrder, EventLabels,
       TypeOK, ArtifactTypeOK, CleanupTypeOK, EventStatus
<1> QED
    BY <1>2, <1>3, <1>4, <1>5, <1>6, <1>7, <1>10 DEF IInv

\* An object is taken up after its retention.
LEMMA NextObjectStep ==
    ASSUME IInv, NEW c \in Cleaners, NextObject(c)
    PROVE  IInv'
<1> USE KeysAssumption, ArtifactAssumption, CleanupAssumption
<1>1. TypeOK'
    BY DEF IInv, NextObject, DueObjects, PendingObjects, TakeUp, Goto, artifactVars,
       cleanupVars, rowVars, writeVars, cleanerVars, TypeOK, ArtifactTypeOK, CleanupTypeOK,
       ArtifactStatus, EventStatus, ItemStatus, WriterStates, Labels, Artifacts, Keys,
       AttemptsInOrder
<1>2. KeysInOrder'
    BY DEF IInv, NextObject, artifactVars, writeVars, cleanerVars, KeysInOrder, Cold,
       CleanerInOrder, Removable, ArtifactLabels, EventLabels
<1>3. RowsInOrder'
    BY DEF IInv, NextObject, cleanupVars, rowVars, writeVars, RowsInOrder, ReferencedStored,
       CleanerInOrder, Removable, ArtifactLabels
<1>4. ListInOrder'
    BY DEF IInv, NextObject, artifactVars, cleanupVars, rowVars, writeVars, cleanerVars,
       ListInOrder, NoAssetPending, RowsInOrder, KeysInOrder, CleanerInOrder, Removable
<1>5. CleanerInOrder(c)'
    BY DEF IInv, NextObject, DueObjects, PendingObjects, TakeUp, Goto, artifactVars,
       cleanupVars, writeVars, cleanerVars, CleanerInOrder, Removable, Cold, NoAssetPending,
       ArtifactLabels, EventLabels, KeysInOrder, RowsInOrder, ReferencedStored, ListInOrder,
       LeaseOwned, TypeOK, ArtifactTypeOK, CleanupTypeOK, ArtifactStatus, EventStatus
<1>6. ASSUME NEW e \in Cleaners, e # c PROVE CleanerInOrder(e)'
    BY <1>6 DEF IInv, NextObject, TakeUp, Goto, artifactVars, cleanupVars, rowVars, writeVars,
       cleanerVars, CleanerInOrder, Removable, Cold, NoAssetPending, ArtifactLabels, EventLabels,
       KeysInOrder, RowsInOrder, ReferencedStored, ListInOrder, LeaseOwned, TypeOK, ArtifactTypeOK,
       CleanupTypeOK, ArtifactStatus, EventStatus
<1>7. Started' = Started
    BY DEF Started, IInv, NextObject, rowVars, writeVars, cleanerVars
<1>8. Paid' = Paid /\ Paid \in Nat /\ IsFiniteSet(Started)'
    BY <1>7, SameStarted DEF IInv, NextObject, TypeOK
<1>9. AttemptsInOrder'
    BY <1>8 DEF IInv, NextObject, PendingObjects, Goto, cleanupVars, writeVars, cleanerVars,
       AttemptsInOrder, Open, AttendsEvent, LeaseOwned, ListInOrder, CleanerInOrder, EventLabels,
       TypeOK, ArtifactTypeOK, CleanupTypeOK, EventStatus
<1> QED
    BY <1>1, <1>2, <1>3, <1>4, <1>5, <1>6, <1>9 DEF IInv

\* The holder of the lease finds its object still on the list.
LEMMA RenewAndAttemptStep ==
    ASSUME IInv, NEW c \in Cleaners, RenewAndAttempt(c)
    PROVE  IInv'
<1> USE KeysAssumption, ArtifactAssumption, CleanupAssumption
<1>1. due' \in BOOLEAN
    BY DEF IInv, RenewAndAttempt, StillMine, LeaseOwned, RenewLease, Raise, TakeUp, Goto,
       artifactVars, cleanupVars, rowVars, writeVars, cleanerVars, TypeOK, ArtifactTypeOK,
       CleanupTypeOK, ArtifactStatus, EventStatus, ItemStatus, WriterStates, Labels, Artifacts,
       Keys
<1>2. TypeOK'
    BY <1>1 DEF IInv, RenewAndAttempt, RenewLease, Raise, TakeUp, Goto, artifactVars,
       cleanupVars, rowVars, writeVars, cleanerVars, TypeOK, ArtifactTypeOK, CleanupTypeOK,
       ArtifactStatus, EventStatus, ItemStatus, WriterStates, Labels, Artifacts
<1>3. KeysInOrder'
    BY DEF IInv, RenewAndAttempt, artifactVars, writeVars, KeysInOrder, Cold, CleanerInOrder,
       Removable
<1>4. RowsInOrder'
    BY DEF IInv, RenewAndAttempt, RenewLease, Raise, cleanupVars, rowVars, writeVars,
       cleanerVars, RowsInOrder, ReferencedStored, ListInOrder, CleanerInOrder
<1>5. ListInOrder'
    BY DEF IInv, RenewAndAttempt, RenewLease, Raise, artifactVars, cleanupVars, rowVars,
       writeVars, cleanerVars, ListInOrder, NoAssetPending, RowsInOrder, KeysInOrder
<1>6. CleanerInOrder(c)'
    BY DEF IInv, RenewAndAttempt, RenewLease, Raise, Goto, artifactVars, cleanupVars, rowVars,
       writeVars, cleanerVars, CleanerInOrder, Removable, Cold, NoAssetPending, ArtifactLabels,
       EventLabels, KeysInOrder, RowsInOrder, ReferencedStored, ListInOrder, PendingObjects,
       TypeOK, ArtifactTypeOK, CleanupTypeOK
<1>7. ASSUME NEW e \in Cleaners, e # c PROVE CleanerInOrder(e)'
    BY <1>7 DEF IInv, RenewAndAttempt, LeaseOwned, RenewLease, Raise, TakeUp, Goto,
       artifactVars, cleanupVars, rowVars, writeVars, cleanerVars, CleanerInOrder, Removable, Cold,
       NoAssetPending, ListInOrder, PendingObjects, TypeOK, ArtifactTypeOK, CleanupTypeOK
<1>8. Started' = Started
    BY DEF Started, IInv, RenewAndAttempt, writeVars, TypeOK, ArtifactTypeOK, CleanupTypeOK
<1>9. Paid' = Paid /\ Paid \in Nat /\ IsFiniteSet(Started)'
    BY <1>8, SameStarted DEF IInv, RenewAndAttempt, TypeOK
<1>10. AttemptsInOrder'
    BY <1>9 DEF IInv, RenewAndAttempt, StillMine, LeaseOwned, RenewLease, Raise, Goto,
       cleanupVars, rowVars, writeVars, cleanerVars, AttemptsInOrder, Open, AttendsEvent,
       PendingObjects, ListInOrder, CleanerInOrder, EventLabels, TypeOK, ArtifactTypeOK
<1> QED
    BY <1>2, <1>3, <1>4, <1>5, <1>6, <1>7, <1>10 DEF IInv

\* A failed deletion is paid for, unless the event is given up.
LEMMA DeleteObjectStep ==
    ASSUME IInv, NEW c \in Cleaners, DeleteObject(c)
    PROVE  IInv'
<1> USE KeysAssumption, ArtifactAssumption, CleanupAssumption
<1>1. TypeOK'
    BY DEF IInv, DeleteObject, Remove, DeletionFails, Disruption, Goto, artifactVars,
       cleanupVars, rowVars, writeVars, cleanerVars, TypeOK, ArtifactTypeOK, CleanupTypeOK,
       ArtifactStatus, EventStatus, ItemStatus, WriterStates, Labels, Artifacts, Keys
<1>2. KeysInOrder'
    BY DEF IInv, DeleteObject, Remove, artifactVars, rowVars, writeVars, cleanerVars,
       KeysInOrder, Cold, CleanerInOrder, Removable, ArtifactLabels
<1>3. RowsInOrder'
    BY DEF IInv, DeleteObject, Remove, cleanupVars, rowVars, writeVars, cleanerVars,
       RowsInOrder, ReferencedStored, ListInOrder, CleanerInOrder, Removable, ArtifactLabels,
       EventLabels, TypeOK, ArtifactTypeOK, CleanupTypeOK
<1>4. ListInOrder'
    BY DEF IInv, DeleteObject, artifactVars, cleanupVars, rowVars, writeVars, ListInOrder,
       NoAssetPending, RowsInOrder, KeysInOrder, CleanerInOrder
<1>5. CleanerInOrder(c)'
    BY DEF IInv, DeleteObject, Remove, LeaseOwned, Goto, artifactVars, cleanupVars, rowVars,
       writeVars, cleanerVars, CleanerInOrder, Removable, Cold, NoAssetPending, ArtifactLabels,
       EventLabels, KeysInOrder, RowsInOrder, ReferencedStored, ListInOrder, PendingObjects,
       TypeOK, ArtifactTypeOK, CleanupTypeOK, ArtifactStatus
<1>6. ASSUME NEW e \in Cleaners, e # c PROVE CleanerInOrder(e)'
    BY <1>6 DEF IInv, DeleteObject, Remove, LeaseOwned, Goto, artifactVars, cleanupVars,
       rowVars, writeVars, cleanerVars, CleanerInOrder, Removable, Cold, NoAssetPending,
       ArtifactLabels, PendingObjects, TypeOK, ArtifactTypeOK, CleanupTypeOK, ArtifactStatus
<1>7. Started' = Started
    BY DEF Started, IInv, DeleteObject, cleanupVars, rowVars, writeVars
<1>8. disruptions' - disruptions \in Nat
    BY DEF IInv, DeleteObject, DeletionFails, Disruption, TypeOK
<1>9. Paid' = Paid + (disruptions' - disruptions) /\ Paid \in Nat /\ IsFiniteSet(Started)'
    BY <1>7, <1>8, SameStarted DEF IInv, DeleteObject, DeletionFails, Disruption, TypeOK
<1>10. AttemptsInOrder'
    BY <1>9 DEF IInv, DeleteObject, DeletionFails, Disruption, LeaseOwned, Goto, cleanupVars,
       rowVars, writeVars, cleanerVars, AttemptsInOrder, Open, AttendsEvent, PendingObjects,
       ListInOrder, CleanerInOrder, EventLabels, TypeOK, ArtifactTypeOK, CleanupTypeOK
<1> QED
    BY <1>1, <1>2, <1>3, <1>4, <1>5, <1>6, <1>10 DEF IInv

\* An object is marked after it was removed, and nobody wrote it meanwhile.
LEMMA ObjectDeletedStep ==
    ASSUME IInv, NEW c \in Cleaners, ObjectDeleted(c)
    PROVE  IInv'
<1> USE KeysAssumption, ArtifactAssumption, CleanupAssumption
<1>1. TypeOK'
    BY DEF IInv, ObjectDeleted, MarkObjectDeleted, ArtifactGone, Raise, TakeUp, Goto,
       artifactVars, cleanupVars, rowVars, writeVars, cleanerVars, TypeOK, ArtifactTypeOK,
       CleanupTypeOK, ArtifactStatus, EventStatus, ItemStatus, WriterStates, Labels
<1>2. KeysInOrder'
    BY DEF IInv, ObjectDeleted, ArtifactGone, artifactVars, cleanupVars, rowVars, writeVars,
       cleanerVars, KeysInOrder, Cold, CleanerInOrder, Removable, ArtifactLabels, EventLabels,
       TypeOK, ArtifactTypeOK, Labels, Artifacts, Keys
<1>3. RowsInOrder'
    BY DEF IInv, ObjectDeleted, MarkObjectDeleted, Raise, artifactVars, cleanupVars, rowVars,
       writeVars, cleanerVars, RowsInOrder, ReferencedStored, ListInOrder, CleanerInOrder,
       Removable, ArtifactLabels, EventLabels, TypeOK
<1>4. ListInOrder'
    BY DEF IInv, ObjectDeleted, MarkObjectDeleted, ArtifactGone, Raise, artifactVars,
       cleanupVars, rowVars, writeVars, cleanerVars, ListInOrder, NoAssetPending, RowsInOrder,
       TypeOK, ArtifactTypeOK, CleanupTypeOK, ArtifactStatus, EventStatus, ItemStatus,
       WriterStates, Labels, Artifacts, Keys
<1>5. CleanerInOrder(c)'
    BY DEF IInv, ObjectDeleted, MarkObjectDeleted, Raise, Goto, artifactVars, cleanupVars,
       rowVars, writeVars, cleanerVars, CleanerInOrder, Removable, Cold, NoAssetPending,
       ArtifactLabels, EventLabels, KeysInOrder, RowsInOrder, ReferencedStored, ListInOrder,
       PendingObjects, TypeOK, ArtifactTypeOK
<1>6. ASSUME NEW e \in Cleaners, e # c PROVE CleanerInOrder(e)'
    BY <1>6 DEF IInv, ObjectDeleted, LeaseOwned, MarkObjectDeleted, ArtifactGone, Raise, TakeUp,
       Goto, artifactVars, cleanupVars, rowVars, writeVars, cleanerVars, CleanerInOrder, Removable,
       Cold, NoAssetPending, ArtifactLabels, EventLabels, KeysInOrder, RowsInOrder,
       ReferencedStored, ListInOrder, PendingObjects, TypeOK, ArtifactTypeOK, CleanupTypeOK,
       ArtifactStatus, EventStatus, ItemStatus, WriterStates, Labels, Artifacts, Keys
<1>7. Started' = Started
    BY DEF Started, IInv, ObjectDeleted, writeVars, cleanerVars, TypeOK, ArtifactTypeOK
<1>8. Paid' = Paid /\ Paid \in Nat /\ IsFiniteSet(Started)'
    BY <1>7, SameStarted DEF IInv, ObjectDeleted, TypeOK
<1>9. AttemptsInOrder'
    BY <1>8 DEF IInv, ObjectDeleted, StillMine, LeaseOwned, MarkObjectDeleted, Raise, Goto,
       artifactVars, cleanupVars, rowVars, writeVars, cleanerVars, AttemptsInOrder, Open,
       AttendsEvent, PendingObjects, ListInOrder, CleanerInOrder, EventLabels, TypeOK
<1> QED
    BY <1>1, <1>2, <1>3, <1>4, <1>5, <1>6, <1>9 DEF IInv

LEMMA ObjectFailedStep ==
    ASSUME IInv, NEW c \in Cleaners, ObjectFailed(c)
    PROVE  IInv'
<1> USE KeysAssumption, ArtifactAssumption, CleanupAssumption
<1>1. TypeOK'
    <2>1. ArtifactTypeOK'
        BY DEF IInv, ObjectFailed, StillMine, LeaseOwned, ScheduleRetry, Raise, TakeUp,
           Goto, artifactVars, cleanupVars, rowVars, writeVars, cleanerVars, TypeOK,
           ArtifactTypeOK, CleanupTypeOK, ArtifactStatus, EventStatus, ItemStatus,
           WriterStates, Labels, Artifacts, Keys
    <2>2. due' \in BOOLEAN
        BY DEF IInv, ObjectFailed, StillMine, LeaseOwned, ScheduleRetry, Raise, TakeUp,
           Goto, artifactVars, cleanupVars, rowVars, writeVars, cleanerVars, TypeOK,
           ArtifactTypeOK, CleanupTypeOK, ArtifactStatus, EventStatus, ItemStatus,
           WriterStates, Labels, Artifacts, Keys
    <2>3. CleanupTypeOK'
        BY <2>2 DEF IInv, ObjectFailed, StillMine, LeaseOwned, ScheduleRetry, Raise, TakeUp,
           Goto, artifactVars, cleanupVars, rowVars, writeVars, cleanerVars, TypeOK,
           ArtifactTypeOK, CleanupTypeOK, ArtifactStatus, EventStatus, ItemStatus,
           WriterStates, Labels, Artifacts, Keys, AttemptsInOrder, ListInOrder
    <2> QED
        BY <2>1, <2>3 DEF IInv, ObjectFailed, StillMine, LeaseOwned, ScheduleRetry, Raise,
           TakeUp, Goto, artifactVars, cleanupVars, rowVars, writeVars, cleanerVars, TypeOK,
           CleanupTypeOK, ArtifactStatus, EventStatus, ItemStatus, WriterStates, Labels,
           Artifacts, Keys, AttemptsInOrder, ListInOrder
<1>2. KeysInOrder'
    BY DEF IInv, ObjectFailed, artifactVars, writeVars, KeysInOrder, Cold, CleanerInOrder,
       Removable
<1>3. RowsInOrder'
    BY DEF IInv, ObjectFailed, ScheduleRetry, Raise, cleanupVars, rowVars, writeVars,
       cleanerVars, RowsInOrder, ReferencedStored, ListInOrder, CleanerInOrder
<1>4. ListInOrder'
    BY DEF IInv, ObjectFailed, LeaseOwned, ScheduleRetry, Raise, artifactVars, cleanupVars,
       rowVars, writeVars, cleanerVars, ListInOrder, NoAssetPending, RowsInOrder, KeysInOrder
<1>5. CleanerInOrder(c)'
    BY DEF IInv, ObjectFailed, Raise, Goto, cleanupVars, rowVars, writeVars, cleanerVars,
       CleanerInOrder, Removable, Cold, NoAssetPending, ArtifactLabels, EventLabels, KeysInOrder,
       RowsInOrder, ReferencedStored, ListInOrder, PendingObjects, TypeOK, ArtifactTypeOK,
       CleanupTypeOK
<1>6. ASSUME NEW e \in Cleaners, e # c PROVE CleanerInOrder(e)'
    BY <1>6 DEF IInv, ObjectFailed, LeaseOwned, ScheduleRetry, Raise, TakeUp, Goto,
       artifactVars, cleanupVars, rowVars, writeVars, cleanerVars, CleanerInOrder, Removable, Cold,
       NoAssetPending, ListInOrder, PendingObjects, TypeOK, ArtifactTypeOK, CleanupTypeOK
<1>7. Started' = Started
    BY DEF Started, IInv, ObjectFailed, writeVars, TypeOK, ArtifactTypeOK, CleanupTypeOK
<1>8. Paid' = Paid /\ Paid \in Nat /\ IsFiniteSet(Started)'
    BY <1>7, SameStarted DEF IInv, ObjectFailed, TypeOK
<1>9. AttemptsInOrder'
    BY <1>8 DEF IInv, ObjectFailed, StillMine, LeaseOwned, ScheduleRetry, Raise, Goto,
       cleanupVars, rowVars, writeVars, cleanerVars, AttemptsInOrder, Open, AttendsEvent,
       PendingObjects, ListInOrder, CleanerInOrder, EventLabels, TypeOK, ArtifactTypeOK,
       CleanupTypeOK, EventStatus, ItemStatus, Labels
<1> QED
    BY <1>1, <1>2, <1>3, <1>4, <1>5, <1>6, <1>9 DEF IInv

\* A deferral gives back the attempt of the claim.
LEMMA SettleStep ==
    ASSUME IInv, NEW c \in Cleaners, Settle(c)
    PROVE  IInv'
<1> USE KeysAssumption, ArtifactAssumption, CleanupAssumption
<1>1. due' \in BOOLEAN
    BY DEF IInv, Settle, LeaseOwned, Defer, Raise, TakeUp, Goto, artifactVars, cleanupVars,
       rowVars, writeVars, cleanerVars, TypeOK, ArtifactTypeOK, CleanupTypeOK, ArtifactStatus,
       EventStatus, ItemStatus, WriterStates, Labels, Artifacts, Keys
<1>2. TypeOK'
    BY <1>1 DEF IInv, Settle, LeaseOwned, Defer, Raise, TakeUp, Goto, artifactVars, cleanupVars,
       rowVars, writeVars, cleanerVars, TypeOK, ArtifactTypeOK, CleanupTypeOK, ArtifactStatus,
       EventStatus, ItemStatus, WriterStates, Labels, Artifacts, Keys, AttemptsInOrder, ListInOrder
<1>3. KeysInOrder'
    BY DEF IInv, Settle, artifactVars, writeVars, KeysInOrder, Cold, CleanerInOrder, Removable,
       ArtifactLabels
<1>4. RowsInOrder'
    BY DEF IInv, Settle, Defer, Raise, cleanupVars, rowVars, writeVars, cleanerVars,
       RowsInOrder, ReferencedStored, ListInOrder, CleanerInOrder, Removable
<1>5. ListInOrder'
    BY DEF IInv, Settle, LeaseOwned, Defer, Raise, artifactVars, cleanupVars, rowVars,
       writeVars, cleanerVars, ListInOrder, NoAssetPending, RowsInOrder, KeysInOrder,
       CleanerInOrder
<1>6. CleanerInOrder(c)'
    BY DEF IInv, Settle, Raise, Goto, cleanupVars, rowVars, writeVars, cleanerVars,
       CleanerInOrder, Removable, Cold, NoAssetPending, ArtifactLabels, EventLabels, KeysInOrder,
       RowsInOrder, ReferencedStored, ListInOrder, PendingObjects, TypeOK, ArtifactTypeOK,
       CleanupTypeOK, ArtifactStatus, Keys
<1>7. ASSUME NEW e \in Cleaners, e # c PROVE CleanerInOrder(e)'
    BY <1>7 DEF IInv, Settle, LeaseOwned, Defer, Raise, TakeUp, Goto, artifactVars, cleanupVars,
       rowVars, writeVars, cleanerVars, CleanerInOrder, Removable, Cold, NoAssetPending,
       ArtifactLabels, PendingObjects, TypeOK, ArtifactTypeOK, CleanupTypeOK, ArtifactStatus
<1>8. Started' = Started
    BY DEF Started, IInv, Settle, cleanupVars, rowVars, writeVars
<1>9. Paid' = Paid /\ Paid \in Nat /\ IsFiniteSet(Started)'
    BY <1>8, SameStarted DEF IInv, Settle, TypeOK
<1>10. AttemptsInOrder'
    BY <1>9 DEF IInv, Settle, LeaseOwned, Defer, Raise, Goto, cleanupVars, rowVars, writeVars,
       cleanerVars, AttemptsInOrder, Open, AttendsEvent, PendingObjects, ListInOrder,
       CleanerInOrder, EventLabels, TypeOK, ArtifactTypeOK, CleanupTypeOK
<1> QED
    BY <1>2, <1>3, <1>4, <1>5, <1>6, <1>7, <1>10 DEF IInv

\* Only a registration puts an object on the list of an event about to be published.
LEMMA PublishEventStep ==
    ASSUME IInv, NEW c \in Cleaners, PublishEvent(c)
    PROVE  IInv'
<1> USE KeysAssumption, ArtifactAssumption, CleanupAssumption
<1>1. TypeOK'
    <2>1. ArtifactTypeOK'
        BY DEF IInv, PublishEvent, LeaseOwned, MarkPublished, Raise, TakeUp, Goto,
           artifactVars, cleanupVars, rowVars, writeVars, cleanerVars, TypeOK, ArtifactTypeOK,
           CleanupTypeOK, ArtifactStatus, EventStatus, ItemStatus, WriterStates, Labels,
           Artifacts, Keys
    <2>2. due' \in BOOLEAN
        BY DEF IInv, PublishEvent, LeaseOwned, MarkPublished, Raise, TakeUp, Goto,
           artifactVars, cleanupVars, rowVars, writeVars, cleanerVars, TypeOK, ArtifactTypeOK,
           CleanupTypeOK, ArtifactStatus, EventStatus, ItemStatus, WriterStates, Labels,
           Artifacts, Keys
    <2>3. CleanupTypeOK'
        BY <2>2 DEF IInv, PublishEvent, LeaseOwned, MarkPublished, Raise, TakeUp, Goto,
           artifactVars, cleanupVars, rowVars, writeVars, cleanerVars, TypeOK, ArtifactTypeOK,
           CleanupTypeOK, ArtifactStatus, EventStatus, ItemStatus, WriterStates, Labels,
           Artifacts, Keys, AttemptsInOrder, ListInOrder
    <2> QED
        BY <2>1, <2>3 DEF IInv, PublishEvent, LeaseOwned, MarkPublished, Raise, TakeUp,
           Goto, artifactVars, cleanupVars, rowVars, writeVars, cleanerVars, TypeOK,
           CleanupTypeOK, ArtifactStatus, EventStatus, ItemStatus, WriterStates, Labels,
           Artifacts, Keys, AttemptsInOrder, ListInOrder
<1>2. KeysInOrder'
    BY DEF IInv, PublishEvent, artifactVars, writeVars, KeysInOrder, Cold, CleanerInOrder,
       Removable, ArtifactLabels
<1>3. RowsInOrder'
    BY DEF IInv, PublishEvent, MarkPublished, Raise, cleanupVars, rowVars, writeVars,
       cleanerVars, RowsInOrder, ReferencedStored, ListInOrder, CleanerInOrder, Removable
<1>4. ListInOrder'
    BY DEF IInv, PublishEvent, LeaseOwned, MarkPublished, Raise, artifactVars, cleanupVars,
       rowVars, writeVars, cleanerVars, ListInOrder, NoAssetPending, RowsInOrder, KeysInOrder,
       CleanerInOrder
<1>5. CleanerInOrder(c)'
    BY DEF IInv, PublishEvent, Raise, Goto, CleanerInOrder, Cold, NoAssetPending,
       ArtifactLabels, EventLabels, KeysInOrder, RowsInOrder, ReferencedStored, ListInOrder,
       PendingObjects, TypeOK, ArtifactTypeOK, CleanupTypeOK, ArtifactStatus
<1>6. ASSUME NEW e \in Cleaners, e # c PROVE CleanerInOrder(e)'
    BY <1>6 DEF IInv, PublishEvent, LeaseOwned, MarkPublished, Raise, TakeUp, Goto,
       artifactVars, cleanupVars, rowVars, writeVars, cleanerVars, CleanerInOrder, Removable, Cold,
       NoAssetPending, ArtifactLabels, PendingObjects, TypeOK, ArtifactTypeOK, CleanupTypeOK,
       ArtifactStatus
<1>7. Started' = Started
    BY DEF Started, IInv, PublishEvent, cleanupVars, rowVars, writeVars
<1>8. Paid' = Paid /\ Paid \in Nat /\ IsFiniteSet(Started)'
    BY <1>7, SameStarted DEF IInv, PublishEvent, TypeOK
<1>9. AttemptsInOrder'
    BY <1>8 DEF IInv, PublishEvent, LeaseOwned, MarkPublished, Raise, Goto, cleanupVars,
       rowVars, writeVars, cleanerVars, AttemptsInOrder, Open, AttendsEvent, PendingObjects,
       ListInOrder, CleanerInOrder, EventLabels, TypeOK, ArtifactTypeOK, CleanupTypeOK
<1> QED
    BY <1>1, <1>2, <1>3, <1>4, <1>5, <1>6, <1>9 DEF IInv

LEMMA StutterStep ==
    ASSUME IInv, UNCHANGED vars
    PROVE  IInv'
<1> USE DEF vars, artifactVars, cleanupVars, rowVars, writeVars, cleanerVars
<1>1. TypeOK' /\ KeysInOrder' /\ RowsInOrder'
    BY DEF IInv, TypeOK, ArtifactTypeOK, CleanupTypeOK, KeysInOrder, Cold, RowsInOrder,
           ReferencedStored
<1>2. ListInOrder' /\ \A c \in Cleaners : CleanerInOrder(c)'
    BY DEF IInv, ListInOrder, NoAssetPending, CleanerInOrder, Removable, Cold, LeaseOwned
<1>3. AttemptsInOrder'
    BY DEF IInv, AttemptsInOrder, Paid, Started, Open, AttendsEvent, LeaseOwned, PendingObjects
<1> QED
    BY <1>1, <1>2, <1>3 DEF IInv

LEMMA InitInvariant ==
    ASSUME Init
    PROVE  IInv
<1> USE KeysAssumption, ArtifactAssumption, CleanupAssumption
        DEF Init, ArtifactInit, CleanupInit
<1>1. due \in BOOLEAN /\ ArtifactTypeOK
    BY DEF ArtifactTypeOK, ArtifactStatus
<1>2. TypeOK
    BY <1>1 DEF TypeOK, CleanupTypeOK, EventStatus, ItemStatus, WriterStates, Labels, Keys
<1>3. KeysInOrder /\ RowsInOrder
    BY DEF KeysInOrder, Cold, RowsInOrder, ReferencedStored, Artifacts
<1>4. ListInOrder /\ \A c \in Cleaners : CleanerInOrder(c)
    BY DEF ListInOrder, CleanerInOrder, ArtifactLabels, EventLabels, Keys
<1>5. Started = {} /\ Cardinality({}) = 0 /\ IsFiniteSet({})
    BY FS_EmptySet DEF Started
<1>6. Paid = 0 /\ IsFiniteSet(Started)
    BY <1>5 DEF Paid
<1>7. AttemptsInOrder
    BY <1>6 DEF AttemptsInOrder, Open, LeaseOwned
<1> QED
    BY <1>2, <1>3, <1>4, <1>7 DEF IInv

LEMMA WriterKeeps ==
    ASSUME IInv, NEW k \in Finals \cup Assets, WriterStep(k)
    PROVE  IInv'
BY WriteObjectStep, DropObjectStep, CommitOutputStep, CommitAssetStep DEF WriterStep

LEMMA CleanerKeeps ==
    ASSUME IInv, NEW c \in Cleaners, CleanerStep(c)
    PROVE  IInv'
BY StartArtifactStep, RemoveArtifactStep, FinishArtifactStep, StartEventStep, NextObjectStep,
   RenewAndAttemptStep, DeleteObjectStep, ObjectDeletedStep, ObjectFailedStep, SettleStep,
   PublishEventStep DEF CleanerStep

LEMMA StepInvariant ==
    ASSUME IInv, [Next]_vars
    PROVE  IInv'
<1>1. CASE UNCHANGED vars
    BY <1>1, StutterStep
<1>2. CASE \E k \in Sources : SubmitRequest(k) \/ Upload(k) \/ LateRegistration(k)
    BY <1>2, SubmitRequestStep, UploadStep, LateRegistrationStep
<1>3. CASE \E k \in Finals : ReceiveArtifact(k)
    BY <1>3, ReceiveArtifactStep
<1>4. CASE \E k \in Assets : UploadAsset(k)
    BY <1>4, UploadAssetStep
<1>5. CASE \E k \in Finals \cup Assets : WriterStep(k)
    BY <1>5, WriterKeeps
<1>6. CASE \E k \in Artifacts : RetentionEnds(k)
    BY <1>6, RetentionEndsStep
<1>7. CASE \E c \in Cleaners : CleanerStep(c)
    BY <1>7, CleanerKeeps
<1>8. CASE EndJob \/ DeleteProject \/ TimePasses \/ LeaseExpires \/ Replay \/ Crash
    BY <1>8, EndJobStep, DeleteProjectStep, TimePassesStep, LeaseExpiresStep, ReplayStep,
       CrashStep
<1> QED
    BY <1>1, <1>2, <1>3, <1>4, <1>5, <1>6, <1>7, <1>8 DEF Next

LEMMA Invariance == Spec => []IInv
<1>1. Init => IInv
    BY InitInvariant
<1>2. IInv /\ [Next]_vars => IInv'
    BY StepInvariant
<1> QED
    BY <1>1, <1>2, PTL DEF Spec

-----------------------------------------------------------------------------
(* The theorems *)

(* Every reachable state has the declared types: in particular an artifact, and the cleanup
   event, has a lock token exactly while it is being processed (lock_token of
   provider_artifacts and storage_cleanup_events). *)
THEOREM CleanupTypes == Spec => []TypeOK
<1>1. IInv => TypeOK
    BY DEF IInv
<1> QED
    BY <1>1, Invariance, PTL

(* While its project is active, every object that an output row or an asset row names is in
   the storage, whoever cleans and whoever writes late (artifact_lifecycle.py,
   provider_completion.py, application_assets.py). *)
THEOREM ReferencedObjectsStay == Spec => []ReferencedStored
<1>1. IInv => ReferencedStored
    BY DEF IInv, RowsInOrder
<1> QED
    BY <1>1, Invariance, PTL

(* Every stored object is one that somebody will look at again: the registry still has to
   clean it, or a row and the open cleanup event of its project name it, or it is an asset
   whose upload is not over or died (register_artifact, _mark_object_deleted). *)
THEOREM ObjectsAreRemembered == Spec => []NoForgottenObject
<1>1. ASSUME IInv, NEW k \in stored
      PROVE  \/ k \in Artifacts /\ artifact[k] \in {"PENDING", "PROCESSING", "DEAD_LETTER"}
             \/ k \in assets /\ (project = "DELETED" => item[k] = "PENDING" /\ event # "PUBLISHED")
             \/ k \in Assets /\ writer[k] \in {"written", "dead"}
    <2>1. CASE k \in Artifacts
        BY <1>1, <2>1 DEF IInv, TypeOK, ArtifactTypeOK, ArtifactStatus, KeysInOrder
    <2>2. CASE k \in Assets
        BY <1>1, <2>2 DEF IInv, TypeOK, RowsInOrder, ListInOrder, NoAssetPending
    <2> QED
        BY <1>1, <2>1, <2>2 DEF IInv, TypeOK, Keys
<1>2. IInv => NoForgottenObject
    BY <1>1 DEF NoForgottenObject
<1> QED
    BY <1>2, Invariance, PTL

(* However often the cleanup event waits for retained objects, its attempt count stays below
   what disruptions and registrations account for (_mark_published and _schedule_retry of
   project_cleanup.py). *)
THEOREM DeferralsAreFree == Spec => []DeferralIsFree
<1>1. ASSUME IInv PROVE DeferralIsFree
    <2>1. PICK n \in Nat : n = Cardinality(Started)
        BY <1>1, FS_CardinalityType DEF IInv, AttemptsInOrder
    <2>2. attempts <= 1 + (disruptions + n)
        BY <1>1, <2>1 DEF IInv, AttemptsInOrder, Paid
    <2>3. attempts <= 1 + disruptions + n
        BY <1>1, <2>1, <2>2, KeysAssumption DEF IInv, TypeOK, CleanupTypeOK
    <2> QED
        BY <2>1, <2>3 DEF DeferralIsFree, Started
<1> QED
    BY <1>1, Invariance, PTL

\* An object leaves the storage in three places only.
LEMMA RemovalsAreCleanups ==
    ASSUME [Next]_vars, NEW k \in stored \ stored', UNCHANGED writer, IInv
    PROVE  \E c \in Cleaners : (RemoveArtifact(c) \/ DeleteObject(c)) /\ k = work[c]
<1> USE DEF artifactVars, cleanupVars, rowVars, writeVars, cleanerVars
<1>1. CASE UNCHANGED vars
    BY <1>1 DEF vars
<1>2. CASE \E x \in Sources : SubmitRequest(x) \/ Upload(x) \/ LateRegistration(x)
    BY <1>2 DEF SubmitRequest, Upload, LateRegistration, Put
<1>3. CASE (\E x \in Finals : ReceiveArtifact(x)) \/ (\E x \in Assets : UploadAsset(x))
    BY <1>3 DEF ReceiveArtifact, UploadAsset, Put
<1>4. CASE \E x \in Finals \cup Assets : WriterStep(x)
    BY <1>4 DEF WriterStep, WriteObject, DropObject, CommitOutput, CommitAsset, WriterGoes, Put,
                IInv, TypeOK
<1>5. CASE \E x \in Artifacts : RetentionEnds(x)
    BY <1>5 DEF RetentionEnds
<1>6. CASE \E c \in Cleaners : CleanerStep(c)
    BY <1>6 DEF CleanerStep, StartArtifact, RemoveArtifact, FinishArtifact, StartEvent, NextObject,
                RenewAndAttempt, DeleteObject, ObjectDeleted, ObjectFailed, Settle, PublishEvent,
                Remove
<1>7. CASE EndJob \/ DeleteProject \/ TimePasses \/ LeaseExpires \/ Replay \/ Crash
    BY <1>7 DEF EndJob, DeleteProject, TimePasses, LeaseExpires, Replay, Crash
<1> QED
    BY <1>1, <1>2, <1>3, <1>4, <1>5, <1>6, <1>7 DEF Next

(* A cleaner deletes an object only after the job and the retention of the object, and an
   object that a row names only after its project, even when it lost its lease long ago and
   another cleaner went over the same rows since (ArtifactCleanupDispatcher,
   StorageCleanupDispatcher). *)
THEOREM CleanersWaitForRetention == Spec => RemovedAfterRetention
<1>1. ASSUME IInv, [Next]_vars, NEW k \in stored \ stored', UNCHANGED writer
      PROVE  /\ job = "ENDED" /\ k \notin retained
             /\ k \in outputs \cup assets => project = "DELETED"
    <2>1. PICK c \in Cleaners : (RemoveArtifact(c) \/ DeleteObject(c)) /\ k = work[c]
        BY <1>1, RemovalsAreCleanups
    <2>2. CleanerInOrder(c)
        BY <1>1 DEF IInv
    <2>3. CASE RemoveArtifact(c)
        BY <1>1, <2>1, <2>2, <2>3, KeysAssumption, ArtifactAssumption
           DEF RemoveArtifact, CleanerInOrder, ArtifactLabels, IInv, TypeOK, Artifacts
    <2>4. CASE DeleteObject(c)
        BY <1>1, <2>1, <2>2, <2>4 DEF DeleteObject, CleanerInOrder, EventLabels, IInv, ListInOrder
    <2> QED
        BY <2>1, <2>3, <2>4
<1>2. IInv /\ [Next]_vars =>
        [\A k \in stored \ stored' :
            UNCHANGED writer => /\ job = "ENDED"
                                /\ k \notin retained
                                /\ k \in outputs \cup assets => project = "DELETED"]_vars
    BY <1>1
<1> QED
    BY <1>2, Invariance, PTL DEF Spec, RemovedAfterRetention

=============================================================================
