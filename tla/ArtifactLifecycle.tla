------------------------- MODULE ArtifactLifecycle -------------------------
(***************************************************************************)
(* The registry of objects that providers and executors write, and the     *)
(* transactions that clean them up after their retention                   *)
(* (apps/api/app/artifact_lifecycle.py, storage.py).                       *)
(*                                                                         *)
(* An object key is an unguessable UUID and names one object for ever.     *)
(* Time enters by the set of keys that are still retained: retain_until    *)
(* or the end of the job plus the retention, whichever is later, has not   *)
(* passed.                                                                 *)
(***************************************************************************)
EXTENDS Naturals

CONSTANTS
    Sources,          \* keys the provider writes with an output claim
    Finals,           \* keys of final outputs, written by executors
    Cleaners,         \* tasks that call dispatch_storage_cleanup_outbox
    Nobody,           \* lock_token NULL
    ArtifactAttempts  \* ArtifactCleanupDispatcher.max_attempts

Artifacts == Sources \cup Finals

ASSUME ArtifactAssumption ==
    /\ Sources \cap Finals = {}
    /\ Nobody \notin Cleaners
    /\ ArtifactAttempts \in Nat \ {0}

VARIABLES
    stored,      \* the objects in the storage
    artifact,    \* provider_artifacts.status
    tries,       \* provider_artifacts.attempt_count
    holder,      \* provider_artifacts.lock_token
    ripe,        \* next_attempt_at, or the lease of a claim, has passed
    retained     \* keys whose retention is not over

artifactVars == <<artifact, tries, holder, ripe, retained>>

ArtifactStatus == {"NONE", "PENDING", "PROCESSING", "PUBLISHED", "DEAD_LETTER"}

ArtifactTypeOK ==
    /\ artifact \in [Artifacts -> ArtifactStatus]
    /\ tries \in [Artifacts -> Nat]
    /\ holder \in [Artifacts -> Cleaners \cup {Nobody}]
    /\ ripe \subseteq Artifacts
    /\ retained \subseteq Artifacts

ArtifactInit ==
    /\ artifact = [k \in Artifacts |-> "NONE"]
    /\ tries = [k \in Artifacts |-> 0]
    /\ holder = [k \in Artifacts |-> Nobody]
    /\ ripe = {}
    /\ retained = {}

\* register_artifact: a new row, or a row whose object was cleaned, gets a new
\* retention; a row that waits for its cleanup or is being cleaned is left alone.
Register(k) ==
    /\ IF artifact[k] \in {"NONE", "PUBLISHED"}
         THEN /\ artifact' = [artifact EXCEPT ![k] = "PENDING"]
              /\ retained' = retained \cup {k}
              /\ ripe' = ripe \cup {k}
         ELSE UNCHANGED <<artifact, retained, ripe>>
    /\ UNCHANGED <<tries, holder>>

\* The clock passes next_attempt_at or the lease of the claim.
ArtifactRipens(k) ==
    /\ artifact[k] \in {"PENDING", "PROCESSING"}
    /\ k \notin ripe
    /\ ripe' = ripe \cup {k}
    /\ UNCHANGED <<artifact, tries, holder, retained>>

\* The selection of ArtifactCleanupDispatcher: ended is the state of the job,
\* referenced the keys of generation_outputs, gone whether the project is deleted.
Cleanable_Referenced(k, ended, referenced, gone) ==
    /\ ended
    /\ k \notin retained
    /\ artifact[k] \in {"PENDING", "PROCESSING"}
    /\ k \in ripe

Cleanable(k, ended, referenced, gone) ==
    /\ ended
    /\ k \notin retained
    /\ k \in Sources \/ k \notin referenced \/ gone
    /\ artifact[k] \in {"PENDING", "PROCESSING"}
    /\ k \in ripe

ClaimArtifact(c, k) ==
    /\ artifact' = [artifact EXCEPT ![k] = "PROCESSING"]
    /\ tries' = [tries EXCEPT ![k] = @ + 1]
    /\ holder' = [holder EXCEPT ![k] = c]
    /\ ripe' = ripe \ {k}
    /\ UNCHANGED retained

HoldsArtifact(c, k) == artifact[k] = "PROCESSING" /\ holder[k] = c

\* A claim that was taken over changes nothing, and reports no error.
ArtifactCleaned(c, k) ==
    IF HoldsArtifact(c, k)
      THEN /\ artifact' = [artifact EXCEPT ![k] = "PUBLISHED"]
           /\ holder' = [holder EXCEPT ![k] = Nobody]
           /\ ripe' = ripe \ {k}
           /\ UNCHANGED <<tries, retained>>
      ELSE UNCHANGED artifactVars

ArtifactFailed_KeepsLock(c, k) ==
    IF HoldsArtifact(c, k)
      THEN /\ artifact' = [artifact EXCEPT
                             ![k] = IF tries[k] >= ArtifactAttempts THEN "DEAD_LETTER" ELSE "PENDING"]
           /\ ripe' = ripe \ {k}
           /\ UNCHANGED <<tries, holder, retained>>
      ELSE UNCHANGED artifactVars

ArtifactFailed(c, k) ==
    IF HoldsArtifact(c, k)
      THEN /\ artifact' = [artifact EXCEPT
                             ![k] = IF tries[k] >= ArtifactAttempts THEN "DEAD_LETTER" ELSE "PENDING"]
           /\ holder' = [holder EXCEPT ![k] = Nobody]
           /\ ripe' = ripe \ {k}
           /\ UNCHANGED <<tries, retained>>
      ELSE UNCHANGED artifactVars

\* The project's cleanup deleted the object, whoever holds the row.
ArtifactGone(k) ==
    /\ artifact' = [artifact EXCEPT ![k] = "PUBLISHED"]
    /\ holder' = [holder EXCEPT ![k] = Nobody]
    /\ ripe' = ripe \ {k}
    /\ UNCHANGED <<tries, retained>>

\* ObjectStorage.put and delete; deleting a missing object is no error.
Put(k) == stored' = stored \cup {k}

Remove(k) == stored' = stored \ {k}

=============================================================================
