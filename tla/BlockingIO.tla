----------------------------- MODULE BlockingIO -----------------------------
(***************************************************************************)
(* The pool of blocking calls of one event loop                            *)
(* (apps/api/app/blocking_io.py).  A task that runs synchronous work waits *)
(* for a slot of the semaphore and then for its thread.  A thread cannot   *)
(* be killed: a cancelled caller keeps its slot until the thread has       *)
(* ended, and what the thread does to the database happens all the same.   *)
(* A task makes one blocking call at a time, so a call is named by its     *)
(* task.  run_blocking finds the pool of the loop by a weak reference; the *)
(* pool lives as long as a call uses it, so there is one at a time.        *)
(***************************************************************************)
EXTENDS Naturals, FiniteSets

CONSTANTS
    Tasks,           \* the asyncio tasks of the process
    MaxBlockingIO    \* MAX_BLOCKING_IO

ASSUME PoolAssumption == MaxBlockingIO \in Nat \ {0}

VARIABLES
    slots,       \* free slots of the semaphore
    threads,     \* tasks whose thread is running
    cancelled    \* tasks that were cancelled while their thread runs

poolVars == <<slots, threads, cancelled>>

PoolTypeOK ==
    /\ slots \in 0 .. MaxBlockingIO
    /\ threads \subseteq Tasks
    /\ cancelled \subseteq threads

PoolInit ==
    /\ slots = MaxBlockingIO
    /\ threads = {}
    /\ cancelled = {}

\* async with self._slots: a caller gets a slot, and its thread is started.
Acquire(t) ==
    /\ t \notin threads
    /\ slots > 0
    /\ slots' = slots - 1
    /\ threads' = threads \cup {t}
    /\ UNCHANGED cancelled

\* The thread ends; the slot is free again, and the caller goes on unless it was
\* cancelled.
Return_ReleasesTwice(t) ==
    /\ t \in threads
    /\ threads' = threads \ {t}
    /\ cancelled' = cancelled \ {t}
    /\ slots' = slots + (IF t \in cancelled THEN 2 ELSE 1)

Return(t) ==
    /\ t \in threads
    /\ threads' = threads \ {t}
    /\ cancelled' = cancelled \ {t}
    /\ slots' = slots + 1

\* task.cancel() for every task of ts: who has a thread goes on waiting for it, as
\* often as it is cancelled.  (Who waits for a slot just leaves.)
CancelCalls_Release(ts) ==
    /\ slots' = slots + Cardinality(ts \cap threads)
    /\ UNCHANGED <<threads, cancelled>>

CancelCalls(ts) ==
    /\ cancelled' = cancelled \cup (ts \cap threads)
    /\ UNCHANGED <<slots, threads>>

=============================================================================
