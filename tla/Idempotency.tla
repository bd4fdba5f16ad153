---------------------------- MODULE Idempotency ----------------------------
(***************************************************************************)
(* The idempotency records of POST requests (apps/api/app/idempotency.py). *)
(*                                                                         *)
(* The row of a key is inserted, completed with its result and committed   *)
(* in the transaction of the request, so other transactions see it         *)
(* completed or not at all; the unique index makes a second insert wait    *)
(* for the end of the first transaction.                                   *)
(***************************************************************************)
EXTENDS Naturals

CONSTANTS
    RequestKeys,  \* user, scope and Idempotency-Key
    Requests,     \* requests between their dispatch and their answer
    NoRequest,
    NoResult

ASSUME RequestsAssumption == NoRequest \notin Requests

VARIABLES
    record,       \* the committed row: the body that was hashed, and the result
    owner         \* the transaction with an uncommitted row of the key

idempotencyVars == <<record, owner>>

NoRecord == [body |-> NoResult, result |-> NoResult]

IdempotencyInit ==
    /\ record = [k \in RequestKeys |-> NoRecord]
    /\ owner = [k \in RequestKeys |-> NoRequest]

Recorded(k) == record[k] # NoRecord

\* _assert_reusable
Reusable(k, body) == record[k].body = body

\* The insert of a new record, which waits for an uncommitted one.
Reserve(r, k) ==
    /\ ~Recorded(k)
    /\ owner[k] = NoRequest
    /\ owner' = [owner EXCEPT ![k] = r]
    /\ UNCHANGED record

\* complete, and the commit that follows it.
Complete(r, k, body, result) ==
    /\ record' = [record EXCEPT ![k] = [body |-> body, result |-> result]]
    /\ owner' = [owner EXCEPT ![k] = NoRequest]

\* The session of a request that raises is closed, which rolls its row back.
Rollback_KeepsRow(r, k) == UNCHANGED idempotencyVars

Rollback(r, k) ==
    /\ owner' = [owner EXCEPT ![k] = NoRequest]
    /\ UNCHANGED record

=============================================================================
