--------------------------- MODULE RequestsProofs ---------------------------
(***************************************************************************)
(* Proofs about GenerationRequests for every number of tabs, requests,     *)
(* operations and faults.  The Web Lock makes the running tab's memory and *)
(* the storage agree; the keys make every request of an operation carry    *)
(* the same body; and a request that nobody waits for exists only for an   *)
(* operation that was abandoned.                                           *)
(***************************************************************************)
EXTENDS GenerationRequests, SequenceTheorems, TLAPS

\* The requests of one user, as a specification of their own.
RequestsSpec == RequestsInit /\ [][RequestsNext]_requestVars

-----------------------------------------------------------------------------
(* The inductive invariant *)

OperationRecords == [id : 0 .. MaxOperations, quote : Nat, job : Nat,
                     phase : {"none", "quote", "submit", "complete", "failed"}]
RequestRecords == [state : {"free", "sent", "new", "reserved"} \cup Outcomes,
                   key : RequestKeys, body : Nat, result : Nat]

Types ==
    /\ saved \in OperationRecords
    /\ tab \in [Tabs -> {"idle", "waiting", "waitingNew", "running"}]
    /\ lock \in Tabs \cup {NoTab}
    /\ mem \in [Tabs -> OperationRecords]
    /\ asked \in [Tabs -> Requests \cup {NoRequest}]
    /\ request \in [Requests -> RequestRecords]
    /\ quotes \in Seq(Operations)
    /\ jobs \in Seq([operation : Operations, quote : Nat])
    /\ record \in [RequestKeys -> [body : Nat, result : Nat]]
    /\ owner \in [RequestKeys -> Requests \cup {NoRequest}]
    /\ begun \in 0 .. MaxOperations

\* The rows that the operation op has.
HasQuote(op, q) == q \in DOMAIN quotes /\ quotes[q] = op
HasJob(op, j) == j \in DOMAIN jobs /\ jobs[j].operation = op

\* The key that a running operation asks under.
KeyOf(operation) ==
    <<operation.id, IF operation.phase = "quote" THEN "quote" ELSE "generate">>

\* Only the holder of the lock runs, and it works on what the storage has.
TabInOrder(t) ==
    /\ tab[t] = "running" <=> lock = t
    /\ tab[t] = "running" <=> asked[t] # NoRequest
    /\ tab[t] = "running" =>
          /\ mem[t] = saved
          /\ saved.phase \in {"quote", "submit"}
          /\ request[asked[t]].state # "free"
          /\ request[asked[t]].key = KeyOf(saved)
          /\ request[asked[t]].body = saved.quote

SavedInOrder ==
    /\ saved.id = begun
    /\ saved.phase = "none" <=> begun = 0
    /\ saved.phase \in {"none", "quote"} => saved.quote = NoResult
    /\ saved.phase \in {"submit", "complete"} => HasQuote(saved.id, saved.quote)
    /\ saved.phase = "complete" => HasJob(saved.id, saved.job)
    /\ saved.phase = "failed" => saved.id \in refused
    /\ OperationNotForgotten

\* A result is the row that the operation has.
ResultKnown(q) ==
    \/ q.key[2] = "quote" /\ HasQuote(q.key[1], q.result)
    \/ q.key[2] = "generate" /\ HasJob(q.key[1], q.result)

RequestInOrder(r) ==
    LET q == request[r] IN
    q.state # "free" =>
        /\ q.key[1] <= begun
        /\ q.key[2] = "quote" => q.body = NoResult
        /\ q.key[2] = "generate" => HasQuote(q.key[1], q.body)
        /\ q.state = "ok" => ResultKnown(q)
        /\ q.state = "refused" => q.key[1] \in refused
        /\ q.state = "reserved" => owner[q.key] = r
        /\ q.state \in Outcomes \/ q.key[1] \notin abandoned => \E t \in Tabs : asked[t] = r

\* A row has its record, a record its row, and an uncommitted record its transaction.
RecordsInOrder ==
    /\ \A k \in RequestKeys : owner[k] # NoRequest =>
          request[owner[k]].state = "reserved" /\ request[owner[k]].key = k /\ ~Recorded(k)
    /\ \A i \in DOMAIN quotes :
          record[<<quotes[i], "quote">>] = [body |-> NoResult, result |-> i]
    /\ \A j \in DOMAIN jobs : /\ HasQuote(jobs[j].operation, jobs[j].quote)
                              /\ record[<<jobs[j].operation, "generate">>] =
                                    [body |-> jobs[j].quote, result |-> j]
    /\ \A op \in Operations :
          /\ Recorded(<<op, "quote">>) => HasQuote(op, record[<<op, "quote">>].result)
          /\ Recorded(<<op, "generate">>) => HasJob(op, record[<<op, "generate">>].result)

\* The browser has heard, or is about to hear, of every job of its operation, unless it
\* abandoned a request.
JobsKnown ==
    \A j \in DOMAIN jobs :
        /\ jobs[j].operation <= begun
        /\ \/ jobs[j].operation # saved.id
           \/ jobs[j].operation \in abandoned
           \/ saved.phase = "complete"
           \/ saved.phase = "submit" /\ \E t \in Tabs : Answered(t, "ok")

IInv ==
    /\ Types
    /\ \A t \in Tabs : TabInOrder(t)
    /\ SavedInOrder
    /\ \A r \in Requests : RequestInOrder(r)
    /\ RecordsInOrder
    /\ JobsKnown


-----------------------------------------------------------------------------
(* Keys and sequences *)

LEMMA Keys ==
    /\ \A k \in RequestKeys : k = <<k[1], k[2]>> /\ k[1] \in Operations /\ k[2] \in Kinds
    /\ \A op \in Operations, kind \in Kinds :
          /\ <<op, kind>> \in RequestKeys
          /\ <<op, kind>>[1] = op /\ <<op, kind>>[2] = kind
    /\ 1 \in Operations
BY ClientAssumption DEF Operations, Kinds

LEMMA Appended ==
    ASSUME NEW S, NEW s \in Seq(S), NEW x \in S
    PROVE  /\ Append(s, x) \in Seq(S)
           /\ Len(s) \in Nat
           /\ Len(Append(s, x)) = Len(s) + 1
           /\ DOMAIN s = 1 .. Len(s)
           /\ DOMAIN Append(s, x) = 1 .. Len(s) + 1
           /\ DOMAIN Append(s, x) = DOMAIN s \cup {Len(s) + 1}
           /\ Len(s) + 1 \notin DOMAIN s
           /\ \A i \in DOMAIN s : Append(s, x)[i] = s[i]
           /\ Append(s, x)[Len(s) + 1] = x
BY AppendProperties

LEMMA RowTypes ==
    ASSUME Types
    PROVE  /\ DOMAIN quotes = 1 .. Len(quotes) /\ Len(quotes) \in Nat
           /\ DOMAIN jobs = 1 .. Len(jobs) /\ Len(jobs) \in Nat
           /\ \A i \in DOMAIN quotes : i \in Nat \ {0} /\ quotes[i] \in Operations
           /\ \A j \in DOMAIN jobs : j \in Nat \ {0} /\ jobs[j].operation \in Operations
<1>1. quotes \in Seq(Operations) /\ jobs \in Seq([operation : Operations, quote : Nat])
    BY DEF Types
<1>2. /\ DOMAIN quotes = 1 .. Len(quotes) /\ Len(quotes) \in Nat
      /\ \A i \in 1 .. Len(quotes) : quotes[i] \in Operations
    BY <1>1, ElementOfSeq, LenProperties
<1>3. /\ DOMAIN jobs = 1 .. Len(jobs) /\ Len(jobs) \in Nat
      /\ \A j \in 1 .. Len(jobs) : jobs[j] \in [operation : Operations, quote : Nat]
    BY <1>1, ElementOfSeq, LenProperties
<1> QED
    BY <1>2, <1>3

LEMMA InitInvariant == RequestsInit => IInv
<1> SUFFICES ASSUME RequestsInit PROVE IInv
    OBVIOUS
<1> USE ClientAssumption, RequestsAssumption, Keys
<1>1. Types
    BY DEF RequestsInit, IdempotencyInit, Types, OperationRecords, RequestRecords, NoOperation,
       Idle, NoRecord, Operations, Kinds
<1>2. \A t \in Tabs : TabInOrder(t)
    BY DEF RequestsInit, TabInOrder
<1>3. SavedInOrder
    BY DEF RequestsInit, SavedInOrder, NoOperation, OperationNotForgotten
<1>4. \A r \in Requests : RequestInOrder(r)
    BY DEF RequestsInit, RequestInOrder, Idle
<1>5. RecordsInOrder
    BY DEF RequestsInit, IdempotencyInit, RecordsInOrder, Recorded, Kinds
<1>6. JobsKnown
    BY DEF RequestsInit, JobsKnown
<1> QED
    BY <1>1, <1>2, <1>3, <1>4, <1>5, <1>6 DEF IInv

\* A request changes, and no other: what Reply, Move and a rollback leave of it.
LEMMA ReplyEffect ==
    ASSUME Types, NEW r \in Requests, NEW outcome \in Outcomes, NEW result \in Nat,
           Reply(r, outcome, result)
    PROVE  /\ request' \in [Requests -> RequestRecords]
           /\ \A q \in Requests \ {r} : request'[q] = request[q]
           /\ IF \E t \in Tabs : asked[t] = r
                THEN /\ request'[r].state = outcome
                     /\ request'[r].key = request[r].key
                     /\ request'[r].body = request[r].body
                     /\ request'[r].result = result
                ELSE request'[r].state = "free"
<1>1. Idle \in RequestRecords /\ Idle.state = "free"
    BY Keys, ClientAssumption DEF Idle, RequestRecords, Kinds
<1>2. request \in [Requests -> RequestRecords] /\ request[r] \in RequestRecords
    BY DEF Types
<1> DEFINE new == [request[r] EXCEPT !.state = outcome, !.result = result]
<1>3. /\ new \in RequestRecords
      /\ new.state = outcome /\ new.result = result
      /\ new.key = request[r].key /\ new.body = request[r].body
    BY <1>2 DEF RequestRecords
<1> HIDE DEF new
<1>4. request' = [request EXCEPT ![r] = IF \E t \in Tabs : asked[t] = r THEN new ELSE Idle]
    BY DEF Reply, new
<1> QED
    BY <1>1, <1>2, <1>3, <1>4

LEMMA MoveEffect ==
    ASSUME Types, NEW r \in Requests, NEW state \in {"new", "reserved"}, Move(r, state)
    PROVE  /\ request' \in [Requests -> RequestRecords]
           /\ \A q \in Requests \ {r} : request'[q] = request[q]
           /\ request'[r].state = state
           /\ request'[r].key = request[r].key
           /\ request'[r].body = request[r].body
BY DEF Types, RequestRecords, Move

LEMMA DispatchEffect ==
    ASSUME NEW operation \in OperationRecords, operation.id \in Operations
    PROVE  /\ Dispatched(operation) \in RequestRecords
           /\ Dispatched(operation).state = "sent"
           /\ Dispatched(operation).key = KeyOf(operation)
           /\ Dispatched(operation).body = operation.quote
           /\ KeyOf(operation)[1] = operation.id
           /\ KeyOf(operation)[2] = IF operation.phase = "quote" THEN "quote" ELSE "generate"
<1>1. KeyOf(operation) \in RequestKeys /\ KeyOf(operation)[1] = operation.id
      /\ KeyOf(operation)[2] = IF operation.phase = "quote" THEN "quote" ELSE "generate"
    BY Keys DEF KeyOf, Kinds
<1>2. Dispatched(operation) = [state |-> "sent", key |-> KeyOf(operation),
                               body |-> operation.quote, result |-> NoResult]
    BY DEF Dispatched, KeyOf
<1> QED
    BY <1>1, <1>2, ClientAssumption DEF OperationRecords, RequestRecords

LEMMA DropEffect ==
    ASSUME Types, NEW r \in Requests, request' = [request EXCEPT ![r] = Idle]
    PROVE  /\ request' \in [Requests -> RequestRecords]
           /\ \A q \in Requests \ {r} : request'[q] = request[q]
           /\ request'[r].state = "free"
<1>1. Idle \in RequestRecords /\ Idle.state = "free"
    BY Keys, ClientAssumption DEF Idle, RequestRecords, Kinds
<1> QED
    BY <1>1 DEF Types

\* Where a tab leaves, none runs afterwards.
LEMMA LeaveEffect ==
    ASSUME IInv, NEW t \in Tabs, tab[t] = "running" \/ lock = NoTab,
           NEW operation \in OperationRecords, Leave(t, operation)
    PROVE  /\ saved' = operation
           /\ tab' \in [Tabs -> {"idle", "waiting", "waitingNew", "running"}]
           /\ mem' \in [Tabs -> OperationRecords]
           /\ asked' \in [Tabs -> Requests \cup {NoRequest}]
           /\ lock' = NoTab
           /\ \A u \in Tabs : tab'[u] # "running" /\ asked'[u] = NoRequest
<1>1. NoOperation \in OperationRecords
    BY ClientAssumption DEF NoOperation, OperationRecords
<1> QED
    BY <1>1, ClientAssumption DEF IInv, Types, TabInOrder, Leave

\* The request that the running tab waits for, and no other, has an asker.
LEMMA Asker ==
    ASSUME IInv, NEW t \in Tabs, tab[t] = "running"
    PROVE  /\ asked[t] \in Requests
           /\ \A u \in Tabs \ {t} : tab[u] # "running" /\ asked[u] = NoRequest
           /\ mem[t] = saved /\ saved \in OperationRecords
           /\ request[asked[t]] \in RequestRecords
           /\ saved.phase \in {"quote", "submit"}
           /\ saved.id = begun /\ saved.id \in Operations
           /\ KeyOf(saved)[1] = saved.id
           /\ KeyOf(saved)[2] = IF saved.phase = "quote" THEN "quote" ELSE "generate"
           /\ \A q \in Requests \ {asked[t]} : request[q].state # "free" =>
                 request[q].state \notin Outcomes /\ request[q].key[1] \in abandoned
<1>1. /\ asked[t] \in Requests
      /\ \A u \in Tabs \ {t} : tab[u] # "running" /\ asked[u] = NoRequest
      /\ mem[t] = saved /\ saved \in OperationRecords
      /\ request[asked[t]] \in RequestRecords
      /\ saved.phase \in {"quote", "submit"}
    BY DEF IInv, Types, TabInOrder
<1>2. saved.id = begun /\ saved.id \in Operations
    BY <1>1, ClientAssumption DEF IInv, Types, SavedInOrder, Operations
<1>3. \A q \in Requests \ {asked[t]} : request[q].state # "free" =>
         request[q].state \notin Outcomes /\ request[q].key[1] \in abandoned
    BY <1>1, RequestsAssumption DEF IInv, RequestInOrder
<1> QED
    BY <1>1, <1>2, <1>3, DispatchEffect

LEMMA ClickStep ==
    ASSUME IInv, NEW t \in Tabs, Click(t)
    PROVE  IInv'
<1> USE DEF Click, serverVars, historyVars, idempotencyVars
<1>1. Types'
    BY DEF IInv, Types
<1>2. \A u \in Tabs : TabInOrder(u)'
    BY DEF IInv, Types, TabInOrder, KeyOf
<1>3. SavedInOrder'
    BY DEF IInv, SavedInOrder, OperationNotForgotten, HasQuote, HasJob
<1>4. \A q \in Requests : RequestInOrder(q)'
    BY DEF IInv, RequestInOrder, ResultKnown, HasQuote, HasJob
<1>5. RecordsInOrder'
    BY DEF IInv, RecordsInOrder, HasQuote, HasJob, Recorded
<1>6. JobsKnown'
    BY DEF IInv, Types, JobsKnown, Answered
<1> QED
    BY <1>1, <1>2, <1>3, <1>4, <1>5, <1>6 DEF IInv

LEMMA ReloadStep ==
    ASSUME IInv, NEW t \in Tabs, Reload(t)
    PROVE  IInv'
<1> USE DEF Reload, serverVars, historyVars, idempotencyVars
<1>1. Types'
    BY DEF IInv, Types
<1>2. \A u \in Tabs : TabInOrder(u)'
    BY DEF IInv, TabInOrder, KeyOf
<1>3. SavedInOrder'
    BY DEF IInv, SavedInOrder, OperationNotForgotten, HasQuote, HasJob
<1>4. \A q \in Requests : RequestInOrder(q)'
    BY DEF IInv, RequestInOrder, ResultKnown, HasQuote, HasJob
<1>5. RecordsInOrder'
    BY DEF IInv, RecordsInOrder, HasQuote, HasJob, Recorded
<1>6. JobsKnown'
    BY DEF IInv, JobsKnown, Answered
<1> QED
    BY <1>1, <1>2, <1>3, <1>4, <1>5, <1>6 DEF IInv

LEMMA RunReturnsStep ==
    ASSUME IInv, NEW t \in Tabs, RunReturns(t)
    PROVE  IInv'
<1> USE DEF serverVars, historyVars, idempotencyVars
<1>1. /\ lock = NoTab
      /\ Leave(t, saved)
      /\ UNCHANGED <<request, serverVars, historyVars>>
    BY DEF RunReturns, LockFree
<1>2. \A u \in Tabs : tab[u] # "running" /\ asked[u] = NoRequest
    BY <1>1, ClientAssumption DEF IInv, TabInOrder
<1>3. /\ saved' = saved /\ lock' = NoTab
      /\ tab' \in [Tabs -> {"idle", "waiting", "waitingNew", "running"}]
      /\ mem' \in [Tabs -> OperationRecords]
      /\ asked' \in [Tabs -> Requests \cup {NoRequest}]
      /\ \A u \in Tabs : tab'[u] # "running" /\ asked'[u] = NoRequest
    BY <1>1, LeaveEffect DEF IInv, Types
<1>4. Types'
    BY <1>1, <1>3 DEF IInv, Types
<1>5. \A u \in Tabs : TabInOrder(u)'
    BY <1>3, ClientAssumption DEF TabInOrder
<1>6. SavedInOrder'
    BY <1>1, <1>3 DEF IInv, SavedInOrder, OperationNotForgotten, HasQuote, HasJob
<1>7. \A q \in Requests : RequestInOrder(q)'
    BY <1>1, <1>2, <1>3, RequestsAssumption DEF IInv, RequestInOrder, ResultKnown, HasQuote, HasJob
<1>8. RecordsInOrder'
    BY <1>1 DEF IInv, RecordsInOrder, HasQuote, HasJob, Recorded
<1>9. JobsKnown'
    BY <1>1, <1>2, <1>3 DEF IInv, JobsKnown, Answered
<1> QED
    BY <1>4, <1>5, <1>6, <1>7, <1>8, <1>9 DEF IInv

\* A running tab leaves: with an answer that settles its operation, or with the operation
\* as it was; and a request that it leaves on its way makes the operation abandoned.
LEMMA RunningTabLeaves ==
    ASSUME IInv, NEW t \in Tabs, tab[t] = "running",
           NEW operation \in OperationRecords, Leave(t, operation),
           operation.id = saved.id, operation.quote = saved.quote,
           \/ operation.phase = saved.phase
           \/ operation.phase = "complete" /\ saved.phase = "submit"
              /\ HasJob(saved.id, operation.job)
           \/ operation.phase = "failed" /\ saved.id \in refused,
           UNCHANGED <<serverVars, begun, confirmed, refused>>,
           abandoned' \in {abandoned, abandoned \cup {saved.id}},
           \/ /\ request[asked[t]].state \in {"sent"} \cup Outcomes
              /\ request' = [request EXCEPT ![asked[t]] = Idle]
           \/ /\ request[asked[t]].state \notin Outcomes
              /\ abandoned' = abandoned \cup {saved.id}
              /\ UNCHANGED request,
           \/ saved.id \in abandoned'
           \/ operation.phase = "complete"
           \/ ~Answered(t, "ok")
    PROVE  IInv'
<1> USE DEF serverVars, idempotencyVars
<1>1. /\ asked[t] \in Requests
      /\ \A u \in Tabs \ {t} : tab[u] # "running" /\ asked[u] = NoRequest
      /\ saved.phase \in {"quote", "submit"}
      /\ saved.id = begun /\ saved.id \in Operations
      /\ \A q \in Requests \ {asked[t]} : request[q].state # "free" =>
            request[q].state \notin Outcomes /\ request[q].key[1] \in abandoned
    BY Asker
<1>2. /\ saved' = operation /\ lock' = NoTab
      /\ tab' \in [Tabs -> {"idle", "waiting", "waitingNew", "running"}]
      /\ mem' \in [Tabs -> OperationRecords]
      /\ asked' \in [Tabs -> Requests \cup {NoRequest}]
      /\ \A u \in Tabs : tab'[u] # "running" /\ asked'[u] = NoRequest
    BY LeaveEffect
<1>3. request' \in [Requests -> RequestRecords]
    BY <1>1, DropEffect DEF IInv, Types
<1>4. /\ \A q \in Requests \ {asked[t]} : request'[q] = request[q]
      /\ \/ request'[asked[t]].state = "free" /\ request[asked[t]].state # "reserved"
         \/ /\ request'[asked[t]] = request[asked[t]]
            /\ request[asked[t]].state \notin Outcomes
            /\ abandoned' = abandoned \cup {saved.id}
    <2>1. CASE request' = [request EXCEPT ![asked[t]] = Idle]
        BY <1>1, <2>1, DropEffect DEF IInv, Outcomes
    <2>2. CASE UNCHANGED request
        BY <2>2, DropEffect, <1>1 DEF IInv, Outcomes
    <2> QED
        BY <2>1, <2>2
<1>5. Types'
    BY <1>2, <1>3, ClientAssumption DEF IInv, Types
<1>6. \A u \in Tabs : TabInOrder(u)'
    BY <1>2, ClientAssumption DEF TabInOrder
<1>7. SavedInOrder'
    BY <1>1, <1>2 DEF IInv, SavedInOrder, OperationNotForgotten, HasQuote, HasJob
<1>8. \A q \in Requests : RequestInOrder(q)'
    <2> SUFFICES ASSUME NEW q \in Requests, request'[q].state # "free"
                 PROVE  RequestInOrder(q)'
        BY DEF RequestInOrder
    <2>1. /\ request'[q] = request[q] /\ request[q].state \notin Outcomes
          /\ request[q].key[1] \in abandoned'
        <3>1. request[asked[t]].key[1] = saved.id
            BY Asker DEF IInv, TabInOrder
        <3> QED
            BY <1>1, <1>4, <3>1
    <2> QED
        BY <2>1 DEF IInv, RequestInOrder, ResultKnown, HasQuote, HasJob, Outcomes
<1>9. RecordsInOrder'
    <2>1. ASSUME NEW k \in RequestKeys, owner[k] # NoRequest
          PROVE  request'[owner[k]] = request[owner[k]]
        BY <1>4, <2>1 DEF IInv, Types, RecordsInOrder
    <2> QED
        BY <2>1 DEF IInv, RecordsInOrder, HasQuote, HasJob, Recorded
<1>10. JobsKnown'
    BY <1>1, <1>2 DEF IInv, JobsKnown, Answered
<1> QED
    BY <1>5, <1>6, <1>7, <1>8, <1>9, <1>10 DEF IInv

LEMMA JobArrivesStep ==
    ASSUME IInv, NEW t \in Tabs, JobArrives(t)
    PROVE  IInv'
<1> DEFINE operation == [mem[t] EXCEPT !.phase = "complete", !.job = request[asked[t]].result]
<1>1. /\ tab[t] = "running" /\ mem[t].phase = "submit"
      /\ request[asked[t]].state = "ok"
      /\ Leave(t, operation)
      /\ request' = [request EXCEPT ![asked[t]] = Idle]
      /\ UNCHANGED <<serverVars, historyVars>>
    BY DEF JobArrives, Answered
<1>2. /\ asked[t] \in Requests /\ mem[t] = saved /\ saved \in OperationRecords
      /\ request[asked[t]] \in RequestRecords
      /\ request[asked[t]].key = KeyOf(saved)
      /\ KeyOf(saved)[1] = saved.id /\ KeyOf(saved)[2] = "generate"
    BY <1>1, Asker DEF IInv, TabInOrder
<1>3. HasJob(saved.id, request[asked[t]].result)
    BY <1>1, <1>2 DEF IInv, RequestInOrder, ResultKnown
<1>4. /\ operation \in OperationRecords
      /\ operation.id = saved.id /\ operation.quote = saved.quote
      /\ operation.phase = "complete" /\ operation.job = request[asked[t]].result
    BY <1>2 DEF OperationRecords, RequestRecords
<1> HIDE DEF operation
<1> QED
    BY <1>1, <1>2, <1>3, <1>4, RunningTabLeaves DEF historyVars, Outcomes

LEMMA RequestFailsStep ==
    ASSUME IInv, NEW t \in Tabs, RequestFails(t)
    PROVE  IInv'
<1>1. PICK outcome \in {"refused", "error"} : Answered(t, outcome) /\ Throw(t, outcome)
    BY DEF RequestFails
<1> DEFINE operation == IF outcome = "error" THEN saved ELSE [mem[t] EXCEPT !.phase = "failed"]
<1>2. /\ tab[t] = "running" /\ request[asked[t]].state = outcome
      /\ Leave(t, operation)
      /\ request' = [request EXCEPT ![asked[t]] = Idle]
      /\ UNCHANGED <<serverVars, historyVars>>
    BY <1>1 DEF RequestFails, Answered, Throw, IsTemporary
<1>3. /\ asked[t] \in Requests /\ mem[t] = saved /\ saved \in OperationRecords
      /\ request[asked[t]].key = KeyOf(saved)
      /\ KeyOf(saved)[1] = saved.id
    BY <1>2, Asker DEF IInv, TabInOrder
<1>4. outcome = "refused" => saved.id \in refused
    BY <1>2, <1>3 DEF IInv, RequestInOrder
<1>5. /\ operation \in OperationRecords
      /\ operation.id = saved.id /\ operation.quote = saved.quote
      /\ operation.phase = IF outcome = "error" THEN saved.phase ELSE "failed"
    BY <1>3 DEF OperationRecords
<1>6. ~Answered(t, "ok")
    BY <1>2 DEF Answered
<1> HIDE DEF operation
<1> QED
    BY <1>2, <1>3, <1>4, <1>5, <1>6, RunningTabLeaves DEF historyVars, Outcomes

LEMMA ConnectionLostStep ==
    ASSUME IInv, NEW t \in Tabs, ConnectionLost(t)
    PROVE  IInv'
<1>1. /\ tab[t] = "running"
      /\ Leave(t, saved)
      /\ abandoned' = abandoned \cup {mem[t].id}
      /\ \/ /\ request[asked[t]].state \in {"sent"} \cup Outcomes
            /\ request' = [request EXCEPT ![asked[t]] = Idle]
         \/ request[asked[t]].state \notin Outcomes /\ UNCHANGED request
      /\ UNCHANGED <<serverVars, begun, confirmed, refused>>
    BY DEF ConnectionLost, Throw, IsTemporary
<1>2. mem[t] = saved /\ saved \in OperationRecords
    BY <1>1, Asker
<1> QED
    BY <1>1, <1>2, RunningTabLeaves

LEMMA CloseTabStep ==
    ASSUME IInv, NEW t \in Tabs, CloseTab(t)
    PROVE  IInv'
<1>1. /\ tab[t] = "running"
      /\ Leave(t, saved)
      /\ abandoned' = abandoned \cup {mem[t].id}
      /\ request' = [request EXCEPT ![asked[t]] = IF @.state \in Outcomes THEN Idle ELSE @]
      /\ UNCHANGED <<serverVars, begun, confirmed, refused>>
    BY DEF CloseTab
<1>2. mem[t] = saved /\ saved \in OperationRecords /\ asked[t] \in Requests
    BY <1>1, Asker
<1>3. \/ /\ request[asked[t]].state \in {"sent"} \cup Outcomes
         /\ request' = [request EXCEPT ![asked[t]] = Idle]
      \/ request[asked[t]].state \notin Outcomes /\ UNCHANGED request
    BY <1>1, <1>2 DEF IInv, Types
<1> QED
    BY <1>1, <1>2, <1>3, RunningTabLeaves

\* A new operation starts when no tab runs, or an operation that did not settle goes on:
\* the requests that are still on their way belong to abandoned operations.
LEMMA RunBeginsStep ==
    ASSUME IInv, NEW t \in Tabs, RunBegins(t)
    PROVE  IInv'
<1> USE DEF serverVars, idempotencyVars
<1> DEFINE new == saved = NoOperation \/ tab[t] = "waitingNew"
           operation == IF new THEN NewOperation ELSE saved
<1>1. PICK r \in Requests : /\ SaveAndAsk(t, operation, r)
                            /\ request' = [request EXCEPT ![r] = Dispatched(operation)]
    BY DEF RunBegins
<1>2. /\ lock = NoTab /\ lock' = t
      /\ tab' = [tab EXCEPT ![t] = "running"]
      /\ UNCHANGED <<serverVars, abandoned, refused>>
      /\ IF new THEN /\ begun < MaxOperations
                     /\ begun' = begun + 1
                     /\ confirmed' = confirmed \cup {saved.id}
                ELSE /\ ~Settled(saved)
                     /\ UNCHANGED <<begun, confirmed>>
    BY DEF RunBegins, LockFree
<1>3. /\ request[r].state = "free"
      /\ saved' = operation
      /\ mem' = [mem EXCEPT ![t] = operation]
      /\ asked' = [asked EXCEPT ![t] = r]
    BY <1>1 DEF SaveAndAsk
<1>4. saved.id = begun /\ begun \in 0 .. MaxOperations /\ saved \in OperationRecords
      /\ MaxOperations \in Nat
    BY ClientAssumption DEF IInv, Types, SavedInOrder
<1>5. /\ operation \in OperationRecords
      /\ operation.id = begun' /\ begun' \in Operations
      /\ operation.phase \in {"quote", "submit"}
      /\ operation.phase = "quote" => operation.quote = NoResult
      /\ operation.phase = "submit" => ~new /\ HasQuote(operation.id, operation.quote)
    <2>1. CASE new
        BY <1>2, <1>4, <2>1, ClientAssumption DEF NewOperation, OperationRecords, Operations
    <2>2. CASE ~new
        BY <1>2, <1>4, <2>2, ClientAssumption
        DEF IInv, SavedInOrder, OperationRecords, Operations, Settled
    <2> QED
        BY <2>1, <2>2
<1> HIDE DEF operation
<1>6. \A u \in Tabs : tab[u] # "running" /\ asked[u] = NoRequest
    BY <1>2, ClientAssumption DEF IInv, TabInOrder
<1>7. /\ \A u \in Tabs \ {t} : tab'[u] # "running" /\ asked'[u] = NoRequest
      /\ tab'[t] = "running" /\ asked'[t] = r /\ mem'[t] = saved'
    BY <1>2, <1>3, <1>6 DEF IInv, Types
<1>8. /\ request'[r] = Dispatched(operation)
      /\ request' \in [Requests -> RequestRecords]
      /\ \A q \in Requests \ {r} : request'[q] = request[q]
      /\ request'[r].state = "sent"
      /\ request'[r].key = KeyOf(saved')
      /\ request'[r].body = saved'.quote
      /\ KeyOf(saved')[1] = saved'.id
      /\ KeyOf(saved')[2] = IF saved'.phase = "quote" THEN "quote" ELSE "generate"
    BY <1>1, <1>3, <1>5, DispatchEffect DEF IInv, Types
<1>9. Types'
    BY <1>2, <1>3, <1>5, <1>8 DEF IInv, Types, Operations
<1>10. \A u \in Tabs : TabInOrder(u)'
    BY <1>2, <1>3, <1>5, <1>7, <1>8, ClientAssumption, RequestsAssumption DEF TabInOrder, KeyOf
<1>11. SavedInOrder'
    <2>1. OperationNotForgotten'
        BY <1>2, <1>3, <1>4, <1>5 DEF IInv, SavedInOrder, OperationNotForgotten, Operations
    <2> QED
        BY <1>2, <1>3, <1>5, <2>1 DEF SavedInOrder, HasQuote, HasJob, Operations
<1>12. \A q \in Requests : RequestInOrder(q)'
    <2>1. RequestInOrder(r)'
        BY <1>2, <1>3, <1>5, <1>7, <1>8, ClientAssumption
        DEF RequestInOrder, ResultKnown, HasQuote, HasJob, Outcomes, Operations
    <2>2. ASSUME NEW q \in Requests \ {r} PROVE RequestInOrder(q)'
        <3>1. request[q].state # "free" =>
                 request[q].key[1] <= begun /\ request[q].key[1] \in Operations
            BY Keys DEF IInv, RequestInOrder, Types, RequestRecords
        <3>2. begun <= begun'
            BY <1>2, <1>4
        <3>3. request[q].state # "free" => request[q].key[1] <= begun'
            BY <3>1, <3>2, <1>4, <1>5 DEF Operations
        <3> QED
            BY <1>2, <1>6, <1>8, <3>3, RequestsAssumption
            DEF IInv, RequestInOrder, ResultKnown, HasQuote, HasJob
    <2> QED
        BY <2>1, <2>2
<1>13. RecordsInOrder'
    <2>1. ASSUME NEW k \in RequestKeys, owner[k] # NoRequest
          PROVE  request'[owner[k]] = request[owner[k]]
        BY <1>3, <1>8, <2>1 DEF IInv, Types, RecordsInOrder
    <2> QED
        BY <1>2, <2>1 DEF IInv, RecordsInOrder, HasQuote, HasJob, Recorded
<1>14. JobsKnown'
    <2> SUFFICES ASSUME NEW j \in DOMAIN jobs
                 PROVE  /\ jobs[j].operation <= begun'
                        /\ \/ jobs[j].operation # saved'.id
                           \/ jobs[j].operation \in abandoned
        BY <1>2 DEF JobsKnown
    <2>1. jobs[j].operation \in Operations /\ jobs[j].operation <= begun
        BY RowTypes DEF IInv, JobsKnown
    <2>2. CASE new
        BY <1>2, <1>3, <1>4, <1>5, <2>1, <2>2 DEF Operations
    <2>3. CASE ~new
        BY <1>2, <1>6, <2>1, <2>3, <1>3 DEF IInv, JobsKnown, Settled, Answered, operation
    <2> QED
        BY <2>2, <2>3
<1> QED
    BY <1>9, <1>10, <1>11, <1>12, <1>13, <1>14 DEF IInv

LEMMA QuoteArrivesStep ==
    ASSUME IInv, NEW t \in Tabs, QuoteArrives(t)
    PROVE  IInv'
<1> USE DEF serverVars, idempotencyVars, historyVars
<1> DEFINE a == asked[t]
           operation == [mem[t] EXCEPT !.phase = "submit", !.quote = request[a].result]
<1>1. PICK r \in Requests :
         /\ SaveAndAsk(t, operation, r)
         /\ request' = [request EXCEPT ![a] = Idle, ![r] = Dispatched(operation)]
    BY DEF QuoteArrives
<1>2. /\ tab[t] = "running" /\ mem[t].phase = "quote" /\ request[a].state = "ok"
      /\ UNCHANGED <<tab, lock, serverVars, historyVars>>
    BY DEF QuoteArrives, Answered
<1>3. /\ request[r].state = "free"
      /\ saved' = operation
      /\ mem' = [mem EXCEPT ![t] = operation]
      /\ asked' = [asked EXCEPT ![t] = r]
    BY <1>1 DEF SaveAndAsk
<1>4. /\ a \in Requests /\ a # r
      /\ mem[t] = saved /\ saved \in OperationRecords
      /\ request[a] \in RequestRecords
      /\ saved.id = begun /\ saved.id \in Operations
      /\ request[a].key[1] = saved.id /\ request[a].key[2] = "quote"
      /\ \A u \in Tabs \ {t} : tab[u] # "running" /\ asked[u] = NoRequest
      /\ \A q \in Requests \ {a} : request[q].state # "free" =>
            request[q].state \notin Outcomes /\ request[q].key[1] \in abandoned
    BY <1>2, <1>3, Asker DEF IInv, TabInOrder
<1>5. HasQuote(saved.id, request[a].result)
    BY <1>2, <1>4 DEF IInv, RequestInOrder, ResultKnown
<1>6. /\ operation \in OperationRecords
      /\ operation.id = saved.id /\ operation.phase = "submit"
      /\ operation.quote = request[a].result
    BY <1>4 DEF OperationRecords, RequestRecords
<1> HIDE DEF operation
<1>7. /\ request'[r] = Dispatched(operation)
      /\ request' \in [Requests -> RequestRecords]
      /\ \A q \in Requests \ {a, r} : request'[q] = request[q]
      /\ request'[a].state = "free"
      /\ request'[r].state = "sent"
      /\ request'[r].key = KeyOf(saved')
      /\ request'[r].body = saved'.quote
      /\ KeyOf(saved')[1] = saved'.id
      /\ KeyOf(saved')[2] = "generate"
    <2>1. Idle \in RequestRecords /\ Idle.state = "free"
        BY Keys, ClientAssumption DEF Idle, RequestRecords, Kinds
    <2>2. /\ Dispatched(operation) \in RequestRecords
          /\ Dispatched(operation).state = "sent"
          /\ Dispatched(operation).key = KeyOf(saved')
          /\ Dispatched(operation).body = saved'.quote
          /\ KeyOf(saved')[1] = saved'.id
          /\ KeyOf(saved')[2] = "generate"
        BY <1>3, <1>4, <1>6, DispatchEffect
    <2> QED
        BY <1>1, <1>4, <2>1, <2>2 DEF IInv, Types
<1>8. /\ asked'[t] = r /\ mem'[t] = saved'
      /\ \A u \in Tabs \ {t} : asked'[u] = NoRequest
    BY <1>3, <1>4 DEF IInv, Types
<1>9. Types'
    BY <1>2, <1>3, <1>6, <1>7 DEF IInv, Types
<1>10. \A u \in Tabs : TabInOrder(u)'
    BY <1>2, <1>3, <1>4, <1>6, <1>7, <1>8, RequestsAssumption DEF IInv, TabInOrder, KeyOf
<1>11. SavedInOrder'
    BY <1>2, <1>3, <1>4, <1>5, <1>6
    DEF IInv, SavedInOrder, OperationNotForgotten, HasQuote, HasJob
<1>12. \A q \in Requests : RequestInOrder(q)'
    <2>1. RequestInOrder(r)'
        BY <1>2, <1>3, <1>4, <1>5, <1>6, <1>7, <1>8
        DEF RequestInOrder, ResultKnown, HasQuote, HasJob, Outcomes, Operations
    <2>2. ASSUME NEW q \in Requests \ {a, r} PROVE RequestInOrder(q)'
        BY <1>2, <1>4, <1>7 DEF IInv, RequestInOrder, ResultKnown, HasQuote, HasJob
    <2> QED
        BY <1>7, <2>1, <2>2 DEF RequestInOrder
<1>13. RecordsInOrder'
    <2>1. ASSUME NEW k \in RequestKeys, owner[k] # NoRequest
          PROVE  request'[owner[k]] = request[owner[k]]
        <3>1. owner[k] \in Requests /\ request[owner[k]].state = "reserved"
            BY <2>1 DEF IInv, Types, RecordsInOrder
        <3> QED
            BY <1>2, <1>3, <1>7, <3>1
    <2> QED
        BY <1>2, <2>1 DEF IInv, RecordsInOrder, HasQuote, HasJob, Recorded
<1>14. JobsKnown'
    BY <1>2, <1>3, <1>4, <1>6 DEF IInv, JobsKnown
<1> QED
    BY <1>9, <1>10, <1>11, <1>12, <1>13, <1>14 DEF IInv

-----------------------------------------------------------------------------
(* The endpoints *)

\* Steps of the server for a request on its way: rows are added, an answer is kept for
\* the tab that waits, and nothing else happens to other requests.
LEMMA ServerKeeps ==
    ASSUME IInv, UNCHANGED browserVars, UNCHANGED <<begun, confirmed, abandoned>>,
           refused \subseteq refused',
           \A op, i : HasQuote(op, i) => HasQuote(op, i)',
           \A op, j : HasJob(op, j) => HasJob(op, j)',
           NEW r \in Requests, request[r].state \in {"sent", "new", "reserved"},
           \A q \in Requests \ {r} : request'[q] = request[q],
           \/ /\ request'[r].state = "free"
              /\ ~\E t \in Tabs : asked[t] = r
           \/ /\ request'[r].key = request[r].key
              /\ request'[r].body = request[r].body
              /\ request'[r].state # "free"
              /\ request'[r].state = "ok" => ResultKnown(request[r])'
              /\ request'[r].state = "refused" => request[r].key[1] \in refused'
              /\ request'[r].state = "reserved" => owner'[request[r].key] = r
              /\ request'[r].state \in Outcomes => \E t \in Tabs : asked[t] = r,
           \A k \in RequestKeys : \/ owner'[k] = owner[k]
                                  \/ owner[k] \in {r, NoRequest}
    PROVE  /\ \A t \in Tabs : TabInOrder(t)'
           /\ SavedInOrder'
           /\ \A q \in Requests : RequestInOrder(q)'
<1> USE DEF browserVars
<1>1. ASSUME NEW t \in Tabs PROVE TabInOrder(t)'
    <2>1. CASE tab[t] # "running"
        BY <2>1 DEF IInv, TabInOrder
    <2>2. CASE tab[t] = "running"
        <3>1. asked[t] \in Requests /\ request'[asked[t]].state # "free"
              /\ request'[asked[t]].key = request[asked[t]].key
              /\ request'[asked[t]].body = request[asked[t]].body
            BY <2>2, Asker DEF IInv, TabInOrder
        <3> QED
            BY <2>2, <3>1 DEF IInv, TabInOrder, KeyOf
    <2> QED
        BY <2>1, <2>2
<1>2. SavedInOrder'
    <2>1. /\ saved'.phase \in {"submit", "complete"} => HasQuote(saved.id, saved.quote)'
          /\ saved'.phase = "complete" => HasJob(saved.id, saved.job)'
        BY DEF IInv, SavedInOrder
    <2> QED
        BY <2>1 DEF IInv, SavedInOrder, OperationNotForgotten, HasQuote, HasJob
<1>3. ASSUME NEW q \in Requests \ {r} PROVE RequestInOrder(q)'
    <2> SUFFICES ASSUME request[q].state # "free" PROVE RequestInOrder(q)'
        BY DEF RequestInOrder
    <2>1. /\ request[q].key[2] = "generate" => HasQuote(request[q].key[1], request[q].body)'
          /\ request[q].state = "ok" => ResultKnown(request[q])'
        BY DEF IInv, RequestInOrder, ResultKnown
    <2>2. request[q].state = "reserved" => owner'[request[q].key] = q
        <3>1. request[q].key \in RequestKeys
            BY DEF IInv, Types, RequestRecords
        <3> QED
            BY <3>1, RequestsAssumption DEF IInv, RequestInOrder
    <2> QED
        BY <2>1, <2>2 DEF IInv, RequestInOrder, HasQuote
<1>4. RequestInOrder(r)'
    <2> SUFFICES ASSUME request'[r].state # "free" PROVE RequestInOrder(r)'
        BY DEF RequestInOrder
    <2>1. /\ request[r].key[2] = "generate" => HasQuote(request[r].key[1], request[r].body)'
          /\ request[r].key[1] <= begun
          /\ request[r].key[2] = "quote" => request[r].body = NoResult
          /\ request[r].key[1] \notin abandoned => \E t \in Tabs : asked[t] = r
        BY DEF IInv, RequestInOrder
    <2> QED
        BY <2>1 DEF RequestInOrder, HasQuote
<1> QED
    BY <1>1, <1>2, <1>3, <1>4

\* Without a new job, an answer that the browser was about to hear is not taken back.
LEMMA ServerKeepsJobs ==
    ASSUME IInv, UNCHANGED browserVars, UNCHANGED <<begun, abandoned, jobs>>,
           NEW r \in Requests, request[r].state \in {"sent", "new", "reserved"},
           \A q \in Requests \ {r} : request'[q] = request[q]
    PROVE  JobsKnown'
<1>1. \A t \in Tabs : Answered(t, "ok") => Answered(t, "ok")'
    BY DEF Answered, browserVars, IInv, Types, TabInOrder
<1> QED
    BY <1>1 DEF IInv, JobsKnown, browserVars

\* The records of the keys are left alone.
LEMMA ServerKeepsRecords ==
    ASSUME IInv, UNCHANGED <<quotes, jobs, record>>,
           NEW r \in Requests,
           \A q \in Requests \ {r} : request'[q] = request[q],
           \A k \in RequestKeys : owner'[k] # NoRequest =>
               \/ owner'[k] = owner[k] /\ owner[k] # r
               \/ /\ owner'[k] = r /\ ~Recorded(k)
                  /\ request'[r].state = "reserved" /\ request'[r].key = k
    PROVE  RecordsInOrder'
<1>1. ASSUME NEW k \in RequestKeys, owner'[k] # NoRequest
      PROVE  request'[owner'[k]].state = "reserved" /\ request'[owner'[k]].key = k /\ ~Recorded(k)
    BY <1>1 DEF IInv, Types, RecordsInOrder
<1> QED
    BY <1>1 DEF IInv, RecordsInOrder, HasQuote, HasJob, Recorded

\* The records give an operation at most one quote and one job.
LEMMA OneRowEach ==
    ASSUME IInv, NEW op
    PROVE  /\ \A i, j : HasQuote(op, i) /\ HasQuote(op, j) => i = j
           /\ \A i, j : HasJob(op, i) /\ HasJob(op, j) => i = j
<1>1. ASSUME NEW i, NEW j, HasQuote(op, i), HasQuote(op, j) PROVE i = j
    <2>1. /\ record[<<op, "quote">>] = [body |-> NoResult, result |-> i]
          /\ record[<<op, "quote">>] = [body |-> NoResult, result |-> j]
        BY <1>1 DEF IInv, RecordsInOrder, HasQuote
    <2> QED
        BY <2>1
<1>2. ASSUME NEW i, NEW j, HasJob(op, i), HasJob(op, j) PROVE i = j
    <2>1. /\ record[<<op, "generate">>] = [body |-> jobs[i].quote, result |-> i]
          /\ record[<<op, "generate">>] = [body |-> jobs[j].quote, result |-> j]
        BY <1>2 DEF IInv, RecordsInOrder, HasJob
    <2> QED
        BY <2>1
<1> QED
    BY <1>1, <1>2

\* A record is found with the body that the request has: every request of a key has the
\* same body, since an operation has one quote.
LEMMA NeverConflicts ==
    ASSUME IInv, NEW r \in Requests, request[r].state # "free", Recorded(request[r].key)
    PROVE  /\ Reusable(request[r].key, request[r].body)
           /\ LET k == request[r].key IN
              \/ k[2] = "quote" /\ HasQuote(k[1], record[k].result)
              \/ k[2] = "generate" /\ HasJob(k[1], record[k].result)
           /\ record[request[r].key].result \in Nat
<1> DEFINE k == request[r].key
<1>1. k \in RequestKeys /\ k = <<k[1], k[2]>> /\ k[1] \in Operations /\ k[2] \in Kinds
      /\ record[k].result \in Nat /\ Recorded(k)
    BY Keys DEF IInv, Types, RequestRecords
<1>2. /\ k[2] = "quote" => request[r].body = NoResult
      /\ k[2] = "generate" => HasQuote(k[1], request[r].body)
    BY DEF IInv, RequestInOrder
<1> HIDE DEF k
<1> SUFFICES /\ record[k].body = request[r].body
             /\ \/ k[2] = "quote" /\ HasQuote(k[1], record[k].result)
                \/ k[2] = "generate" /\ HasJob(k[1], record[k].result)
    BY <1>1 DEF Reusable, k
<1>3. CASE k[2] = "quote"
    <2>1. k = <<k[1], "quote">>
        BY <1>1, <1>3
    <2>2. \A op \in Operations : Recorded(<<op, "quote">>) =>
             HasQuote(op, record[<<op, "quote">>].result)
        BY DEF IInv, RecordsInOrder
    <2>3. HasQuote(k[1], record[k].result)
        BY <1>1, <2>1, <2>2
    <2>4. record[k] = [body |-> NoResult, result |-> record[k].result]
        BY <2>1, <2>3 DEF IInv, RecordsInOrder, HasQuote
    <2> QED
        BY <1>2, <1>3, <2>3, <2>4
<1>4. CASE k[2] = "generate"
    <2>1. k = <<k[1], "generate">>
        BY <1>1, <1>4
    <2>2. \A op \in Operations : Recorded(<<op, "generate">>) =>
             HasJob(op, record[<<op, "generate">>].result)
        BY DEF IInv, RecordsInOrder
    <2>3. HasJob(k[1], record[k].result)
        BY <1>1, <2>1, <2>2
    <2>4. HasQuote(k[1], record[k].body)
        <3>1. PICK j \in DOMAIN jobs : jobs[j].operation = k[1]
            BY <2>3 DEF HasJob
        <3>2. /\ HasQuote(k[1], jobs[j].quote)
              /\ record[k] = [body |-> jobs[j].quote, result |-> j]
            BY <2>1, <3>1 DEF IInv, RecordsInOrder
        <3> QED
            BY <3>2
    <2>5. record[k].body = request[r].body
        BY <1>2, <1>4, <2>4, OneRowEach
    <2> QED
        BY <1>4, <2>3, <2>5
<1> QED
    BY <1>1, <1>3, <1>4 DEF Kinds

LEMMA ReplayStep ==
    ASSUME IInv, NEW r \in Requests, request[r].state \in {"sent", "new"},
           ReplayOrConflict(r), UNCHANGED <<browserVars, historyVars>>
    PROVE  IInv'
<1> USE DEF serverVars, idempotencyVars
<1> DEFINE k == request[r].key
<1>1. /\ Recorded(k)
      /\ Reusable(k, request[r].body) => Reply(r, "ok", record[k].result)
      /\ UNCHANGED serverVars
    BY DEF ReplayOrConflict
<1>2. /\ Reply(r, "ok", record[k].result)
      /\ \/ k[2] = "quote" /\ HasQuote(k[1], record[k].result)
         \/ k[2] = "generate" /\ HasJob(k[1], record[k].result)
      /\ record[k].result \in Nat
    BY <1>1, NeverConflicts
<1>3. /\ request' \in [Requests -> RequestRecords]
      /\ \A q \in Requests \ {r} : request'[q] = request[q]
      /\ IF \E t \in Tabs : asked[t] = r
           THEN /\ request'[r].state = "ok"
                /\ request'[r].key = request[r].key
                /\ request'[r].body = request[r].body
                /\ request'[r].result = record[k].result
           ELSE request'[r].state = "free"
    BY <1>2, ReplyEffect DEF IInv, Outcomes
<1>4. Types'
    BY <1>1, <1>3 DEF IInv, Types, browserVars, historyVars
<1>5. /\ \A t \in Tabs : TabInOrder(t)'
      /\ SavedInOrder'
      /\ \A q \in Requests : RequestInOrder(q)'
    <2>1. /\ \A op, i : HasQuote(op, i) => HasQuote(op, i)'
          /\ \A op, j : HasJob(op, j) => HasJob(op, j)'
        BY <1>1 DEF HasQuote, HasJob
    <2>2. request'[r].state = "ok" => ResultKnown(request[r])'
        BY <1>1, <1>2, <1>3 DEF ResultKnown, HasQuote, HasJob
    <2> QED
        BY <1>1, <1>3, <2>1, <2>2, ServerKeeps DEF historyVars, Outcomes
<1>6. RecordsInOrder'
    BY <1>1, <1>3, ServerKeepsRecords DEF IInv, RecordsInOrder
<1>7. JobsKnown'
    BY <1>1, <1>3, ServerKeepsJobs DEF historyVars
<1> QED
    BY <1>4, <1>5, <1>6, <1>7 DEF IInv

LEMMA LookUpStep ==
    ASSUME IInv, NEW r \in Requests, LookUp(r)
    PROVE  IInv'
<1>1. CASE ReplayOrConflict(r)
    BY <1>1, ReplayStep DEF LookUp
<1>2. CASE ~Recorded(request[r].key) /\ Move(r, "new") /\ UNCHANGED serverVars
    <2> USE DEF serverVars, idempotencyVars
    <2>1. request[r].state = "sent" /\ UNCHANGED <<browserVars, historyVars>>
        BY DEF LookUp
    <2>2. /\ request' \in [Requests -> RequestRecords]
          /\ \A q \in Requests \ {r} : request'[q] = request[q]
          /\ request'[r].state = "new"
          /\ request'[r].key = request[r].key
          /\ request'[r].body = request[r].body
        BY <1>2, MoveEffect DEF IInv
    <2>3. Types'
        BY <1>2, <2>1, <2>2 DEF IInv, Types, browserVars, historyVars
    <2>4. /\ \A t \in Tabs : TabInOrder(t)'
          /\ SavedInOrder'
          /\ \A q \in Requests : RequestInOrder(q)'
        <3>1. /\ \A op, i : HasQuote(op, i) => HasQuote(op, i)'
              /\ \A op, j : HasJob(op, j) => HasJob(op, j)'
            BY <1>2 DEF HasQuote, HasJob
        <3> QED
            BY <1>2, <2>1, <2>2, <3>1, ServerKeeps DEF historyVars, Outcomes
    <2>5. RecordsInOrder'
        BY <1>2, <2>1, <2>2, ServerKeepsRecords DEF IInv, RecordsInOrder
    <2>6. JobsKnown'
        BY <1>2, <2>1, <2>2, ServerKeepsJobs DEF historyVars
    <2> QED
        BY <2>3, <2>4, <2>5, <2>6 DEF IInv
<1> QED
    BY <1>1, <1>2 DEF LookUp

LEMMA InsertStep ==
    ASSUME IInv, NEW r \in Requests, Insert(r)
    PROVE  IInv'
<1>1. CASE ReplayOrConflict(r)
    BY <1>1, ReplayStep DEF Insert
<1>2. CASE Reserve(r, request[r].key) /\ Move(r, "reserved") /\ UNCHANGED <<quotes, jobs>>
    <2>1. request[r].state = "new" /\ UNCHANGED <<browserVars, historyVars>>
        BY DEF Insert
    <2>2. /\ request' \in [Requests -> RequestRecords]
          /\ \A q \in Requests \ {r} : request'[q] = request[q]
          /\ request'[r].state = "reserved"
          /\ request'[r].key = request[r].key
          /\ request'[r].body = request[r].body
        BY <1>2, MoveEffect DEF IInv
    <2>3. /\ request[r].key \in RequestKeys
          /\ ~Recorded(request[r].key) /\ owner[request[r].key] = NoRequest
          /\ owner' = [owner EXCEPT ![request[r].key] = r]
          /\ UNCHANGED record
        BY <1>2 DEF Reserve, IInv, Types, RequestRecords
    <2>4. /\ owner' \in [RequestKeys -> Requests \cup {NoRequest}]
          /\ owner'[request[r].key] = r
          /\ \A k \in RequestKeys \ {request[r].key} : owner'[k] = owner[k]
        BY <2>3 DEF IInv, Types
    <2>5. Types'
        BY <1>2, <2>1, <2>2, <2>3, <2>4 DEF IInv, Types, browserVars, historyVars
    <2>6. /\ \A t \in Tabs : TabInOrder(t)'
          /\ SavedInOrder'
          /\ \A q \in Requests : RequestInOrder(q)'
        <3>1. /\ \A op, i : HasQuote(op, i) => HasQuote(op, i)'
              /\ \A op, j : HasJob(op, j) => HasJob(op, j)'
            BY <1>2 DEF HasQuote, HasJob
        <3>2. \A k \in RequestKeys : owner'[k] = owner[k] \/ owner[k] \in {r, NoRequest}
            BY <2>3, <2>4
        <3> QED
            BY <2>1, <2>2, <2>4, <3>1, <3>2, ServerKeeps DEF historyVars, Outcomes
    <2>7. RecordsInOrder'
        <3>1. ASSUME NEW k \in RequestKeys, owner'[k] # NoRequest
              PROVE  \/ owner'[k] = owner[k] /\ owner[k] # r
                     \/ /\ owner'[k] = r /\ ~Recorded(k)
                        /\ request'[r].state = "reserved" /\ request'[r].key = k
            BY <2>1, <2>2, <2>3, <2>4, <3>1 DEF IInv, RecordsInOrder
        <3> QED
            BY <1>2, <2>2, <2>3, <3>1, ServerKeepsRecords
    <2>8. JobsKnown'
        BY <1>2, <2>1, <2>2, ServerKeepsJobs DEF historyVars
    <2> QED
        BY <2>5, <2>6, <2>7, <2>8 DEF IInv
<1> QED
    BY <1>1, <1>2 DEF Insert

\* A request that fails or is refused leaves no row and no record.
LEMMA RollbackStep ==
    ASSUME IInv, NEW r \in Requests, request[r].state = "reserved",
           Rollback(r, request[r].key),
           NEW outcome \in {"refused", "error"}, Reply(r, outcome, NoResult),
           UNCHANGED <<browserVars, quotes, jobs, begun, confirmed, abandoned>>,
           refused \subseteq refused',
           outcome = "refused" => request[r].key[1] \in refused'
    PROVE  IInv'
<1>1. /\ request' \in [Requests -> RequestRecords]
      /\ \A q \in Requests \ {r} : request'[q] = request[q]
      /\ IF \E t \in Tabs : asked[t] = r
           THEN /\ request'[r].state = outcome
                /\ request'[r].key = request[r].key
                /\ request'[r].body = request[r].body
           ELSE request'[r].state = "free"
    BY ReplyEffect, ClientAssumption DEF IInv, Outcomes
<1>2. /\ request[r].key \in RequestKeys
      /\ owner[request[r].key] = r
      /\ owner' = [owner EXCEPT ![request[r].key] = NoRequest]
      /\ UNCHANGED record
    BY DEF Rollback, IInv, Types, RequestRecords, RequestInOrder
<1>3. /\ owner' \in [RequestKeys -> Requests \cup {NoRequest}]
      /\ owner'[request[r].key] = NoRequest
      /\ \A k \in RequestKeys \ {request[r].key} : owner'[k] = owner[k]
    BY <1>2 DEF IInv, Types
<1>4. Types'
    BY <1>1, <1>2, <1>3 DEF IInv, Types, browserVars
<1>5. /\ \A t \in Tabs : TabInOrder(t)'
      /\ SavedInOrder'
      /\ \A q \in Requests : RequestInOrder(q)'
    <2>1. /\ \A op, i : HasQuote(op, i) => HasQuote(op, i)'
          /\ \A op, j : HasJob(op, j) => HasJob(op, j)'
        BY DEF HasQuote, HasJob
    <2>2. \A k \in RequestKeys : owner'[k] = owner[k] \/ owner[k] \in {r, NoRequest}
        BY <1>2, <1>3
    <2> QED
        BY <1>1, <2>1, <2>2, ServerKeeps DEF Outcomes
<1>6. RecordsInOrder'
    <2>1. ASSUME NEW k \in RequestKeys, owner'[k] # NoRequest
          PROVE  owner'[k] = owner[k] /\ owner[k] # r
        BY <1>3, <2>1 DEF IInv, RecordsInOrder
    <2> QED
        BY <1>1, <1>2, <2>1, ServerKeepsRecords
<1>7. JobsKnown'
    BY <1>1, ServerKeepsJobs
<1> QED
    BY <1>4, <1>5, <1>6, <1>7 DEF IInv

LEMMA RefuseStep ==
    ASSUME IInv, NEW r \in Requests, Refuse(r)
    PROVE  IInv'
BY RollbackStep DEF Refuse

LEMMA ServerErrorStep ==
    ASSUME IInv, NEW r \in Requests, ServerError(r)
    PROVE  IInv'
BY RollbackStep DEF ServerError

\* The new quote is the only one of its operation, and its record names it.
LEMMA CreateGenerationQuoteStep ==
    ASSUME IInv, NEW r \in Requests, CreateGenerationQuote(r)
    PROVE  IInv'
<1> DEFINE k == request[r].key
           n == Len(quotes) + 1
<1>1. /\ request[r].state = "reserved" /\ k[2] = "quote"
      /\ UNCHANGED <<browserVars, jobs, historyVars>>
    BY DEF CreateGenerationQuote
<1>2. /\ k \in RequestKeys /\ k = <<k[1], k[2]>> /\ k[1] \in Operations
      /\ request[r].body = NoResult /\ NoResult \in Nat
      /\ owner[k] = r /\ ~Recorded(k)
    BY <1>1, Keys, ClientAssumption, RequestsAssumption
    DEF IInv, Types, RequestRecords, RequestInOrder, RecordsInOrder
<1>3. /\ quotes' \in Seq(Operations) /\ Len(quotes') = n /\ n \in Nat \ {0}
      /\ DOMAIN quotes' = DOMAIN quotes \cup {n} /\ n \notin DOMAIN quotes
      /\ \A i \in DOMAIN quotes : quotes'[i] = quotes[i]
      /\ quotes'[n] = k[1]
    BY <1>2, Appended DEF CreateGenerationQuote, IInv, Types
<1>4. /\ record' = [record EXCEPT ![k] = [body |-> NoResult, result |-> n]]
      /\ owner' = [owner EXCEPT ![k] = NoRequest]
      /\ Reply(r, "ok", n)
    BY <1>2, <1>3 DEF CreateGenerationQuote, Complete
<1> HIDE DEF n
<1>5. /\ request' \in [Requests -> RequestRecords]
      /\ \A q \in Requests \ {r} : request'[q] = request[q]
      /\ IF \E t \in Tabs : asked[t] = r
           THEN /\ request'[r].state = "ok"
                /\ request'[r].key = k
                /\ request'[r].body = request[r].body
                /\ request'[r].result = n
           ELSE request'[r].state = "free"
    BY <1>3, <1>4, ReplyEffect DEF IInv, Outcomes
<1> HIDE DEF k
<1>6. /\ owner' \in [RequestKeys -> Requests \cup {NoRequest}]
      /\ owner'[k] = NoRequest
      /\ \A l \in RequestKeys \ {k} : owner'[l] = owner[l]
      /\ record' \in [RequestKeys -> [body : Nat, result : Nat]]
      /\ record'[k] = [body |-> NoResult, result |-> n]
      /\ \A l \in RequestKeys \ {k} : record'[l] = record[l]
    BY <1>2, <1>3, <1>4 DEF IInv, Types
<1>7. Types'
    BY <1>1, <1>3, <1>5, <1>6 DEF IInv, Types, browserVars, historyVars
<1>8. /\ \A op, i : HasQuote(op, i) => HasQuote(op, i)'
      /\ \A op, j : HasJob(op, j) => HasJob(op, j)'
    BY <1>1, <1>3 DEF HasQuote, HasJob
<1>9. /\ \A t \in Tabs : TabInOrder(t)'
      /\ SavedInOrder'
      /\ \A q \in Requests : RequestInOrder(q)'
    <2>1. request'[r].state = "ok" => ResultKnown(request[r])'
        BY <1>1, <1>3, <1>5 DEF ResultKnown, HasQuote
    <2>2. \A l \in RequestKeys : owner'[l] = owner[l] \/ owner[l] \in {r, NoRequest}
        BY <1>2, <1>6
    <2> QED
        BY <1>1, <1>5, <1>8, <2>1, <2>2, ServerKeeps DEF historyVars, Outcomes, k
<1>10. RecordsInOrder'
    <2>1. ASSUME NEW l \in RequestKeys, owner'[l] # NoRequest
          PROVE  request'[owner'[l]].state = "reserved" /\ request'[owner'[l]].key = l
                 /\ ~Recorded(l)'
        <3>1. l # k /\ owner'[l] = owner[l] /\ record'[l] = record[l]
            BY <1>6, <2>1
        <3>2. owner[l] \in Requests \ {r}
            BY <2>1, <3>1 DEF IInv, Types, RecordsInOrder, k
        <3> QED
            BY <1>5, <2>1, <3>1, <3>2 DEF IInv, RecordsInOrder, Recorded
    <2>2. ASSUME NEW i \in DOMAIN quotes'
          PROVE  record'[<<quotes'[i], "quote">>] = [body |-> NoResult, result |-> i]
        <3>1. CASE i = n
            BY <1>1, <1>2, <1>3, <1>6, <3>1 DEF k
        <3>2. CASE i \in DOMAIN quotes
            <4>1. record[<<quotes[i], "quote">>] = [body |-> NoResult, result |-> i]
                BY <3>2 DEF IInv, RecordsInOrder
            <4>2. i \in Nat \ {0} /\ quotes[i] \in Operations
                BY <3>2, RowTypes DEF IInv
            <4>3. Recorded(<<quotes[i], "quote">>)
                BY <4>1, <4>2, ClientAssumption DEF Recorded, NoRecord
            <4>4. <<quotes[i], "quote">> \in RequestKeys \ {k}
                BY <1>2, <4>2, <4>3, Keys DEF Kinds
            <4> QED
                BY <1>3, <1>6, <3>2, <4>1, <4>4
        <3> QED
            BY <1>3, <3>1, <3>2
    <2>3. \A op \in Operations : <<op, "generate">> \in RequestKeys \ {k}
        BY <1>1, <1>2, Keys DEF Kinds, k
    <2>4. ASSUME NEW j \in DOMAIN jobs'
          PROVE  /\ HasQuote(jobs[j].operation, jobs[j].quote)'
                 /\ record'[<<jobs'[j].operation, "generate">>] =
                       [body |-> jobs'[j].quote, result |-> j]
        <3>1. j \in DOMAIN jobs /\ jobs' = jobs /\ jobs[j].operation \in Operations
            BY <1>1, RowTypes DEF IInv
        <3> QED
            BY <1>6, <1>8, <2>3, <3>1 DEF IInv, RecordsInOrder
    <2>5. ASSUME NEW op \in Operations, record'[<<op, "quote">>] # NoRecord
          PROVE  HasQuote(op, record[<<op, "quote">>].result)'
        <3>1. CASE <<op, "quote">> = k
            <4>1. op = k[1]
                BY <3>1
            <4>2. record'[<<op, "quote">>].result = n
                BY <1>6, <3>1
            <4> QED
                BY <1>3, <4>1, <4>2 DEF HasQuote
        <3>2. CASE <<op, "quote">> # k
            <4>1. <<op, "quote">> \in RequestKeys \ {k}
                BY <3>2, Keys DEF Kinds
            <4>2. /\ record'[<<op, "quote">>] = record[<<op, "quote">>]
                  /\ HasQuote(op, record[<<op, "quote">>].result)
                BY <1>6, <2>5, <4>1 DEF IInv, RecordsInOrder, Recorded
            <4> QED
                BY <1>3, <4>2 DEF HasQuote
        <3> QED
            BY <3>1, <3>2
    <2>6. ASSUME NEW op \in Operations, record'[<<op, "generate">>] # NoRecord
          PROVE  HasJob(op, record[<<op, "generate">>].result)'
        <3>1. /\ record'[<<op, "generate">>] = record[<<op, "generate">>]
              /\ HasJob(op, record[<<op, "generate">>].result)
            BY <1>6, <2>3, <2>6 DEF IInv, RecordsInOrder, Recorded
        <3> QED
            BY <1>1, <3>1 DEF HasJob
    <2> QED
        BY <2>1, <2>2, <2>4, <2>5, <2>6 DEF RecordsInOrder, Recorded
<1>11. JobsKnown'
    BY <1>1, <1>5, ServerKeepsJobs DEF historyVars
<1> QED
    BY <1>7, <1>9, <1>10, <1>11 DEF IInv

\* The new job is the only one of its operation; and the tab of an operation that was not
\* abandoned waits for it.
LEMMA GenerateStep ==
    ASSUME IInv, NEW r \in Requests, Generate(r)
    PROVE  IInv'
<1> DEFINE k == request[r].key
           n == Len(jobs) + 1
           row == [operation |-> k[1], quote |-> request[r].body]
<1>1. /\ request[r].state = "reserved" /\ k[2] = "generate"
      /\ UNCHANGED <<browserVars, quotes, historyVars>>
    BY DEF Generate
<1>2. /\ k \in RequestKeys /\ k = <<k[1], k[2]>> /\ k[1] \in Operations
      /\ HasQuote(k[1], request[r].body) /\ request[r].body \in Nat
      /\ owner[k] = r /\ ~Recorded(k)
      /\ k[1] <= begun
    BY <1>1, Keys, RequestsAssumption
    DEF IInv, Types, RequestRecords, RequestInOrder, RecordsInOrder
<1>3. /\ jobs' \in Seq([operation : Operations, quote : Nat])
      /\ Len(jobs') = n /\ n \in Nat \ {0}
      /\ DOMAIN jobs' = DOMAIN jobs \cup {n} /\ n \notin DOMAIN jobs
      /\ \A j \in DOMAIN jobs : jobs'[j] = jobs[j]
      /\ jobs'[n] = row
    <2>1. row \in [operation : Operations, quote : Nat]
        BY <1>2
    <2>2. jobs' = Append(jobs, row) /\ jobs \in Seq([operation : Operations, quote : Nat])
        BY DEF Generate, IInv, Types
    <2> HIDE DEF row
    <2> QED
        BY <2>1, <2>2, Appended
<1>4. /\ record' = [record EXCEPT ![k] = [body |-> request[r].body, result |-> n]]
      /\ owner' = [owner EXCEPT ![k] = NoRequest]
      /\ Reply(r, "ok", n)
    BY <1>3 DEF Generate, Complete
<1> HIDE DEF n
<1>5. /\ request' \in [Requests -> RequestRecords]
      /\ \A q \in Requests \ {r} : request'[q] = request[q]
      /\ IF \E t \in Tabs : asked[t] = r
           THEN /\ request'[r].state = "ok"
                /\ request'[r].key = k
                /\ request'[r].body = request[r].body
                /\ request'[r].result = n
           ELSE request'[r].state = "free"
    BY <1>3, <1>4, ReplyEffect DEF IInv, Outcomes
<1> HIDE DEF k
<1>6. /\ owner' \in [RequestKeys -> Requests \cup {NoRequest}]
      /\ owner'[k] = NoRequest
      /\ \A l \in RequestKeys \ {k} : owner'[l] = owner[l]
      /\ record' \in [RequestKeys -> [body : Nat, result : Nat]]
      /\ record'[k] = [body |-> request[r].body, result |-> n]
      /\ \A l \in RequestKeys \ {k} : record'[l] = record[l]
    BY <1>2, <1>3, <1>4 DEF IInv, Types
<1>7. Types'
    BY <1>1, <1>3, <1>5, <1>6 DEF IInv, Types, browserVars, historyVars
<1>8. /\ \A op, i : HasQuote(op, i) => HasQuote(op, i)'
      /\ \A op, j : HasJob(op, j) => HasJob(op, j)'
    BY <1>1, <1>3 DEF HasQuote, HasJob
<1>9. /\ \A t \in Tabs : TabInOrder(t)'
      /\ SavedInOrder'
      /\ \A q \in Requests : RequestInOrder(q)'
    <2>1. request'[r].state = "ok" => ResultKnown(request[r])'
        BY <1>1, <1>3, <1>5 DEF ResultKnown, HasJob
    <2>2. \A l \in RequestKeys : owner'[l] = owner[l] \/ owner[l] \in {r, NoRequest}
        BY <1>2, <1>6
    <2> QED
        BY <1>1, <1>5, <1>8, <2>1, <2>2, ServerKeeps DEF historyVars, Outcomes, k
<1>10. RecordsInOrder'
    <2>1. ASSUME NEW l \in RequestKeys, owner'[l] # NoRequest
          PROVE  request'[owner'[l]].state = "reserved" /\ request'[owner'[l]].key = l
                 /\ ~Recorded(l)'
        <3>1. l # k /\ owner'[l] = owner[l] /\ record'[l] = record[l]
            BY <1>6, <2>1
        <3>2. owner[l] \in Requests \ {r}
            BY <2>1, <3>1 DEF IInv, Types, RecordsInOrder, k
        <3> QED
            BY <1>5, <2>1, <3>1, <3>2 DEF IInv, RecordsInOrder, Recorded
    <2>2. ASSUME NEW j \in DOMAIN jobs'
          PROVE  /\ HasQuote(jobs[j].operation, jobs[j].quote)'
                 /\ record'[<<jobs'[j].operation, "generate">>] =
                       [body |-> jobs'[j].quote, result |-> j]
        <3>1. CASE j = n
            <4>1. jobs'[j].operation = k[1] /\ jobs'[j].quote = request[r].body
                BY <1>3, <3>1
            <4>2. k = <<k[1], "generate">>
                BY <1>1, <1>2 DEF k
            <4>3. record'[<<k[1], "generate">>] = [body |-> request[r].body, result |-> n]
                BY <1>6, <4>2
            <4>4. HasQuote(jobs[j].operation, jobs[j].quote)'
                BY <1>1, <1>2, <4>1 DEF HasQuote
            <4> QED
                BY <3>1, <4>1, <4>3, <4>4
        <3>2. CASE j \in DOMAIN jobs
            <4>1. /\ record[<<jobs[j].operation, "generate">>] =
                        [body |-> jobs[j].quote, result |-> j]
                  /\ HasQuote(jobs[j].operation, jobs[j].quote)
                BY <3>2 DEF IInv, RecordsInOrder
            <4>2. j \in Nat \ {0} /\ jobs[j].operation \in Operations
                BY <3>2, RowTypes DEF IInv
            <4>3. Recorded(<<jobs[j].operation, "generate">>)
                BY <4>1, <4>2, ClientAssumption DEF Recorded, NoRecord
            <4>4. <<jobs[j].operation, "generate">> \in RequestKeys \ {k}
                BY <1>2, <4>2, <4>3, Keys DEF Kinds
            <4>5. jobs'[j] = jobs[j]
                BY <1>3, <3>2
            <4>6. record'[<<jobs[j].operation, "generate">>] =
                        record[<<jobs[j].operation, "generate">>]
                BY <1>6, <4>4
            <4> QED
                BY <1>1, <4>1, <4>5, <4>6 DEF HasQuote
        <3> QED
            BY <1>3, <3>1, <3>2
    <2>3. \A op \in Operations : <<op, "quote">> \in RequestKeys \ {k}
        BY <1>1, <1>2, Keys DEF Kinds, k
    <2>4. ASSUME NEW i \in DOMAIN quotes'
          PROVE  record'[<<quotes'[i], "quote">>] = [body |-> NoResult, result |-> i]
        <3>1. i \in DOMAIN quotes /\ quotes' = quotes /\ quotes[i] \in Operations
            BY <1>1, RowTypes DEF IInv
        <3> QED
            BY <1>6, <2>3, <3>1 DEF IInv, RecordsInOrder
    <2>5. ASSUME NEW op \in Operations, record'[<<op, "generate">>] # NoRecord
          PROVE  HasJob(op, record[<<op, "generate">>].result)'
        <3>1. CASE <<op, "generate">> = k
            <4>1. op = k[1]
                BY <3>1
            <4>2. record'[<<op, "generate">>].result = n
                BY <1>6, <3>1
            <4> QED
                BY <1>3, <4>1, <4>2 DEF HasJob
        <3>2. CASE <<op, "generate">> # k
            <4>1. <<op, "generate">> \in RequestKeys \ {k}
                BY <3>2, Keys DEF Kinds
            <4>2. /\ record'[<<op, "generate">>] = record[<<op, "generate">>]
                  /\ HasJob(op, record[<<op, "generate">>].result)
                BY <1>6, <2>5, <4>1 DEF IInv, RecordsInOrder, Recorded
            <4> QED
                BY <1>3, <4>2 DEF HasJob
        <3> QED
            BY <3>1, <3>2
    <2>6. ASSUME NEW op \in Operations, record'[<<op, "quote">>] # NoRecord
          PROVE  HasQuote(op, record[<<op, "quote">>].result)'
        <3>1. /\ record'[<<op, "quote">>] = record[<<op, "quote">>]
              /\ HasQuote(op, record[<<op, "quote">>].result)
            BY <1>6, <2>3, <2>6 DEF IInv, RecordsInOrder, Recorded
        <3> QED
            BY <1>1, <3>1 DEF HasQuote
    <2> QED
        BY <2>1, <2>2, <2>4, <2>5, <2>6 DEF RecordsInOrder, Recorded
<1>11. JobsKnown'
    <2>1. \A t \in Tabs : Answered(t, "ok") => Answered(t, "ok")'
        BY <1>1, <1>5 DEF Answered, browserVars, IInv, Types, TabInOrder
    <2>2. \/ k[1] # saved.id
          \/ k[1] \in abandoned
          \/ saved.phase = "submit" /\ \E t \in Tabs : Answered(t, "ok")'
        <3> SUFFICES ASSUME k[1] = saved.id, k[1] \notin abandoned
                     PROVE  saved.phase = "submit" /\ \E t \in Tabs : Answered(t, "ok")'
            OBVIOUS
        <3>1. PICK t \in Tabs : asked[t] = r
            BY <1>1 DEF IInv, RequestInOrder, k
        <3>2. tab[t] = "running" /\ k = KeyOf(saved)
            BY <3>1, RequestsAssumption DEF IInv, TabInOrder, k
        <3>3. saved.phase = "submit"
            BY <1>1, <3>2, Asker DEF k
        <3>4. Answered(t, "ok")'
            BY <1>1, <1>5, <3>1, <3>2 DEF Answered, browserVars
        <3> QED
            BY <3>3, <3>4
    <2>3. ASSUME NEW j \in DOMAIN jobs'
          PROVE  /\ jobs'[j].operation <= begun
                 /\ \/ jobs'[j].operation # saved.id
                    \/ jobs'[j].operation \in abandoned
                    \/ saved.phase = "complete"
                    \/ saved.phase = "submit" /\ \E t \in Tabs : Answered(t, "ok")'
        <3>1. CASE j = n
            BY <1>2, <1>3, <2>2, <3>1 DEF k
        <3>2. CASE j \in DOMAIN jobs
            BY <1>3, <2>1, <3>2 DEF IInv, JobsKnown
        <3> QED
            BY <1>3, <3>1, <3>2
    <2> QED
        BY <1>1, <2>3 DEF JobsKnown, browserVars, historyVars
<1> QED
    BY <1>7, <1>9, <1>10, <1>11 DEF IInv

-----------------------------------------------------------------------------
(* Every step, and what follows *)

LEMMA StepInvariant == IInv /\ [RequestsNext]_requestVars => IInv'
<1> SUFFICES ASSUME IInv, [RequestsNext]_requestVars PROVE IInv'
    OBVIOUS
<1>1. CASE UNCHANGED requestVars
    <2> USE <1>1 DEF requestVars, browserVars, serverVars, idempotencyVars, historyVars
    <2>1. Types' /\ \A t \in Tabs : TabInOrder(t)'
        BY DEF IInv, Types, TabInOrder, KeyOf
    <2>2. SavedInOrder' /\ JobsKnown'
        BY DEF IInv, SavedInOrder, OperationNotForgotten, HasQuote, HasJob, JobsKnown, Answered
    <2>3. \A q \in Requests : RequestInOrder(q)'
        BY DEF IInv, RequestInOrder, ResultKnown, HasQuote, HasJob
    <2>4. RecordsInOrder'
        BY DEF IInv, RecordsInOrder, HasQuote, HasJob, Recorded
    <2> QED
        BY <2>1, <2>2, <2>3, <2>4 DEF IInv
<1>2. ASSUME NEW t \in Tabs,
             \/ Click(t) \/ Reload(t) \/ TabStep(t) \/ ConnectionLost(t) \/ CloseTab(t)
      PROVE  IInv'
    BY <1>2, ClickStep, ReloadStep, RunReturnsStep, RunBeginsStep, QuoteArrivesStep,
       JobArrivesStep, RequestFailsStep, ConnectionLostStep, CloseTabStep DEF TabStep
<1>3. ASSUME NEW r \in Requests, ServerStep(r) \/ ServerError(r)
      PROVE  IInv'
    BY <1>3, LookUpStep, InsertStep, CreateGenerationQuoteStep, GenerateStep, RefuseStep,
       ServerErrorStep DEF ServerStep
<1> QED
    BY <1>1, <1>2, <1>3 DEF RequestsNext

LEMMA Invariance == RequestsSpec => []IInv
BY InitInvariant, StepInvariant, PTL DEF RequestsSpec

(* However often the browser repeats its requests, an operation has one quote and at most
   one job; a completed operation names its job, and a failed one has none, unless a
   request that nobody waited for succeeded after another one was refused
   (application_generations.py, generation-operation.ts). *)
THEOREM OutcomesAreKnown == RequestsSpec => []OutcomeKnown
<1>1. ASSUME IInv PROVE OutcomeKnown
    <2>1. \A i, j \in DOMAIN quotes : quotes[i] = quotes[j] => i = j
        BY <1>1, OneRowEach DEF HasQuote
    <2>2. \A i, j \in DOMAIN jobs : jobs[i].operation = jobs[j].operation => i = j
        BY <1>1, OneRowEach DEF HasJob
    <2>3. saved.phase = "complete" => HasJob(saved.id, saved.job)
        BY <1>1 DEF IInv, SavedInOrder
    <2>4. ASSUME saved.phase = "failed", saved.id \notin abandoned \cap refused
          PROVE  \A j \in DOMAIN jobs : jobs[j].operation # saved.id
        BY <1>1, <2>4 DEF IInv, SavedInOrder, JobsKnown
    <2> QED
        BY <2>1, <2>2, <2>3, <2>4 DEF OutcomeKnown, HasJob
<1> QED
    BY <1>1, Invariance, PTL

(* No tab overwrites the operation of another: an operation leaves the storage of the
   browser only after it has settled (generation-operation.ts, startNew under the Web
   Lock). *)
THEOREM OperationsAreNotForgotten == RequestsSpec => []OperationNotForgotten
<1>1. IInv => OperationNotForgotten
    BY DEF IInv, SavedInOrder
<1> QED
    BY <1>1, Invariance, PTL

=============================================================================
