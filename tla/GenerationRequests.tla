------------------------- MODULE GenerationRequests -------------------------
(***************************************************************************)
(* One user and one shot: browser tabs that ask for a generation           *)
(* (apps/web/app/utils/generation-operation.ts, api-client.ts,             *)
(* api-error.ts, pages/projects/[id]/shots/[shot_id].vue) and the          *)
(* endpoints that answer them (apps/api/app/application_billing.py,        *)
(* application_generations.py).                                            *)
(*                                                                         *)
(* An operation is a quote and then a job, each asked for under a key that *)
(* is made from the operation's id; the browser's storage keeps the        *)
(* operation over reloads, and a Web Lock lets one tab run at a time.  A   *)
(* request can outlive the tab that sent it, or the connection.            *)
(***************************************************************************)
EXTENDS Idempotency, Sequences

CONSTANTS
    Tabs, NoTab,
    MaxOperations,   \* bound: operations the user starts
    MaxFaults        \* bound: lost answers, server errors and closed tabs, together

Operations == 1 .. MaxOperations
Kinds == {"quote", "generate"}

ASSUME ClientAssumption ==
    /\ RequestKeys = Operations \X Kinds
    /\ NoTab \notin Tabs
    /\ NoResult = 0
    /\ MaxOperations \in Nat \ {0}
    /\ MaxFaults \in Nat

VARIABLES
    saved,       \* the operation in localStorage
    tab, lock,   \* what each tab does; the Web Lock of the operation's key
    offersNew,   \* tabs with the button of startNew: their page saw a settled operation
    mem, asked,  \* the operation a tab works on, and the request it waits for
    request,     \* the requests on their way
    quotes, jobs,           \* rows: the operation each was made for
    begun, confirmed, abandoned, refused, faults
        \* operations started, settled before the next one, with a request nobody waits
        \* for any more, and with a request that was refused

browserVars == <<saved, tab, lock, offersNew, mem, asked>>
serverVars == <<quotes, jobs, idempotencyVars>>
historyVars == <<begun, confirmed, abandoned, refused, faults>>
requestVars == <<browserVars, request, serverVars, historyVars>>

NoOperation == [id |-> 0, phase |-> "none", quote |-> NoResult, job |-> NoResult]
NewOperation == [id |-> begun + 1, phase |-> "quote", quote |-> NoResult, job |-> NoResult]

Idle == [state |-> "free", key |-> <<1, "quote">>, body |-> NoResult, result |-> NoResult]

RequestsInit ==
    /\ saved = NoOperation
    /\ tab = [t \in Tabs |-> "idle"]
    /\ lock = NoTab
    /\ offersNew = {}
    /\ mem = [t \in Tabs |-> NoOperation]
    /\ asked = [t \in Tabs |-> NoRequest]
    /\ request = [r \in Requests |-> Idle]
    /\ quotes = <<>> /\ jobs = <<>>
    /\ IdempotencyInit
    /\ begun = 0 /\ confirmed = {} /\ abandoned = {} /\ refused = {} /\ faults = 0

Fault == faults < MaxFaults /\ faults' = faults + 1

Settled(operation) == operation.phase \in {"none", "complete", "failed"}

-----------------------------------------------------------------------------
(* The tabs *)

\* The key and the body of a request are functions of the operation's phase.
Dispatched(operation) ==
    [state |-> "sent",
     key |-> <<operation.id, IF operation.phase = "quote" THEN "quote" ELSE "generate">>,
     body |-> operation.quote,
     result |-> NoResult]

\* save, then request: the requests that tab t made before are over.
SaveAndAsk(t, operation, r) ==
    /\ request[r].state = "free"
    /\ saved' = operation
    /\ mem' = [mem EXCEPT ![t] = operation]
    /\ asked' = [asked EXCEPT ![t] = r]

\* The page reads the storage when it is mounted and after each run.
Look(t, operation) ==
    offersNew' = IF operation.phase \in {"complete", "failed"}
                   THEN offersNew \cup {t}
                   ELSE offersNew \ {t}

\* run returns or throws, which releases the lock, with this operation in the storage.
Leave(t, operation) ==
    /\ tab' = [tab EXCEPT ![t] = "idle"]
    /\ lock' = IF lock = t THEN NoTab ELSE lock
    /\ mem' = [mem EXCEPT ![t] = NoOperation]
    /\ asked' = [asked EXCEPT ![t] = NoRequest]
    /\ saved' = operation
    /\ Look(t, operation)

Reload(t) ==
    /\ tab[t] = "idle"
    /\ Look(t, saved)
    /\ UNCHANGED <<saved, tab, lock, mem, asked, request, serverVars, historyVars>>

\* generate(startNew) waits for the lock.
Click(t) ==
    /\ tab[t] = "idle"
    /\ t \in offersNew => begun < MaxOperations
    /\ tab' = [tab EXCEPT ![t] = IF t \in offersNew THEN "waitingNew" ELSE "waiting"]
    /\ UNCHANGED <<saved, lock, offersNew, mem, asked, request, serverVars, historyVars>>

LockFree_Always(t) == TRUE

LockFree(t) == lock = NoTab

\* startNew throws, and so does run for an operation that has failed; run returns the
\* job of a completed one.
RunReturns(t) ==
    /\ LockFree(t)
    /\ \/ tab[t] = "waitingNew" /\ ~Settled(saved)
       \/ tab[t] = "waiting" /\ saved.phase \in {"complete", "failed"}
    /\ Leave(t, saved)
    /\ UNCHANGED <<request, serverVars, historyVars>>

\* startNew and resume, up to the first await.
RunBegins(t) ==
    /\ LockFree(t)
    /\ LET new == saved = NoOperation \/ tab[t] = "waitingNew"
           operation == IF new THEN NewOperation ELSE saved IN
       /\ IF new
            THEN /\ tab[t] \in {"waiting", "waitingNew"} /\ Settled(saved)
                 /\ begun < MaxOperations
                 /\ begun' = begun + 1
                 /\ confirmed' = confirmed \cup {saved.id}
            ELSE /\ tab[t] = "waiting" /\ ~Settled(saved)
                 /\ UNCHANGED <<begun, confirmed>>
       /\ \E r \in Requests : /\ SaveAndAsk(t, operation, r)
                              /\ request' = [request EXCEPT ![r] = Dispatched(operation)]
    /\ lock' = t
    /\ tab' = [tab EXCEPT ![t] = "running"]
    /\ UNCHANGED <<offersNew, serverVars, abandoned, refused, faults>>

\* The outcome of the request that tab t waits for is known: a result, or an error.
Outcomes == {"ok", "refused", "error"}
Answered(t, outcome) == tab[t] = "running" /\ request[asked[t]].state = outcome

\* The quote has arrived: it is saved before the job is asked for.
QuoteArrives(t) ==
    /\ Answered(t, "ok")
    /\ mem[t].phase = "quote"
    /\ LET operation == [mem[t] EXCEPT !.phase = "submit", !.quote = request[asked[t]].result] IN
       \E r \in Requests :
          /\ SaveAndAsk(t, operation, r)
          /\ request' = [request EXCEPT ![asked[t]] = Idle, ![r] = Dispatched(operation)]
    /\ UNCHANGED <<tab, lock, offersNew, serverVars, historyVars>>

JobArrives(t) ==
    /\ Answered(t, "ok")
    /\ mem[t].phase = "submit"
    /\ Leave(t, [mem[t] EXCEPT !.phase = "complete", !.job = request[asked[t]].result])
    /\ request' = [request EXCEPT ![asked[t]] = Idle]
    /\ UNCHANGED <<serverVars, historyVars>>

\* isTemporaryError, and the statuses 401 and 403: the operation stays as it is.
IsTemporary_Never(outcome) == FALSE

IsTemporary(outcome) == outcome = "error"

Throw(t, outcome) ==
    Leave(t, IF IsTemporary(outcome) THEN saved ELSE [mem[t] EXCEPT !.phase = "failed"])

RequestFails(t) ==
    /\ \E outcome \in {"refused", "error"} : Answered(t, outcome) /\ Throw(t, outcome)
    /\ request' = [request EXCEPT ![asked[t]] = Idle]
    /\ UNCHANGED <<serverVars, historyVars>>

\* The connection breaks while the request or its answer is on the way.
ConnectionLost(t) ==
    /\ tab[t] = "running"
    /\ Fault
    /\ Throw(t, "error")
    /\ abandoned' = abandoned \cup {mem[t].id}
    /\ \/ /\ request[asked[t]].state \in {"sent"} \cup Outcomes
          /\ request' = [request EXCEPT ![asked[t]] = Idle]
       \/ /\ request[asked[t]].state \notin Outcomes
          /\ UNCHANGED request
    /\ UNCHANGED <<serverVars, begun, confirmed, refused>>

\* The tab is closed or reloaded, and its lock with it.
CloseTab(t) ==
    /\ tab[t] = "running"
    /\ Fault
    /\ abandoned' = abandoned \cup {mem[t].id}
    /\ request' = [request EXCEPT ![asked[t]] = IF @.state \in Outcomes THEN Idle ELSE @]
    /\ Leave(t, saved)
    /\ UNCHANGED <<serverVars, begun, confirmed, refused>>

-----------------------------------------------------------------------------
(* The endpoints *)

\* The answer to a request that nobody waits for is lost.
Reply(r, outcome, result) ==
    request' = [request EXCEPT ![r] =
                  IF \E t \in Tabs : asked[t] = r
                    THEN [@ EXCEPT !.state = outcome, !.result = result]
                    ELSE Idle]

Move(r, state) == request' = [request EXCEPT ![r].state = state]

ReplayOrConflict(r) ==
    LET k == request[r].key IN
    /\ Recorded(k)
    /\ IF Reusable(k, request[r].body)
         THEN Reply(r, "ok", record[k].result)
         ELSE Reply(r, "refused", NoResult)
    /\ UNCHANGED serverVars

\* acquire: the record is looked up,
LookUp(r) ==
    /\ request[r].state = "sent"
    /\ \/ ReplayOrConflict(r)
       \/ ~Recorded(request[r].key) /\ Move(r, "new") /\ UNCHANGED serverVars
    /\ UNCHANGED <<browserVars, historyVars>>

\* and inserted; a duplicate is looked up again.
Insert(r) ==
    /\ request[r].state = "new"
    /\ \/ ReplayOrConflict(r)
       \/ Reserve(r, request[r].key) /\ Move(r, "reserved") /\ UNCHANGED <<quotes, jobs>>
    /\ UNCHANGED <<browserVars, historyVars>>

CreateGenerationQuote(r) ==
    /\ request[r].state = "reserved"
    /\ request[r].key[2] = "quote"
    /\ quotes' = Append(quotes, request[r].key[1])
    /\ Complete(r, request[r].key, request[r].body, Len(quotes'))
    /\ Reply(r, "ok", Len(quotes'))
    /\ UNCHANGED <<browserVars, jobs, historyVars>>

\* generate: reserve_quote_for_job refuses a quote that was used.
Generate(r) ==
    /\ request[r].state = "reserved"
    /\ request[r].key[2] = "generate"
    /\ \A j \in DOMAIN jobs : jobs[j].quote # request[r].body
    /\ jobs' = Append(jobs, [operation |-> request[r].key[1], quote |-> request[r].body])
    /\ Complete(r, request[r].key, request[r].body, Len(jobs'))
    /\ Reply(r, "ok", Len(jobs'))
    /\ UNCHANGED <<browserVars, quotes, historyVars>>

\* The endpoint raises an ApiError: an expired or used quote, no balance, no route, ...
Refuse(r) ==
    /\ request[r].state = "reserved"
    /\ Rollback(r, request[r].key)
    /\ Reply(r, "refused", NoResult)
    /\ refused' = refused \cup {request[r].key[1]}
    /\ UNCHANGED <<browserVars, quotes, jobs, begun, confirmed, abandoned, faults>>

\* A status that says nothing: 5xx, 408, 429, or an expired login.
ServerError(r) ==
    /\ request[r].state = "reserved"
    /\ Fault
    /\ Rollback(r, request[r].key)
    /\ Reply(r, "error", NoResult)
    /\ UNCHANGED <<browserVars, quotes, jobs, begun, confirmed, abandoned, refused>>

ServerStep(r) ==
    LookUp(r) \/ Insert(r) \/ CreateGenerationQuote(r) \/ Generate(r) \/ Refuse(r)

TabStep(t) == RunReturns(t) \/ RunBegins(t) \/ QuoteArrives(t) \/ JobArrives(t) \/ RequestFails(t)

RequestsNext ==
    \/ \E t \in Tabs : \/ Click(t) \/ Reload(t) \/ TabStep(t)
                       \/ ConnectionLost(t) \/ CloseTab(t)
    \/ \E r \in Requests : ServerStep(r) \/ ServerError(r)

\* The user comes back to an operation that has not settled.
RequestsFairness ==
    /\ \A r \in Requests : WF_requestVars(ServerStep(r))
    /\ \A t \in Tabs : WF_requestVars(TabStep(t))
    /\ WF_requestVars(\E t \in Tabs : ~Settled(saved) /\ Click(t))

-----------------------------------------------------------------------------
(* Properties *)

(* What the browser knows of its operation is what the server did: however often its
   requests were repeated, it has one quote and at most one job; a completed operation
   names that job; and a failed one has no job, so that starting again does not pay
   twice.  The exception is a request that was on its way when its tab or its
   connection went: it may still succeed after a later one was refused. *)
OutcomeKnown ==
    /\ \A i, j \in DOMAIN quotes : quotes[i] = quotes[j] => i = j
    /\ \A i, j \in DOMAIN jobs : jobs[i].operation = jobs[j].operation => i = j
    /\ saved.phase = "complete" => /\ saved.job \in DOMAIN jobs
                                   /\ jobs[saved.job].operation = saved.id
    /\ saved.phase = "failed" /\ saved.id \notin abandoned \cap refused =>
          \A j \in DOMAIN jobs : jobs[j].operation # saved.id

(* Every operation that sent a request is the one in the storage, or had settled when the
   user started the next one: no tab overwrites the operation of another. *)
OperationNotForgotten == \A op \in 1 .. begun : op = saved.id \/ op \in confirmed

(* An operation settles, although its requests are lost, fail, or wait for each other's
   transactions, and tabs close. *)
OperationsSettle == []<>Settled(saved)

=============================================================================
