-------------------------------- MODULE Ledger --------------------------------
(***************************************************************************)
(* The acceptance of jobs and their money: quotes, the route a project is  *)
(* bound to, the double-entry ledger of generation seconds, the            *)
(* reservation of a job or a batch, its settlement or release, and the     *)
(* status of the batch (apps/api/app/ledger.py, application_generations.py,*)
(* application_billing.py, project_routing.py,                             *)
(* project_cleanup.request_project_deletion).                              *)
(*                                                                         *)
(* A database transaction takes the locks of the rows it changes one by    *)
(* one, in the order of the code, and keeps them until it commits or rolls *)
(* back.  Every check is made when the lock of its row is obtained, so the *)
(* writes can all take effect at the commit.  One billing unit is          *)
(* modelled: accounts of different units never meet in a transfer.  The    *)
(* accounts, which ensure_account creates on demand with balance 0, exist  *)
(* from the beginning.                                                     *)
(***************************************************************************)
EXTENDS Integers, FiniteSets, Functions

CONSTANTS
    Users, Projects, Quotes,
    ProjectOwner,    \* [Projects -> Users]
    Singles,         \* calls of POST /v1/generations
    Batches,         \* calls of POST /v1/batches
    Finishers,       \* tasks that end jobs: executors, webhooks, cancel calls
    Granters,        \* calls of POST /v1/wallet/test-grants
    GrantKeys, GrantAmounts,
    Durations,       \* shots.duration_seconds
    Routes,          \* candidates of the route registry
    ChargeNumerator, ChargeDenominator,
    NoWork,          \* the work of a transaction that has not begun
    MaxAborts        \* bound: transactions that are rolled back from outside

Requests == Singles \cup Batches
Txns == Requests \cup Finishers \cup Granters

ASSUME PartiesAssumption ==
    /\ Singles \cap Batches = {}
    /\ Requests \cap Finishers = {}
    /\ Requests \cap Granters = {}
    /\ Finishers \cap Granters = {}
    /\ ProjectOwner \in [Projects -> Users]

\* Every quote and job has a project, and a database holds finitely many of them.
ASSUME RowsAssumption ==
    /\ Projects # {}
    /\ IsFiniteSet(Quotes)
    /\ IsFiniteSet(Requests)

ASSUME AmountsAssumption ==
    /\ GrantAmounts \subseteq Nat \ {0}
    /\ Durations \subseteq Nat \ {0}
    /\ "NONE" \notin Routes
    /\ ChargeNumerator \in Nat \ {0}
    /\ ChargeDenominator \in Nat \ {0}
    /\ MaxAborts \in Nat

JobIds == Requests \X Quotes
Accounts == {"PLATFORM_ISSUED", "USER_AVAILABLE", "USER_RESERVED", "PLATFORM_CONSUMED"}

VARIABLES
    shot,          \* the duration of the shot of each project
    deleted,       \* projects with status DELETED
    quote,         \* generation_quotes: [status, project, duration, amount]
    expired,       \* quotes older than 15 minutes
    job,           \* generation_jobs.status, as far as money is concerned
    settlement,    \* generation_jobs.settlement_status
    jobRoute,      \* generation_jobs.selected_route_candidate_id
    active,        \* the active route of the registry
    stopped,       \* routes whose route_admission is not enabled
    binding,       \* projects.route_candidate_id
    bound,         \* projects whose route_binding_status is LOCKED
    batch,         \* generation_batches.status
    balance,       \* wallet balances; those of the platform per counterparty
    ledger,        \* ledger_transactions with their postings
    pc, tx, held,  \* transactions: where they are, what they do, their row locks
    aborts

projectVars == <<shot, deleted, binding, bound>>
routeVars == <<active, stopped>>
quoteVars == <<quote, expired>>
jobVars == <<job, settlement, jobRoute, batch>>
moneyVars == <<balance, ledger>>
rows == <<projectVars, routeVars, quoteVars, jobVars, moneyVars>>
txVars == <<pc, tx, held>>
vars == <<rows, txVars, aborts>>

-----------------------------------------------------------------------------
(* Types *)

QuoteStatuses == {"NONE", "OPEN", "USED"}
JobStates == {"NONE", "LIVE", "SUCCEEDED", "FAILED_FINAL", "CANCELLED"}
SettlementStates == {"NONE", "RESERVED", "SETTLED", "RELEASED"}
BatchStatuses == {"NONE", "QUEUED", "RUNNING", "SUCCEEDED", "PARTIAL", "FAILED_FINAL"}
TxTypes == {"GRANT", "RESERVE", "SETTLE", "RELEASE"}
TxRefs == GrantKeys \cup Requests \cup JobIds

QuoteRows == [status : QuoteStatuses, project : Projects, duration : Durations, amount : Nat]

Transfers == [type : TxTypes, ref : TxRefs, user : Users, amount : Nat \ {0}]

\* What a transaction works on: the jobs it creates or ends and how, the route it
\* found, and its transfer.
Works == [jobs : SUBSET JobIds, outcome : JobStates, route : Routes \cup {"NONE"},
          transfer : Transfers]

Labels == {"idle", "route", "claim", "solidify", "post", "debit", "credit", "batch", "commit",
           "done"}

Running(t) == pc[t] \notin {"idle", "done"}

TypeOK ==
    /\ shot \in [Projects -> Durations]
    /\ deleted \subseteq Projects
    /\ binding \in [Projects -> Routes \cup {"NONE"}]
    /\ bound \subseteq Projects
    /\ active \in Routes
    /\ stopped \subseteq Routes
    /\ quote \in [Quotes -> QuoteRows]
    /\ expired \subseteq Quotes
    /\ job \in [JobIds -> JobStates]
    /\ settlement \in [JobIds -> SettlementStates]
    /\ jobRoute \in [JobIds -> Routes \cup {"NONE"}]
    /\ \A j \in JobIds : job[j] # "NONE" => jobRoute[j] \in Routes
    /\ batch \in [Batches -> BatchStatuses]
    /\ balance \in [Users -> [Accounts -> Int]]
    /\ ledger \subseteq Transfers
    /\ pc \in [Txns -> Labels]
    /\ \A t \in Txns : Running(t) => tx[t] \in Works
    /\ aborts \in 0 .. MaxAborts

Init ==
    /\ shot \in [Projects -> Durations]
    /\ deleted = {}
    /\ binding = [p \in Projects |-> "NONE"]
    /\ bound = {}
    /\ active \in Routes
    /\ stopped = {}
    /\ quote = [q \in Quotes |-> [status |-> "NONE", project |-> CHOOSE p \in Projects : TRUE,
                                  duration |-> CHOOSE d \in Durations : TRUE, amount |-> 0]]
    /\ expired = {}
    /\ job = [j \in JobIds |-> "NONE"]
    /\ settlement = [j \in JobIds |-> "NONE"]
    /\ jobRoute = [j \in JobIds |-> "NONE"]
    /\ batch = [b \in Batches |-> "NONE"]
    /\ balance = [u \in Users |-> [a \in Accounts |-> 0]]
    /\ ledger = {}
    /\ pc = [t \in Txns |-> "idle"]
    /\ tx = [t \in Txns |-> NoWork]
    /\ held = [t \in Txns |-> {}]
    /\ aborts = 0

-----------------------------------------------------------------------------
(* Row locks *)

Free(t, row) == \A u \in Txns \ {t} : row \notin held[u]
Unlocked(row) == \A u \in Txns : row \notin held[u]

ProjectRow(p) == <<"project", p>>
JobRow(j) == <<"job", j>>
BatchRow(b) == <<"batch", b>>
AdmissionRow(rt) == <<"admission", rt>>
KeyRow(tr) == <<"key", <<tr.type, tr.ref>>>>
WalletRow(u, a) == <<a, IF a \in {"USER_AVAILABLE", "USER_RESERVED"} THEN u ELSE "platform">>

DebitAccount(tr) == CASE tr.type = "GRANT" -> "PLATFORM_ISSUED"
                      [] tr.type = "RESERVE" -> "USER_AVAILABLE"
                      [] OTHER -> "USER_RESERVED"
CreditAccount(tr) == CASE tr.type \in {"GRANT", "RELEASE"} -> "USER_AVAILABLE"
                       [] tr.type = "RESERVE" -> "USER_RESERVED"
                       [] OTHER -> "PLATFORM_CONSUMED"

QuotesOf(t) == {j[2] : j \in tx[t].jobs}
ProjectsOf(t) == {quote[q].project : q \in QuotesOf(t)}

\* The batch whose status the transaction refreshes, if any.
BatchesOf(t) == IF t \in Finishers THEN {j[1] : j \in tx[t].jobs} \cap Batches ELSE {}

\* The rows that the next step of a transaction locks.  The lock of route_admission is
\* shared and never waits for a transaction.
Wanted(t) ==
    CASE pc[t] = "solidify" -> {ProjectRow(p) : p \in ProjectsOf(t)}
      [] pc[t] = "post" -> {KeyRow(tx[t].transfer)}
      [] pc[t] = "debit" -> {WalletRow(tx[t].transfer.user, DebitAccount(tx[t].transfer))}
      [] pc[t] = "credit" -> {WalletRow(tx[t].transfer.user, CreditAccount(tx[t].transfer))}
      [] pc[t] = "batch" -> {BatchRow(b) : b \in BatchesOf(t)}
      [] OTHER -> {}

Grantable(t) == \A row \in Wanted(t) : Free(t, row)

Goto(t, l) == pc' = [pc EXCEPT ![t] = l]
Lock(t) == held' = [held EXCEPT ![t] = @ \cup Wanted(t)]

\* A finisher tries again later and a grant may be repeated; a request is over.
Rest(t) == IF t \in Requests THEN "done" ELSE "idle"

\* Mutant: a session that failed is not closed.
Rollback_KeepsLocks(t) == Goto(t, Rest(t)) /\ UNCHANGED <<rows, tx, held>>

\* The session is closed without a commit.
Rollback(t) ==
    /\ Goto(t, Rest(t))
    /\ tx' = [tx EXCEPT ![t] = NoWork]
    /\ held' = [held EXCEPT ![t] = {}]
    /\ UNCHANGED rows

-----------------------------------------------------------------------------
(* Shots, quotes, projects and routes *)

\* The price of a shot in milliseconds, rounded up to a whole one.
Charge(d) == (1000 * d * ChargeNumerator + ChargeDenominator - 1) \div ChargeDenominator

\* update_shot.
UpdateShot(p, d) ==
    /\ p \notin deleted /\ Unlocked(ProjectRow(p))
    /\ shot[p] # d
    /\ shot' = [shot EXCEPT ![p] = d]
    /\ UNCHANGED <<deleted, binding, bound, routeVars, quoteVars, jobVars, moneyVars, txVars,
                   aborts>>

\* create_quote.
CreateQuote(q, p) ==
    /\ quote[q].status = "NONE"
    /\ p \notin deleted /\ Unlocked(ProjectRow(p))
    /\ quote' = [quote EXCEPT ![q] = [status |-> "OPEN", project |-> p, duration |-> shot[p],
                                      amount |-> Charge(shot[p])]]
    /\ UNCHANGED <<expired, projectVars, routeVars, jobVars, moneyVars, txVars, aborts>>

QuoteExpires(q) ==
    /\ quote[q].status = "OPEN" /\ q \notin expired
    /\ expired' = expired \cup {q}
    /\ UNCHANGED <<quote, projectVars, routeVars, jobVars, moneyVars, txVars, aborts>>

JobsOf(p) == {j \in JobIds : job[j] # "NONE" /\ quote[j[2]].project = p}

\* Mutant: the project row is not locked.
DeleteProject_Unlocked(p) ==
    /\ p \notin deleted
    /\ \A j \in JobsOf(p) : job[j] # "LIVE"
    /\ deleted' = deleted \cup {p}
    /\ UNCHANGED <<shot, binding, bound, routeVars, quoteVars, jobVars, moneyVars, txVars, aborts>>

\* request_project_deletion.
DeleteProject(p) ==
    /\ p \notin deleted /\ Unlocked(ProjectRow(p))
    /\ \A j \in JobsOf(p) : job[j] # "LIVE"
    /\ deleted' = deleted \cup {p}
    /\ UNCHANGED <<shot, binding, bound, routeVars, quoteVars, jobVars, moneyVars, txVars, aborts>>

\* RouteRegistry.activate, or a process that starts with another setting.
ActivateRoute(rt) ==
    /\ active # rt
    /\ active' = rt
    /\ UNCHANGED <<stopped, projectVars, quoteVars, jobVars, moneyVars, txVars, aborts>>

\* An operator updates route_admission, and waits for the requests that share its row.
StopRoute(rt) ==
    /\ rt \notin stopped /\ Unlocked(AdmissionRow(rt))
    /\ stopped' = stopped \cup {rt}
    /\ UNCHANGED <<active, projectVars, quoteVars, jobVars, moneyVars, txVars, aborts>>

-----------------------------------------------------------------------------
(* Acceptance *)

\* Mutant: only one quote of a batch is frozen.
ReservedMs_One(qs) == quote[CHOOSE q \in qs : TRUE].amount

ReservedMs(qs) == SumFunctionOnSet([q \in Quotes |-> quote[q].amount], qs)

\* generate finds the route before it claims the quote; create_batch claims and pays
\* first.
FirstStep(r) == IF r \in Singles THEN "route" ELSE "claim"

\* owned_shot and reserve_quotes_for_batch: the project is locked, unless the quotes
\* are of several projects or the project is deleted.
BeginRequest(r, qs) ==
    LET ps == {quote[q].project : q \in qs} IN
    /\ pc[r] = "idle"
    /\ \A q \in qs : quote[q].status # "NONE"
    /\ r \in Singles => Cardinality(qs) = 1
    /\ \A p \in ps : Unlocked(ProjectRow(p))
    /\ IF Cardinality(ps) = 1 /\ ps \cap deleted = {}
       THEN /\ Goto(r, FirstStep(r))
            /\ held' = [held EXCEPT ![r] = {ProjectRow(p) : p \in ps}]
            /\ tx' = [tx EXCEPT ![r] =
                  [jobs |-> {r} \X qs, outcome |-> "LIVE", route |-> "NONE",
                   transfer |-> [type |-> "RESERVE", ref |-> r,
                                 user |-> ProjectOwner[CHOOSE p \in ps : TRUE],
                                 amount |-> ReservedMs(qs)]]]
       ELSE /\ Goto(r, "done")
            /\ UNCHANGED <<tx, held>>
    /\ UNCHANGED <<rows, aborts>>

\* Mutants: every job takes the active route; an unbound project has no route.
RouteFor_Active(p) == active
RouteFor_Binding(p) == binding[p]

\* The route that project_route proposes: an unbound project takes the active one.
RouteFor(p) == IF binding[p] = "NONE" THEN active ELSE binding[p]

\* Mutant: the row of the admission is not locked.
ProjectRoute_NoLock(r) ==
    LET rt == RouteFor(CHOOSE p \in ProjectsOf(r) : TRUE) IN
    /\ pc[r] = "route"
    /\ IF rt \notin stopped
       THEN /\ tx' = [tx EXCEPT ![r].route = rt]
            /\ Goto(r, IF r \in Singles THEN "claim" ELSE "commit")
            /\ UNCHANGED <<rows, held>>
       ELSE Rollback(r)
    /\ UNCHANGED aborts

\* project_route: the admission of the route stays locked until the commit.
ProjectRoute(r) ==
    LET rt == RouteFor(CHOOSE p \in ProjectsOf(r) : TRUE) IN
    /\ pc[r] = "route"
    /\ IF rt \notin stopped
       THEN /\ tx' = [tx EXCEPT ![r].route = rt]
            /\ held' = [held EXCEPT ![r] = @ \cup {AdmissionRow(rt)}]
            /\ Goto(r, IF r \in Singles THEN "claim" ELSE "commit")
            /\ UNCHANGED rows
       ELSE Rollback(r)
    /\ UNCHANGED aborts

\* Mutants: a used quote is accepted, a changed shot is accepted.
ValidateQuoteTerms_Reused(q) ==
    q \notin expired /\ quote[q].duration = shot[quote[q].project]
ValidateQuoteTerms_Changed(q) == quote[q].status = "OPEN" /\ q \notin expired

\* _validate_quote_terms.
ValidateQuoteTerms(q) ==
    /\ quote[q].status = "OPEN"
    /\ q \notin expired
    /\ quote[q].duration = shot[quote[q].project]

\* reserve_quote_for_job and reserve_quotes_for_batch until the transfer: the quotes are
\* checked and claimed by compare-and-set, all of them or none.
ClaimQuotes(r) ==
    /\ pc[r] = "claim"
    /\ IF \A q \in QuotesOf(r) : ValidateQuoteTerms(q)
       THEN Goto(r, "post") /\ UNCHANGED <<rows, tx, held>>
       ELSE Rollback(r)
    /\ UNCHANGED aborts

-----------------------------------------------------------------------------
(* The end of a job, and grants *)

\* A job is ended by compare-and-set, and finish_reservation takes its reservation.
FinishJob(f, j, outcome) ==
    /\ pc[f] = "idle"
    /\ job[j] = "LIVE" /\ settlement[j] = "RESERVED"
    /\ Unlocked(JobRow(j))
    /\ Goto(f, IF outcome = "SUCCEEDED" THEN "solidify" ELSE "post")
    /\ held' = [held EXCEPT ![f] = {JobRow(j)}]
    /\ tx' = [tx EXCEPT ![f] =
          [jobs |-> {j}, outcome |-> outcome, route |-> jobRoute[j],
           transfer |-> [type |-> IF outcome = "SUCCEEDED" THEN "SETTLE" ELSE "RELEASE",
                         ref |-> j, user |-> ProjectOwner[quote[j[2]].project],
                         amount |-> quote[j[2]].amount]]]
    /\ UNCHANGED <<rows, aborts>>

\* solidify_project_route, which raises when the project is bound to another route.
SolidifyProjectRoute(f) ==
    /\ pc[f] = "solidify" /\ Grantable(f)
    /\ IF \A p \in ProjectsOf(f) : binding[p] = tx[f].route
       THEN Lock(f) /\ Goto(f, "post") /\ UNCHANGED <<rows, tx>>
       ELSE Rollback(f)
    /\ UNCHANGED aborts

\* grant_seconds.
Grant(g, k, u, n) ==
    /\ pc[g] = "idle"
    /\ Goto(g, "post")
    /\ tx' = [tx EXCEPT ![g] = [jobs |-> {}, outcome |-> "NONE", route |-> "NONE",
                                transfer |-> [type |-> "GRANT", ref |-> k, user |-> u,
                                              amount |-> n]]]
    /\ UNCHANGED <<rows, held, aborts>>

-----------------------------------------------------------------------------
(* post_transfer *)

\* The transfer, if any, that was already posted under the same key.
Existing(tr) == {old \in ledger : old.type = tr.type /\ old.ref = tr.ref}

\* Mutant: the key is not looked up.
PostTransfer_Again(t) ==
    /\ pc[t] = "post" /\ Grantable(t)
    /\ Lock(t) /\ Goto(t, "debit")
    /\ UNCHANGED <<rows, tx, aborts>>

\* The ledger transaction is inserted under its unique key: the insert waits for one
\* that is in flight, and a key that exists ends the call, as a repetition or as a
\* conflict.
PostTransfer(t) ==
    /\ pc[t] = "post" /\ Grantable(t)
    /\ IF Existing(tx[t].transfer) = {}
       THEN Lock(t) /\ Goto(t, "debit") /\ UNCHANGED <<rows, tx>>
       ELSE Rollback(t)
    /\ UNCHANGED aborts

\* Mutant: the balance is not compared in the update.
Debit_Unchecked(t) ==
    /\ pc[t] = "debit" /\ Grantable(t)
    /\ Lock(t) /\ Goto(t, "credit")
    /\ UNCHANGED <<rows, tx, aborts>>

\* _change_balance of the debit: only the platform may go below zero.
Debit(t) ==
    LET tr == tx[t].transfer
        a == DebitAccount(tr) IN
    /\ pc[t] = "debit" /\ Grantable(t)
    /\ IF a = "PLATFORM_ISSUED" \/ balance[tr.user][a] - tr.amount >= 0
       THEN Lock(t) /\ Goto(t, "credit") /\ UNCHANGED <<rows, tx>>
       ELSE Rollback(t)
    /\ UNCHANGED aborts

Credit(t) ==
    /\ pc[t] = "credit" /\ Grantable(t)
    /\ Lock(t)
    /\ Goto(t, CASE t \in Batches -> "route"
                 [] BatchesOf(t) # {} -> "batch"
                 [] OTHER -> "commit")
    /\ UNCHANGED <<rows, tx, aborts>>

\* refresh_batch_status locks the batch.
LockBatch(t) ==
    /\ pc[t] = "batch" /\ Grantable(t)
    /\ Lock(t) /\ Goto(t, "commit")
    /\ UNCHANGED <<rows, tx, aborts>>

-----------------------------------------------------------------------------
(* Commits *)

Post(tr) ==
    /\ ledger' = ledger \cup {tr}
    /\ balance' = [balance EXCEPT ![tr.user][DebitAccount(tr)] = @ - tr.amount,
                                  ![tr.user][CreditAccount(tr)] = @ + tr.amount]

EndTransaction(t) ==
    /\ Goto(t, Rest(t))
    /\ tx' = [tx EXCEPT ![t] = NoWork]
    /\ held' = [held EXCEPT ![t] = {}]

CommitReservation(r) ==
    LET w == tx[r] IN
    /\ r \in Requests /\ pc[r] = "commit"
    /\ Post(w.transfer)
    /\ quote' = [q \in Quotes |-> IF q \in QuotesOf(r) THEN [quote[q] EXCEPT !.status = "USED"]
                                  ELSE quote[q]]
    /\ binding' = [p \in Projects |-> IF p \in ProjectsOf(r) THEN w.route ELSE binding[p]]
    /\ job' = [j \in JobIds |-> IF j \in w.jobs THEN "LIVE" ELSE job[j]]
    /\ settlement' = [j \in JobIds |-> IF j \in w.jobs THEN "RESERVED" ELSE settlement[j]]
    /\ jobRoute' = [j \in JobIds |-> IF j \in w.jobs THEN w.route ELSE jobRoute[j]]
    /\ batch' = [b \in Batches |-> IF b = r THEN "QUEUED" ELSE batch[b]]
    /\ EndTransaction(r)
    /\ UNCHANGED <<shot, deleted, bound, expired, routeVars, aborts>>

\* Mutant: the job that just ended is not flushed before the statuses are read.
BatchStatus_Unflushed(b, states) ==
    LET js == {j \in JobIds : j[1] = b /\ job[j] # "NONE"}
        succeeded == {j \in js : job[j] = "SUCCEEDED"} IN
    IF \E j \in js : job[j] = "LIVE" THEN "RUNNING"
    ELSE IF succeeded = js THEN "SUCCEEDED"
    ELSE IF succeeded # {} THEN "PARTIAL" ELSE "FAILED_FINAL"

\* What refresh_batch_status stores for jobs in the given states.
BatchStatus(b, states) ==
    LET js == {j \in JobIds : j[1] = b /\ states[j] # "NONE"}
        succeeded == {j \in js : states[j] = "SUCCEEDED"} IN
    IF \E j \in js : states[j] = "LIVE" THEN "RUNNING"
    ELSE IF succeeded = js THEN "SUCCEEDED"
    ELSE IF succeeded # {} THEN "PARTIAL" ELSE "FAILED_FINAL"

CommitFinish(f) ==
    LET w == tx[f]
        to == IF w.outcome = "SUCCEEDED" THEN "SETTLED" ELSE "RELEASED" IN
    /\ f \in Finishers /\ pc[f] = "commit"
    /\ Post(w.transfer)
    /\ job' = [j \in JobIds |-> IF j \in w.jobs THEN w.outcome ELSE job[j]]
    /\ settlement' = [j \in JobIds |-> IF j \in w.jobs THEN to ELSE settlement[j]]
    /\ batch' = [b \in Batches |-> IF b \in BatchesOf(f) THEN BatchStatus(b, job') ELSE batch[b]]
    /\ bound' = IF w.outcome = "SUCCEEDED" THEN bound \cup ProjectsOf(f) ELSE bound
    /\ EndTransaction(f)
    /\ UNCHANGED <<shot, deleted, binding, jobRoute, quoteVars, routeVars, aborts>>

CommitGrant(g) ==
    /\ g \in Granters /\ pc[g] = "commit"
    /\ Post(tx[g].transfer)
    /\ EndTransaction(g)
    /\ UNCHANGED <<projectVars, routeVars, quoteVars, jobVars, aborts>>

-----------------------------------------------------------------------------
(* The database *)

\* A connection is lost, a process dies or an exception leaves the handler.
Abort(t) ==
    /\ Running(t) /\ aborts < MaxAborts
    /\ aborts' = aborts + 1
    /\ Rollback(t)

WaitsFor(t, u) == Wanted(t) \cap held[u] # {}

\* PostgreSQL breaks a cycle of waiting transactions.  A reservation locks
\* USER_AVAILABLE before USER_RESERVED and a release the other way round.
DeadlockVictim(t) ==
    /\ Running(t)
    /\ \E u \in Txns \ {t} : Running(u) /\ WaitsFor(t, u) /\ WaitsFor(u, t)
    /\ Rollback(t)
    /\ UNCHANGED aborts

-----------------------------------------------------------------------------
(* The system *)

RequestStep(t) == ProjectRoute(t) \/ ClaimQuotes(t) \/ SolidifyProjectRoute(t)
TransferStep(t) == PostTransfer(t) \/ Debit(t) \/ Credit(t) \/ LockBatch(t)
CommitStep(t) == CommitReservation(t) \/ CommitFinish(t) \/ CommitGrant(t)

Next ==
    \/ \E p \in Projects, d \in Durations : UpdateShot(p, d)
    \/ \E q \in Quotes, p \in Projects : CreateQuote(q, p)
    \/ \E q \in Quotes : QuoteExpires(q)
    \/ \E p \in Projects : DeleteProject(p)
    \/ \E rt \in Routes : ActivateRoute(rt) \/ StopRoute(rt)
    \/ \E r \in Requests, qs \in (SUBSET Quotes) \ {{}} : BeginRequest(r, qs)
    \/ \E f \in Finishers, j \in JobIds, o \in {"SUCCEEDED", "FAILED_FINAL", "CANCELLED"} :
          FinishJob(f, j, o)
    \/ \E g \in Granters, k \in GrantKeys, u \in Users, n \in GrantAmounts : Grant(g, k, u, n)
    \/ \E t \in Txns : RequestStep(t)
    \/ \E t \in Txns : TransferStep(t)
    \/ \E t \in Txns : CommitStep(t)
    \/ \E t \in Txns : Abort(t)
    \/ \E t \in Txns : DeadlockVictim(t)

Spec == Init /\ [][Next]_vars

\* The database grants locks in the order of their requests and looks for deadlocks.
Fairness ==
    \A t \in Txns :
        SF_vars(RequestStep(t) \/ TransferStep(t) \/ CommitStep(t) \/ DeadlockVictim(t))

FairSpec == Spec /\ Fairness

-----------------------------------------------------------------------------
(* Properties *)

\* However many calls compete for one wallet, nobody spends or unfreezes more than
\* there is: the user's accounts never go below zero (_change_balance).
WalletsCovered ==
    \A u \in Users : balance[u]["USER_AVAILABLE"] >= 0 /\ balance[u]["USER_RESERVED"] >= 0

Posted(trs) == SumFunctionOnSet([tr \in ledger |-> tr.amount], trs)

\* Every balance is the sum of the postings behind it, so that a repeated or a
\* rolled-back call moved nothing (post_transfer).
PostingsExplainBalances ==
    \A u \in Users, a \in Accounts :
        balance[u][a] = Posted({tr \in ledger : tr.user = u /\ CreditAccount(tr) = a})
                        - Posted({tr \in ledger : tr.user = u /\ DebitAccount(tr) = a})

LiveJobs(u) == {j \in JobIds : job[j] = "LIVE" /\ ProjectOwner[quote[j[2]].project] = u}

\* What is frozen is exactly what the live jobs reserved, each its own quote, also
\* when a batch froze the total in one transfer and its jobs are settled and
\* released one by one (reserve_quotes_for_batch, finish_reservation).
FrozenForLiveJobs ==
    \A u \in Users :
        balance[u]["USER_RESERVED"] =
            SumFunctionOnSet([j \in JobIds |-> quote[j[2]].amount], LiveJobs(u))

\* A quote pays for one job (uq_generation_jobs_quote_id is never hit).
QuotePaysOnce ==
    \A i, j \in JobIds : i # j /\ job[i] # "NONE" /\ job[j] # "NONE" => i[2] # j[2]

\* The status of a batch is the verdict on its jobs as soon as the last one ended,
\* in whatever order concurrent transactions ended them (refresh_batch_status).
BatchFollowsJobs ==
    \A b \in Batches :
        LET js == {j \in JobIds : j[1] = b /\ job[j] # "NONE"} IN
        /\ batch[b] = "NONE" <=> js = {}
        /\ batch[b] \in {"QUEUED", "RUNNING"} <=> \E j \in js : job[j] = "LIVE"
        /\ batch[b] = "SUCCEEDED" => \A j \in js : job[j] = "SUCCEEDED"
        /\ batch[b] = "PARTIAL" => \E i, j \in js : job[i] = "SUCCEEDED" /\ job[j] # "SUCCEEDED"
        /\ batch[b] = "FAILED_FINAL" => \A j \in js : job[j] # "SUCCEEDED"

\* No job is accepted for, or left behind in, a project that is deleted
\* (request_project_deletion against generate and create_batch).
DeletedProjectIsQuiet == \A p \in deleted : \A j \in JobsOf(p) : job[j] # "LIVE"

\* All the jobs of a project are on the route the project is bound to, whatever route
\* was active when each was accepted, so that solidify_project_route never raises.
OneRoutePerProject ==
    \A j \in JobIds : job[j] # "NONE" => jobRoute[j] = binding[quote[j[2]].project]

\* No job is accepted on a route after its admission was stopped, also when the stop
\* comes while the request is in flight (project_route's shared lock).
StoppedRouteAcceptsNothing ==
    [][\A j \in JobIds : job[j] = "NONE" /\ job'[j] = "LIVE" => jobRoute'[j] \notin stopped]_vars

\* A job is accepted at the price of the shot as it is when the job is accepted,
\* and that price is the exact one rounded up (create_quote, _validate_quote_terms).
AcceptedAtCurrentPrice ==
    [][\A j \in JobIds :
          job[j] = "NONE" /\ job'[j] = "LIVE" =>
              LET exact == 1000 * shot[quote[j[2]].project] * ChargeNumerator
                  paid == quote[j[2]].amount * ChargeDenominator IN
              exact <= paid /\ paid < exact + ChargeDenominator]_vars

\* Every transaction ends, although a reservation and a release of the same user
\* lock the two wallet rows in opposite orders.
TransactionsEnd == \A t \in Txns : Running(t) ~> ~Running(t)

=============================================================================
