----------------------------- MODULE LedgerProofs -----------------------------
(***************************************************************************)
(* Proofs about Ledger for every number of users, projects, quotes and     *)
(* transactions: the safety invariants that the run LedgerRace checks on a *)
(* small instance.  The inductive invariant says, of every transaction in  *)
(* flight, which rows it has locked and what it found when it locked them  *)
(* that is still true; nobody else may change a row that is locked.        *)
(***************************************************************************)
EXTENDS Ledger, SumProofs

-----------------------------------------------------------------------------
(* The inductive invariant *)

\* A row has one owner, unless it is an admission, whose lock is shared; a transaction
\* that has not begun, or is over, has none.
Locks ==
    /\ held = [t \in Txns |-> held[t]]
    /\ tx = [t \in Txns |-> tx[t]]
    /\ \A t \in Txns : ~Running(t) => held[t] = {}
    /\ \A t, u \in Txns : t # u =>
          \A row \in held[t] \cap held[u] : \E rt \in Routes : row = AdmissionRow(rt)

\* Where a request has claimed its quotes, and where it has found its route.
Claimed(r) == pc[r] \in {"post", "debit", "credit", "commit"} \/ (r \in Batches /\ pc[r] = "route")
Routed(r) == pc[r] = "commit" \/ (r \in Singles /\ pc[r] \in {"claim", "post", "debit", "credit"})

RequestWork(r, qs, p) ==
    /\ qs # {}
    /\ tx[r].jobs = {r} \X qs
    /\ tx[r].outcome = "LIVE"
    /\ tx[r].transfer.type = "RESERVE"
    /\ tx[r].transfer.ref = r
    /\ tx[r].transfer.user = ProjectOwner[p]
    /\ tx[r].transfer.amount = ReservedMs(qs)
    /\ \A q \in qs : quote[q].status # "NONE" /\ quote[q].project = p
    /\ p \notin deleted
    /\ ProjectRow(p) \in held[r]
    /\ Claimed(r) => \A q \in qs : quote[q].status = "OPEN" /\ quote[q].duration = shot[p]
    /\ Routed(r) => /\ tx[r].route \in Routes \ stopped
                    /\ AdmissionRow(tx[r].route) \in held[r]
                    /\ binding[p] \in {"NONE", tx[r].route}

\* A request holds its project, and once claimed its quotes stay as they were checked.
RequestOK(r) ==
    Running(r) => /\ pc[r] \in {"route", "claim", "post", "debit", "credit", "commit"}
                  /\ \E qs \in SUBSET Quotes, p \in Projects : RequestWork(r, qs, p)

FinishWork(f, j) ==
    /\ tx[f].jobs = {j}
    /\ tx[f].outcome \in {"SUCCEEDED", "FAILED_FINAL", "CANCELLED"}
    /\ tx[f].transfer.type = IF tx[f].outcome = "SUCCEEDED" THEN "SETTLE" ELSE "RELEASE"
    /\ tx[f].transfer.ref = j
    /\ tx[f].transfer.user = ProjectOwner[quote[j[2]].project]
    /\ tx[f].transfer.amount = quote[j[2]].amount
    /\ job[j] = "LIVE"
    /\ JobRow(j) \in held[f]

\* A finisher holds its job, which stays live until the finisher commits.
FinishOK(f) ==
    Running(f) => /\ pc[f] \in {"solidify", "post", "debit", "credit", "batch", "commit"}
                  /\ \E j \in JobIds : FinishWork(f, j)

GrantOK(g) ==
    Running(g) => /\ pc[g] \in {"post", "debit", "credit", "commit"}
                  /\ tx[g].transfer.type = "GRANT"

\* Where a transaction holds the key of its transfer, and where it holds the account
\* that it debits.
Keyed(t) == pc[t] \in {"debit", "credit", "batch", "commit"} \/ (t \in Batches /\ pc[t] = "route")
Debited(t) == pc[t] \in {"credit", "batch", "commit"} \/ (t \in Batches /\ pc[t] = "route")

\* The key of a transfer in flight stays unused, and what it debits stays covered.
TransferOK(t) ==
    LET tr == tx[t].transfer
        a == DebitAccount(tr) IN
    /\ Keyed(t) => /\ KeyRow(tr) \in held[t]
                   /\ \A old \in ledger : old.type # tr.type \/ old.ref # tr.ref
    /\ Debited(t) => /\ WalletRow(tr.user, a) \in held[t]
                     /\ a = "PLATFORM_ISSUED" \/ balance[tr.user][a] >= tr.amount

Transactions ==
    /\ \A r \in Requests : RequestOK(r)
    /\ \A f \in Finishers : FinishOK(f)
    /\ \A g \in Granters : GrantOK(g)
    /\ \A t \in Txns : TransferOK(t)

\* A quote carries its price, a job its used quote, and a request that is not over has
\* no jobs.
QuotesPriced ==
    \A q \in Quotes : quote[q].status # "NONE" => quote[q].amount = Charge(quote[q].duration)
JobsPaid == \A j \in JobIds : job[j] # "NONE" => quote[j[2]].status = "USED"
JobsAfterCommit == \A r \in Requests, q \in Quotes : pc[r] # "done" => job[<<r, q>>] = "NONE"

Rows ==
    /\ QuotesPriced
    /\ JobsPaid
    /\ JobsAfterCommit
    /\ QuotePaysOnce
    /\ DeletedProjectIsQuiet
    /\ OneRoutePerProject
    /\ BatchFollowsJobs

Money ==
    /\ IsFiniteSet(ledger)
    /\ WalletsCovered
    /\ PostingsExplainBalances
    /\ FrozenForLiveJobs

IInv == TypeOK /\ Locks /\ Transactions /\ Rows /\ Money

-----------------------------------------------------------------------------
(* Operators *)

\* The price is the exact one rounded up, and never zero.
LEMMA ChargeRoundsUp ==
    ASSUME NEW d \in Durations
    PROVE  /\ Charge(d) \in Nat \ {0}
           /\ 1000 * d * ChargeNumerator <= Charge(d) * ChargeDenominator
           /\ Charge(d) * ChargeDenominator < 1000 * d * ChargeNumerator + ChargeDenominator
<1> DEFINE x == 1000 * d * ChargeNumerator
           D == ChargeDenominator
           c == (x + D - 1) \div D
<1>1. x \in Nat \ {0} /\ D \in Nat \ {0}
    BY AmountsAssumption
<1> HIDE DEF x, D
<1>2. c \in Int /\ c * D <= x + D - 1 /\ x + D - 1 < (c + 1) * D
    BY <1>1
<1>3. (c + 1) * D = c * D + D
    BY <1>1, <1>2
<1>4. c > 0
    BY <1>1, <1>2, <1>3
<1>5. c \in Nat \ {0} /\ x <= c * D /\ c * D < x + D
    BY <1>1, <1>2, <1>3, <1>4
<1> QED
    BY <1>5 DEF Charge, x, D

LEMMA FiniteJobs == IsFiniteSet(JobIds)
BY RowsAssumption, FS_Product DEF JobIds

\* A reservation freezes something.
LEMMA ReservedPositive ==
    ASSUME TypeOK, QuotesPriced, NEW qs \in SUBSET Quotes, qs # {},
           \A q \in qs : quote[q].status # "NONE"
    PROVE  ReservedMs(qs) \in Nat \ {0}
<1> DEFINE f == [q \in Quotes |-> quote[q].amount]
<1>1. IsFiniteSet(qs)
    BY RowsAssumption, FS_Subset
<1>2. \A q \in qs : f[q] \in Nat /\ f[q] > 0
    BY ChargeRoundsUp DEF TypeOK, QuotesPriced, QuoteRows
<1>3. PICK q \in qs : TRUE
    OBVIOUS
<1> HIDE DEF f
<1>4. SumFunctionOnSet(f, qs) \in Nat /\ SumFunctionOnSet(f, qs) >= f[q]
    BY <1>1, <1>2, SumOfNaturals
<1> QED
    BY <1>2, <1>4 DEF ReservedMs, f

\* A set of one project is what Cardinality says it is.
LEMMA OneProject ==
    ASSUME NEW qs \in SUBSET Quotes, NEW ps, ps = {quote[q].project : q \in qs},
           Cardinality(ps) = 1
    PROVE  \E p \in ps : ps = {p}
<1> DEFINE f == [q \in qs |-> quote[q].project]
<1>1. IsFiniteSet(qs)
    BY RowsAssumption, FS_Subset
<1>2. f \in Surjection(qs, ps)
    BY DEF Surjection
<1>3. IsFiniteSet(ps)
    BY <1>1, <1>2, FS_Surjection
<1> QED
    BY <1>3, FS_Singleton

\* What the work of a request or a finisher is about.
LEMMA RequestRows ==
    ASSUME NEW r \in Requests, NEW qs \in SUBSET Quotes, NEW p \in Projects,
           RequestWork(r, qs, p)
    PROVE  QuotesOf(r) = qs /\ ProjectsOf(r) = {p} /\ BatchesOf(r) = {}
<1>1. QuotesOf(r) = qs
  <2>1. tx[r].jobs = {r} \X qs
    BY DEF RequestWork
  <2>2. \A q \in qs : <<r, q>> \in {r} \X qs /\ <<r, q>>[2] = q
    OBVIOUS
  <2>3. \A j \in {r} \X qs : j[2] \in qs
    OBVIOUS
  <2> QED
    BY <2>1, <2>2, <2>3 DEF QuotesOf
<1>2. ProjectsOf(r) = {p}
    BY <1>1 DEF ProjectsOf, RequestWork
<1> QED
    BY <1>1, <1>2, PartiesAssumption DEF BatchesOf

LEMMA FinishRows ==
    ASSUME NEW f \in Finishers, NEW j \in JobIds, FinishWork(f, j)
    PROVE  /\ QuotesOf(f) = {j[2]}
           /\ ProjectsOf(f) = {quote[j[2]].project}
           /\ BatchesOf(f) = {j[1]} \cap Batches
<1>1. QuotesOf(f) = {j[2]}
    BY DEF QuotesOf, FinishWork
<1>2. ProjectsOf(f) = {quote[j[2]].project}
    BY <1>1 DEF ProjectsOf
<1> QED
    BY <1>1, <1>2 DEF BatchesOf, FinishWork

LEMMA TxnKinds ==
    ASSUME NEW t \in Txns
    PROVE  /\ t \in Requests \/ t \in Finishers \/ t \in Granters
           /\ t \in Requests <=> t \notin Finishers /\ t \notin Granters
           /\ t \in Finishers => t \notin Granters
           /\ t \in Singles \/ t \in Batches <=> t \in Requests
           /\ ~(t \in Singles /\ t \in Batches)
BY PartiesAssumption DEF Txns, Requests

\* Every transfer in flight is between two different accounts.
LEMMA AccountsOf ==
    ASSUME NEW tr \in Transfers
    PROVE  /\ DebitAccount(tr) \in Accounts /\ CreditAccount(tr) \in Accounts
           /\ DebitAccount(tr) # CreditAccount(tr)
           /\ DebitAccount(tr) # "PLATFORM_CONSUMED"
           /\ DebitAccount(tr) = "PLATFORM_ISSUED" <=> tr.type = "GRANT"
BY DEF Transfers, TxTypes, DebitAccount, CreditAccount, Accounts

-----------------------------------------------------------------------------
(* Steps of a transaction before its commit *)

\* A transaction that takes a step leaves the rows and the other transactions alone: what
\* has to be shown is that its own work is still in order.
LEMMA OwnStep ==
    ASSUME IInv, NEW t \in Txns, UNCHANGED rows, aborts' \in 0 .. MaxAborts,
           NEW l \in Labels, NEW w, NEW h,
           pc' = [pc EXCEPT ![t] = l],
           tx' = [tx EXCEPT ![t] = w],
           held' = [held EXCEPT ![t] = h],
           pc[t] = "done" => l = "done",
           l \notin {"idle", "done"} => w \in Works,
           l \in {"idle", "done"} => h = {},
           \A u \in Txns \ {t} :
              \A row \in h \cap held[u] : \E rt \in Routes : row = AdmissionRow(rt),
           t \in Requests => RequestOK(t)',
           t \in Finishers => FinishOK(t)',
           t \in Granters => GrantOK(t)',
           TransferOK(t)'
    PROVE  IInv'
<1> USE DEF IInv, rows, projectVars, routeVars, quoteVars, jobVars, moneyVars
<1>1. /\ pc'[t] = l /\ tx'[t] = w /\ held'[t] = h
      /\ \A u \in Txns \ {t} : pc'[u] = pc[u] /\ tx'[u] = tx[u] /\ held'[u] = held[u]
    BY DEF TypeOK, Locks
<1>2. TypeOK'
    BY <1>1 DEF TypeOK, Running
<1>3. Locks'
  <2>1. held' = [u \in Txns |-> held'[u]] /\ tx' = [u \in Txns |-> tx'[u]]
    BY DEF Locks
  <2>2. \A u \in Txns : ~Running(u)' => held'[u] = {}
    BY <1>1 DEF Locks, Running
  <2>3. ASSUME NEW u \in Txns, NEW v \in Txns, u # v, NEW row \in held'[u] \cap held'[v]
        PROVE  \E rt \in Routes : row = AdmissionRow(rt)
    BY <1>1, <2>3 DEF Locks
  <2> QED
    BY <2>1, <2>2, <2>3 DEF Locks, AdmissionRow
<1>4. ASSUME NEW u \in Txns \ {t}
      PROVE  /\ u \in Requests => RequestOK(u)'
             /\ u \in Finishers => FinishOK(u)'
             /\ u \in Granters => GrantOK(u)'
             /\ TransferOK(u)'
  <2>1. pc'[u] = pc[u] /\ tx'[u] = tx[u] /\ held'[u] = held[u]
    BY <1>1
  <2>2. ASSUME u \in Requests PROVE RequestOK(u)'
    <3>1. RequestOK(u)
      BY <2>2 DEF Transactions
    <3>2. \A qs \in SUBSET Quotes, p \in Projects : RequestWork(u, qs, p) => RequestWork(u, qs, p)'
      BY <2>1 DEF RequestWork, ReservedMs, Claimed, Routed, ProjectRow, AdmissionRow
    <3> QED
      BY <2>1, <3>1, <3>2 DEF RequestOK, Running
  <2>3. ASSUME u \in Finishers PROVE FinishOK(u)'
    <3>1. FinishOK(u)
      BY <2>3 DEF Transactions
    <3>2. \A j \in JobIds : FinishWork(u, j) => FinishWork(u, j)'
      BY <2>1 DEF FinishWork, JobRow
    <3> QED
      BY <2>1, <3>1, <3>2 DEF FinishOK, Running
  <2>4. u \in Granters => GrantOK(u)'
    BY <2>1 DEF Transactions, GrantOK, Running
  <2>5. TransferOK(u)'
    <3>1. TransferOK(u) /\ UNCHANGED <<ledger, balance>>
      BY DEF Transactions
    <3>2. /\ Keyed(u)' <=> Keyed(u)
          /\ Debited(u)' <=> Debited(u)
      BY <2>1 DEF Keyed, Debited
    <3> QED
      BY <2>1, <3>1, <3>2 DEF TransferOK, KeyRow, WalletRow, DebitAccount
  <2> QED
    BY <2>2, <2>3, <2>4, <2>5
<1>5. Transactions'
    BY <1>4, PartiesAssumption DEF Transactions, Txns
<1>6. Rows'
  <2>1. JobsAfterCommit'
    BY <1>1 DEF Rows, JobsAfterCommit, Txns
  <2>2. QuotesPriced' /\ JobsPaid' /\ QuotePaysOnce' /\ DeletedProjectIsQuiet'
        /\ OneRoutePerProject' /\ BatchFollowsJobs'
    BY DEF Rows, QuotesPriced, Charge, JobsPaid, QuotePaysOnce, DeletedProjectIsQuiet, JobsOf,
           OneRoutePerProject, BatchFollowsJobs
  <2> QED
    BY <2>1, <2>2 DEF Rows
<1>7. Money'
    BY DEF Money, WalletsCovered, PostingsExplainBalances, Posted, CreditAccount, DebitAccount,
           FrozenForLiveJobs, LiveJobs
<1> QED
    BY <1>2, <1>3, <1>5, <1>6, <1>7

LEMMA WantedRows ==
    ASSUME NEW t \in Txns
    PROVE  /\ pc[t] = "solidify" => Wanted(t) = {ProjectRow(p) : p \in ProjectsOf(t)}
           /\ pc[t] = "post" => Wanted(t) = {KeyRow(tx[t].transfer)}
           /\ pc[t] = "debit" => Wanted(t) = {WalletRow(tx[t].transfer.user,
                                                        DebitAccount(tx[t].transfer))}
BY DEF Wanted

\* The rows that a step waits for are its own once it has locked them.
LEMMA LockKeepsOwners ==
    ASSUME Locks, NEW t \in Txns, Grantable(t)
    PROVE  \A u \in Txns \ {t} : \A row \in (held[t] \cup Wanted(t)) \cap held[u] :
              \E rt \in Routes : row = AdmissionRow(rt)
BY DEF Locks, Grantable, Free

\* The session is closed without a commit.
LEMMA RollbackStep ==
    ASSUME IInv, NEW t \in Txns, Running(t), Rollback(t), aborts' \in 0 .. MaxAborts
    PROVE  IInv'
<1>1. Rest(t) \in {"idle", "done"} /\ Rest(t) \in Labels
    BY DEF Rest, Labels
<1>2. pc'[t] = Rest(t)
    BY DEF Rollback, Goto, IInv, TypeOK
<1>3. RequestOK(t)' /\ FinishOK(t)' /\ GrantOK(t)'
    BY <1>1, <1>2 DEF RequestOK, FinishOK, GrantOK, Running
<1>4. TransferOK(t)'
    BY <1>1, <1>2 DEF TransferOK, Keyed, Debited
<1>5. /\ pc' = [pc EXCEPT ![t] = Rest(t)]
      /\ tx' = [tx EXCEPT ![t] = NoWork]
      /\ held' = [held EXCEPT ![t] = {}]
      /\ UNCHANGED rows
      /\ pc[t] # "done"
    BY DEF Rollback, Goto, Running
<1>6. \A u \in Txns \ {t} : \A row \in {} \cap held[u] : \E rt \in Routes : row = AdmissionRow(rt)
    OBVIOUS
<1> QED
    BY <1>1, <1>3, <1>4, <1>5, <1>6, OwnStep

\* A step that locks rows and goes on, with its work as it was.
LEMMA LockStep ==
    ASSUME IInv, NEW t \in Txns, Running(t), Grantable(t), Lock(t), NEW l \in Labels, Goto(t, l),
           l \notin {"idle", "done"}, UNCHANGED <<rows, tx, aborts>>,
           t \in Requests => RequestOK(t)',
           t \in Finishers => FinishOK(t)',
           t \in Granters => GrantOK(t)',
           TransferOK(t)'
    PROVE  IInv'
<1>1. tx' = [tx EXCEPT ![t] = tx[t]]
    BY DEF IInv, Locks
<1>2. held' = [held EXCEPT ![t] = held[t] \cup Wanted(t)]
    BY DEF Lock
<1>3. aborts' \in 0 .. MaxAborts /\ tx[t] \in Works
    BY DEF IInv, TypeOK
<1>4. pc' = [pc EXCEPT ![t] = l] /\ UNCHANGED rows /\ pc[t] # "done"
    BY DEF Goto, Running
<1>5. \A u \in Txns \ {t} : \A row \in (held[t] \cup Wanted(t)) \cap held[u] :
          \E rt \in Routes : row = AdmissionRow(rt)
    BY LockKeepsOwners DEF IInv
<1> QED
    BY <1>1, <1>2, <1>3, <1>4, <1>5, OwnStep

\* Its own rows and work are as they were, or more is locked: what it holds it keeps.
LEMMA OwnWork ==
    ASSUME IInv, NEW t \in Txns, tx'[t] = tx[t], held[t] \subseteq held'[t], UNCHANGED rows
    PROVE  /\ \A qs \in SUBSET Quotes, p \in Projects :
                 RequestWork(t, qs, p) /\ (Claimed(t)' => Claimed(t)) /\ (Routed(t)' => Routed(t))
                 => RequestWork(t, qs, p)'
           /\ \A j \in JobIds : FinishWork(t, j) => FinishWork(t, j)'
<1> USE DEF rows, projectVars, routeVars, quoteVars, jobVars, moneyVars
<1>1. ASSUME NEW qs \in SUBSET Quotes, NEW p \in Projects, RequestWork(t, qs, p),
             Claimed(t)' => Claimed(t), Routed(t)' => Routed(t)
      PROVE  RequestWork(t, qs, p)'
    BY <1>1 DEF RequestWork, ReservedMs, ProjectRow, AdmissionRow
<1>2. ASSUME NEW j \in JobIds, FinishWork(t, j)
      PROVE  FinishWork(t, j)'
    BY <1>2 DEF FinishWork, JobRow
<1> QED
    BY <1>1, <1>2

LEMMA BeginRequestStep ==
    ASSUME IInv, NEW r \in Requests, NEW qs \in SUBSET Quotes, qs # {}, BeginRequest(r, qs)
    PROVE  IInv'
<1> DEFINE ps == {quote[q].project : q \in qs}
<1>1. r \in Txns /\ pc[r] = "idle" /\ held[r] = {} /\ UNCHANGED rows /\ aborts' \in 0 .. MaxAborts
    BY DEF BeginRequest, Txns, IInv, Locks, Running, TypeOK
<1>2. CASE Cardinality(ps) = 1 /\ ps \cap deleted = {}
  <2>1. PICK p \in ps : ps = {p}
    BY <1>2, OneProject
  <2>2. /\ p \in Projects /\ p \notin deleted
        /\ \A q \in qs : quote[q].status # "NONE" /\ quote[q].project = p
    BY <1>2, <2>1 DEF BeginRequest, IInv, TypeOK, QuoteRows
  <2>3. p = CHOOSE x \in ps : TRUE
    BY <2>1
  <2> DEFINE w == [jobs |-> {r} \X qs, outcome |-> "LIVE", route |-> "NONE",
                   transfer |-> [type |-> "RESERVE", ref |-> r, user |-> ProjectOwner[p],
                                 amount |-> ReservedMs(qs)]]
             h == {ProjectRow(p)}
  <2>4. /\ pc' = [pc EXCEPT ![r] = FirstStep(r)]
        /\ tx' = [tx EXCEPT ![r] = w]
        /\ held' = [held EXCEPT ![r] = h]
    <3>1. {ProjectRow(x) : x \in ps} = h
      BY <2>1
    <3> QED
      BY <1>2, <2>3, <3>1 DEF BeginRequest, Goto
  <2>5. ReservedMs(qs) \in Nat \ {0}
    BY <2>2, ReservedPositive DEF IInv, Rows
  <2>6. w \in Works
    <3>1. w.jobs \in SUBSET JobIds /\ r \in TxRefs /\ ProjectOwner[p] \in Users
      BY <2>2, PartiesAssumption DEF JobIds, TxRefs
    <3> QED
      BY <2>5, <3>1 DEF Works, JobStates, Transfers, TxTypes
  <2>7. \A u \in Txns \ {r} : h \cap held[u] = {}
    BY <2>1 DEF BeginRequest, Unlocked
  <2>8. /\ FirstStep(r) \in {"route", "claim"} /\ FirstStep(r) \in Labels
        /\ FirstStep(r) \notin {"idle", "done"} /\ pc[r] # "done"
    BY <1>1 DEF FirstStep, Labels
  <2>9. pc'[r] = FirstStep(r) /\ tx'[r] = w /\ held'[r] = h
    BY <1>1, <2>4 DEF IInv, TypeOK, Locks
  <2> HIDE DEF ps
  <2>10. RequestOK(r)'
    <3>1. ~Claimed(r)' /\ ~Routed(r)'
      BY <2>9, TxnKinds, <1>1 DEF FirstStep, Claimed, Routed
    <3>2. ReservedMs(qs)' = ReservedMs(qs)
      BY <1>1 DEF ReservedMs, rows, quoteVars
    <3>3. RequestWork(r, qs, p)'
      BY <1>1, <2>2, <2>9, <3>1, <3>2
         DEF RequestWork, rows, quoteVars, projectVars, ProjectRow
    <3> QED
      BY <2>2, <2>8, <2>9, <3>3 DEF RequestOK
  <2>11. TransferOK(r)'
    BY <2>9, TxnKinds, <1>1 DEF TransferOK, Keyed, Debited, FirstStep
  <2>12. r \notin Finishers /\ r \notin Granters
    BY <1>1, TxnKinds
  <2>13. \A u \in Txns \ {r} :
            \A row \in h \cap held[u] : \E rt \in Routes : row = AdmissionRow(rt)
    BY <2>7
  <2> HIDE DEF w, h
  <2> QED
    BY <1>1, <2>4, <2>6, <2>8, <2>10, <2>11, <2>12, <2>13, OwnStep
<1>3. CASE ~(Cardinality(ps) = 1 /\ ps \cap deleted = {})
  <2>1. /\ pc' = [pc EXCEPT ![r] = "done"]
        /\ tx' = [tx EXCEPT ![r] = tx[r]]
        /\ held' = [held EXCEPT ![r] = {}]
    BY <1>1, <1>3 DEF BeginRequest, Goto, IInv, Locks
  <2>2. pc'[r] = "done" /\ "done" \in Labels
    BY <1>1, <2>1 DEF IInv, TypeOK, Labels
  <2>3. RequestOK(r)' /\ TransferOK(r)' /\ r \notin Finishers /\ r \notin Granters
    BY <1>1, <2>2, TxnKinds DEF RequestOK, Running, TransferOK, Keyed, Debited
  <2> QED
    BY <1>1, <2>1, <2>2, <2>3, OwnStep
<1> QED
    BY <1>2, <1>3

LEMMA FinishJobStep ==
    ASSUME IInv, NEW f \in Finishers, NEW j \in JobIds,
           NEW o \in {"SUCCEEDED", "FAILED_FINAL", "CANCELLED"}, FinishJob(f, j, o)
    PROVE  IInv'
<1>1. f \in Txns /\ pc[f] = "idle" /\ UNCHANGED rows /\ aborts' \in 0 .. MaxAborts
    BY DEF FinishJob, Txns, IInv, TypeOK
<1> DEFINE w == [jobs |-> {j}, outcome |-> o, route |-> jobRoute[j],
                 transfer |-> [type |-> IF o = "SUCCEEDED" THEN "SETTLE" ELSE "RELEASE",
                               ref |-> j, user |-> ProjectOwner[quote[j[2]].project],
                               amount |-> quote[j[2]].amount]]
           l == IF o = "SUCCEEDED" THEN "solidify" ELSE "post"
           h == {JobRow(j)}
<1>2. /\ pc' = [pc EXCEPT ![f] = l]
      /\ tx' = [tx EXCEPT ![f] = w]
      /\ held' = [held EXCEPT ![f] = h]
    BY DEF FinishJob, Goto
<1>3. job[j] = "LIVE" /\ quote[j[2]] \in QuoteRows /\ quote[j[2]].status # "NONE"
    BY DEF FinishJob, IInv, TypeOK, Rows, JobsPaid, JobIds
<1>4. quote[j[2]].amount \in Nat \ {0}
    BY <1>3, ChargeRoundsUp DEF IInv, Rows, QuotesPriced, QuoteRows, JobIds
<1>5. w \in Works
  <2>1. {j} \in SUBSET JobIds /\ j \in TxRefs /\ ProjectOwner[quote[j[2]].project] \in Users
    BY <1>3, PartiesAssumption DEF TxRefs, QuoteRows
  <2>2. jobRoute[j] \in Routes \cup {"NONE"} /\ o \in JobStates
    BY DEF IInv, TypeOK, JobStates
  <2> QED
    BY <1>4, <2>1, <2>2 DEF Works, Transfers, TxTypes
<1>6. \A u \in Txns \ {f} : h \cap held[u] = {}
    BY DEF FinishJob, Unlocked
<1>7. pc'[f] = l /\ tx'[f] = w /\ held'[f] = h
    BY <1>1, <1>2 DEF IInv, TypeOK, Locks
<1>8. FinishWork(f, j)'
    BY <1>1, <1>3, <1>7 DEF FinishWork, rows, quoteVars, jobVars, JobRow
<1>9. FinishOK(f)'
    BY <1>7, <1>8 DEF FinishOK
<1>10. TransferOK(f)'
    BY <1>1, <1>7 DEF TransferOK, Keyed, Debited
<1>11. /\ f \notin Requests /\ f \notin Granters /\ l \in Labels
       /\ l \notin {"idle", "done"} /\ pc[f] # "done"
    BY <1>1, TxnKinds DEF Labels
<1>12. \A u \in Txns \ {f} :
          \A row \in h \cap held[u] : \E rt \in Routes : row = AdmissionRow(rt)
    BY <1>6
<1> HIDE DEF w, h, l
<1> QED
    BY <1>1, <1>2, <1>5, <1>9, <1>10, <1>11, <1>12, OwnStep

LEMMA GrantStep ==
    ASSUME IInv, NEW g \in Granters, NEW k \in GrantKeys, NEW u \in Users, NEW n \in GrantAmounts,
           Grant(g, k, u, n)
    PROVE  IInv'
<1>1. /\ g \in Txns /\ pc[g] = "idle" /\ held[g] = {} /\ UNCHANGED rows
      /\ aborts' \in 0 .. MaxAborts
    BY DEF Grant, Txns, IInv, TypeOK, Locks, Running
<1> DEFINE w == [jobs |-> {}, outcome |-> "NONE", route |-> "NONE",
                 transfer |-> [type |-> "GRANT", ref |-> k, user |-> u, amount |-> n]]
<1>2. /\ pc' = [pc EXCEPT ![g] = "post"]
      /\ tx' = [tx EXCEPT ![g] = w]
      /\ held' = [held EXCEPT ![g] = {}]
    BY <1>1 DEF Grant, Goto, IInv, Locks
<1>3. w \in Works
    BY AmountsAssumption DEF Works, Transfers, TxTypes, TxRefs, JobStates
<1>4. pc'[g] = "post" /\ tx'[g] = w
    BY <1>1, <1>2 DEF IInv, TypeOK, Locks
<1>5. GrantOK(g)' /\ TransferOK(g)'
    BY <1>1, <1>4, TxnKinds DEF GrantOK, TransferOK, Keyed, Debited
<1>6. g \notin Requests /\ g \notin Finishers /\ "post" \in Labels
    BY <1>1, TxnKinds DEF Labels
<1>7. \A v \in Txns \ {g} : {} \cap held[v] = {}
    OBVIOUS
<1> HIDE DEF w
<1> QED
    BY <1>1, <1>2, <1>3, <1>5, <1>6, <1>7, OwnStep

\* Who can be where.
LEMMA Places ==
    ASSUME IInv, NEW t \in Txns
    PROVE  /\ pc[t] \in {"route", "claim"} => t \in Requests
           /\ pc[t] = "solidify" => t \in Finishers
           /\ pc[t] = "batch" => t \in Finishers
BY TxnKinds DEF IInv, Transactions, RequestOK, FinishOK, GrantOK, Running

LEMMA ProjectRouteStep ==
    ASSUME IInv, NEW r \in Txns, ProjectRoute(r)
    PROVE  IInv'
<1> DEFINE rt == RouteFor(CHOOSE p \in ProjectsOf(r) : TRUE)
<1>1. r \in Requests /\ pc[r] = "route" /\ Running(r) /\ aborts' \in 0 .. MaxAborts
    BY Places DEF ProjectRoute, Running, IInv, TypeOK
<1>2. PICK qs \in SUBSET Quotes, p \in Projects : RequestWork(r, qs, p)
    BY <1>1 DEF IInv, Transactions, RequestOK
<1>3. rt = RouteFor(p)
  <2>1. ProjectsOf(r) = {p}
    BY <1>1, <1>2, RequestRows
  <2> QED
    BY <2>1
<1>4. rt \in Routes /\ binding[p] \in {"NONE", rt}
    BY <1>3, AmountsAssumption DEF RouteFor, IInv, TypeOK
<1>5. CASE rt \notin stopped
  <2> DEFINE l == IF r \in Singles THEN "claim" ELSE "commit"
             w == [tx[r] EXCEPT !.route = rt]
             h == held[r] \cup {AdmissionRow(rt)}
  <2>1. /\ pc' = [pc EXCEPT ![r] = l]
        /\ tx' = [tx EXCEPT ![r] = w]
        /\ held' = [held EXCEPT ![r] = h]
        /\ UNCHANGED rows
    BY <1>5 DEF ProjectRoute, Goto
  <2>2. tx[r] \in Works
    BY <1>1 DEF IInv, TypeOK
  <2>3. w \in Works /\ w.route = rt /\ w.jobs = tx[r].jobs /\ w.outcome = tx[r].outcome
        /\ w.transfer = tx[r].transfer
    BY <1>4, <2>2 DEF Works
  <2>4. \A u \in Txns \ {r} : \A row \in h \cap held[u] : \E x \in Routes : row = AdmissionRow(x)
    BY <1>4 DEF IInv, Locks
  <2>5. pc'[r] = l /\ tx'[r] = w /\ held'[r] = h
    BY <2>1 DEF IInv, TypeOK, Locks
  <2> HIDE DEF w, h, rt
  <2>6. RequestWork(r, qs, p)'
    <3>1. ReservedMs(qs)' = ReservedMs(qs)
      BY <2>1 DEF ReservedMs, rows, quoteVars
    <3>2. Claimed(r)' => Claimed(r)
      BY <1>1, <2>5, TxnKinds DEF Claimed
    <3>3. AdmissionRow(rt) \in held'[r] /\ held[r] \subseteq held'[r]
      BY <2>5 DEF h
    <3> QED
      BY <1>2, <1>4, <1>5, <2>1, <2>3, <2>5, <3>1, <3>2, <3>3
         DEF RequestWork, rows, quoteVars, projectVars, routeVars, ProjectRow, AdmissionRow
  <2>7. RequestOK(r)'
    BY <2>5, <2>6 DEF RequestOK
  <2>8. TransferOK(r)'
    <3>1. Keyed(r)' => Keyed(r)
      BY <1>1, <2>5, TxnKinds DEF Keyed
    <3>2. Debited(r)' => Debited(r)
      BY <1>1, <2>5, TxnKinds DEF Debited
    <3>3. TransferOK(r) /\ held[r] \subseteq held'[r] /\ tx'[r].transfer = tx[r].transfer
      BY <2>3, <2>5 DEF IInv, Transactions, h
    <3> QED
      BY <2>1, <3>1, <3>2, <3>3
         DEF TransferOK, KeyRow, WalletRow, DebitAccount, rows, moneyVars
  <2>9. r \notin Finishers /\ r \notin Granters /\ l \in Labels /\ l \notin {"idle", "done"}
    BY <1>1, TxnKinds DEF Labels
  <2> HIDE DEF l
  <2> QED
    BY <1>1, <2>1, <2>3, <2>4, <2>7, <2>8, <2>9, OwnStep
<1>6. CASE rt \in stopped
  <2>1. Rollback(r)
    BY <1>6 DEF ProjectRoute
  <2> QED
    BY <1>1, <2>1, RollbackStep
<1> QED
    BY <1>5, <1>6

LEMMA ClaimQuotesStep ==
    ASSUME IInv, NEW r \in Txns, ClaimQuotes(r)
    PROVE  IInv'
<1>1. r \in Requests /\ pc[r] = "claim" /\ Running(r) /\ aborts' \in 0 .. MaxAborts
    BY Places DEF ClaimQuotes, Running, IInv, TypeOK
<1>2. PICK qs \in SUBSET Quotes, p \in Projects : RequestWork(r, qs, p)
    BY <1>1 DEF IInv, Transactions, RequestOK
<1>3. QuotesOf(r) = qs
    BY <1>1, <1>2, RequestRows
<1>4. CASE \A q \in QuotesOf(r) : ValidateQuoteTerms(q)
  <2>1. /\ pc' = [pc EXCEPT ![r] = "post"]
        /\ tx' = [tx EXCEPT ![r] = tx[r]]
        /\ held' = [held EXCEPT ![r] = held[r]]
        /\ UNCHANGED rows
    BY <1>4 DEF ClaimQuotes, Goto, IInv, Locks
  <2>2. pc'[r] = "post" /\ tx'[r] = tx[r] /\ held'[r] = held[r]
    BY <2>1 DEF IInv, TypeOK, Locks
  <2>3. \A q \in qs : quote[q].status = "OPEN" /\ quote[q].duration = shot[p]
    BY <1>2, <1>3, <1>4 DEF ValidateQuoteTerms, RequestWork
  <2>4. RequestWork(r, qs, p)'
    <3>1. ReservedMs(qs)' = ReservedMs(qs)
      BY <2>1 DEF ReservedMs, rows, quoteVars
    <3>2. Routed(r)' => Routed(r)
      BY <1>1, <2>2 DEF Routed
    <3> QED
      BY <1>2, <2>1, <2>2, <2>3, <3>1, <3>2
         DEF RequestWork, rows, quoteVars, projectVars, routeVars, ProjectRow, AdmissionRow
  <2>5. RequestOK(r)'
    BY <2>2, <2>4 DEF RequestOK
  <2>6. TransferOK(r)'
    BY <2>2 DEF TransferOK, Keyed, Debited
  <2>7. \A u \in Txns \ {r} :
            \A row \in held[r] \cap held[u] : \E x \in Routes : row = AdmissionRow(x)
    BY DEF IInv, Locks
  <2>8. r \notin Finishers /\ r \notin Granters /\ "post" \in Labels /\ tx[r] \in Works
    BY <1>1, TxnKinds DEF Labels, IInv, TypeOK
  <2> QED
    BY <1>1, <2>1, <2>5, <2>6, <2>7, <2>8, OwnStep
<1>5. CASE ~ \A q \in QuotesOf(r) : ValidateQuoteTerms(q)
  <2>1. Rollback(r)
    BY <1>5 DEF ClaimQuotes
  <2> QED
    BY <1>1, <2>1, RollbackStep
<1> QED
    BY <1>4, <1>5

\* A locking step that does not pass the point where its work is checked.
LEMMA KeepsWork ==
    ASSUME IInv, NEW t \in Txns, Running(t), Lock(t), NEW l \in Labels, Goto(t, l),
           UNCHANGED <<rows, tx>>,
           t \in Requests => /\ l \in {"route", "claim", "post", "debit", "credit", "commit"}
                             /\ Claimed(t)' => Claimed(t)
                             /\ Routed(t)' => Routed(t),
           t \in Finishers => l \in {"solidify", "post", "debit", "credit", "batch", "commit"},
           t \in Granters => l \in {"post", "debit", "credit", "commit"}
    PROVE  /\ t \in Requests => RequestOK(t)'
           /\ t \in Finishers => FinishOK(t)'
           /\ t \in Granters => GrantOK(t)'
           /\ pc'[t] = l /\ tx'[t] = tx[t] /\ held'[t] = held[t] \cup Wanted(t)
<1>1. pc'[t] = l /\ tx'[t] = tx[t] /\ held'[t] = held[t] \cup Wanted(t) /\ UNCHANGED rows
    BY DEF Lock, Goto, IInv, TypeOK, Locks
<1>2. held[t] \subseteq held'[t]
    BY <1>1
<1>3. ASSUME t \in Requests PROVE RequestOK(t)'
  <2>1. PICK qs \in SUBSET Quotes, p \in Projects : RequestWork(t, qs, p)
    BY <1>3 DEF IInv, Transactions, RequestOK
  <2>2. RequestWork(t, qs, p)'
    BY <1>1, <1>2, <1>3, <2>1, OwnWork
  <2> QED
    BY <1>1, <1>3, <2>2 DEF RequestOK
<1>4. ASSUME t \in Finishers PROVE FinishOK(t)'
  <2>1. PICK j \in JobIds : FinishWork(t, j)
    BY <1>4 DEF IInv, Transactions, FinishOK
  <2>2. FinishWork(t, j)'
    BY <1>1, <1>2, <2>1, OwnWork
  <2> QED
    BY <1>1, <1>4, <2>2 DEF FinishOK
<1>5. t \in Granters => GrantOK(t)'
    BY <1>1 DEF IInv, Transactions, GrantOK
<1> QED
    BY <1>1, <1>3, <1>4, <1>5

LEMMA SolidifyStep ==
    ASSUME IInv, NEW f \in Txns, SolidifyProjectRoute(f)
    PROVE  IInv'
<1>1. f \in Finishers /\ pc[f] = "solidify" /\ Running(f) /\ aborts' \in 0 .. MaxAborts
      /\ Grantable(f) /\ f \notin Requests /\ f \notin Granters
    BY Places, TxnKinds DEF SolidifyProjectRoute, Running, IInv, TypeOK
<1>2. CASE \A p \in ProjectsOf(f) : binding[p] = tx[f].route
  <2>1. Lock(f) /\ Goto(f, "post") /\ UNCHANGED <<rows, tx, aborts>> /\ "post" \in Labels
    BY <1>2 DEF SolidifyProjectRoute, Labels
  <2>2. FinishOK(f)' /\ pc'[f] = "post"
    BY <1>1, <2>1, KeepsWork
  <2>3. TransferOK(f)'
    BY <2>2 DEF TransferOK, Keyed, Debited
  <2> QED
    BY <1>1, <2>1, <2>2, <2>3, LockStep
<1>3. CASE ~ \A p \in ProjectsOf(f) : binding[p] = tx[f].route
  <2>1. Rollback(f)
    BY <1>3 DEF SolidifyProjectRoute
  <2> QED
    BY <1>1, <2>1, RollbackStep
<1> QED
    BY <1>2, <1>3

LEMMA PostTransferStep ==
    ASSUME IInv, NEW t \in Txns, PostTransfer(t)
    PROVE  IInv'
<1>1. pc[t] = "post" /\ Running(t) /\ aborts' \in 0 .. MaxAborts /\ Grantable(t)
    BY DEF PostTransfer, Running, IInv, TypeOK
<1>2. CASE Existing(tx[t].transfer) = {}
  <2>1. Lock(t) /\ Goto(t, "debit") /\ UNCHANGED <<rows, tx, aborts>> /\ "debit" \in Labels
    BY <1>2 DEF PostTransfer, Labels
  <2>2. pc'[t] = "debit"
    BY <2>1 DEF Goto, IInv, TypeOK
  <2>3. (Claimed(t)' => Claimed(t)) /\ (Routed(t)' => Routed(t))
    BY <1>1, <2>2 DEF Claimed, Routed
  <2>4. /\ t \in Requests => RequestOK(t)'
        /\ t \in Finishers => FinishOK(t)'
        /\ t \in Granters => GrantOK(t)'
        /\ tx'[t] = tx[t] /\ held'[t] = held[t] \cup Wanted(t)
    BY <1>1, <2>1, <2>3, KeepsWork
  <2>5. KeyRow(tx[t].transfer) \in held'[t]
    BY <1>1, <2>4, WantedRows
  <2>6. TransferOK(t)'
    BY <1>2, <2>1, <2>2, <2>4, <2>5
       DEF TransferOK, Keyed, Debited, Existing, KeyRow, rows, moneyVars
  <2> QED
    BY <1>1, <2>1, <2>4, <2>6, LockStep
<1>3. CASE Existing(tx[t].transfer) # {}
  <2>1. Rollback(t)
    BY <1>3 DEF PostTransfer
  <2> QED
    BY <1>1, <2>1, RollbackStep
<1> QED
    BY <1>2, <1>3

LEMMA DebitStep ==
    ASSUME IInv, NEW t \in Txns, Debit(t)
    PROVE  IInv'
<1> DEFINE tr == tx[t].transfer
           a == DebitAccount(tr)
<1>1. pc[t] = "debit" /\ Running(t) /\ aborts' \in 0 .. MaxAborts /\ Grantable(t)
    BY DEF Debit, Running, IInv, TypeOK
<1>2. tr \in Transfers
    BY <1>1 DEF IInv, TypeOK, Works
<1>3. CASE a = "PLATFORM_ISSUED" \/ balance[tr.user][a] - tr.amount >= 0
  <2>1. Lock(t) /\ Goto(t, "credit") /\ UNCHANGED <<rows, tx, aborts>> /\ "credit" \in Labels
    BY <1>3 DEF Debit, Labels
  <2>2. pc'[t] = "credit"
    BY <2>1 DEF Goto, IInv, TypeOK
  <2>3. (Claimed(t)' => Claimed(t)) /\ (Routed(t)' => Routed(t))
    BY <1>1, <2>2 DEF Claimed, Routed
  <2>4. /\ t \in Requests => RequestOK(t)'
        /\ t \in Finishers => FinishOK(t)'
        /\ t \in Granters => GrantOK(t)'
        /\ tx'[t] = tx[t] /\ held'[t] = held[t] \cup Wanted(t)
    BY <1>1, <2>1, <2>3, KeepsWork
  <2>5. WalletRow(tr.user, a) \in held'[t] /\ held[t] \subseteq held'[t]
    BY <1>1, <2>4, WantedRows
  <2>6. a = "PLATFORM_ISSUED" \/ balance[tr.user][a] >= tr.amount
    <3>1. tr.amount \in Int /\ balance[tr.user][a] \in Int
      BY <1>2, AccountsOf DEF Transfers, IInv, TypeOK
    <3> QED
      BY <1>3, <3>1
  <2>7. TransferOK(t) /\ Keyed(t)
    BY <1>1 DEF IInv, Transactions, Keyed
  <2>8. TransferOK(t)'
    BY <2>1, <2>4, <2>5, <2>6, <2>7
       DEF TransferOK, KeyRow, WalletRow, DebitAccount, rows, moneyVars
  <2> QED
    BY <1>1, <2>1, <2>4, <2>8, LockStep
<1>4. CASE ~(a = "PLATFORM_ISSUED" \/ balance[tr.user][a] - tr.amount >= 0)
  <2>1. Rollback(t)
    BY <1>4 DEF Debit
  <2> QED
    BY <1>1, <2>1, RollbackStep
<1> QED
    BY <1>3, <1>4

LEMMA CreditStep ==
    ASSUME IInv, NEW t \in Txns, Credit(t)
    PROVE  IInv'
<1> DEFINE l == CASE t \in Batches -> "route"
                  [] BatchesOf(t) # {} -> "batch"
                  [] OTHER -> "commit"
<1>1. pc[t] = "credit" /\ Running(t) /\ Grantable(t) /\ Lock(t) /\ Goto(t, l)
      /\ UNCHANGED <<rows, tx, aborts>>
    BY DEF Credit, Running
<1>2. /\ l \in {"route", "batch", "commit"} /\ l \in Labels
      /\ t \in Batches => l = "route"
      /\ l = "route" => t \in Batches
      /\ l = "batch" => t \in Finishers
  <2>1. t \in Batches => BatchesOf(t) = {}
    BY TxnKinds DEF BatchesOf
  <2>2. BatchesOf(t) # {} => t \in Finishers
    BY DEF BatchesOf
  <2>3. /\ t \in Batches => l = "route"
        /\ t \notin Batches /\ BatchesOf(t) # {} => l = "batch"
        /\ t \notin Batches /\ BatchesOf(t) = {} => l = "commit"
    BY <2>1, Zenon
  <2> HIDE DEF l
  <2> QED
    BY <2>2, <2>3 DEF Labels
<1> HIDE DEF l
<1>3. pc'[t] = l
    BY <1>1 DEF Goto, IInv, TypeOK
<1>4. (Claimed(t)' => Claimed(t)) /\ (t \in Requests => (Routed(t)' => Routed(t)))
    BY <1>1, <1>2, <1>3, TxnKinds DEF Claimed, Routed
<1>5. /\ t \in Requests => l \in {"route", "commit"}
      /\ t \in Finishers => l \in {"batch", "commit"}
      /\ t \in Granters => l = "commit"
    BY <1>2, TxnKinds
<1>6. /\ t \in Requests => RequestOK(t)'
      /\ t \in Finishers => FinishOK(t)'
      /\ t \in Granters => GrantOK(t)'
      /\ tx'[t] = tx[t] /\ held'[t] = held[t] \cup Wanted(t)
    BY <1>1, <1>2, <1>4, <1>5, KeepsWork
<1>7. TransferOK(t) /\ Keyed(t) /\ Debited(t)
    BY <1>1 DEF IInv, Transactions, Keyed, Debited
<1>8. TransferOK(t)'
    BY <1>1, <1>6, <1>7 DEF TransferOK, KeyRow, WalletRow, DebitAccount, rows, moneyVars
<1> QED
    BY <1>1, <1>2, <1>6, <1>8, LockStep

LEMMA LockBatchStep ==
    ASSUME IInv, NEW t \in Txns, LockBatch(t)
    PROVE  IInv'
<1>1. pc[t] = "batch" /\ Running(t) /\ Grantable(t) /\ Lock(t) /\ Goto(t, "commit")
      /\ UNCHANGED <<rows, tx, aborts>> /\ "commit" \in Labels
    BY DEF LockBatch, Running, Labels
<1>2. t \in Finishers /\ t \notin Requests /\ t \notin Granters
    BY <1>1, Places, TxnKinds
<1>3. FinishOK(t)' /\ tx'[t] = tx[t] /\ held'[t] = held[t] \cup Wanted(t)
    BY <1>1, <1>2, KeepsWork
<1>4. TransferOK(t) /\ Keyed(t) /\ Debited(t)
    BY <1>1 DEF IInv, Transactions, Keyed, Debited
<1>5. TransferOK(t)'
    BY <1>1, <1>3, <1>4 DEF TransferOK, KeyRow, WalletRow, DebitAccount, rows, moneyVars
<1> QED
    BY <1>1, <1>2, <1>3, <1>5, LockStep

-----------------------------------------------------------------------------
(* Shots, quotes, projects and routes *)

\* What was reserved does not change with the quotes that nobody has asked for yet.
LEMMA SameReservation ==
    ASSUME NEW qs \in SUBSET Quotes, \A q \in qs : quote'[q] = quote[q]
    PROVE  ReservedMs(qs)' = ReservedMs(qs)
<1> DEFINE f == [q \in Quotes |-> quote[q].amount]
           g == [q \in Quotes |-> quote'[q].amount]
<1>1. IsFiniteSet(qs)
    BY RowsAssumption, FS_Subset
<1>2. \A q \in qs : f[q] = g[q]
    OBVIOUS
<1> HIDE DEF f, g
<1>3. SumFunctionOnSet(f, qs) = SumFunctionOnSet(g, qs)
    BY <1>1, <1>2, SumSame
<1> QED
    BY <1>3 DEF ReservedMs, f, g

LEMMA SameLiveJobs ==
    ASSUME TypeOK, JobsPaid, job' = job,
           \A q \in Quotes : quote[q].status # "NONE" => quote'[q] = quote[q],
           NEW u \in Users
    PROVE  /\ LiveJobs(u)' = LiveJobs(u)
           /\ SumFunctionOnSet([j \in JobIds |-> quote'[j[2]].amount], LiveJobs(u))
              = SumFunctionOnSet([j \in JobIds |-> quote[j[2]].amount], LiveJobs(u))
<1> DEFINE f == [j \in JobIds |-> quote[j[2]].amount]
           g == [j \in JobIds |-> quote'[j[2]].amount]
<1>1. \A j \in JobIds : job[j] # "NONE" => quote'[j[2]] = quote[j[2]]
    BY DEF JobsPaid, JobIds
<1>2. LiveJobs(u)' = LiveJobs(u)
    BY <1>1 DEF LiveJobs
<1>3. IsFiniteSet(LiveJobs(u)) /\ LiveJobs(u) \subseteq JobIds
    BY FiniteJobs, FS_Subset DEF LiveJobs
<1>4. \A j \in LiveJobs(u) : f[j] = g[j]
    BY <1>1 DEF LiveJobs
<1> HIDE DEF f, g
<1>5. SumFunctionOnSet(f, LiveJobs(u)) = SumFunctionOnSet(g, LiveJobs(u))
    BY <1>3, <1>4, SumSame
<1> QED
    BY <1>2, <1>5 DEF f, g

\* A step outside the transactions leaves them, the jobs, the quotes that were asked
\* for and the money alone: what has to be shown is that no request is disturbed.
LEMMA OutsideStep ==
    ASSUME IInv, TypeOK', QuotesPriced', DeletedProjectIsQuiet',
           UNCHANGED <<binding, jobVars, moneyVars, txVars>>,
           \A q \in Quotes : quote[q].status # "NONE" => quote'[q] = quote[q],
           \A r \in Requests, qs \in SUBSET Quotes, p \in Projects :
              RequestWork(r, qs, p) => RequestWork(r, qs, p)'
    PROVE  IInv'
<1> USE DEF jobVars, moneyVars, txVars, IInv
<1>1. Locks'
    BY DEF Locks, Running, AdmissionRow
<1>2. Transactions'
  <2>1. ASSUME NEW r \in Requests PROVE RequestOK(r)'
    BY DEF Transactions, RequestOK, Running
  <2>2. ASSUME NEW f \in Finishers PROVE FinishOK(f)'
    <3>1. \A j \in JobIds : FinishWork(f, j) => FinishWork(f, j)'
      <4> SUFFICES ASSUME NEW j \in JobIds, FinishWork(f, j)
                   PROVE  FinishWork(f, j)'
        OBVIOUS
      <4>1. quote'[j[2]] = quote[j[2]]
        BY DEF Rows, JobsPaid, FinishWork, JobIds
      <4> QED
        BY <4>1 DEF FinishWork, JobRow
    <3>2. FinishOK(f)
      BY DEF Transactions
    <3> QED
      BY <3>1, <3>2 DEF FinishOK, Running
  <2>3. \A g \in Granters : GrantOK(g)'
    BY DEF Transactions, GrantOK, Running
  <2>4. \A t \in Txns : TransferOK(t)'
    BY DEF Transactions, TransferOK, Keyed, Debited, KeyRow, WalletRow, DebitAccount
  <2> QED
    BY <2>1, <2>2, <2>3, <2>4 DEF Transactions
<1>3. Rows'
  <2>1. JobsPaid' /\ OneRoutePerProject'
    BY DEF Rows, JobsPaid, OneRoutePerProject, JobIds
  <2>2. JobsAfterCommit' /\ QuotePaysOnce' /\ BatchFollowsJobs'
    BY DEF Rows, JobsAfterCommit, QuotePaysOnce, BatchFollowsJobs
  <2> QED
    BY <2>1, <2>2 DEF Rows
<1>4. Money'
  <2>1. FrozenForLiveJobs'
    BY SameLiveJobs DEF Money, Rows, FrozenForLiveJobs
  <2> QED
    BY <2>1 DEF Money, WalletsCovered, PostingsExplainBalances, Posted, CreditAccount, DebitAccount
<1> QED
    BY <1>1, <1>2, <1>3, <1>4

\* Requests hold the row of their project, so these steps happen to other projects.
LEMMA OtherProject ==
    ASSUME NEW r \in Requests, NEW qs \in SUBSET Quotes, NEW p \in Projects, NEW o \in Projects,
           RequestWork(r, qs, p), Unlocked(ProjectRow(o))
    PROVE  p # o
BY DEF RequestWork, Unlocked, Txns

LEMMA UpdateShotStep ==
    ASSUME IInv, NEW p \in Projects, NEW d \in Durations, UpdateShot(p, d)
    PROVE  IInv'
<1> USE DEF UpdateShot, routeVars, quoteVars, jobVars, moneyVars, txVars
<1>1. TypeOK'
    BY DEF IInv, TypeOK, Running
<1>2. ASSUME NEW r \in Requests, NEW qs \in SUBSET Quotes, NEW o \in Projects, RequestWork(r, qs, o)
      PROVE  RequestWork(r, qs, o)'
  <2>1. shot'[o] = shot[o]
    BY <1>2, OtherProject DEF IInv, TypeOK
  <2> QED
    BY <1>2, <2>1 DEF RequestWork, ReservedMs, Claimed, Routed, ProjectRow, AdmissionRow
<1>3. QuotesPriced' /\ DeletedProjectIsQuiet'
    BY DEF IInv, Rows, QuotesPriced, Charge, DeletedProjectIsQuiet, JobsOf
<1> QED
    BY <1>1, <1>2, <1>3, OutsideStep

LEMMA CreateQuoteStep ==
    ASSUME IInv, NEW q \in Quotes, NEW p \in Projects, CreateQuote(q, p)
    PROVE  IInv'
<1> USE DEF CreateQuote, projectVars, routeVars, jobVars, moneyVars, txVars
<1>1. shot[p] \in Durations /\ Charge(shot[p]) \in Nat
    BY ChargeRoundsUp DEF IInv, TypeOK
<1>2. /\ quote' = [quote EXCEPT ![q] = [status |-> "OPEN", project |-> p, duration |-> shot[p],
                                        amount |-> Charge(shot[p])]]
      /\ quote \in [Quotes -> QuoteRows]
    BY DEF IInv, TypeOK
<1>3. quote' \in [Quotes -> QuoteRows]
    BY <1>1, <1>2 DEF QuoteRows, QuoteStatuses
<1>4. /\ \A x \in Quotes : quote[x].status # "NONE" => quote'[x] = quote[x]
      /\ quote[q].status = "NONE"
    BY <1>2
<1>5. TypeOK'
    BY <1>3 DEF IInv, TypeOK, Running
<1>6. ASSUME NEW r \in Requests, NEW qs \in SUBSET Quotes, NEW o \in Projects, RequestWork(r, qs, o)
      PROVE  RequestWork(r, qs, o)'
  <2>1. \A x \in qs : quote'[x] = quote[x]
    BY <1>4, <1>6 DEF RequestWork
  <2>2. ReservedMs(qs)' = ReservedMs(qs)
    BY <2>1, SameReservation
  <2> QED
    BY <1>6, <2>1, <2>2 DEF RequestWork, Claimed, Routed, ProjectRow, AdmissionRow
<1>7. QuotesPriced'
    BY <1>1, <1>2 DEF IInv, Rows, QuotesPriced, Charge
<1>8. DeletedProjectIsQuiet'
  <2>1. \A j \in JobIds : job[j] # "NONE" => quote'[j[2]] = quote[j[2]]
    BY <1>4 DEF IInv, Rows, JobsPaid, JobIds
  <2> QED
    BY <2>1 DEF IInv, Rows, DeletedProjectIsQuiet, JobsOf
<1> QED
    BY <1>4, <1>5, <1>6, <1>7, <1>8, OutsideStep

LEMMA DeleteProjectStep ==
    ASSUME IInv, NEW p \in Projects, DeleteProject(p)
    PROVE  IInv'
<1> USE DEF DeleteProject, routeVars, quoteVars, jobVars, moneyVars, txVars
<1>1. TypeOK'
    BY DEF IInv, TypeOK, Running
<1>2. ASSUME NEW r \in Requests, NEW qs \in SUBSET Quotes, NEW o \in Projects, RequestWork(r, qs, o)
      PROVE  RequestWork(r, qs, o)'
  <2>1. o \notin deleted'
    BY <1>2, OtherProject DEF RequestWork
  <2> QED
    BY <1>2, <2>1 DEF RequestWork, ReservedMs, Claimed, Routed, ProjectRow, AdmissionRow
<1>3. QuotesPriced' /\ DeletedProjectIsQuiet'
    BY DEF IInv, Rows, QuotesPriced, Charge, DeletedProjectIsQuiet, JobsOf
<1> QED
    BY <1>1, <1>2, <1>3, OutsideStep

LEMMA RouteStep ==
    ASSUME IInv, NEW rt \in Routes, ActivateRoute(rt) \/ StopRoute(rt)
    PROVE  IInv'
<1> USE DEF ActivateRoute, StopRoute, projectVars, quoteVars, jobVars, moneyVars, txVars
<1>1. TypeOK'
    BY DEF IInv, TypeOK, Running
<1>2. ASSUME NEW r \in Requests, NEW qs \in SUBSET Quotes, NEW o \in Projects, RequestWork(r, qs, o)
      PROVE  RequestWork(r, qs, o)'
  <2>1. Routed(r) => tx[r].route \notin stopped'
    BY <1>2 DEF RequestWork, Unlocked, Txns
  <2> QED
    BY <1>2, <2>1 DEF RequestWork, ReservedMs, Claimed, Routed, ProjectRow, AdmissionRow
<1>3. QuotesPriced' /\ DeletedProjectIsQuiet'
    BY DEF IInv, Rows, QuotesPriced, Charge, DeletedProjectIsQuiet, JobsOf
<1> QED
    BY <1>1, <1>2, <1>3, OutsideStep

LEMMA QuoteExpiresStep ==
    ASSUME IInv, NEW q \in Quotes, QuoteExpires(q)
    PROVE  IInv'
<1> USE DEF QuoteExpires, projectVars, routeVars, jobVars, moneyVars, txVars
<1>1. TypeOK'
    BY DEF IInv, TypeOK, Running
<1>2. ASSUME NEW r \in Requests, NEW qs \in SUBSET Quotes, NEW o \in Projects, RequestWork(r, qs, o)
      PROVE  RequestWork(r, qs, o)'
    BY <1>2 DEF RequestWork, ReservedMs, Claimed, Routed, ProjectRow, AdmissionRow
<1>3. QuotesPriced' /\ DeletedProjectIsQuiet'
    BY DEF IInv, Rows, QuotesPriced, Charge, DeletedProjectIsQuiet, JobsOf
<1> QED
    BY <1>1, <1>2, <1>3, OutsideStep

-----------------------------------------------------------------------------
(* The money of a commit *)

\* The amounts of the transfers in L.
Amounts(L) == [x \in L |-> x.amount]

\* One more transfer in the books.
LEMMA OneMorePosting ==
    ASSUME NEW L, IsFiniteSet(L), L \subseteq Transfers, NEW tr \in Transfers, tr \notin L,
           NEW S \in SUBSET L
    PROVE  /\ SumFunctionOnSet(Amounts(L), S) \in Int
           /\ SumFunctionOnSet(Amounts(L \cup {tr}), S) = SumFunctionOnSet(Amounts(L), S)
           /\ SumFunctionOnSet(Amounts(L \cup {tr}), S \cup {tr})
              = tr.amount + SumFunctionOnSet(Amounts(L), S)
<1> DEFINE f == Amounts(L)
           g == Amounts(L \cup {tr})
<1>1. IsFiniteSet(S) /\ tr \notin S
    BY FS_Subset
<1>2. /\ \A x \in S : f[x] = g[x]
      /\ \A x \in S : f[x] \in Int
      /\ \A x \in S \cup {tr} : g[x] \in Int
      /\ g[tr] = tr.amount
    BY DEF Amounts, Transfers
<1> HIDE DEF f, g
<1>3. SumFunctionOnSet(f, S) \in Int
    BY <1>1, <1>2, SumType
<1>4. SumFunctionOnSet(g, S) = SumFunctionOnSet(f, S)
    BY <1>1, <1>2, SumSame
<1>5. SumFunctionOnSet(g, S \cup {tr}) = tr.amount + SumFunctionOnSet(g, S)
    BY <1>1, <1>2, SumAdd
<1> QED
    BY <1>3, <1>4, <1>5 DEF f, g

\* What a transaction knows at its commit.
LEMMA AtCommit ==
    ASSUME IInv, NEW t \in Txns, pc[t] = "commit"
    PROVE  /\ tx[t] \in Works /\ tx[t].transfer \in Transfers
           /\ tx[t].transfer \notin ledger
           /\ KeyRow(tx[t].transfer) \in held[t]
           /\ WalletRow(tx[t].transfer.user, DebitAccount(tx[t].transfer)) \in held[t]
           /\ \/ DebitAccount(tx[t].transfer) = "PLATFORM_ISSUED"
              \/ balance[tx[t].transfer.user][DebitAccount(tx[t].transfer)] >= tx[t].transfer.amount
<1>1. tx[t] \in Works /\ tx[t].transfer \in Transfers
    BY DEF IInv, TypeOK, Running, Works
<1>2. TransferOK(t) /\ Keyed(t) /\ Debited(t)
    BY DEF IInv, Transactions, Keyed, Debited
<1> QED
    BY <1>1, <1>2 DEF TransferOK

\* The two balances that a transfer changes.
LEMMA PostedBalances ==
    ASSUME IInv, NEW tr \in Transfers, Post(tr)
    PROVE  /\ balance' \in [Users -> [Accounts -> Int]]
           /\ \A u \in Users, a \in Accounts :
                 balance'[u][a] = IF u = tr.user /\ a = DebitAccount(tr)
                                  THEN balance[u][a] - tr.amount
                                  ELSE IF u = tr.user /\ a = CreditAccount(tr)
                                  THEN balance[u][a] + tr.amount
                                  ELSE balance[u][a]
<1> DEFINE D == DebitAccount(tr)
           C == CreditAccount(tr)
<1>1. D \in Accounts /\ C \in Accounts /\ D # C
    BY AccountsOf
<1>2. /\ balance \in [Users -> [Accounts -> Int]] /\ tr.user \in Users /\ tr.amount \in Int
      /\ balance' = [balance EXCEPT ![tr.user][D] = @ - tr.amount, ![tr.user][C] = @ + tr.amount]
    BY DEF IInv, TypeOK, Post, Transfers
<1> HIDE DEF D, C
<1>3. balance' \in [Users -> [Accounts -> Int]]
    BY <1>1, <1>2
<1>4. ASSUME NEW u \in Users, NEW a \in Accounts
      PROVE  balance'[u][a] = IF u = tr.user /\ a = D THEN balance[u][a] - tr.amount
                              ELSE IF u = tr.user /\ a = C THEN balance[u][a] + tr.amount
                              ELSE balance[u][a]
    BY <1>1, <1>2
<1> QED
    BY <1>3, <1>4 DEF D, C

LEMMA PostKeepsMoney ==
    ASSUME IInv, NEW t \in Txns, pc[t] = "commit", Post(tx[t].transfer)
    PROVE  /\ balance' \in [Users -> [Accounts -> Int]]
           /\ ledger' \subseteq Transfers
           /\ IsFiniteSet(ledger')
           /\ WalletsCovered'
           /\ PostingsExplainBalances'
<1>1. PICK tr \in Transfers : tr = tx[t].transfer
    BY AtCommit
<1>2. PICK D \in Accounts, C \in Accounts : D = DebitAccount(tr) /\ C = CreditAccount(tr)
    BY AccountsOf
<1>3. /\ D # C /\ D # "PLATFORM_CONSUMED"
      /\ tr.user \in Users /\ tr.amount \in Nat
      /\ tr \notin ledger /\ ledger' = ledger \cup {tr}
      /\ D = "PLATFORM_ISSUED" \/ balance[tr.user][D] >= tr.amount
    BY <1>1, <1>2, AtCommit, AccountsOf DEF Transfers, Post
<1>4. /\ balance \in [Users -> [Accounts -> Int]]
      /\ IsFiniteSet(ledger) /\ ledger \subseteq Transfers
    BY DEF IInv, TypeOK, Money
<1>5. /\ balance' \in [Users -> [Accounts -> Int]]
      /\ \A u \in Users, a \in Accounts :
            balance'[u][a] = IF u = tr.user /\ a = D THEN balance[u][a] - tr.amount
                             ELSE IF u = tr.user /\ a = C THEN balance[u][a] + tr.amount
                             ELSE balance[u][a]
    BY <1>1, <1>2, PostedBalances
<1>6. ledger' \subseteq Transfers /\ IsFiniteSet(ledger')
    BY <1>3, <1>4, FS_AddElement
<1>7. WalletsCovered'
  <2> SUFFICES ASSUME NEW u \in Users, NEW a \in {"USER_AVAILABLE", "USER_RESERVED"}
               PROVE  balance'[u][a] >= 0
    BY DEF WalletsCovered
  <2>1. balance[u][a] >= 0 /\ balance[u][a] \in Int /\ a \in Accounts
    BY <1>4 DEF IInv, Money, WalletsCovered, Accounts
  <2> QED
    BY <1>3, <1>5, <2>1
<1>8. PostingsExplainBalances'
  <2> SUFFICES ASSUME NEW u \in Users, NEW a \in Accounts
               PROVE  balance'[u][a] =
                          Posted({x \in ledger : x.user = u /\ CreditAccount(x) = a})'
                          - Posted({x \in ledger : x.user = u /\ DebitAccount(x) = a})'
    BY DEF PostingsExplainBalances, CreditAccount, DebitAccount
  <2>1. PICK Cr \in SUBSET ledger : Cr = {x \in ledger : x.user = u /\ CreditAccount(x) = a}
    OBVIOUS
  <2>2. PICK Dr \in SUBSET ledger : Dr = {x \in ledger : x.user = u /\ DebitAccount(x) = a}
    OBVIOUS
  <2>3. {x \in ledger' : x.user = u /\ CreditAccount(x) = a}
          = IF tr.user = u /\ C = a THEN Cr \cup {tr} ELSE Cr
    BY <1>2, <1>3, <2>1
  <2>4. {x \in ledger' : x.user = u /\ DebitAccount(x) = a}
          = IF tr.user = u /\ D = a THEN Dr \cup {tr} ELSE Dr
    BY <1>2, <1>3, <2>2
  <2> DEFINE Old(S) == SumFunctionOnSet(Amounts(ledger), S)
             New(S) == SumFunctionOnSet(Amounts(ledger \cup {tr}), S)
  <2>5. /\ Old(Cr) \in Int /\ New(Cr) = Old(Cr) /\ New(Cr \cup {tr}) = tr.amount + Old(Cr)
        /\ Old(Dr) \in Int /\ New(Dr) = Old(Dr) /\ New(Dr \cup {tr}) = tr.amount + Old(Dr)
    <3>1. ASSUME NEW S \in SUBSET ledger
          PROVE  Old(S) \in Int /\ New(S) = Old(S) /\ New(S \cup {tr}) = tr.amount + Old(S)
      BY <1>3, <1>4, OneMorePosting
    <3> HIDE DEF Old, New
    <3> QED
      BY <3>1
  <2>6. balance[u][a] = Old(Cr) - Old(Dr)
    BY <2>1, <2>2 DEF IInv, Money, PostingsExplainBalances, Posted, Amounts
  <2>7. /\ Posted({x \in ledger : x.user = u /\ CreditAccount(x) = a})'
            = New({x \in ledger' : x.user = u /\ CreditAccount(x) = a})
        /\ Posted({x \in ledger : x.user = u /\ DebitAccount(x) = a})'
            = New({x \in ledger' : x.user = u /\ DebitAccount(x) = a})
    BY <1>3 DEF Posted, Amounts, CreditAccount, DebitAccount
  <2> HIDE DEF Old, New
  <2>8. /\ Posted({x \in ledger : x.user = u /\ CreditAccount(x) = a})'
            = IF tr.user = u /\ C = a THEN tr.amount + Old(Cr) ELSE Old(Cr)
        /\ Posted({x \in ledger : x.user = u /\ DebitAccount(x) = a})'
            = IF tr.user = u /\ D = a THEN tr.amount + Old(Dr) ELSE Old(Dr)
    BY <2>3, <2>4, <2>5, <2>7
  <2> QED
    BY <1>3, <1>5, <2>5, <2>6, <2>8
<1> QED
    BY <1>5, <1>6, <1>7, <1>8

\* A commit uses no key and no balance that another transaction counts on.
LEMMA PostKeepsTransfers ==
    ASSUME IInv, NEW t \in Txns, pc[t] = "commit", Post(tx[t].transfer),
           NEW u \in Txns, u # t, pc'[u] = pc[u], tx'[u] = tx[u], held'[u] = held[u]
    PROVE  TransferOK(u)'
<1>1. PICK tr \in Transfers : tr = tx[t].transfer
    BY AtCommit
<1>2. TransferOK(u)
    BY DEF IInv, Transactions
<1>3. (Keyed(u)' <=> Keyed(u)) /\ (Debited(u)' <=> Debited(u))
    BY DEF Keyed, Debited
<1>4. ASSUME NEW row \in held[t] \cap held[u]
      PROVE  \E rt \in Routes : row = <<"admission", rt>>
    BY DEF IInv, Locks, AdmissionRow
<1>5. ASSUME Keyed(u)
      PROVE  /\ KeyRow(tx[u].transfer) \in held'[u]
             /\ \A old \in ledger' : \/ old.type # tx[u].transfer.type
                                     \/ old.ref # tx[u].transfer.ref
  <2>1. /\ KeyRow(tx[u].transfer) \in held[u]
        /\ \A old \in ledger : old.type # tx[u].transfer.type \/ old.ref # tx[u].transfer.ref
    BY <1>2, <1>5 DEF TransferOK
  <2>2. tr.type # tx[u].transfer.type \/ tr.ref # tx[u].transfer.ref
    <3> SUFFICES ASSUME tr.type = tx[u].transfer.type, tr.ref = tx[u].transfer.ref
                 PROVE  FALSE
      OBVIOUS
    <3>1. KeyRow(tr) \in held[t] /\ KeyRow(tr) = KeyRow(tx[u].transfer)
      BY <1>1, AtCommit DEF KeyRow
    <3> QED
      BY <2>1, <3>1, <1>4 DEF KeyRow
  <2> QED
    BY <1>1, <2>1, <2>2 DEF Post
<1>6. ASSUME Debited(u)
      PROVE  /\ WalletRow(tx[u].transfer.user, DebitAccount(tx[u].transfer)) \in held'[u]
             /\ \/ DebitAccount(tx[u].transfer) = "PLATFORM_ISSUED"
                \/ balance'[tx[u].transfer.user][DebitAccount(tx[u].transfer)]
                      >= tx[u].transfer.amount
  <2>1. PICK x \in Transfers, a \in Accounts :
            x = tx[u].transfer /\ a = DebitAccount(x) /\ a # "PLATFORM_CONSUMED"
    <3>1. tx[u].transfer \in Transfers
      BY <1>6 DEF IInv, TypeOK, Running, Works, Debited
    <3> QED
      BY <3>1, AccountsOf
  <2>2. /\ WalletRow(x.user, a) \in held[u]
        /\ a = "PLATFORM_ISSUED" \/ balance[x.user][a] >= x.amount
    BY <1>2, <1>6, <2>1 DEF TransferOK
  <2>3. CASE a # "PLATFORM_ISSUED"
    <3>1. a \in {"USER_AVAILABLE", "USER_RESERVED"}
      BY <2>1, <2>3 DEF Accounts
    <3>2. ~(x.user = tr.user /\ a = DebitAccount(tr))
      <4> SUFFICES ASSUME x.user = tr.user, a = DebitAccount(tr)
                   PROVE  FALSE
        OBVIOUS
      <4>1. WalletRow(x.user, a) \in held[t] \cap held[u]
        BY <1>1, <2>2, AtCommit
      <4> QED
        BY <3>1, <4>1, <1>4 DEF WalletRow
    <3>3. x.user \in Users /\ balance[x.user][a] \in Int /\ tr.amount \in Nat /\ x.amount \in Nat
      BY DEF Transfers, IInv, TypeOK
    <3>4. \/ balance'[x.user][a] = balance[x.user][a]
          \/ balance'[x.user][a] = balance[x.user][a] + tr.amount
      BY <1>1, <3>2, <3>3, PostedBalances
    <3>5. balance'[x.user][a] >= x.amount
      BY <2>2, <2>3, <3>3, <3>4
    <3> QED
      BY <2>1, <2>2, <3>5
  <2>4. CASE a = "PLATFORM_ISSUED"
    BY <2>1, <2>2, <2>4
  <2> QED
    BY <2>3, <2>4
<1> QED
  <2>1. DebitAccount(tx[u].transfer)' = DebitAccount(tx[u].transfer)
    BY DEF DebitAccount
  <2>2. KeyRow(tx[u].transfer)' = KeyRow(tx[u].transfer)
    BY DEF KeyRow
  <2>3. WalletRow(tx[u].transfer.user, DebitAccount(tx[u].transfer))'
          = WalletRow(tx[u].transfer.user, DebitAccount(tx[u].transfer))
    BY <2>1 DEF WalletRow
  <2> QED
    BY <1>3, <1>5, <1>6, <2>1, <2>2, <2>3 DEF TransferOK

-----------------------------------------------------------------------------
(* Commits *)

\* The locks are given back and the others keep theirs.
LEMMA EndOfTransaction ==
    ASSUME IInv, NEW t \in Txns, pc[t] = "commit", EndTransaction(t)
    PROVE  /\ Locks'
           /\ pc' \in [Txns -> Labels] /\ pc'[t] \in {"idle", "done"}
           /\ t \in Requests => pc'[t] = "done"
           /\ \A u \in Txns \ {t} : pc'[u] = pc[u] /\ tx'[u] = tx[u] /\ held'[u] = held[u]
           /\ \A u \in Txns : Running(u)' => tx'[u] \in Works
           /\ RequestOK(t)' /\ FinishOK(t)' /\ GrantOK(t)' /\ TransferOK(t)'
<1>1. /\ Rest(t) \in {"idle", "done"} /\ Rest(t) \in Labels
      /\ t \in Requests => Rest(t) = "done"
    BY DEF Rest, Labels
<1>2. /\ pc' \in [Txns -> Labels] /\ pc'[t] = Rest(t) /\ held'[t] = {}
      /\ \A u \in Txns \ {t} : pc'[u] = pc[u] /\ tx'[u] = tx[u] /\ held'[u] = held[u]
    BY <1>1 DEF EndTransaction, Goto, IInv, TypeOK, Locks
<1>3. Locks'
  <2>1. held' = [u \in Txns |-> held'[u]] /\ tx' = [u \in Txns |-> tx'[u]]
    BY DEF EndTransaction, IInv, Locks
  <2>2. \A u \in Txns : ~Running(u)' => held'[u] = {}
    BY <1>2 DEF IInv, Locks, Running
  <2>3. ASSUME NEW u \in Txns, NEW v \in Txns, u # v, NEW row \in held'[u] \cap held'[v]
        PROVE  \E rt \in Routes : row = AdmissionRow(rt)
    BY <1>2, <2>3 DEF IInv, Locks
  <2> QED
    BY <2>1, <2>2, <2>3 DEF Locks, AdmissionRow
<1>4. \A u \in Txns : Running(u)' => tx'[u] \in Works
    BY <1>1, <1>2 DEF IInv, TypeOK, Running
<1>5. RequestOK(t)' /\ FinishOK(t)' /\ GrantOK(t)' /\ TransferOK(t)'
    BY <1>1, <1>2 DEF RequestOK, FinishOK, GrantOK, TransferOK, Running, Keyed, Debited
<1> QED
    BY <1>1, <1>2, <1>3, <1>4, <1>5

\* The other transactions, given that what each of them works on is still as it was.
LEMMA CommitKeepsTransactions ==
    ASSUME IInv, NEW t \in Txns, pc[t] = "commit", EndTransaction(t), Post(tx[t].transfer),
           \A r \in Requests \ {t}, qs \in SUBSET Quotes, p \in Projects :
              RequestWork(r, qs, p) /\ Running(r) => RequestWork(r, qs, p)',
           \A f \in Finishers \ {t}, j \in JobIds :
              FinishWork(f, j) /\ Running(f) => FinishWork(f, j)'
    PROVE  Transactions'
<1>1. /\ RequestOK(t)' /\ FinishOK(t)' /\ GrantOK(t)' /\ TransferOK(t)'
      /\ \A u \in Txns \ {t} : pc'[u] = pc[u] /\ tx'[u] = tx[u] /\ held'[u] = held[u]
    BY EndOfTransaction
<1>2. ASSUME NEW r \in Requests \ {t} PROVE RequestOK(r)'
  <2>1. RequestOK(r) /\ pc'[r] = pc[r]
    BY <1>1 DEF IInv, Transactions, Txns
  <2> QED
    BY <2>1 DEF RequestOK, Running
<1>3. ASSUME NEW f \in Finishers \ {t} PROVE FinishOK(f)'
  <2>1. FinishOK(f) /\ pc'[f] = pc[f]
    BY <1>1 DEF IInv, Transactions, Txns
  <2> QED
    BY <2>1 DEF FinishOK, Running
<1>4. ASSUME NEW g \in Granters \ {t} PROVE GrantOK(g)'
  <2>1. GrantOK(g) /\ pc'[g] = pc[g] /\ tx'[g] = tx[g]
    BY <1>1 DEF IInv, Transactions, Txns
  <2> QED
    BY <2>1 DEF GrantOK, Running
<1>5. \A u \in Txns \ {t} : TransferOK(u)'
    BY <1>1, PostKeepsTransfers
<1> QED
    BY <1>1, <1>2, <1>3, <1>4, <1>5 DEF Transactions

LEMMA CommitGrantStep ==
    ASSUME IInv, NEW g \in Txns, CommitGrant(g)
    PROVE  IInv'
<1> USE DEF projectVars, routeVars, quoteVars, jobVars
<1>1. /\ g \in Granters /\ pc[g] = "commit" /\ Post(tx[g].transfer) /\ EndTransaction(g)
      /\ UNCHANGED <<projectVars, routeVars, quoteVars, jobVars, aborts>>
    BY DEF CommitGrant
<1>2. /\ Locks' /\ pc' \in [Txns -> Labels] /\ pc'[g] \in {"idle", "done"}
      /\ \A u \in Txns \ {g} : pc'[u] = pc[u] /\ tx'[u] = tx[u] /\ held'[u] = held[u]
      /\ \A u \in Txns : Running(u)' => tx'[u] \in Works
    BY <1>1, EndOfTransaction
<1>3. /\ balance' \in [Users -> [Accounts -> Int]] /\ ledger' \subseteq Transfers
      /\ IsFiniteSet(ledger') /\ WalletsCovered' /\ PostingsExplainBalances'
    BY <1>1, PostKeepsMoney
<1>4. TypeOK'
    BY <1>1, <1>2, <1>3 DEF IInv, TypeOK
<1>5. Transactions'
  <2>1. ASSUME NEW r \in Requests \ {g}, NEW qs \in SUBSET Quotes, NEW p \in Projects,
               RequestWork(r, qs, p)
        PROVE  RequestWork(r, qs, p)'
    <3>1. pc'[r] = pc[r] /\ tx'[r] = tx[r] /\ held'[r] = held[r]
      BY <1>2 DEF Txns
    <3> QED
      BY <1>1, <2>1, <3>1 DEF RequestWork, ReservedMs, Claimed, Routed, ProjectRow, AdmissionRow
  <2>2. ASSUME NEW f \in Finishers \ {g}, NEW j \in JobIds, FinishWork(f, j)
        PROVE  FinishWork(f, j)'
    <3>1. pc'[f] = pc[f] /\ tx'[f] = tx[f] /\ held'[f] = held[f]
      BY <1>2 DEF Txns
    <3> QED
      BY <1>1, <2>2, <3>1 DEF FinishWork, JobRow
  <2> QED
    BY <1>1, <2>1, <2>2, CommitKeepsTransactions
<1>6. Rows'
  <2>1. JobsAfterCommit'
    BY <1>1, <1>2, TxnKinds DEF IInv, Rows, JobsAfterCommit, Txns
  <2> QED
    BY <1>1, <2>1 DEF IInv, Rows, QuotesPriced, Charge, JobsPaid, QuotePaysOnce,
                      DeletedProjectIsQuiet, JobsOf, OneRoutePerProject, BatchFollowsJobs
<1>7. FrozenForLiveJobs'
  <2>1. tx[g].transfer \in Transfers /\ tx[g].transfer.type = "GRANT"
    BY <1>1, AtCommit DEF IInv, Transactions, GrantOK, Running
  <2>2. /\ DebitAccount(tx[g].transfer) = "PLATFORM_ISSUED"
        /\ CreditAccount(tx[g].transfer) = "USER_AVAILABLE"
    BY <2>1 DEF DebitAccount, CreditAccount
  <2>3. \A u \in Users : balance'[u]["USER_RESERVED"] = balance[u]["USER_RESERVED"]
    BY <1>1, <2>1, <2>2, PostedBalances DEF Accounts
  <2> QED
    BY <1>1, <2>3 DEF IInv, Money, FrozenForLiveJobs, LiveJobs
<1> QED
    BY <1>2, <1>3, <1>4, <1>5, <1>6, <1>7 DEF IInv, Money

LEMMA CommitFinishStep ==
    ASSUME IInv, NEW f \in Txns, CommitFinish(f)
    PROVE  IInv'
<1> USE DEF routeVars, quoteVars
<1>1. /\ f \in Finishers /\ pc[f] = "commit" /\ Post(tx[f].transfer) /\ EndTransaction(f)
      /\ UNCHANGED <<shot, deleted, binding, jobRoute, quoteVars, routeVars, aborts>>
    BY DEF CommitFinish
<1>2. /\ Locks' /\ pc' \in [Txns -> Labels] /\ pc'[f] \in {"idle", "done"}
      /\ \A u \in Txns \ {f} : pc'[u] = pc[u] /\ tx'[u] = tx[u] /\ held'[u] = held[u]
      /\ \A u \in Txns : Running(u)' => tx'[u] \in Works
    BY <1>1, EndOfTransaction
<1>3. /\ balance' \in [Users -> [Accounts -> Int]] /\ ledger' \subseteq Transfers
      /\ IsFiniteSet(ledger') /\ WalletsCovered' /\ PostingsExplainBalances'
    BY <1>1, PostKeepsMoney
<1>4. PICK j \in JobIds : FinishWork(f, j)
    BY <1>1 DEF IInv, Transactions, FinishOK, Running
<1>5. PICK o \in {"SUCCEEDED", "FAILED_FINAL", "CANCELLED"} : o = tx[f].outcome
    BY <1>4 DEF FinishWork
<1>6. /\ job[j] = "LIVE" /\ job \in [JobIds -> JobStates]
      /\ job' = [i \in JobIds |-> IF i = j THEN o ELSE job[i]]
    BY <1>4, <1>5 DEF CommitFinish, FinishWork, IInv, TypeOK
<1>7. \A i \in JobIds : (i # j => job'[i] = job[i]) /\ (job'[i] = "NONE" <=> job[i] = "NONE")
    BY <1>6
<1>8. /\ BatchesOf(f) = {j[1]} \cap Batches /\ ProjectsOf(f) = {quote[j[2]].project}
      /\ batch' = [b \in Batches |-> IF b = j[1] THEN BatchStatus(b, job') ELSE batch[b]]
  <2>1. BatchesOf(f) = {j[1]} \cap Batches /\ ProjectsOf(f) = {quote[j[2]].project}
    BY <1>1, <1>4, FinishRows
  <2> QED
    BY <2>1 DEF CommitFinish
<1>9. TypeOK'
  <2>1. /\ job' \in [JobIds -> JobStates]
        /\ \A i \in JobIds : job'[i] # "NONE" => jobRoute'[i] \in Routes
    BY <1>1, <1>6, <1>7 DEF IInv, TypeOK, JobStates
  <2>2. settlement' \in [JobIds -> SettlementStates]
    BY DEF CommitFinish, IInv, TypeOK, SettlementStates
  <2>3. batch' \in [Batches -> BatchStatuses]
    BY <1>8 DEF BatchStatus, BatchStatuses, IInv, TypeOK
  <2>4. bound' \subseteq Projects
    BY <1>8 DEF CommitFinish, IInv, TypeOK, JobIds, QuoteRows
  <2> QED
    BY <1>1, <1>2, <1>3, <2>1, <2>2, <2>3, <2>4 DEF IInv, TypeOK
<1>10. Transactions'
  <2>1. ASSUME NEW r \in Requests \ {f}, NEW qs \in SUBSET Quotes, NEW p \in Projects,
               RequestWork(r, qs, p)
        PROVE  RequestWork(r, qs, p)'
    <3>1. pc'[r] = pc[r] /\ tx'[r] = tx[r] /\ held'[r] = held[r]
      BY <1>2 DEF Txns
    <3> QED
      BY <1>1, <2>1, <3>1 DEF RequestWork, ReservedMs, Claimed, Routed, ProjectRow, AdmissionRow
  <2>2. ASSUME NEW e \in Finishers \ {f}, NEW i \in JobIds, FinishWork(e, i)
        PROVE  FinishWork(e, i)'
    <3>1. pc'[e] = pc[e] /\ tx'[e] = tx[e] /\ held'[e] = held[e] /\ e \in Txns
      BY <1>2 DEF Txns
    <3>2. i # j
      BY <1>4, <2>2, <3>1 DEF FinishWork, IInv, Locks, JobRow, AdmissionRow
    <3> QED
      BY <1>1, <1>7, <2>2, <3>1, <3>2 DEF FinishWork, JobRow
  <2> QED
    BY <1>1, <2>1, <2>2, CommitKeepsTransactions
<1>11. Rows'
  <2>1. QuotesPriced' /\ JobsPaid' /\ QuotePaysOnce' /\ OneRoutePerProject'
    BY <1>1, <1>7 DEF IInv, Rows, QuotesPriced, Charge, JobsPaid, QuotePaysOnce, OneRoutePerProject
  <2>2. JobsAfterCommit'
    <3>1. \A r \in Requests : pc'[r] = pc[r]
      BY <1>1, <1>2, TxnKinds DEF Txns
    <3> QED
      BY <1>7, <3>1 DEF IInv, Rows, JobsAfterCommit, JobIds
  <2>3. DeletedProjectIsQuiet'
    BY <1>1, <1>6, <1>7 DEF IInv, Rows, DeletedProjectIsQuiet, JobsOf
  <2>4. BatchFollowsJobs'
    <3> SUFFICES ASSUME NEW b \in Batches
                 PROVE  LET js == {i \in JobIds : i[1] = b /\ job'[i] # "NONE"} IN
                        /\ batch'[b] = "NONE" <=> js = {}
                        /\ batch'[b] \in {"QUEUED", "RUNNING"} <=> \E i \in js : job'[i] = "LIVE"
                        /\ batch'[b] = "SUCCEEDED" => \A i \in js : job'[i] = "SUCCEEDED"
                        /\ batch'[b] = "PARTIAL" =>
                              \E i, k \in js : job'[i] = "SUCCEEDED" /\ job'[k] # "SUCCEEDED"
                        /\ batch'[b] = "FAILED_FINAL" => \A i \in js : job'[i] # "SUCCEEDED"
      BY DEF BatchFollowsJobs
    <3>1. CASE b = j[1]
      <4>1. batch'[b] = BatchStatus(b, job')
        BY <1>8, <3>1
      <4>2. j \in {i \in JobIds : i[1] = b /\ job'[i] # "NONE"}
        BY <1>6, <3>1
      <4> QED
        BY <4>1, <4>2 DEF BatchStatus
    <3>2. CASE b # j[1]
      <4>1. batch'[b] = batch[b]
        BY <1>8, <3>2
      <4>2. \A i \in JobIds : i[1] = b => job'[i] = job[i]
        BY <1>7, <3>2
      <4> QED
        BY <4>1, <4>2 DEF IInv, Rows, BatchFollowsJobs
    <3> QED
      BY <3>1, <3>2
  <2> QED
    BY <2>1, <2>2, <2>3, <2>4 DEF Rows
<1>12. FrozenForLiveJobs'
  <2> DEFINE amounts == [i \in JobIds |-> quote[i[2]].amount]
  <2>1. PICK tr \in Transfers : tr = tx[f].transfer
    BY <1>1, AtCommit
  <2>2. /\ tr.user = ProjectOwner[quote[j[2]].project] /\ tr.amount = amounts[j]
        /\ tr.type \in {"SETTLE", "RELEASE"}
    BY <1>4, <2>1 DEF FinishWork
  <2>3. DebitAccount(tr) = "USER_RESERVED" /\ CreditAccount(tr) # "USER_RESERVED"
    BY <2>2 DEF DebitAccount, CreditAccount
  <2>4. \A u \in Users : balance'[u]["USER_RESERVED"] =
            IF u = tr.user THEN balance[u]["USER_RESERVED"] - tr.amount
            ELSE balance[u]["USER_RESERVED"]
    BY <1>1, <2>1, <2>3, PostedBalances DEF Accounts
  <2>5. amounts' = amounts
    BY <1>1
  <2>6. ASSUME NEW u \in Users
        PROVE  balance'[u]["USER_RESERVED"] = SumFunctionOnSet(amounts, LiveJobs(u)')
    <3>1. balance[u]["USER_RESERVED"] = SumFunctionOnSet(amounts, LiveJobs(u))
      BY DEF IInv, Money, FrozenForLiveJobs
    <3>2. CASE u = tr.user
      <4>1. j \in LiveJobs(u) /\ LiveJobs(u)' = LiveJobs(u) \ {j}
        BY <1>1, <1>6, <1>7, <2>2, <3>2 DEF LiveJobs
      <4>2. IsFiniteSet(LiveJobs(u)) /\ LiveJobs(u) \subseteq JobIds
        BY FiniteJobs, FS_Subset DEF LiveJobs
      <4>3. \A i \in LiveJobs(u) : amounts[i] \in Int
        BY <4>2 DEF IInv, TypeOK, QuoteRows, JobIds
      <4> HIDE DEF amounts
      <4>4. SumFunctionOnSet(amounts, LiveJobs(u))
              = amounts[j] + SumFunctionOnSet(amounts, LiveJobs(u) \ {j})
        BY <4>1, <4>2, <4>3, SumRemove
      <4>5. SumFunctionOnSet(amounts, LiveJobs(u) \ {j}) \in Int /\ amounts[j] \in Int
        <5>1. IsFiniteSet(LiveJobs(u) \ {j})
          BY <4>2, FS_RemoveElement
        <5> QED
          BY <4>1, <4>3, <5>1, SumType
      <4> QED
        BY <2>2, <2>4, <3>1, <3>2, <4>1, <4>4, <4>5
    <3>3. CASE u # tr.user
      <4>1. LiveJobs(u)' = LiveJobs(u)
        BY <1>1, <1>6, <1>7, <2>2, <3>3 DEF LiveJobs
      <4> QED
        BY <2>4, <3>1, <3>3, <4>1
    <3> QED
      BY <3>2, <3>3
  <2> QED
    BY <2>5, <2>6 DEF FrozenForLiveJobs
<1> QED
    BY <1>2, <1>3, <1>9, <1>10, <1>11, <1>12 DEF IInv, Money

\* The sum over the jobs of a request is the sum over its quotes.
LEMMA JobsOfQuotes ==
    ASSUME TypeOK, NEW r \in Requests, NEW qs \in SUBSET Quotes
    PROVE  SumFunctionOnSet([j \in JobIds |-> quote[j[2]].amount], {r} \X qs) = ReservedMs(qs)
<1> DEFINE f == [j \in JobIds |-> quote[j[2]].amount]
           g == [q \in Quotes |-> quote[q].amount]
           F == {s \in SUBSET qs : SumFunctionOnSet(f, {r} \X s) # SumFunctionOnSet(g, s)}
<1> SUFFICES ASSUME F # {} PROVE FALSE
    BY DEF ReservedMs
<1>1. IsFiniteSet(qs) /\ F \in SUBSET (SUBSET qs)
    BY RowsAssumption, FS_Subset
<1>2. \A q \in Quotes : <<r, q>> \in JobIds /\ f[<<r, q>>] = g[q] /\ g[q] \in Int
    BY DEF TypeOK, QuoteRows, JobIds
<1>3. \A j \in JobIds : f[j] \in Int
    BY DEF TypeOK, QuoteRows, JobIds
<1> HIDE DEF f, g, F
<1>4. PICK s \in F : \A t \in F : t \subseteq s => t = s
    BY <1>1, SmallestSubset
<1>5. s \in SUBSET qs /\ SumFunctionOnSet(f, {r} \X s) # SumFunctionOnSet(g, s)
    BY DEF F
<1>6. s # {}
  <2>1. {r} \X {} = {}
    OBVIOUS
  <2> QED
    BY <1>5, <2>1, SumOfNothing
<1>7. PICK q \in s : TRUE
    BY <1>6
<1>8. s \ {q} \notin F
    BY <1>4, <1>7
<1>9. SumFunctionOnSet(f, {r} \X (s \ {q})) = SumFunctionOnSet(g, s \ {q})
    BY <1>5, <1>8 DEF F
<1>10. IsFiniteSet(s) /\ IsFiniteSet({r} \X s)
    BY <1>1, <1>5, FS_Subset, FS_Singleton, FS_Product
<1>11. SumFunctionOnSet(g, s) = g[q] + SumFunctionOnSet(g, s \ {q})
  <2>1. \A x \in s : g[x] \in Int
    BY <1>2, <1>5
  <2> QED
    BY <1>10, <2>1, SumRemove
<1>12. /\ ({r} \X s) \ {<<r, q>>} = {r} \X (s \ {q})
       /\ <<r, q>> \in {r} \X s /\ {r} \X s \subseteq JobIds
    BY <1>5 DEF JobIds
<1>13. SumFunctionOnSet(f, {r} \X s) = f[<<r, q>>] + SumFunctionOnSet(f, ({r} \X s) \ {<<r, q>>})
    BY <1>3, <1>10, <1>12, SumRemove
<1>14. f[<<r, q>>] = g[q]
    BY <1>2, <1>5
<1> QED
    BY <1>5, <1>9, <1>11, <1>12, <1>13, <1>14

LEMMA CommitReservationStep ==
    ASSUME IInv, NEW r \in Txns, CommitReservation(r)
    PROVE  IInv'
<1> USE DEF routeVars
<1>1. /\ r \in Requests /\ pc[r] = "commit" /\ Post(tx[r].transfer) /\ EndTransaction(r)
      /\ UNCHANGED <<shot, deleted, bound, expired, active, stopped, aborts>>
    BY DEF CommitReservation
<1>2. /\ Locks' /\ pc' \in [Txns -> Labels] /\ pc'[r] = "done"
      /\ \A u \in Txns \ {r} : pc'[u] = pc[u] /\ tx'[u] = tx[u] /\ held'[u] = held[u]
      /\ \A u \in Txns : Running(u)' => tx'[u] \in Works
    BY <1>1, EndOfTransaction
<1>3. /\ balance' \in [Users -> [Accounts -> Int]] /\ ledger' \subseteq Transfers
      /\ IsFiniteSet(ledger') /\ WalletsCovered' /\ PostingsExplainBalances'
    BY <1>1, PostKeepsMoney
<1>4. PICK qs \in SUBSET Quotes, p \in Projects : RequestWork(r, qs, p)
    BY <1>1 DEF IInv, Transactions, RequestOK, Running
<1>5. PICK rt \in Routes : rt = tx[r].route /\ binding[p] \in {"NONE", rt}
    BY <1>1, <1>4 DEF RequestWork, Routed
<1>6. /\ qs # {} /\ p \notin deleted /\ ProjectRow(p) \in held[r]
      /\ \A q \in qs : quote[q].status = "OPEN" /\ quote[q].project = p
    BY <1>1, <1>4 DEF RequestWork, Claimed
<1>7. tx[r].jobs = {r} \X qs /\ QuotesOf(r) = qs /\ ProjectsOf(r) = {p}
    BY <1>1, <1>4, RequestRows DEF RequestWork
<1>8. /\ quote' = [q \in Quotes |-> IF q \in qs THEN [quote[q] EXCEPT !.status = "USED"]
                                    ELSE quote[q]]
      /\ binding' = [o \in Projects |-> IF o = p THEN rt ELSE binding[o]]
      /\ job' = [j \in JobIds |-> IF j \in {r} \X qs THEN "LIVE" ELSE job[j]]
      /\ settlement' = [j \in JobIds |-> IF j \in {r} \X qs THEN "RESERVED" ELSE settlement[j]]
      /\ jobRoute' = [j \in JobIds |-> IF j \in {r} \X qs THEN rt ELSE jobRoute[j]]
      /\ batch' = [b \in Batches |-> IF b = r THEN "QUEUED" ELSE batch[b]]
    BY <1>5, <1>7 DEF CommitReservation
<1>9. /\ \A q \in Quotes : /\ quote[q] \in QuoteRows /\ quote'[q] \in QuoteRows
                           /\ quote'[q].project = quote[q].project
                           /\ quote'[q].duration = quote[q].duration
                           /\ quote'[q].amount = quote[q].amount
                           /\ quote'[q].status = IF q \in qs THEN "USED" ELSE quote[q].status
      /\ quote' \in [Quotes -> QuoteRows]
  <2>1. quote \in [Quotes -> QuoteRows]
    BY DEF IInv, TypeOK
  <2> QED
    BY <1>8, <2>1 DEF QuoteRows, QuoteStatuses
<1>10. \A j \in JobIds : /\ j \in {r} \X qs <=> j[1] = r /\ j[2] \in qs
                         /\ j = <<j[1], j[2]>> /\ j[1] \in Requests /\ j[2] \in Quotes
    BY DEF JobIds
<1>11. \A j \in JobIds : /\ j[1] = r => job[j] = "NONE"
                         /\ j[2] \in qs => job[j] = "NONE"
  <2>1. \A j \in JobIds : j[1] = r => job[j] = "NONE"
    BY <1>1, <1>10 DEF IInv, Rows, JobsAfterCommit
  <2>2. \A j \in JobIds : j[2] \in qs => job[j] = "NONE"
    BY <1>6, <1>10 DEF IInv, Rows, JobsPaid
  <2> QED
    BY <2>1, <2>2
<1>12. \A j \in JobIds :
          /\ j[1] = r /\ j[2] \in qs => job'[j] = "LIVE" /\ jobRoute'[j] = rt
          /\ ~(j[1] = r /\ j[2] \in qs) => job'[j] = job[j] /\ jobRoute'[j] = jobRoute[j]
    BY <1>8, <1>10
<1>13. TypeOK'
  <2>1. /\ job' \in [JobIds -> JobStates] /\ settlement' \in [JobIds -> SettlementStates]
        /\ jobRoute' \in [JobIds -> Routes \cup {"NONE"}]
        /\ binding' \in [Projects -> Routes \cup {"NONE"}]
        /\ batch' \in [Batches -> BatchStatuses]
    BY <1>8 DEF IInv, TypeOK, JobStates, SettlementStates, BatchStatuses
  <2>2. \A j \in JobIds : job'[j] # "NONE" => jobRoute'[j] \in Routes
    BY <1>12 DEF IInv, TypeOK
  <2> QED
    BY <1>1, <1>2, <1>3, <1>9, <2>1, <2>2 DEF IInv, TypeOK
<1>14. Transactions'
  <2>1. ASSUME NEW x \in Requests \ {r}, NEW xs \in SUBSET Quotes, NEW o \in Projects,
               RequestWork(x, xs, o)
        PROVE  RequestWork(x, xs, o)'
    <3>1. pc'[x] = pc[x] /\ tx'[x] = tx[x] /\ held'[x] = held[x] /\ x \in Txns
      BY <1>2 DEF Txns
    <3>2. o # p
      BY <1>6, <2>1, <3>1 DEF RequestWork, IInv, Locks, ProjectRow, AdmissionRow
    <3>3. \A q \in xs : quote'[q] = quote[q]
      BY <1>6, <1>8, <2>1, <3>2 DEF RequestWork
    <3>4. ReservedMs(xs)' = ReservedMs(xs)
      BY <3>3, SameReservation
    <3>5. binding'[o] = binding[o]
      BY <1>8, <3>2
    <3> QED
      BY <1>1, <2>1, <3>1, <3>3, <3>4, <3>5
         DEF RequestWork, Claimed, Routed, ProjectRow, AdmissionRow
  <2>2. ASSUME NEW f \in Finishers \ {r}, NEW j \in JobIds, FinishWork(f, j)
        PROVE  FinishWork(f, j)'
    <3>1. pc'[f] = pc[f] /\ tx'[f] = tx[f] /\ held'[f] = held[f]
      BY <1>2 DEF Txns
    <3>2. job'[j] = job[j]
      BY <1>11, <1>12, <2>2 DEF FinishWork
    <3>3. quote'[j[2]].project = quote[j[2]].project /\ quote'[j[2]].amount = quote[j[2]].amount
      BY <1>9, <1>10
    <3> QED
      BY <2>2, <3>1, <3>2, <3>3 DEF FinishWork, JobRow
  <2> QED
    BY <1>1, <2>1, <2>2, CommitKeepsTransactions
<1>15. Rows'
  <2>1. QuotesPriced'
    BY <1>6, <1>9 DEF IInv, Rows, QuotesPriced, Charge
  <2>2. JobsPaid'
    BY <1>9, <1>10, <1>12 DEF IInv, Rows, JobsPaid
  <2>3. JobsAfterCommit'
    <3> SUFFICES ASSUME NEW x \in Requests, NEW q \in Quotes, pc'[x] # "done"
                 PROVE  job'[<<x, q>>] = "NONE"
      BY DEF JobsAfterCommit
    <3>1. x # r /\ pc'[x] = pc[x] /\ <<x, q>> \in JobIds
      BY <1>2 DEF Txns, JobIds
    <3>2. job'[<<x, q>>] = job[<<x, q>>]
      BY <1>12, <3>1
    <3> QED
      BY <3>1, <3>2 DEF IInv, Rows, JobsAfterCommit
  <2>4. QuotePaysOnce'
    <3> SUFFICES ASSUME NEW i \in JobIds, NEW j \in JobIds, i # j, job'[i] # "NONE",
                        job'[j] # "NONE"
                 PROVE  i[2] # j[2]
      BY DEF QuotePaysOnce
    <3>1. CASE job[i] # "NONE" /\ job[j] # "NONE"
      BY <3>1 DEF IInv, Rows, QuotePaysOnce
    <3>2. CASE job[i] = "NONE"
      BY <1>10, <1>11, <1>12, <3>2
    <3>3. CASE job[j] = "NONE"
      BY <1>10, <1>11, <1>12, <3>3
    <3> QED
      BY <3>1, <3>2, <3>3
  <2>5. DeletedProjectIsQuiet'
    BY <1>1, <1>6, <1>9, <1>10, <1>12 DEF IInv, Rows, DeletedProjectIsQuiet, JobsOf
  <2>6. OneRoutePerProject'
    <3> SUFFICES ASSUME NEW j \in JobIds, job'[j] # "NONE"
                 PROVE  jobRoute'[j] = binding'[quote'[j[2]].project]
      BY DEF OneRoutePerProject
    <3>1. quote'[j[2]].project = quote[j[2]].project /\ quote[j[2]].project \in Projects
      BY <1>9, <1>10 DEF QuoteRows
    <3>2. CASE j[1] = r /\ j[2] \in qs
      BY <1>6, <1>8, <1>12, <3>1, <3>2
    <3>3. CASE ~(j[1] = r /\ j[2] \in qs)
      <4>1. job[j] # "NONE" /\ jobRoute'[j] = jobRoute[j] /\ jobRoute[j] \in Routes
        BY <1>12, <3>3 DEF IInv, TypeOK
      <4>2. jobRoute[j] = binding[quote[j[2]].project]
        BY <4>1 DEF IInv, Rows, OneRoutePerProject
      <4>3. quote[j[2]].project = p => binding[p] = rt
        BY <1>5, <4>1, <4>2, AmountsAssumption
      <4> QED
        BY <1>8, <3>1, <4>1, <4>2, <4>3
    <3> QED
      BY <3>2, <3>3
  <2>7. BatchFollowsJobs'
    <3> SUFFICES ASSUME NEW b \in Batches
                 PROVE  LET js == {i \in JobIds : i[1] = b /\ job'[i] # "NONE"} IN
                        /\ batch'[b] = "NONE" <=> js = {}
                        /\ batch'[b] \in {"QUEUED", "RUNNING"} <=> \E i \in js : job'[i] = "LIVE"
                        /\ batch'[b] = "SUCCEEDED" => \A i \in js : job'[i] = "SUCCEEDED"
                        /\ batch'[b] = "PARTIAL" =>
                              \E i, k \in js : job'[i] = "SUCCEEDED" /\ job'[k] # "SUCCEEDED"
                        /\ batch'[b] = "FAILED_FINAL" => \A i \in js : job'[i] # "SUCCEEDED"
      BY DEF BatchFollowsJobs
    <3>1. CASE b = r
      <4>1. batch'[b] = "QUEUED"
        BY <1>8, <3>1
      <4>2. PICK q \in qs : <<r, q>> \in JobIds /\ job'[<<r, q>>] = "LIVE"
        BY <1>1, <1>6, <1>8 DEF JobIds
      <4>3. <<r, q>>[1] = r
        OBVIOUS
      <4> QED
        BY <3>1, <4>1, <4>2, <4>3
    <3>2. CASE b # r
      <4>1. batch'[b] = batch[b]
        BY <1>8, <3>2
      <4>2. \A i \in JobIds : i[1] = b => job'[i] = job[i]
        BY <1>12, <3>2
      <4> QED
        BY <4>1, <4>2 DEF IInv, Rows, BatchFollowsJobs
    <3> QED
      BY <3>1, <3>2
  <2> QED
    BY <2>1, <2>2, <2>3, <2>4, <2>5, <2>6, <2>7 DEF Rows
<1>16. FrozenForLiveJobs'
  <2> DEFINE amounts == [i \in JobIds |-> quote[i[2]].amount]
  <2>1. PICK tr \in Transfers : tr = tx[r].transfer
    BY <1>1, AtCommit
  <2>2. tr.user = ProjectOwner[p] /\ tr.amount = ReservedMs(qs) /\ tr.type = "RESERVE"
    BY <1>4, <2>1 DEF RequestWork
  <2>3. DebitAccount(tr) # "USER_RESERVED" /\ CreditAccount(tr) = "USER_RESERVED"
    BY <2>2 DEF DebitAccount, CreditAccount
  <2>4. \A u \in Users : balance'[u]["USER_RESERVED"] =
            IF u = tr.user THEN balance[u]["USER_RESERVED"] + tr.amount
            ELSE balance[u]["USER_RESERVED"]
    BY <1>1, <2>1, <2>3, PostedBalances DEF Accounts
  <2>5. amounts' = amounts
    BY <1>9, <1>10
  <2>6. ASSUME NEW u \in Users
        PROVE  balance'[u]["USER_RESERVED"] = SumFunctionOnSet(amounts, LiveJobs(u)')
    <3>1. balance[u]["USER_RESERVED"] = SumFunctionOnSet(amounts, LiveJobs(u))
      BY DEF IInv, Money, FrozenForLiveJobs
    <3>2. CASE u = tr.user
      <4> DEFINE new == {r} \X qs
      <4>1. new \subseteq JobIds /\ IsFiniteSet(new) /\ IsFiniteSet(LiveJobs(u))
        <5>1. new \in SUBSET JobIds
          BY <1>1 DEF JobIds
        <5> QED
          BY <5>1, FiniteJobs, FS_Subset DEF LiveJobs
      <4>2. LiveJobs(u)' = LiveJobs(u) \cup new /\ LiveJobs(u) \cap new = {}
        <5>1. \A j \in JobIds : j \in LiveJobs(u)' <=> (j \in LiveJobs(u) \/ j \in new)
          BY <1>6, <1>9, <1>10, <1>11, <1>12, <2>2, <3>2 DEF LiveJobs
        <5>2. \A j \in JobIds : j \in new => j \notin LiveJobs(u)
          BY <1>10, <1>11 DEF LiveJobs
        <5>3. LiveJobs(u) \subseteq JobIds /\ LiveJobs(u)' \subseteq JobIds
          BY DEF LiveJobs
        <5> HIDE DEF new
        <5> QED
          BY <4>1, <5>1, <5>2, <5>3
      <4>3. \A i \in LiveJobs(u) \cup new : amounts[i] \in Int
        BY <4>1 DEF IInv, TypeOK, QuoteRows, JobIds, LiveJobs
      <4>4. SumFunctionOnSet(amounts, new) = ReservedMs(qs)
        BY <1>1, JobsOfQuotes DEF IInv
      <4> HIDE DEF amounts, new
      <4>5. SumFunctionOnSet(amounts, LiveJobs(u) \cup new)
              = SumFunctionOnSet(amounts, LiveJobs(u)) + SumFunctionOnSet(amounts, new)
        BY <4>1, <4>2, <4>3, SumUnion
      <4> QED
        BY <2>2, <2>4, <3>1, <3>2, <4>2, <4>4, <4>5
    <3>3. CASE u # tr.user
      <4>1. LiveJobs(u)' = LiveJobs(u)
        BY <1>6, <1>9, <1>10, <1>11, <1>12, <2>2, <3>3 DEF LiveJobs
      <4> QED
        BY <2>4, <3>1, <3>3, <4>1
    <3> QED
      BY <3>2, <3>3
  <2> QED
    BY <2>5, <2>6 DEF FrozenForLiveJobs
<1> QED
    BY <1>2, <1>3, <1>13, <1>14, <1>15, <1>16 DEF IInv, Money

-----------------------------------------------------------------------------
(* The invariant *)

LEMMA InitInvariant == Init => IInv
<1> SUFFICES ASSUME Init PROVE IInv
    OBVIOUS
<1> USE DEF Init
<1>1. TypeOK
  <2>1. quote \in [Quotes -> QuoteRows]
    <3>1. (CHOOSE p \in Projects : TRUE) \in Projects
      BY RowsAssumption
    <3>2. (CHOOSE d \in Durations : TRUE) \in Durations
      BY RowsAssumption
    <3> QED
      BY <3>1, <3>2 DEF QuoteRows, QuoteStatuses
  <2>2. balance \in [Users -> [Accounts -> Int]]
    OBVIOUS
  <2>3. aborts \in 0 .. MaxAborts
    BY AmountsAssumption
  <2> QED
    BY <2>1, <2>2, <2>3 DEF TypeOK, Running, Labels, JobStates, SettlementStates, BatchStatuses
<1>2. Locks
    BY DEF Locks, Running
<1>3. \A t \in Txns : pc[t] = "idle"
    OBVIOUS
<1>4. Transactions
    BY <1>3 DEF Transactions, RequestOK, FinishOK, GrantOK, TransferOK, Running, Keyed, Debited,
                Txns
<1>5. Rows
  <2>1. \A j \in JobIds : job[j] = "NONE"
    OBVIOUS
  <2>2. QuotesPriced /\ JobsPaid /\ QuotePaysOnce /\ DeletedProjectIsQuiet /\ OneRoutePerProject
    BY DEF QuotesPriced, JobsPaid, QuotePaysOnce, DeletedProjectIsQuiet, OneRoutePerProject
  <2>3. JobsAfterCommit
    BY <2>1 DEF JobsAfterCommit, JobIds
  <2>4. BatchFollowsJobs
    BY <2>1 DEF BatchFollowsJobs
  <2> QED
    BY <2>2, <2>3, <2>4 DEF Rows
<1>6. Money
  <2>1. \A u \in Users, a \in Accounts : balance[u][a] = 0
    OBVIOUS
  <2>2. IsFiniteSet(ledger)
    BY FS_EmptySet
  <2>3. WalletsCovered
    BY <2>1 DEF WalletsCovered, Accounts
  <2>4. PostingsExplainBalances
    <3>1. \A S : S \subseteq ledger => S = {}
      OBVIOUS
    <3> QED
      BY <2>1, <3>1, SumOfNothing DEF PostingsExplainBalances, Posted
  <2>5. FrozenForLiveJobs
    <3>1. \A u \in Users : LiveJobs(u) = {}
      BY DEF LiveJobs
    <3> QED
      BY <2>1, <3>1, SumOfNothing DEF FrozenForLiveJobs, Accounts
  <2> QED
    BY <2>2, <2>3, <2>4, <2>5 DEF Money
<1> QED
    BY <1>1, <1>2, <1>4, <1>5, <1>6 DEF IInv

LEMMA AbortStep ==
    ASSUME IInv, NEW t \in Txns, Abort(t) \/ DeadlockVictim(t)
    PROVE  IInv'
<1>1. Running(t) /\ Rollback(t)
    BY DEF Abort, DeadlockVictim
<1>2. aborts' \in 0 .. MaxAborts
    BY AmountsAssumption DEF Abort, DeadlockVictim, IInv, TypeOK
<1> QED
    BY <1>1, <1>2, RollbackStep

LEMMA StutterStep ==
    ASSUME IInv, UNCHANGED vars
    PROVE  IInv'
<1> USE DEF vars, rows, projectVars, routeVars, quoteVars, jobVars, moneyVars, txVars
<1>1. TypeOK'
    BY DEF IInv, TypeOK, Running
<1>2. QuotesPriced' /\ DeletedProjectIsQuiet'
    BY DEF IInv, Rows, QuotesPriced, Charge, DeletedProjectIsQuiet, JobsOf
<1>3. \A r \in Requests, qs \in SUBSET Quotes, p \in Projects :
          RequestWork(r, qs, p) => RequestWork(r, qs, p)'
    BY DEF RequestWork, ReservedMs, Claimed, Routed, ProjectRow, AdmissionRow
<1> QED
    BY <1>1, <1>2, <1>3, OutsideStep

\* Every step keeps the invariant.
LEMMA StepInvariant == IInv /\ [Next]_vars => IInv'
<1> SUFFICES ASSUME IInv, [Next]_vars PROVE IInv'
    OBVIOUS
<1>1. ASSUME NEW p \in Projects, NEW d \in Durations, UpdateShot(p, d) PROVE IInv'
    BY <1>1, UpdateShotStep
<1>2. ASSUME NEW q \in Quotes, NEW p \in Projects, CreateQuote(q, p) PROVE IInv'
    BY <1>2, CreateQuoteStep
<1>3. ASSUME NEW q \in Quotes, QuoteExpires(q) PROVE IInv'
    BY <1>3, QuoteExpiresStep
<1>4. ASSUME NEW p \in Projects, DeleteProject(p) PROVE IInv'
    BY <1>4, DeleteProjectStep
<1>5. ASSUME NEW rt \in Routes, ActivateRoute(rt) \/ StopRoute(rt) PROVE IInv'
    BY <1>5, RouteStep
<1>6. ASSUME NEW r \in Requests, NEW qs \in (SUBSET Quotes) \ {{}}, BeginRequest(r, qs) PROVE IInv'
  <2>1. qs \in SUBSET Quotes /\ qs # {}
    OBVIOUS
  <2> QED
    BY <1>6, <2>1, BeginRequestStep
<1>7. ASSUME NEW f \in Finishers, NEW j \in JobIds,
             NEW o \in {"SUCCEEDED", "FAILED_FINAL", "CANCELLED"}, FinishJob(f, j, o)
      PROVE  IInv'
    BY <1>7, FinishJobStep
<1>8. ASSUME NEW g \in Granters, NEW k \in GrantKeys, NEW u \in Users, NEW n \in GrantAmounts,
             Grant(g, k, u, n)
      PROVE  IInv'
    BY <1>8, GrantStep
<1>9. ASSUME NEW t \in Txns, RequestStep(t) PROVE IInv'
    BY <1>9, ProjectRouteStep, ClaimQuotesStep, SolidifyStep DEF RequestStep
<1>10. ASSUME NEW t \in Txns, TransferStep(t) PROVE IInv'
    BY <1>10, PostTransferStep, DebitStep, CreditStep, LockBatchStep DEF TransferStep
<1>11. ASSUME NEW t \in Txns, CommitStep(t) PROVE IInv'
    BY <1>11, CommitReservationStep, CommitFinishStep, CommitGrantStep DEF CommitStep
<1>12. ASSUME NEW t \in Txns, Abort(t) \/ DeadlockVictim(t) PROVE IInv'
    BY <1>12, AbortStep
<1>13. CASE UNCHANGED vars
    BY <1>13, StutterStep
<1> QED
    BY <1>1, <1>2, <1>3, <1>4, <1>5, <1>6, <1>7, <1>8, <1>9, <1>10, <1>11, <1>12, <1>13 DEF Next

LEMMA Invariance == Spec => []IInv
BY InitInvariant, StepInvariant, PTL DEF Spec

-----------------------------------------------------------------------------
(* Theorems *)

\* The type invariant: in particular every reservation and every transfer in flight
\* moves a positive amount (post_transfer refuses others).
THEOREM LedgerTypes == Spec => []TypeOK
<1>1. IInv => TypeOK
    BY DEF IInv
<1> QED
    BY <1>1, Invariance, PTL

\* Nobody spends or unfreezes more than there is, however many calls compete for a
\* wallet: _change_balance compares and updates in one statement.
THEOREM WalletsStayCovered == Spec => []WalletsCovered
<1>1. IInv => WalletsCovered
    BY DEF IInv, Money
<1> QED
    BY <1>1, Invariance, PTL

\* Every balance is the sum of its postings: post_transfer moves an amount once, and
\* a repeated or rolled-back call moves nothing.
THEOREM BalancesAreExplained == Spec => []PostingsExplainBalances
<1>1. IInv => PostingsExplainBalances
    BY DEF IInv, Money
<1> QED
    BY <1>1, Invariance, PTL

\* What is frozen is the sum of the quotes of the live jobs, whichever way batches
\* froze it and finish_reservation takes it apart.
THEOREM FrozenIsReserved == Spec => []FrozenForLiveJobs
<1>1. IInv => FrozenForLiveJobs
    BY DEF IInv, Money
<1> QED
    BY <1>1, Invariance, PTL

\* A quote pays for one job: the compare-and-set of the claim and the lock of the
\* project make uq_generation_jobs_quote_id unreachable.
THEOREM QuotesPayOnce == Spec => []QuotePaysOnce
<1>1. IInv => QuotePaysOnce
    BY DEF IInv, Rows
<1> QED
    BY <1>1, Invariance, PTL

\* The status that refresh_batch_status stores is the verdict on the jobs.
THEOREM BatchesFollowJobs == Spec => []BatchFollowsJobs
<1>1. IInv => BatchFollowsJobs
    BY DEF IInv, Rows
<1> QED
    BY <1>1, Invariance, PTL

\* request_project_deletion and an acceptance in flight exclude each other.
THEOREM DeletedProjectsAreQuiet == Spec => []DeletedProjectIsQuiet
<1>1. IInv => DeletedProjectIsQuiet
    BY DEF IInv, Rows
<1> QED
    BY <1>1, Invariance, PTL

\* The jobs of a project are on the route it is bound to.
THEOREM ProjectsKeepTheirRoute == Spec => []OneRoutePerProject
<1>1. IInv => OneRoutePerProject
    BY DEF IInv, Rows
<1> QED
    BY <1>1, Invariance, PTL

\* The step that makes a job live is the commit of its reservation.
LEMMA AcceptanceIsCommit ==
    ASSUME IInv, [Next]_vars, NEW j \in JobIds, job[j] = "NONE", job'[j] = "LIVE"
    PROVE  \E r \in Requests : CommitReservation(r) /\ j \in tx[r].jobs
<1> USE DEF rows, projectVars, routeVars, quoteVars, jobVars, moneyVars, txVars
<1>1. job' # job
    OBVIOUS
<1>2. \A t \in Txns : Rollback(t) => job' = job
    BY DEF Rollback
<1>3. \A t \in Txns : RequestStep(t) => job' = job
    BY <1>2 DEF RequestStep, ProjectRoute, ClaimQuotes, SolidifyProjectRoute
<1>4. \A t \in Txns : TransferStep(t) => job' = job
    BY <1>2 DEF TransferStep, PostTransfer, Debit, Credit, LockBatch
<1>5. \A t \in Txns : Abort(t) \/ DeadlockVictim(t) => job' = job
    BY <1>2 DEF Abort, DeadlockVictim
<1>6. \E t \in Txns : CommitStep(t)
    BY <1>1, <1>3, <1>4, <1>5 DEF Next, vars, UpdateShot, CreateQuote, QuoteExpires, DeleteProject,
       ActivateRoute, StopRoute, BeginRequest, FinishJob, Grant
<1>7. PICK t \in Txns : CommitStep(t)
    BY <1>6
<1>8. ~CommitGrant(t)
    BY <1>1 DEF CommitGrant
<1>9. ~CommitFinish(t)
  <2> SUFFICES ASSUME CommitFinish(t) PROVE FALSE
    OBVIOUS
  <2>1. PICK i \in JobIds : FinishWork(t, i)
    BY DEF CommitFinish, IInv, Transactions, FinishOK, Running
  <2>2. job'[j] = job[j] \/ job'[j] = tx[t].outcome
    BY DEF CommitFinish
  <2> QED
    BY <2>1, <2>2 DEF FinishWork
<1>10. CommitReservation(t) /\ t \in Requests
    BY <1>7, <1>8, <1>9 DEF CommitStep, CommitReservation
<1>11. j \in tx[t].jobs
    BY <1>10 DEF CommitReservation
<1> QED
    BY <1>10, <1>11

\* What holds of a job at the moment it is accepted.
LEMMA AcceptedJob ==
    ASSUME IInv, [Next]_vars, NEW j \in JobIds, job[j] = "NONE", job'[j] = "LIVE"
    PROVE  /\ jobRoute'[j] \notin stopped
           /\ quote[j[2]].amount = Charge(shot[quote[j[2]].project])
           /\ shot[quote[j[2]].project] \in Durations
<1>1. PICK r \in Requests : CommitReservation(r) /\ j \in tx[r].jobs
    BY AcceptanceIsCommit
<1>2. pc[r] = "commit" /\ jobRoute'[j] = tx[r].route
    BY <1>1 DEF CommitReservation
<1>3. PICK qs \in SUBSET Quotes, p \in Projects : RequestWork(r, qs, p)
    BY <1>2 DEF IInv, Transactions, RequestOK, Running
<1>4. j[2] \in qs
    BY <1>1, <1>3 DEF RequestWork
<1>5. tx[r].route \notin stopped /\ quote[j[2]].status = "OPEN" /\ quote[j[2]].project = p
      /\ quote[j[2]].duration = shot[p]
    BY <1>2, <1>3, <1>4 DEF RequestWork, Claimed, Routed
<1>6. quote[j[2]].amount = Charge(quote[j[2]].duration) /\ shot[p] \in Durations
    BY <1>4, <1>5 DEF IInv, Rows, QuotesPriced, TypeOK
<1> QED
    BY <1>2, <1>5, <1>6

\* No job is accepted on a route whose admission was stopped: project_route's shared
\* lock keeps the stop out until the commit.
THEOREM StoppedRoutesAcceptNothing == Spec => StoppedRouteAcceptsNothing
<1>1. ASSUME IInv, [Next]_vars
      PROVE  [\A j \in JobIds :
                 job[j] = "NONE" /\ job'[j] = "LIVE" => jobRoute'[j] \notin stopped]_vars
    BY <1>1, AcceptedJob
<1> QED
    BY <1>1, Invariance, PTL DEF Spec, StoppedRouteAcceptsNothing

\* A job is accepted at the exact price of its shot, rounded up to a millisecond:
\* nothing between the quote and the commit can make the two differ.
THEOREM AcceptedAtThePrice == Spec => AcceptedAtCurrentPrice
<1>1. ASSUME IInv, [Next]_vars
      PROVE  [\A j \in JobIds :
                 job[j] = "NONE" /\ job'[j] = "LIVE" =>
                     LET exact == 1000 * shot[quote[j[2]].project] * ChargeNumerator
                         paid == quote[j[2]].amount * ChargeDenominator IN
                     exact <= paid /\ paid < exact + ChargeDenominator]_vars
  <2> SUFFICES ASSUME NEW j \in JobIds, job[j] = "NONE", job'[j] = "LIVE"
               PROVE  LET exact == 1000 * shot[quote[j[2]].project] * ChargeNumerator
                          paid == quote[j[2]].amount * ChargeDenominator IN
                      exact <= paid /\ paid < exact + ChargeDenominator
    OBVIOUS
  <2>1. PICK d \in Durations : d = shot[quote[j[2]].project] /\ quote[j[2]].amount = Charge(d)
    BY <1>1, AcceptedJob
  <2> QED
    BY <2>1, ChargeRoundsUp
<1> QED
    BY <1>1, Invariance, PTL DEF Spec, AcceptedAtCurrentPrice

=============================================================================
