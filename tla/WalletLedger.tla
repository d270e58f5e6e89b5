---------------------------- MODULE WalletLedger ----------------------------
(***************************************************************************)
(* The wallet ledger of app/services/wallet_service.py, as concurrent HTTP *)
(* requests drive it: transfers and administrative deposits coming through *)
(* app/modules/wallet_api.py, reversals through app/modules/admin.  Each   *)
(* request is one handler run by one gunicorn thread.  A handler reads     *)
(* rows, locks rows with SELECT ... FOR UPDATE, and commits once; what it  *)
(* computes with is what its SQLAlchemy session holds of a row, which      *)
(* locking the row does not refresh.                                       *)
(***************************************************************************)
EXTENDS Integers, Sequences, FiniteSets

CONSTANTS
  Requests,  \* the HTTP requests of a behaviour
  Threads,   \* how many of them gunicorn runs at once (workers * threads)
  Wallets, Keys, Amounts, NoWallet,
  NotLoaded  \* a row the request's session has no object for

ASSUME WalletAssumption ==
  /\ IsFiniteSet(Requests)
  /\ Threads \in Nat \ {0}
  /\ Amounts \subseteq Nat
  /\ NoWallet \notin Wallets
  /\ NotLoaded \notin Nat

VARIABLES
  exists,    \* wallets that have a row
  balance,   \* wallets.balance, in cents
  ledger,    \* wallet_transactions, in commit order: row n is ledger[n]
  pc,        \* where each request stands
  job,       \* the ledger row each request is there to write
  session    \* wallets.balance as each request's session last loaded it

vars == <<exists, balance, ledger, pc, job, session>>

J == INSTANCE Journal WITH journal <- ledger

-----------------------------------------------------------------------------
(* State functions. *)

Locking == {"lock_original", "lock_from", "lock_to", "post"}
Creating == {"create_from", "create_to"}
Ended == {"answered", "refused", "failed"}
InFlight == {"ensure_from", "ensure_to", "lookup"} \cup Creating \cup Locking
Busy == {r \in Requests : pc[r] \in InFlight}

NoJob == [kind |-> "none", from |-> NoWallet, to |-> NoWallet, amount |-> 0,
          key |-> J!ReversalKey(0), reverses |-> 0]
Fresh == [w \in Wallets |-> NotLoaded]

\* The wallet rows a request has locked, and the ledger row a reversal has.
HeldWallets(r) ==
  {w \in Wallets : \/ pc[r] \in {"lock_to", "post"} /\ w = job[r].from
                   \/ pc[r] = "post" /\ w = job[r].to}

HeldRow(r) ==
  IF job[r].kind = "reversal" /\ pc[r] \in Locking \ {"lock_original"}
  THEN {job[r].reverses} ELSE {}

\* q holds the row that r asks for next.
Blocks(q, r) ==
  /\ q # r
  /\ \/ pc[r] = "lock_original" /\ job[r].reverses \in HeldRow(q)
     \/ pc[r] = "lock_from" /\ job[r].from \in HeldWallets(q)
     \/ pc[r] = "lock_to" /\ job[r].to \in HeldWallets(q)

\* Mutant: the rows are read without FOR UPDATE.
GrantedUnlocked(r) == TRUE

Granted(r) == \A q \in Requests : ~ Blocks(q, r)

\* Mutant: nothing breaks a cycle of lock waits.
OnCycleUndetected(r) == FALSE

\* PostgreSQL's deadlock detector: r is on a cycle of the waits-for graph.
OnCycle(r) ==
  \E C \in SUBSET Requests :
    /\ r \in C
    /\ \A p \in C : /\ \E q \in C : Blocks(q, p)
                    /\ \E q \in C : Blocks(p, q)

Reversed(n) == \E i \in DOMAIN ledger : ledger[i].kind = "reversal" /\ ledger[i].reverses = n

\* The query of a row whose object the session still holds returns that object
\* as it is (the identity map); any other row is read as committed.
Loaded(r, w) == IF session[r][w] = NotLoaded THEN balance[w] ELSE session[r][w]

FirstWalletLock(j) == IF j.from = NoWallet THEN "lock_to" ELSE "lock_from"
SecondWalletLock(j) == IF j.to = NoWallet THEN "post" ELSE "lock_to"

-----------------------------------------------------------------------------
Init ==
  /\ exists = {}
  /\ balance = [w \in Wallets |-> 0]
  /\ ledger = << >>
  /\ pc = [r \in Requests |-> "idle"]
  /\ job = [r \in Requests |-> NoJob]
  /\ session = [r \in Requests |-> Fresh]

Goto(r, place) == pc' = [pc EXCEPT ![r] = place]

\* The handler returns and its session is removed: the locks go with pc.  Only
\* an answer of success is remembered with its row.
End(r, outcome) ==
  /\ Goto(r, outcome)
  /\ session' = [session EXCEPT ![r] = Fresh]
  /\ job' = [job EXCEPT ![r] = IF outcome = "answered" THEN job[r] ELSE NoJob]

\* A thread takes a request; a deposit brings money from outside (NULL source).
Receive(r) ==
  /\ pc[r] = "idle"
  /\ Cardinality(Busy) < Threads
  /\ \E k \in Keys, to \in Wallets, a \in Amounts :
       \/ \E from \in Wallets :
            /\ job' = [job EXCEPT ![r] =
                 [kind |-> "transfer", from |-> from, to |-> to, amount |-> a,
                  key |-> J!ClientKey(k), reverses |-> 0]]
            /\ Goto(r, "ensure_from")
       \/ /\ a > 0
          /\ job' = [job EXCEPT ![r] =
               [kind |-> "deposit", from |-> NoWallet, to |-> to, amount |-> a,
                key |-> J!ClientKey(k), reverses |-> 0]]
          /\ Goto(r, "ensure_to")
  /\ UNCHANGED <<exists, balance, ledger, session>>

\* A reversal names a row the administrator saw in the ledger page.
ReceiveReversal(r) ==
  /\ pc[r] = "idle"
  /\ Cardinality(Busy) < Threads
  /\ \E n \in DOMAIN ledger :
       job' = [job EXCEPT ![r] = J!ReversalOf(n, ledger[n])]
  /\ Goto(r, "lock_original")
  /\ UNCHANGED <<exists, balance, ledger, session>>

\* The route makes sure of both wallets before it transfers.  Its loop variable
\* drops the source object and keeps the destination object alive.
EnsureFrom(r) ==
  /\ pc[r] = "ensure_from"
  /\ Goto(r, IF job[r].from \in exists THEN "ensure_to" ELSE "create_from")
  /\ UNCHANGED <<exists, balance, ledger, job, session>>

\* Mutant: the destination wallet is taken to exist.
EnsureToUnchecked(r) ==
  /\ pc[r] = "ensure_to"
  /\ Goto(r, "lookup")
  /\ session' = [session EXCEPT ![r] = [Fresh EXCEPT ![job[r].to] = balance[job[r].to]]]
  /\ UNCHANGED <<exists, balance, ledger, job>>

EnsureTo(r) ==
  /\ pc[r] = "ensure_to"
  /\ IF job[r].to \in exists
     THEN /\ Goto(r, "lookup")
          /\ session' = [session EXCEPT ![r] = [Fresh EXCEPT ![job[r].to] = balance[job[r].to]]]
     ELSE /\ Goto(r, "create_to")
          /\ UNCHANGED session
  /\ UNCHANGED <<exists, balance, ledger, job>>

\* The wallet the query missed is inserted in a transaction of its own; the
\* unique index refuses it when another request inserted it in between.
Create(r) ==
  /\ pc[r] \in Creating
  /\ LET w == IF pc[r] = "create_from" THEN job[r].from ELSE job[r].to
     IN IF w \in exists
        THEN End(r, "failed") /\ UNCHANGED <<exists, balance>>
        ELSE /\ exists' = exists \cup {w}
             /\ balance' = [balance EXCEPT ![w] = 0]
             /\ Goto(r, IF pc[r] = "create_from" THEN "ensure_from" ELSE "ensure_to")
             /\ UNCHANGED <<job, session>>
  /\ UNCHANGED ledger

\* The early returns of process_transfer and admin_credit, then the
\* unlocked look for the key: a key already posted answers with its row.
Lookup(r) ==
  /\ pc[r] = "lookup"
  /\ IF job[r].amount = 0 \/ job[r].from = job[r].to THEN End(r, "refused")
     ELSE IF J!Posted(ledger, job[r].key) THEN End(r, "answered")
     ELSE Goto(r, FirstWalletLock(job[r])) /\ UNCHANGED <<job, session>>
  /\ UNCHANGED <<exists, balance, ledger>>

\* Mutant: a counter-entry may be reversed like any other row.
LockOriginalOfAnyKind(r) ==
  /\ pc[r] = "lock_original"
  /\ Granted(r)
  /\ IF Reversed(job[r].reverses)
     THEN End(r, "refused")
     ELSE Goto(r, FirstWalletLock(job[r])) /\ UNCHANGED <<job, session>>
  /\ UNCHANGED <<exists, balance, ledger>>

\* The row to reverse is locked first; a counter-entry or a row that has one
\* already is refused under that lock.
LockOriginal(r) ==
  /\ pc[r] = "lock_original"
  /\ Granted(r)
  /\ LET n == job[r].reverses
     IN IF ledger[n].kind = "reversal" \/ Reversed(n)
        THEN End(r, "refused")
        ELSE Goto(r, FirstWalletLock(job[r])) /\ UNCHANGED <<job, session>>
  /\ UNCHANGED <<exists, balance, ledger>>

Load(r, w) == session' = [session EXCEPT ![r][w] = Loaded(r, w)]

LockFrom(r) ==
  /\ pc[r] = "lock_from"
  /\ Granted(r)
  /\ Load(r, job[r].from)
  /\ Goto(r, SecondWalletLock(job[r]))
  /\ UNCHANGED <<exists, balance, ledger, job>>

LockTo(r) ==
  /\ pc[r] = "lock_to"
  /\ Granted(r)
  /\ Load(r, job[r].to)
  /\ Goto(r, "post")
  /\ UNCHANGED <<exists, balance, ledger, job>>

\* Mutant: the destination is credited and the source forgotten.
WrittenCreditOnly(r) ==
  [w \in Wallets |-> IF w = job[r].to THEN session[r][w] + job[r].amount ELSE balance[w]]

\* The balances a request writes, from what its session holds.
Written(r) ==
  [w \in Wallets |->
     IF w = job[r].from THEN session[r][w] - job[r].amount
     ELSE IF w = job[r].to THEN session[r][w] + job[r].amount
     ELSE balance[w]]

\* Mutant: the balance is compared with zero, not with the amount.
CoveredByAnything(r) == job[r].from # NoWallet => session[r][job[r].from] >= 0

Covered(r) == job[r].from # NoWallet => session[r][job[r].from] >= job[r].amount

\* Mutant: no unique index on idempotency_key.
PostWithoutIndex(r) ==
  /\ pc[r] = "post"
  /\ Covered(r)
  /\ balance' = Written(r)
  /\ ledger' = Append(ledger, job[r])
  /\ End(r, "answered")
  /\ UNCHANGED exists

\* Debit, credit and ledger row, flushed and committed together.
Post(r) ==
  /\ pc[r] = "post"
  /\ Covered(r)
  /\ ~ J!Posted(ledger, job[r].key)
  /\ balance' = Written(r)
  /\ ledger' = Append(ledger, job[r])
  /\ End(r, "answered")
  /\ UNCHANGED exists

\* Mutant: the TxError is swallowed and the caller told of success.
RollBackSilently(r) ==
  /\ pc[r] = "post"
  /\ ~ Covered(r) \/ J!Posted(ledger, job[r].key)
  /\ End(r, "answered")
  /\ UNCHANGED <<exists, balance, ledger>>

\* Insufficient funds (TxError), or the unique index on idempotency_key refuses
\* the insert (IntegrityError): the whole transaction is rolled back.
RollBack(r) ==
  /\ pc[r] = "post"
  /\ \/ ~ Covered(r) /\ End(r, "refused")
     \/ Covered(r) /\ J!Posted(ledger, job[r].key) /\ End(r, "failed")
  /\ UNCHANGED <<exists, balance, ledger>>

DeadlockVictim(r) ==
  /\ OnCycle(r)
  /\ End(r, "failed")
  /\ UNCHANGED <<exists, balance, ledger>>

\* statement_timeout on a lock wait, a killed worker, a lost connection.
Abort(r) ==
  /\ pc[r] \in InFlight
  /\ End(r, "failed")
  /\ UNCHANGED <<exists, balance, ledger>>

Run(r) ==
  \/ EnsureFrom(r) \/ EnsureTo(r) \/ Create(r) \/ Lookup(r)
  \/ LockOriginal(r) \/ LockFrom(r) \/ LockTo(r)
  \/ Post(r) \/ RollBack(r) \/ DeadlockVictim(r)

Next == \E r \in Requests :
  Receive(r) \/ ReceiveReversal(r) \/ Run(r) \/ Abort(r)

Fairness == \A r \in Requests : WF_vars(Run(r))

Spec == Init /\ [][Next]_vars
FairSpec == Spec /\ Fairness

-----------------------------------------------------------------------------
Entries == [kind : {"transfer", "deposit", "reversal"},
            from : Wallets \cup {NoWallet}, to : Wallets \cup {NoWallet},
            amount : Amounts,
            key : ({"client"} \X Keys) \cup ({"wallet_reversal"} \X Nat),
            reverses : Nat]

TypeOK ==
  /\ exists \subseteq Wallets
  /\ balance \in [Wallets -> Int]
  /\ ledger \in Seq(Entries)
  /\ \A n \in DOMAIN ledger : {ledger[n].from, ledger[n].to} \subseteq exists \cup {NoWallet}
  /\ pc \in [Requests -> {"idle"} \cup InFlight \cup Ended]
  /\ job \in [Requests -> Entries \cup {NoJob}]
  /\ session \in [Requests -> [Wallets -> Int \cup {NotLoaded}]]

\* No interleaving of transfers, deposits and reversals overdraws a wallet,
\* although no CHECK constraint of the database guards wallets.balance.
NonNegativeBalance == \A w \in Wallets : balance[w] >= 0

\* reverse_transaction: a movement is taken back at most once, by a later row
\* that mirrors it, and a counter-entry is never itself taken back.
TakenBackOnce ==
  \A n \in DOMAIN ledger :
    LET o == ledger[n].reverses
    IN ledger[n].kind = "reversal" =>
         /\ o \in 1 .. (n - 1)
         /\ ledger[o].kind # "reversal"
         /\ ledger[n].from = ledger[o].to
         /\ ledger[n].to = ledger[o].from
         /\ ledger[n].amount = ledger[o].amount
         /\ \A m \in DOMAIN ledger : ledger[m].reverses = o => m = n

\* A request answered with success has its key in the ledger, whether it wrote
\* the row or met one: "duplicate idempotency_key returns existing result".
AnsweredIsPosted ==
  \A r \in Requests : pc[r] = "answered" => J!Posted(ledger, job[r].key)

\* The row a step appends debits its source by exactly its amount, from the
\* balance committed at that moment: no debit is lost to a stale read.
DebitIsExact ==
  LET e == ledger'[Len(ledger')]
  IN ledger' # ledger /\ e.from # NoWallet =>
       balance'[e.from] = balance[e.from] - e.amount
DebitsAreExact == [][DebitIsExact]_vars

\* wallet_transactions is the append-only, idempotent journal of Journal.tla.
ImplementsJournal == J!Spec

\* Whatever locks they meet in whatever order, all received requests end.
EveryRequestEnds == \A r \in Requests : pc[r] \in InFlight ~> pc[r] \in Ended

\* A wallet's balance is the sum of its ledger rows (CHANGELOG.md:30).
Effect(e, w) == (IF e.to = w THEN e.amount ELSE 0) - (IF e.from = w THEN e.amount ELSE 0)
NetOfRows(rows, w) ==
  LET net[i \in 0..Len(rows)] == IF i = 0 THEN 0 ELSE net[i - 1] + Effect(rows[i], w)
  IN net[Len(rows)]
BalanceIsSumOfRows == \A w \in Wallets : balance[w] = NetOfRows(ledger, w)

\* A destination is credited from the balance committed at that moment.  The
\* code does not promise it: the destination was loaded before it was locked.
CreditIsFresh ==
  \A r \in Requests :
    Post(r) /\ job[r].to # NoWallet => session[r][job[r].to] = balance[job[r].to]
CreditsAreFresh == [][CreditIsFresh]_vars

\* process_transfer locks "in consistent order (by ID) to prevent deadlocks".
NoDeadlock == \A r \in Requests : ~ OnCycle(r)
=============================================================================
