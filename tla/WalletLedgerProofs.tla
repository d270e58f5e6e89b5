------------------------- MODULE WalletLedgerProofs -------------------------
(***************************************************************************)
(* The safety properties of WalletLedger, for any set of requests, wallets *)
(* and keys and any number of threads.  They follow from one inductive     *)
(* invariant: what a request between two of its steps knows of its job,    *)
(* its rows and its session (RequestOK), that no two requests hold the     *)
(* same wallet row (LocksOK), and what every row of the ledger is (RowsOK).*)
(***************************************************************************)
EXTENDS WalletLedger, FiniteSetTheorems, TLAPS

Types ==
  /\ exists \subseteq Wallets
  /\ balance \in [Wallets -> Nat]
  /\ ledger \in Seq(Entries)
  /\ pc \in [Requests -> {"idle"} \cup InFlight \cup Ended]
  /\ job \in [Requests -> Entries \cup {NoJob}]
  /\ session \in [Requests -> [Wallets -> Nat \cup {NotLoaded}]]

\* The job of a request in flight is a movement a client may ask for, or the
\* counter-entry of a row of the ledger.
JobOK(r) ==
  /\ pc[r] \in InFlight => job[r] \in Entries
  /\ pc[r] \in InFlight /\ job[r].kind # "reversal" => job[r] \in J!Movements
  /\ pc[r] \in InFlight /\ job[r].kind = "reversal" =>
       /\ pc[r] \in Locking
       /\ job[r].reverses \in DOMAIN ledger
       /\ job[r] = J!ReversalOf(job[r].reverses, ledger[job[r].reverses])
       /\ pc[r] # "lock_original" => ledger[job[r].reverses].kind # "reversal"
  /\ pc[r] = "lock_original" => job[r].kind = "reversal"
  /\ pc[r] \in Locking => job[r].from # job[r].to /\ job[r].amount > 0
  /\ pc[r] \in {"ensure_from", "create_from", "lock_from"} => job[r].from \in Wallets
  /\ pc[r] = "lock_to" => job[r].to \in Wallets

\* The rows a request relies on exist.
WalletsOK(r) ==
  /\ pc[r] \in {"ensure_to", "create_to", "lookup"} \cup Locking =>
       job[r].from \in exists \cup {NoWallet}
  /\ pc[r] \in {"lookup"} \cup Locking => job[r].to \in exists \cup {NoWallet}

\* Only the destination can be loaded before it is locked, so that a locked
\* source was read under its lock and still has that balance.
SessionOK(r) ==
  /\ pc[r] \notin {"lookup"} \cup Locking => session[r] = Fresh
  /\ pc[r] \in {"lookup", "lock_original", "lock_from"} =>
       \A w \in Wallets : w # job[r].to => session[r][w] = NotLoaded
  /\ pc[r] \in {"lock_to", "post"} /\ job[r].from # NoWallet =>
       session[r][job[r].from] = balance[job[r].from]
  /\ pc[r] = "post" /\ job[r].to # NoWallet => session[r][job[r].to] \in Nat

RequestOK(r) == JobOK(r) /\ WalletsOK(r) /\ SessionOK(r)

LocksOK ==
  \A r, q \in Requests : r # q => HeldWallets(r) \cap HeldWallets(q) = {}

\* What a row of the ledger is.
RowOK(n) ==
  /\ ledger[n].from # ledger[n].to
  /\ ledger[n].amount > 0
  /\ {ledger[n].from, ledger[n].to} \subseteq exists \cup {NoWallet}
  /\ ledger[n].kind # "reversal" => ledger[n] \in J!Movements
  /\ ledger[n].kind = "reversal" =>
       /\ ledger[n].reverses \in 1 .. (n - 1)
       /\ ledger[ledger[n].reverses].kind # "reversal"
       /\ ledger[n] = J!ReversalOf(ledger[n].reverses, ledger[ledger[n].reverses])

RowsOK == \A n \in DOMAIN ledger : RowOK(n)

UniqueKeys ==
  \A m, n \in DOMAIN ledger : ledger[m].key = ledger[n].key => m = n

IInv ==
  /\ Types
  /\ \A r \in Requests : RequestOK(r)
  /\ LocksOK
  /\ RowsOK
  /\ UniqueKeys
  /\ AnsweredIsPosted

-----------------------------------------------------------------------------
(* What a step leaves alone. *)

\* The database after a step of q: rows are added to it and none is lost, and
\* a wallet another request has locked keeps its balance.
Grows(q) ==
  /\ exists \subseteq exists' /\ exists' \subseteq Wallets
  /\ ledger' = ledger \/ \E e \in Entries : ledger' = Append(ledger, e)
  /\ balance' \in [Wallets -> Nat]
  /\ \A r \in Requests \ {q} : \A w \in HeldWallets(r) : balance'[w] = balance[w]

\* Only q moved.
OnlyMoves(q) ==
  \A r \in Requests \ {q} :
    pc'[r] = pc[r] /\ job'[r] = job[r] /\ session'[r] = session[r]

LEMMA LedgerKept ==
  ASSUME ledger \in Seq(Entries),
         ledger' = ledger \/ \E e \in Entries : ledger' = Append(ledger, e)
  PROVE  /\ ledger' \in Seq(Entries)
         /\ DOMAIN ledger \subseteq DOMAIN ledger'
         /\ \A n \in DOMAIN ledger : ledger'[n] = ledger[n]
  OBVIOUS

\* A step of q breaks nothing another request relies on.
LEMMA OthersKept ==
  ASSUME IInv, NEW q \in Requests, Grows(q), OnlyMoves(q),
         NEW r \in Requests, r # q
  PROVE  RequestOK(r)' /\ HeldWallets(r)' = HeldWallets(r)
<1>1. pc'[r] = pc[r] /\ job'[r] = job[r] /\ session'[r] = session[r]
  BY DEF OnlyMoves
<1>2. HeldWallets(r)' = HeldWallets(r)
  BY <1>1 DEF HeldWallets
<1>3. /\ DOMAIN ledger \subseteq DOMAIN ledger'
      /\ \A n \in DOMAIN ledger : ledger'[n] = ledger[n]
  BY LedgerKept DEF IInv, Types, Grows
<1>4. RequestOK(r)
  BY DEF IInv
<1>5. JobOK(r)'
  BY <1>1, <1>3, <1>4 DEF RequestOK, JobOK
<1>6. WalletsOK(r)'
  BY <1>1, <1>4 DEF RequestOK, WalletsOK, Grows
<1>7. SessionOK(r)'
  <2>1. ASSUME pc[r] \in {"lock_to", "post"}, job[r].from # NoWallet
        PROVE  balance'[job[r].from] = balance[job[r].from]
    BY <1>4, <2>1 DEF Grows, HeldWallets, RequestOK, JobOK, InFlight, Locking, Entries
  <2>2. QED
    BY <1>1, <1>4, <2>1 DEF RequestOK, SessionOK, Fresh
<1>8. QED
  BY <1>2, <1>5, <1>6, <1>7 DEF RequestOK

LEMMA LocksKept ==
  ASSUME IInv, NEW q \in Requests, Grows(q), OnlyMoves(q),
         \A r \in Requests \ {q} : HeldWallets(q)' \cap HeldWallets(r) = {}
  PROVE  LocksOK'
<1>1. SUFFICES ASSUME NEW r \in Requests, NEW p \in Requests, r # p
               PROVE  HeldWallets(r)' \cap HeldWallets(p)' = {}
  BY DEF LocksOK
<1>2. HeldWallets(r) \cap HeldWallets(p) = {}
  BY <1>1 DEF IInv, LocksOK
<1>3. \A o \in Requests \ {q} : HeldWallets(o)' = HeldWallets(o)
  BY OthersKept
<1>4. QED
  BY <1>1, <1>2, <1>3

\* What is left to show of a step that appends nothing to the ledger.
LEMMA QuietStep ==
  ASSUME IInv, NEW q \in Requests, Grows(q), ledger' = ledger,
         OnlyMoves(q), Types', RequestOK(q)',
         \A r \in Requests \ {q} : HeldWallets(q)' \cap HeldWallets(r) = {},
         pc'[q] = "answered" => J!Posted(ledger, job'[q].key)
  PROVE  IInv'
<1>1. \A r \in Requests : RequestOK(r)'
  BY OthersKept
<1>2. RowsOK'
  BY DEF IInv, RowsOK, RowOK, J!ReversalOf, Grows
<1>3. UniqueKeys' /\ AnsweredIsPosted'
  BY DEF IInv, UniqueKeys, AnsweredIsPosted, OnlyMoves, J!Posted
<1>4. QED
  BY <1>1, <1>2, <1>3, LocksKept DEF IInv

LEMMA NothingWritten ==
  ASSUME IInv, NEW q \in Requests, UNCHANGED <<exists, balance, ledger>>
  PROVE  Grows(q) /\ ledger' = ledger
  BY DEF Grows, IInv, Types

-----------------------------------------------------------------------------
(* The invariant holds initially and every step keeps it. *)

LEMMA InitInv == Init => IInv
<1> SUFFICES ASSUME Init PROVE IInv
  OBVIOUS
<1>1. Types
  BY WalletAssumption DEF Init, Types, InFlight, Ended, Fresh
<1>2. \A r \in Requests : RequestOK(r)
  BY DEF Init, RequestOK, JobOK, WalletsOK, SessionOK, InFlight, Locking, Creating
<1>3. LocksOK
  BY DEF Init, LocksOK, HeldWallets
<1>4. RowsOK /\ UniqueKeys /\ AnsweredIsPosted
  BY DEF Init, RowsOK, UniqueKeys, AnsweredIsPosted
<1>5. QED
  BY <1>1, <1>2, <1>3, <1>4 DEF IInv

\* A request that ends without writing.
LEMMA EndQuiet ==
  ASSUME IInv, NEW q \in Requests, NEW outcome \in {"answered", "refused", "failed"},
         End(q, outcome), UNCHANGED <<exists, balance, ledger>>,
         outcome = "answered" => J!Posted(ledger, job[q].key)
  PROVE  IInv'
<1>1. /\ pc' = [pc EXCEPT ![q] = outcome]
      /\ session' = [session EXCEPT ![q] = Fresh]
      /\ job' = [job EXCEPT ![q] = IF outcome = "answered" THEN job[q] ELSE NoJob]
  BY DEF End, Goto
<1>2. Types
  BY DEF IInv
<1>3. OnlyMoves(q) /\ Types'
  BY <1>1, <1>2 DEF OnlyMoves, Types, Ended, Fresh
<1>4. RequestOK(q)'
  BY <1>1, <1>2 DEF RequestOK, JobOK, WalletsOK, SessionOK, Types, InFlight, Locking, Creating
<1>5. HeldWallets(q)' = {}
  BY <1>1, <1>2 DEF HeldWallets, Types
<1>6. pc'[q] = "answered" => J!Posted(ledger, job'[q].key)
  BY <1>1, <1>2 DEF Types
<1>7. QED
  BY <1>3, <1>4, <1>5, <1>6, NothingWritten, QuietStep

\* A request that moves on to a place where it holds no wallet row.
LEMMA GotoQuiet ==
  ASSUME IInv, NEW q \in Requests, NEW place \in InFlight \ {"lock_to", "post"},
         Goto(q, place), OnlyMoves(q), Types', RequestOK(q)',
         Grows(q), ledger' = ledger
  PROVE  IInv'
<1>1. pc'[q] = place
  BY DEF Goto, IInv, Types
<1>2. HeldWallets(q)' = {}
  BY <1>1 DEF HeldWallets
<1>3. pc'[q] # "answered"
  BY <1>1 DEF InFlight, Locking, Creating
<1>4. QED
  BY <1>2, <1>3, QuietStep

LEMMA ReceiveInv == ASSUME IInv, NEW q \in Requests, Receive(q) PROVE IInv'
<1>1. PICK k \in Keys, to \in Wallets, a \in Amounts :
        \/ \E from \in Wallets :
             /\ job' = [job EXCEPT ![q] =
                  [kind |-> "transfer", from |-> from, to |-> to, amount |-> a,
                   key |-> J!ClientKey(k), reverses |-> 0]]
             /\ Goto(q, "ensure_from")
        \/ /\ a > 0
           /\ job' = [job EXCEPT ![q] =
                [kind |-> "deposit", from |-> NoWallet, to |-> to, amount |-> a,
                 key |-> J!ClientKey(k), reverses |-> 0]]
           /\ Goto(q, "ensure_to")
  BY DEF Receive
<1>2. pc[q] = "idle" /\ UNCHANGED <<exists, balance, ledger, session>>
  BY DEF Receive
<1>3. Types /\ RequestOK(q)
  BY DEF IInv
<1>4. session'[q] = Fresh
  BY <1>2, <1>3 DEF RequestOK, SessionOK, Locking
<1>5. CASE \E from \in Wallets :
             /\ job' = [job EXCEPT ![q] =
                  [kind |-> "transfer", from |-> from, to |-> to, amount |-> a,
                   key |-> J!ClientKey(k), reverses |-> 0]]
             /\ Goto(q, "ensure_from")
  <2>1. PICK from \in Wallets :
          job' = [job EXCEPT ![q] =
            [kind |-> "transfer", from |-> from, to |-> to, amount |-> a,
             key |-> J!ClientKey(k), reverses |-> 0]]
    BY <1>5
  <2>2. pc' = [pc EXCEPT ![q] = "ensure_from"] /\ Goto(q, "ensure_from")
    BY <1>5 DEF Goto
  <2>3. job'[q] \in J!Movements /\ job'[q] \in Entries /\ job'[q].from \in Wallets
    BY <2>1, <1>3 DEF Types, J!Movements, J!ClientKey, Entries
  <2>4. OnlyMoves(q) /\ Types'
    BY <2>1, <2>2, <2>3, <1>2, <1>3 DEF OnlyMoves, Types, InFlight
  <2>5. RequestOK(q)'
    BY <2>1, <2>2, <2>3, <1>3, <1>4
    DEF Types, RequestOK, JobOK, WalletsOK, SessionOK, Locking, InFlight, J!Movements
  <2>6. QED
    BY <2>2, <2>4, <2>5, <1>2, NothingWritten, GotoQuiet DEF InFlight
<1>6. CASE /\ a > 0
           /\ job' = [job EXCEPT ![q] =
                [kind |-> "deposit", from |-> NoWallet, to |-> to, amount |-> a,
                 key |-> J!ClientKey(k), reverses |-> 0]]
           /\ Goto(q, "ensure_to")
  <2>1. pc' = [pc EXCEPT ![q] = "ensure_to"]
    BY <1>6 DEF Goto
  <2>2. job'[q] \in J!Movements /\ job'[q] \in Entries /\ job'[q].from = NoWallet
    BY <1>6, <1>3 DEF Types, J!Movements, J!ClientKey, Entries
  <2>3. OnlyMoves(q) /\ Types'
    BY <1>6, <2>1, <2>2, <1>2, <1>3 DEF OnlyMoves, Types, InFlight
  <2>4. RequestOK(q)'
    BY <1>6, <2>1, <2>2, <1>3, <1>4
    DEF Types, RequestOK, JobOK, WalletsOK, SessionOK, Locking, InFlight, J!Movements
  <2>5. QED
    BY <1>6, <2>3, <2>4, <1>2, NothingWritten, GotoQuiet DEF InFlight
<1>7. QED
  BY <1>1, <1>5, <1>6

LEMMA ReceiveReversalInv ==
  ASSUME IInv, NEW q \in Requests, ReceiveReversal(q) PROVE IInv'
<1>1. PICK n \in DOMAIN ledger :
        job' = [job EXCEPT ![q] = J!ReversalOf(n, ledger[n])]
  BY DEF ReceiveReversal
<1>2. /\ pc[q] = "idle" /\ Goto(q, "lock_original")
      /\ UNCHANGED <<exists, balance, ledger, session>>
  BY DEF ReceiveReversal
<1>3. Types /\ RequestOK(q) /\ RowOK(n)
  BY DEF IInv, RowsOK
<1>4. session'[q] = Fresh
  BY <1>2, <1>3 DEF RequestOK, SessionOK, Locking
<1>5. /\ pc' = [pc EXCEPT ![q] = "lock_original"] /\ pc'[q] = "lock_original"
      /\ job'[q] = J!ReversalOf(n, ledger[n])
  BY <1>1, <1>2, <1>3 DEF Goto, Types
<1>6. ledger[n] \in Entries /\ n \in Nat
  BY <1>3 DEF Types
<1>7. job'[q] \in Entries
  BY <1>5, <1>6 DEF Entries, J!ReversalOf, J!ReversalKey
<1>8. OnlyMoves(q) /\ Types'
  BY <1>1, <1>2, <1>3, <1>5, <1>7 DEF OnlyMoves, Types, InFlight, Locking
<1>9. RequestOK(q)'
  <2>1. /\ job'[q].kind = "reversal" /\ job'[q].reverses = n
        /\ job'[q].from # job'[q].to /\ job'[q].amount > 0
        /\ {job'[q].from, job'[q].to} \subseteq exists \cup {NoWallet}
    BY <1>3, <1>5 DEF RowOK, J!ReversalOf
  <2>2. JobOK(q)'
    BY <1>2, <1>5, <1>7, <2>1 DEF JobOK, Locking
  <2>3. WalletsOK(q)' /\ SessionOK(q)'
    BY <1>2, <1>4, <1>5, <2>1 DEF WalletsOK, SessionOK, Locking, Fresh
  <2>4. QED
    BY <2>2, <2>3 DEF RequestOK
<1>10. QED
  BY <1>2, <1>8, <1>9, NothingWritten, GotoQuiet DEF InFlight, Locking

LEMMA EnsureFromInv == ASSUME IInv, NEW q \in Requests, EnsureFrom(q) PROVE IInv'
<1> DEFINE place == IF job[q].from \in exists THEN "ensure_to" ELSE "create_from"
<1>1. /\ pc[q] = "ensure_from" /\ Goto(q, place)
      /\ UNCHANGED <<exists, balance, ledger, job, session>>
  BY DEF EnsureFrom
<1>2. Types /\ RequestOK(q)
  BY DEF IInv
<1>3. pc' = [pc EXCEPT ![q] = place] /\ place \in {"ensure_to", "create_from"}
  BY <1>1 DEF Goto
<1>4. OnlyMoves(q) /\ Types'
  BY <1>1, <1>2, <1>3 DEF OnlyMoves, Types, InFlight, Creating
<1>5. RequestOK(q)'
  BY <1>1, <1>2, <1>3
  DEF Types, RequestOK, JobOK, WalletsOK, SessionOK, InFlight, Locking, Creating
<1>6. QED
  BY <1>1, <1>3, <1>4, <1>5, NothingWritten, GotoQuiet DEF InFlight, Creating

LEMMA EnsureToInv == ASSUME IInv, NEW q \in Requests, EnsureTo(q) PROVE IInv'
<1>1. /\ pc[q] = "ensure_to"
      /\ UNCHANGED <<exists, balance, ledger, job>>
  BY DEF EnsureTo
<1>2. Types /\ RequestOK(q)
  BY DEF IInv
<1>3. CASE job[q].to \in exists
  <2>1. /\ Goto(q, "lookup") /\ pc' = [pc EXCEPT ![q] = "lookup"]
        /\ session' = [session EXCEPT ![q] = [Fresh EXCEPT ![job[q].to] = balance[job[q].to]]]
    BY <1>3 DEF EnsureTo, Goto
  <2>2. OnlyMoves(q) /\ Types'
    BY <1>1, <1>2, <1>3, <2>1 DEF OnlyMoves, Types, InFlight, Fresh
  <2>3. JobOK(q)' /\ WalletsOK(q)'
    BY <1>1, <1>2, <1>3, <2>1 DEF Types, RequestOK, JobOK, WalletsOK, InFlight, Locking, Creating
  <2>4. SessionOK(q)'
    BY <1>1, <1>2, <1>3, <2>1 DEF Types, SessionOK, Fresh, Locking
  <2>5. QED
    BY <1>1, <2>1, <2>2, <2>3, <2>4, NothingWritten, GotoQuiet DEF InFlight, Locking, RequestOK
<1>4. CASE job[q].to \notin exists
  <2>1. /\ Goto(q, "create_to") /\ pc' = [pc EXCEPT ![q] = "create_to"]
        /\ session' = session
    BY <1>4 DEF EnsureTo, Goto
  <2>2. OnlyMoves(q) /\ Types'
    BY <1>1, <1>2, <2>1 DEF OnlyMoves, Types, InFlight, Creating
  <2>3. RequestOK(q)'
    BY <1>1, <1>2, <2>1
    DEF Types, RequestOK, JobOK, WalletsOK, SessionOK, InFlight, Locking, Creating
  <2>4. QED
    BY <1>1, <2>1, <2>2, <2>3, NothingWritten, GotoQuiet DEF InFlight, Creating, Locking
<1>5. QED
  BY <1>3, <1>4

\* The wallet inserted is nobody's locked row: a locked row exists.
LEMMA CreateInv == ASSUME IInv, NEW q \in Requests, Create(q) PROVE IInv'
<1> DEFINE w == IF pc[q] = "create_from" THEN job[q].from ELSE job[q].to
           place == IF pc[q] = "create_from" THEN "ensure_from" ELSE "ensure_to"
<1>1. pc[q] \in Creating /\ ledger' = ledger
  BY DEF Create
<1>2. Types /\ RequestOK(q)
  BY DEF IInv
<1>3. CASE w \in exists
  <2>1. End(q, "failed") /\ UNCHANGED <<exists, balance>>
    BY <1>3 DEF Create
  <2>2. QED
    BY <1>1, <2>1, EndQuiet
<1>4. CASE w \notin exists
  <2>1. /\ exists' = exists \cup {w} /\ balance' = [balance EXCEPT ![w] = 0]
        /\ Goto(q, place) /\ UNCHANGED <<job, session>>
    BY <1>4 DEF Create
  <2>2. w \in Wallets
    BY <1>1, <1>2 DEF RequestOK, JobOK, InFlight, Creating, Locking, J!Movements
  <2>3. pc' = [pc EXCEPT ![q] = place] /\ place \in {"ensure_from", "ensure_to"}
    BY <2>1 DEF Goto
  <2>4. OnlyMoves(q) /\ Types'
    BY <1>1, <1>2, <2>1, <2>2, <2>3 DEF OnlyMoves, Types, InFlight
  <2>5. Grows(q)
    <3>1. SUFFICES ASSUME NEW r \in Requests \ {q}, NEW v \in HeldWallets(r)
                   PROVE  balance'[v] = balance[v]
      BY <1>1, <1>2, <2>1, <2>2, <2>4 DEF Grows, Types
    <3>2. v \in exists
      BY WalletAssumption DEF HeldWallets, IInv, RequestOK, WalletsOK, Locking
    <3>3. QED
      BY <1>2, <1>4, <2>1, <3>2 DEF Types
  <2>6. RequestOK(q)'
    BY <1>1, <1>2, <2>1, <2>2, <2>3
    DEF Types, RequestOK, JobOK, WalletsOK, SessionOK, InFlight, Locking, Creating
  <2>7. QED
    BY <1>1, <2>1, <2>3, <2>4, <2>5, <2>6, GotoQuiet DEF InFlight
<1>5. QED
  BY <1>3, <1>4

LEMMA LookupInv == ASSUME IInv, NEW q \in Requests, Lookup(q) PROVE IInv'
<1>1. pc[q] = "lookup" /\ UNCHANGED <<exists, balance, ledger>>
  BY DEF Lookup
<1>2. Types /\ RequestOK(q)
  BY DEF IInv
<1>3. CASE job[q].amount = 0 \/ job[q].from = job[q].to
  BY <1>1, <1>3, EndQuiet DEF Lookup
<1>4. CASE J!Posted(ledger, job[q].key) /\ ~ (job[q].amount = 0 \/ job[q].from = job[q].to)
  BY <1>1, <1>4, EndQuiet DEF Lookup
<1>5. CASE ~ J!Posted(ledger, job[q].key) /\ ~ (job[q].amount = 0 \/ job[q].from = job[q].to)
  <2> DEFINE place == FirstWalletLock(job[q])
  <2>1. Goto(q, place) /\ UNCHANGED <<job, session>>
    BY <1>5 DEF Lookup
  <2>2. pc' = [pc EXCEPT ![q] = place] /\ place \in {"lock_from", "lock_to"}
    BY <2>1 DEF Goto, FirstWalletLock
  <2>3. OnlyMoves(q) /\ Types'
    BY <1>1, <1>2, <2>1, <2>2 DEF OnlyMoves, Types, InFlight, Locking
  <2>4. job[q] \in J!Movements /\ job[q] \in Entries /\ job[q].kind # "reversal"
    BY <1>1, <1>2 DEF RequestOK, JobOK, InFlight, Locking
  <2>5. job[q].amount > 0 /\ job[q].to \in Wallets
    <3>1. job[q].amount \in Nat
      BY <2>4, WalletAssumption DEF Entries
    <3>2. job[q].to \in Wallets
      BY <2>4 DEF J!Movements
    <3>3. job[q].amount # 0
      BY <1>5
    <3>4. QED
      BY <3>1, <3>2, <3>3
  <2>6. JobOK(q)' /\ WalletsOK(q)'
    <3>1. pc'[q] = place /\ job'[q] = job[q]
      BY <1>2, <2>1, <2>2 DEF Types
    <3>2. place = "lock_from" => job[q].from \in Wallets
      BY <2>4 DEF FirstWalletLock, Entries
    <3>3. JobOK(q)'
      BY <1>5, <2>2, <2>4, <2>5, <3>1, <3>2 DEF JobOK, InFlight, Locking
    <3>4. WalletsOK(q)'
      BY <1>1, <1>2, <2>2, <3>1 DEF RequestOK, WalletsOK, Locking
    <3>5. QED
      BY <3>3, <3>4
  <2>7. SessionOK(q)'
    BY <1>1, <1>2, <2>1, <2>2 DEF Types, RequestOK, SessionOK, Locking, FirstWalletLock
  <2>8. HeldWallets(q)' = {}
    BY <1>2, <2>1, <2>2, WalletAssumption DEF Types, HeldWallets, FirstWalletLock
  <2>9. QED
    BY <1>1, <1>2, <2>1, <2>2, <2>3, <2>6, <2>7, <2>8, NothingWritten, QuietStep DEF RequestOK, Types
<1>6. QED
  BY <1>3, <1>4, <1>5

LEMMA LockOriginalInv ==
  ASSUME IInv, NEW q \in Requests, LockOriginal(q) PROVE IInv'
<1> DEFINE n == job[q].reverses
           place == FirstWalletLock(job[q])
<1>1. pc[q] = "lock_original" /\ UNCHANGED <<exists, balance, ledger>>
  BY DEF LockOriginal
<1>2. Types /\ RequestOK(q)
  BY DEF IInv
<1>3. CASE ledger[n].kind = "reversal" \/ Reversed(n)
  BY <1>1, <1>3, EndQuiet DEF LockOriginal
<1>4. CASE ~ (ledger[n].kind = "reversal" \/ Reversed(n))
  <2>1. Goto(q, place) /\ UNCHANGED <<job, session>>
    BY <1>4 DEF LockOriginal
  <2>2. job[q] = J!ReversalOf(n, ledger[n]) /\ n \in DOMAIN ledger /\ RowOK(n)
    BY <1>1, <1>2 DEF RequestOK, JobOK, InFlight, Locking, IInv, RowsOK
  <2>3. job[q].from \in Wallets
    BY <1>4, <2>2 DEF RowOK, J!Movements, J!ReversalOf
  <2>4. place = "lock_from" /\ pc' = [pc EXCEPT ![q] = "lock_from"]
    BY <2>1, <2>3, WalletAssumption DEF FirstWalletLock, Goto
  <2>5. OnlyMoves(q) /\ Types'
    BY <1>1, <1>2, <2>1, <2>4 DEF OnlyMoves, Types, InFlight, Locking
  <2>6. RequestOK(q)'
    BY <1>1, <1>2, <1>4, <2>1, <2>3, <2>4
    DEF Types, RequestOK, JobOK, WalletsOK, SessionOK, InFlight, Locking, Creating
  <2>7. QED
    BY <1>1, <2>1, <2>4, <2>5, <2>6, NothingWritten, GotoQuiet DEF InFlight, Locking
<1>5. QED
  BY <1>3, <1>4

LEMMA LockFromInv == ASSUME IInv, NEW q \in Requests, LockFrom(q) PROVE IInv'
<1> DEFINE from == job[q].from
           place == SecondWalletLock(job[q])
<1>1. /\ pc[q] = "lock_from" /\ Granted(q) /\ Goto(q, place)
      /\ session' = [session EXCEPT ![q][from] = Loaded(q, from)]
      /\ UNCHANGED <<exists, balance, ledger, job>>
  BY DEF LockFrom, Load
<1>2. Types /\ RequestOK(q)
  BY DEF IInv
<1>3. /\ from \in Wallets /\ from # job[q].to
      /\ \A w \in Wallets : w # job[q].to => session[q][w] = NotLoaded
  BY <1>1, <1>2 DEF RequestOK, JobOK, SessionOK, Locking
<1>4. Loaded(q, from) = balance[from]
  BY <1>3 DEF Loaded
<1>5. pc' = [pc EXCEPT ![q] = place] /\ place \in {"lock_to", "post"}
  BY <1>1 DEF Goto, SecondWalletLock
<1>6. OnlyMoves(q) /\ Types'
  BY <1>1, <1>2, <1>3, <1>4, <1>5 DEF OnlyMoves, Types, InFlight, Locking
<1>7. pc'[q] = place /\ job'[q] = job[q] /\ session'[q][from] = balance'[from]
  BY <1>1, <1>2, <1>3, <1>4, <1>5 DEF Types
<1>8. RequestOK(q)'
  <2>1. place = "lock_to" => job[q].to \in Wallets
    BY <1>1, <1>2 DEF SecondWalletLock, RequestOK, JobOK, InFlight, Locking, Entries
  <2>2. JobOK(q)'
    BY <1>1, <1>2, <1>5, <1>7, <2>1 DEF RequestOK, JobOK, InFlight, Locking
  <2>3. WalletsOK(q)'
    BY <1>1, <1>2, <1>5, <1>7 DEF RequestOK, WalletsOK, Locking
  <2>4. SessionOK(q)'
    BY <1>5, <1>7 DEF SessionOK, Locking, SecondWalletLock
  <2>5. QED
    BY <2>2, <2>3, <2>4 DEF RequestOK
<1>9. \A r \in Requests \ {q} : HeldWallets(q)' \cap HeldWallets(r) = {}
  <2>1. HeldWallets(q)' = {from}
    BY <1>3, <1>5, <1>7, WalletAssumption DEF HeldWallets, SecondWalletLock
  <2>2. \A r \in Requests \ {q} : from \notin HeldWallets(r)
    BY <1>1 DEF Granted, Blocks
  <2>3. QED
    BY <2>1, <2>2
<1>10. QED
  BY <1>1, <1>5, <1>6, <1>7, <1>8, <1>9, NothingWritten, QuietStep

LEMMA LockToInv == ASSUME IInv, NEW q \in Requests, LockTo(q) PROVE IInv'
<1> DEFINE from == job[q].from
           to == job[q].to
<1>1. /\ pc[q] = "lock_to" /\ Granted(q) /\ Goto(q, "post")
      /\ session' = [session EXCEPT ![q][to] = Loaded(q, to)]
      /\ UNCHANGED <<exists, balance, ledger, job>>
  BY DEF LockTo, Load
<1>2. Types /\ RequestOK(q)
  BY DEF IInv
<1>3. to \in Wallets /\ from # to
  BY <1>1, <1>2 DEF RequestOK, JobOK, Locking
<1>4. Loaded(q, to) \in Nat
  BY <1>2, <1>3 DEF Loaded, Types
<1>5. pc' = [pc EXCEPT ![q] = "post"]
  BY <1>1 DEF Goto
<1>6. OnlyMoves(q) /\ Types'
  BY <1>1, <1>2, <1>3, <1>4, <1>5 DEF OnlyMoves, Types, InFlight, Locking
<1>7. /\ pc'[q] = "post" /\ job'[q] = job[q] /\ session'[q][to] \in Nat
      /\ session'[q][from] = session[q][from]
  BY <1>1, <1>2, <1>3, <1>4, <1>5 DEF Types
<1>8. RequestOK(q)'
  <2>1. JobOK(q)'
    BY <1>1, <1>2, <1>7 DEF RequestOK, JobOK, InFlight, Locking
  <2>2. WalletsOK(q)'
    BY <1>1, <1>2, <1>7 DEF RequestOK, WalletsOK, Locking
  <2>3. SessionOK(q)'
    BY <1>1, <1>2, <1>7 DEF RequestOK, SessionOK, Locking
  <2>4. QED
    BY <2>1, <2>2, <2>3 DEF RequestOK
<1>9. ASSUME NEW r \in Requests \ {q}
      PROVE  HeldWallets(q)' \cap HeldWallets(r) = {}
  <2>1. HeldWallets(q)' = HeldWallets(q) \cup {to}
    BY <1>1, <1>3, <1>7 DEF HeldWallets
  <2>2. to \notin HeldWallets(r)
    BY <1>1 DEF Granted, Blocks
  <2>3. HeldWallets(q) \cap HeldWallets(r) = {}
    BY DEF IInv, LocksOK
  <2>4. QED
    BY <2>1, <2>2, <2>3
<1>10. QED
  BY <1>1, <1>6, <1>7, <1>8, <1>9, NothingWritten, QuietStep

-----------------------------------------------------------------------------
(* The one step that writes: what Post writes, and what it keeps. *)

LEMMA PostFacts ==
  ASSUME IInv, NEW q \in Requests, Post(q)
  PROVE  /\ job[q] \in Entries /\ job[q].from # job[q].to /\ job[q].amount > 0
         /\ ledger' = Append(ledger, job[q])
         /\ job[q].from # NoWallet =>
              /\ job[q].from \in Wallets
              /\ balance[job[q].from] >= job[q].amount
              /\ balance'[job[q].from] = balance[job[q].from] - job[q].amount
         /\ balance' \in [Wallets -> Nat]
         /\ \A w \in Wallets \ HeldWallets(q) : balance'[w] = balance[w]
<1> DEFINE from == job[q].from
           to == job[q].to
<1>1. /\ pc[q] = "post" /\ Covered(q) /\ balance' = Written(q)
      /\ ledger' = Append(ledger, job[q])
  BY DEF Post
<1>2. Types /\ RequestOK(q)
  BY DEF IInv
<1>3. /\ job[q] \in Entries /\ from # to /\ job[q].amount > 0
      /\ job[q].amount \in Nat
      /\ from \in Wallets \cup {NoWallet} /\ to \in Wallets \cup {NoWallet}
  BY <1>1, <1>2, WalletAssumption DEF RequestOK, JobOK, InFlight, Locking, Entries
<1>4. from # NoWallet => session[q][from] = balance[from] /\ balance[from] >= job[q].amount
  BY <1>1, <1>2 DEF RequestOK, SessionOK, Covered
<1>5. to # NoWallet => session[q][to] \in Nat
  BY <1>1, <1>2 DEF RequestOK, SessionOK
<1>6. ASSUME NEW w \in Wallets
      PROVE  /\ balance'[w] \in Nat
             /\ w = from => balance'[w] = balance[w] - job[q].amount
             /\ w # from /\ w # to => balance'[w] = balance[w]
  BY <1>1, <1>2, <1>3, <1>4, <1>5, WalletAssumption DEF Written, Types
<1>7. balance' \in [Wallets -> Nat]
  BY <1>1, <1>6 DEF Written
<1>8. \A w \in Wallets \ HeldWallets(q) : balance'[w] = balance[w]
  BY <1>1, <1>6 DEF HeldWallets
<1>9. QED
  BY <1>1, <1>3, <1>4, <1>6, <1>7, <1>8

LEMMA PostInv == ASSUME IInv, NEW q \in Requests, Post(q) PROVE IInv'
<1> DEFINE N == Len(ledger) + 1
<1>1. /\ pc[q] = "post" /\ ~ J!Posted(ledger, job[q].key)
      /\ exists' = exists /\ End(q, "answered")
  BY DEF Post
<1>2. /\ pc' = [pc EXCEPT ![q] = "answered"]
      /\ session' = [session EXCEPT ![q] = Fresh]
      /\ job' = job
  BY <1>1 DEF End, Goto, IInv, Types
<1>3. Types /\ RequestOK(q) /\ ledger \in Seq(Entries)
  BY DEF IInv, Types
<1>4. /\ job[q] \in Entries /\ job[q].from # job[q].to /\ job[q].amount > 0
      /\ ledger' = Append(ledger, job[q])
      /\ balance' \in [Wallets -> Nat]
      /\ \A w \in Wallets \ HeldWallets(q) : balance'[w] = balance[w]
  BY PostFacts
<1>5. /\ ledger' \in Seq(Entries) /\ DOMAIN ledger' = 1 .. N /\ DOMAIN ledger = 1 .. (N - 1)
      /\ N \in Nat /\ ledger'[N] = job[q]
      /\ \A n \in DOMAIN ledger : ledger'[n] = ledger[n]
  BY <1>3, <1>4
<1>6. Types' /\ OnlyMoves(q)
  BY <1>1, <1>2, <1>3, <1>4, <1>5 DEF OnlyMoves, Types, Ended, Fresh
<1>7. Grows(q)
  <2>1. ASSUME NEW r \in Requests \ {q}, NEW w \in HeldWallets(r)
        PROVE  balance'[w] = balance[w]
    BY <1>4 DEF IInv, LocksOK, HeldWallets
  <2>2. QED
    BY <1>1, <1>3, <1>4, <2>1 DEF Grows, Types
<1>8. RequestOK(q)' /\ HeldWallets(q)' = {}
  BY <1>2, <1>3 DEF RequestOK, JobOK, WalletsOK, SessionOK, HeldWallets,
                    Types, InFlight, Locking, Creating
<1>9. \A r \in Requests : RequestOK(r)'
  BY <1>6, <1>7, <1>8, OthersKept
<1>10. LocksOK'
  BY <1>6, <1>7, <1>8, LocksKept
<1>11. RowsOK'
  <2>1. ASSUME NEW n \in DOMAIN ledger PROVE RowOK(n)'
    <3>1. RowOK(n)
      BY DEF IInv, RowsOK
    <3>2. ledger'[n] = ledger[n]
      BY <1>5
    <3>3. ledger[n].kind = "reversal" =>
            /\ ledger[n].reverses \in DOMAIN ledger
            /\ ledger'[ledger[n].reverses] = ledger[ledger[n].reverses]
      BY <1>5, <3>1 DEF RowOK
    <3>4. QED
      BY <1>1, <3>1, <3>2, <3>3 DEF RowOK
  <2>2. ASSUME NEW n \in DOMAIN ledger', n = N PROVE RowOK(n)'
    <3>1. {job[q].from, job[q].to} \subseteq exists' \cup {NoWallet}
      BY <1>1, <1>3 DEF RequestOK, WalletsOK, Locking
    <3>2. job[q].kind # "reversal" => job[q] \in J!Movements
      BY <1>1, <1>3 DEF RequestOK, JobOK, InFlight, Locking
    <3>3. job[q].kind = "reversal" =>
            /\ job[q].reverses \in DOMAIN ledger
            /\ ledger[job[q].reverses].kind # "reversal"
            /\ job[q] = J!ReversalOf(job[q].reverses, ledger[job[q].reverses])
      BY <1>1, <1>3 DEF RequestOK, JobOK, InFlight, Locking
    <3>4. QED
      BY <1>4, <1>5, <2>2, <3>1, <3>2, <3>3 DEF RowOK
  <2>3. QED
    BY <1>5, <2>1, <2>2 DEF RowsOK
<1>12. UniqueKeys'
  BY <1>1, <1>5 DEF IInv, UniqueKeys, J!Posted
<1>13. AnsweredIsPosted'
  BY <1>2, <1>3, <1>5 DEF IInv, AnsweredIsPosted, J!Posted, Types
<1>14. QED
  BY <1>6, <1>9, <1>10, <1>11, <1>12, <1>13 DEF IInv

LEMMA NextInv == IInv /\ [Next]_vars => IInv'
<1> SUFFICES ASSUME IInv, [Next]_vars PROVE IInv'
  OBVIOUS
<1>1. ASSUME NEW q \in Requests, RollBack(q) PROVE IInv'
  BY <1>1, EndQuiet DEF RollBack
<1>2. ASSUME NEW q \in Requests, DeadlockVictim(q) \/ Abort(q) PROVE IInv'
  BY <1>2, EndQuiet DEF DeadlockVictim, Abort
<1>3. CASE UNCHANGED vars
  BY <1>3 DEF vars, IInv, Types, RequestOK, JobOK, WalletsOK, SessionOK, LocksOK,
              HeldWallets, RowsOK, RowOK, UniqueKeys, AnsweredIsPosted, J!Posted, J!ReversalOf
<1>4. QED
  BY <1>1, <1>2, <1>3, ReceiveInv, ReceiveReversalInv, EnsureFromInv, EnsureToInv, CreateInv,
     LookupInv, LockOriginalInv, LockFromInv, LockToInv, PostInv
  DEF Next, Run

THEOREM Invariance == Spec => []IInv
<1>1. Init => IInv
  BY InitInv
<1>2. IInv /\ [Next]_vars => IInv'
  BY NextInv
<1>3. QED
  BY <1>1, <1>2, PTL DEF Spec

-----------------------------------------------------------------------------
(* The properties. *)

\* Every variable keeps its type and every ledger row names existing wallets.
THEOREM TypeCorrect == Spec => []TypeOK
<1>1. IInv => TypeOK
  BY DEF IInv, Types, TypeOK, RowsOK, RowOK
<1>2. QED
  BY <1>1, Invariance, PTL

\* No interleaving of requests overdraws a wallet.
THEOREM NeverOverdrawn == Spec => []NonNegativeBalance
<1>1. IInv => NonNegativeBalance
  BY DEF IInv, Types, NonNegativeBalance
<1>2. QED
  BY <1>1, Invariance, PTL

\* A movement is taken back at most once, by its mirror image.
THEOREM ReversedAtMostOnce == Spec => []TakenBackOnce
<1>1. ASSUME IInv PROVE TakenBackOnce
  <2>1. SUFFICES ASSUME NEW n \in DOMAIN ledger, ledger[n].kind = "reversal"
                 PROVE  LET o == ledger[n].reverses
                        IN /\ o \in 1 .. (n - 1)
                           /\ ledger[o].kind # "reversal"
                           /\ ledger[n].from = ledger[o].to
                           /\ ledger[n].to = ledger[o].from
                           /\ ledger[n].amount = ledger[o].amount
                           /\ \A m \in DOMAIN ledger : ledger[m].reverses = o => m = n
    BY DEF TakenBackOnce
  <2> DEFINE o == ledger[n].reverses
  <2>2. RowOK(n)
    BY <1>1 DEF IInv, RowsOK
  <2>3. /\ o \in 1 .. (n - 1) /\ ledger[o].kind # "reversal"
        /\ ledger[n].from = ledger[o].to /\ ledger[n].to = ledger[o].from
        /\ ledger[n].amount = ledger[o].amount /\ ledger[n].key = J!ReversalKey(o)
    BY <2>1, <2>2 DEF RowOK, J!ReversalOf
  <2>4. ASSUME NEW m \in DOMAIN ledger, ledger[m].reverses = o PROVE m = n
    <3>1. RowOK(m)
      BY <1>1 DEF IInv, RowsOK
    <3>2. ledger[m].kind = "reversal"
      BY <2>3, <2>4, <3>1 DEF RowOK, J!Movements
    <3>3. ledger[m].key = J!ReversalKey(o)
      BY <2>4, <3>1, <3>2 DEF RowOK, J!ReversalOf
    <3>4. QED
      BY <1>1, <2>3, <3>3 DEF IInv, UniqueKeys
  <2>5. QED
    BY <2>3, <2>4
<1>2. QED
  BY <1>1, Invariance, PTL

\* An answer of success always has its row.
THEOREM AnswersArePosted == Spec => []AnsweredIsPosted
<1>1. IInv => AnsweredIsPosted
  BY DEF IInv
<1>2. QED
  BY <1>1, Invariance, PTL

\* Only Post appends, and it debits the balance committed at that moment.
THEOREM DebitsExact == Spec => DebitsAreExact
<1>1. ASSUME IInv, [Next]_vars PROVE [DebitIsExact]_vars
  <2>1. SUFFICES ASSUME ledger' # ledger PROVE DebitIsExact
    BY DEF DebitIsExact
  <2>2. PICK q \in Requests : Post(q)
    BY <1>1, <2>1 DEF Next, Run, vars, Receive, ReceiveReversal, EnsureFrom, EnsureTo, Create,
       Lookup, LockOriginal, LockFrom, LockTo, RollBack, DeadlockVictim, Abort
  <2>3. /\ ledger' = Append(ledger, job[q])
        /\ job[q].from # NoWallet => balance'[job[q].from] = balance[job[q].from] - job[q].amount
    BY <1>1, <2>2, PostFacts
  <2>4. ledger'[Len(ledger')] = job[q]
    BY <1>1, <2>3 DEF IInv, Types
  <2>5. QED
    BY <2>3, <2>4 DEF DebitIsExact
<1>2. QED
  BY <1>1, Invariance, PTL DEF Spec, DebitsAreExact

\* The ledger implements the journal: Post is one of its two steps, and every
\* other step stutters.
THEOREM Implements == Spec => ImplementsJournal
<1>1. Init => J!Init
  BY DEF Init, J!Init
<1>2. ASSUME IInv, [Next]_vars PROVE [J!Next]_ledger
  <2>1. SUFFICES ASSUME ledger' # ledger PROVE J!Next
    OBVIOUS
  <2>2. PICK q \in Requests : Post(q)
    BY <1>2, <2>1 DEF Next, Run, vars, Receive, ReceiveReversal, EnsureFrom, EnsureTo, Create,
       Lookup, LockOriginal, LockFrom, LockTo, RollBack, DeadlockVictim, Abort
  <2>3. /\ ledger' = Append(ledger, job[q]) /\ ~ J!Posted(ledger, job[q].key)
        /\ job[q].from # job[q].to /\ job[q].amount > 0 /\ pc[q] = "post"
    BY <1>2, <2>2, PostFacts DEF Post
  <2>4. JobOK(q)
    BY <1>2 DEF IInv, RequestOK
  <2>5. CASE job[q].kind # "reversal"
    <3>1. job[q] \in J!Movements
      BY <2>3, <2>4, <2>5 DEF JobOK, InFlight, Locking
    <3>2. J!Move(job[q])
      BY <2>3 DEF J!Move
    <3>3. QED
      BY <3>1, <3>2 DEF J!Next
  <2>6. CASE job[q].kind = "reversal"
    <3>1. /\ job[q].reverses \in DOMAIN ledger
          /\ ledger[job[q].reverses].kind # "reversal"
          /\ job[q] = J!ReversalOf(job[q].reverses, ledger[job[q].reverses])
      BY <2>3, <2>4, <2>6 DEF JobOK, InFlight, Locking
    <3>2. job[q].key = J!ReversalKey(job[q].reverses)
      BY <3>1 DEF J!ReversalOf
    <3>3. J!Reverse(job[q].reverses)
      BY <2>3, <3>1, <3>2 DEF J!Reverse
    <3>4. QED
      BY <3>1, <3>3 DEF J!Next
  <2>7. QED
    BY <2>5, <2>6
<1>3. QED
  BY <1>1, <1>2, Invariance, PTL DEF Spec, ImplementsJournal, J!Spec

-----------------------------------------------------------------------------
(* The sum of the rows.  NetOfRows is recursive; that the recursion defines *)
(* one function is part of the invariant, and holds because rows are added  *)
(* one at a time.                                                           *)

Nets(f, rows, w) ==
  f = [i \in 0..Len(rows) |-> IF i = 0 THEN 0 ELSE f[i - 1] + Effect(rows[i], w)]

Summed(rows, w) ==
  \E f \in [0..Len(rows) -> Int] : Nets(f, rows, w) /\ \A g : Nets(g, rows, w) => g = f

LEMMA NetIsLast ==
  ASSUME NEW rows, NEW w, NEW f, Nets(f, rows, w), \A g : Nets(g, rows, w) => g = f
  PROVE  NetOfRows(rows, w) = f[Len(rows)]
<1> DEFINE h == CHOOSE g : Nets(g, rows, w)
<1>1. Nets(h, rows, w)
  OBVIOUS
<1>2. NetOfRows(rows, w) = h[Len(rows)]
  BY DEF NetOfRows, Nets
<1> HIDE DEF h
<1> QED
  BY <1>1, <1>2

LEMMA NoRows == ASSUME NEW w PROVE Summed(<< >>, w) /\ NetOfRows(<< >>, w) = 0
<1> DEFINE f == [i \in 0..0 |-> 0]
<1>1. Nets(f, << >>, w) /\ \A g : Nets(g, << >>, w) => g = f
  BY DEF Nets
<1>2. f \in [0..0 -> Int] /\ Len(<< >>) = 0 /\ f[0] = 0
  OBVIOUS
<1> HIDE DEF f
<1>3. NetOfRows(<< >>, w) = f[0]
  BY <1>1, <1>2, NetIsLast
<1> QED
  BY <1>1, <1>2, <1>3 DEF Summed

\* One more row adds its effect.
LEMMA OneMoreRow ==
  ASSUME NEW D, NEW rows \in Seq(D), NEW e \in D, NEW w, Summed(rows, w), Effect(e, w) \in Int
  PROVE  /\ Summed(Append(rows, e), w)
         /\ NetOfRows(Append(rows, e), w) = NetOfRows(rows, w) + Effect(e, w)
<1> DEFINE u == Append(rows, e)
           n == Len(rows)
           part == Effect(e, w)
<1>1. PICK f \in [0..n -> Int] : Nets(f, rows, w) /\ \A g : Nets(g, rows, w) => g = f
  BY DEF Summed
<1>2. n \in Nat /\ Len(u) = n + 1 /\ u[n + 1] = e /\ \A i \in 1..n : u[i] = rows[i]
  OBVIOUS
<1>3. part \in Int
  OBVIOUS
<1>4. f = [i \in 0..n |-> IF i = 0 THEN 0 ELSE f[i - 1] + Effect(rows[i], w)]
  BY <1>1 DEF Nets
<1> HIDE DEF u, n
<1> DEFINE h == [i \in 0..(n + 1) |-> IF i = n + 1 THEN f[n] + part ELSE f[i]]
<1>5. \A i \in 0..(n + 1) : h[i] = IF i = 0 THEN 0 ELSE h[i - 1] + Effect(u[i], w)
  <2> TAKE i \in 0..(n + 1)
  <2>1. CASE i = 0
    BY <1>2, <1>4, <2>1
  <2>2. CASE i \in 1..n
    BY <1>2, <1>4, <2>2
  <2>3. CASE i = n + 1
    BY <1>2, <2>3
  <2> QED
    BY <1>2, <2>1, <2>2, <2>3
<1> HIDE DEF part
<1>6. h \in [0..(n + 1) -> Int] /\ h[n + 1] = f[n] + part
  BY <1>1, <1>2, <1>3
<1>7. Nets(h, u, w)
  <2>1. h = [i \in 0..(n + 1) |-> h[i]]
    OBVIOUS
  <2> HIDE DEF h
  <2> QED
    BY <1>2, <1>5, <2>1 DEF Nets
<1>8. ASSUME NEW g, Nets(g, u, w) PROVE g = h
  <2> DEFINE below == [i \in 0..n |-> g[i]]
  <2>1. g = [i \in 0..(n + 1) |-> IF i = 0 THEN 0 ELSE g[i - 1] + Effect(u[i], w)]
    BY <1>2, <1>8 DEF Nets
  <2>2. \A i \in 0..n : below[i] = IF i = 0 THEN 0 ELSE below[i - 1] + Effect(rows[i], w)
    BY <1>2, <2>1
  <2>3. below = f
    BY <1>1, <2>2 DEF Nets, n
  <2>4. \A i \in 0..n : g[i] = f[i]
    BY <2>3
  <2>5. g[n + 1] = f[n] + part
    <3>1. n + 1 \in 0..(n + 1) /\ n + 1 # 0 /\ (n + 1) - 1 = n /\ n \in 0..n
      BY <1>2
    <3>2. g[n + 1] = g[n] + Effect(u[n + 1], w)
      BY <2>1, <3>1
    <3> QED
      BY <1>2, <2>4, <3>1, <3>2 DEF part
  <2>6. \A i \in 0..(n + 1) : g[i] = h[i]
    BY <1>2, <2>4, <2>5
  <2>7. g = [i \in 0..(n + 1) |-> g[i]]
    BY <2>1
  <2> QED
    BY <2>6, <2>7
<1> HIDE DEF h
<1>9. Summed(u, w)
  BY <1>2, <1>6, <1>7, <1>8 DEF Summed
<1>10. NetOfRows(u, w) = h[n + 1]
  BY <1>2, <1>7, <1>8, NetIsLast
<1>11. NetOfRows(rows, w) = f[n]
  BY <1>1, NetIsLast DEF n
<1> QED
  BY <1>6, <1>9, <1>10, <1>11 DEF u, part

-----------------------------------------------------------------------------
(* The balance.  A wallet without a row in the table is in no ledger row   *)
(* and has no money, so that inserting it changes no balance; and a        *)
(* posting whose destination is fresh changes every balance by the effect  *)
(* of its row.                                                             *)

NetOK ==
  \A w \in Wallets :
    /\ Summed(ledger, w)
    /\ balance[w] = NetOfRows(ledger, w)
    /\ w \notin exists => balance[w] = 0

LEMMA FreshPosting ==
  ASSUME IInv, NetOK, CreditIsFresh, NEW q \in Requests, Post(q)
  PROVE  NetOK'
<1>1. /\ job[q] \in Entries /\ job[q].from # job[q].to /\ ledger \in Seq(Entries)
      /\ ledger' = Append(ledger, job[q])
      /\ job[q].from # NoWallet => balance'[job[q].from] = balance[job[q].from] - job[q].amount
      /\ \A w \in Wallets \ HeldWallets(q) : balance'[w] = balance[w]
  BY PostFacts DEF IInv, Types
<1>2. pc[q] = "post" /\ balance' = Written(q) /\ exists' = exists
  BY DEF Post
<1>3. balance \in [Wallets -> Nat] /\ job[q].amount \in Nat
  BY <1>1, WalletAssumption DEF IInv, Types, Entries
<1>4. {job[q].from, job[q].to} \subseteq exists \cup {NoWallet}
  BY <1>2 DEF IInv, RequestOK, WalletsOK, Locking
<1>5. ASSUME NEW w \in Wallets PROVE balance'[w] = balance[w] + Effect(job[q], w)
  <2>1. w # NoWallet
    BY WalletAssumption
  <2>2. CASE w = job[q].from
    BY <1>1, <1>3, <2>1, <2>2 DEF Effect
  <2>3. CASE w = job[q].to
    <3>1. session[q][w] = balance[w]
      BY <2>1, <2>3 DEF CreditIsFresh
    <3>2. balance'[w] = balance[w] + job[q].amount
      BY <1>1, <1>2, <2>3, <3>1 DEF Written
    <3> QED
      BY <1>1, <1>3, <2>3, <3>2 DEF Effect
  <2>4. CASE w # job[q].from /\ w # job[q].to
    BY <1>2, <1>3, <2>4 DEF Written, Effect
  <2> QED
    BY <2>2, <2>3, <2>4
<1>6. SUFFICES ASSUME NEW w \in Wallets
               PROVE  /\ Summed(ledger', w)
                      /\ balance'[w] = NetOfRows(ledger', w)
                      /\ w \notin exists' => balance'[w] = 0
  BY DEF NetOK
<1>7. Effect(job[q], w) \in Int
  BY <1>3 DEF Effect
<1>8. Summed(ledger', w) /\ NetOfRows(ledger', w) = NetOfRows(ledger, w) + Effect(job[q], w)
  BY <1>1, <1>7, OneMoreRow DEF NetOK
<1>9. w \notin exists' => balance'[w] = 0
  BY <1>1, <1>2, <1>4, WalletAssumption DEF NetOK, HeldWallets
<1> QED
  BY <1>5, <1>8, <1>9 DEF NetOK

\* Every other step leaves rows and balances, but for a wallet inserted with 0.
LEMMA NothingPosted ==
  ASSUME IInv, NetOK, NEW q \in Requests,
         Receive(q) \/ ReceiveReversal(q) \/ Abort(q) \/ (Run(q) /\ ~ Post(q))
  PROVE  NetOK'
<1>1. CASE Create(q)
  <2> DEFINE v == IF pc[q] = "create_from" THEN job[q].from ELSE job[q].to
  <2>1. CASE v \in exists
    BY <1>1, <2>1 DEF Create, NetOK
  <2>2. CASE v \notin exists
    <3>1. exists' = exists \cup {v} /\ balance' = [balance EXCEPT ![v] = 0] /\ ledger' = ledger
      BY <1>1, <2>2 DEF Create
    <3>2. balance \in [Wallets -> Nat]
      BY DEF IInv, Types
    <3>3. \A w \in Wallets : balance'[w] = balance[w]
      BY <2>2, <3>1, <3>2 DEF NetOK
    <3> QED
      BY <3>1, <3>3 DEF NetOK
  <2> QED
    BY <2>1, <2>2
<1>2. CASE UNCHANGED <<exists, balance, ledger>>
  BY <1>2 DEF NetOK
<1> QED
  BY <1>1, <1>2 DEF Run, Receive, ReceiveReversal, EnsureFrom, EnsureTo, Lookup, LockOriginal,
                    LockFrom, LockTo, RollBack, DeadlockVictim, Abort

\* The credit of a stale destination is the only way a balance parts from the
\* rows of its wallet: without one they agree, whatever else interleaves.
THEOREM OnlyStaleCreditsLose == Spec /\ CreditsAreFresh => []BalanceIsSumOfRows
<1>1. Init => NetOK
  BY NoRows DEF Init, NetOK
<1>2. IInv /\ NetOK /\ [Next]_vars /\ [CreditIsFresh]_vars => NetOK'
  <2> SUFFICES ASSUME IInv, NetOK, [Next]_vars, [CreditIsFresh]_vars PROVE NetOK'
    OBVIOUS
  <2>1. CASE UNCHANGED vars
    BY <2>1 DEF vars, NetOK
  <2>2. CASE Next /\ CreditIsFresh
    BY <2>2, FreshPosting, NothingPosted DEF Next
  <2> QED
    BY <2>1, <2>2
<1>3. NetOK => BalanceIsSumOfRows
  BY DEF NetOK, BalanceIsSumOfRows
<1> QED
  BY <1>1, <1>2, <1>3, Invariance, PTL DEF Spec, CreditsAreFresh

-----------------------------------------------------------------------------
(* One thread.  While a request runs nobody else commits, so that what its *)
(* session holds stays what is committed.                                  *)

Alone == \A r, q \in Requests : pc[r] \in InFlight /\ pc[q] \in InFlight => r = q

HoldsCommitted ==
  \A r \in Requests : pc[r] \in InFlight =>
    \A w \in Wallets : session[r][w] # NotLoaded => session[r][w] = balance[w]

LEMMA FreeThread ==
  ASSUME Threads = 1, Cardinality(Busy) < Threads
  PROVE  \A r \in Requests : pc[r] \notin InFlight
<1>1. IsFiniteSet(Busy)
  BY WalletAssumption, FS_Subset DEF Busy
<1>2. Cardinality(Busy) \in Nat
  BY <1>1, FS_CardinalityType
<1>3. Busy = {}
  BY <1>1, <1>2, FS_EmptySet
<1> QED
  BY <1>3 DEF Busy

LEMMA AloneInit == Init => Alone /\ HoldsCommitted
BY DEF Init, Alone, HoldsCommitted, InFlight, Locking, Creating

\* A request that received nothing before finds nobody at work, and holds nothing.
LEMMA AloneReceives ==
  ASSUME Threads = 1, IInv, NEW q \in Requests, Receive(q) \/ ReceiveReversal(q)
  PROVE  Alone' /\ HoldsCommitted'
<1>1. \A r \in Requests : pc[r] \notin InFlight
  BY FreeThread DEF Receive, ReceiveReversal
<1>2. session' = session /\ balance' = balance
  BY DEF Receive, ReceiveReversal
<1>3. \A r \in Requests \ {q} : pc'[r] = pc[r]
  BY DEF Receive, ReceiveReversal, Goto, IInv, Types
<1>4. \A w \in Wallets : session[q][w] = NotLoaded
  BY <1>1 DEF IInv, RequestOK, SessionOK, InFlight, Fresh
<1>5. Alone'
  BY <1>1, <1>3 DEF Alone
<1>6. HoldsCommitted'
  BY <1>1, <1>2, <1>3, <1>4 DEF HoldsCommitted
<1> QED
  BY <1>5, <1>6

\* The request at work moves, and nobody else is in flight after it.
LEMMA AloneRuns ==
  ASSUME IInv, Alone, NEW q \in Requests, pc[q] \in InFlight,
         \A r \in Requests \ {q} : pc'[r] = pc[r],
         pc'[q] \in InFlight =>
           \A w \in Wallets : session'[q][w] # NotLoaded => session'[q][w] = balance'[w]
  PROVE  Alone' /\ HoldsCommitted'
<1>1. \A r \in Requests \ {q} : pc'[r] \notin InFlight
  BY DEF Alone
<1> QED
  BY <1>1 DEF Alone, HoldsCommitted

LEMMA AloneEnds ==
  ASSUME IInv, Alone, NEW q \in Requests, pc[q] \in InFlight, NEW outcome \in Ended, End(q, outcome)
  PROVE  Alone' /\ HoldsCommitted'
<1>1. pc' = [pc EXCEPT ![q] = outcome] /\ outcome \notin InFlight
  BY DEF End, Goto, Ended, InFlight, Locking, Creating
<1> QED
  BY <1>1, AloneRuns DEF IInv, Types

\* A step on which the session keeps what it held.
LEMMA AloneGoes ==
  ASSUME IInv, Alone, HoldsCommitted, NEW q \in Requests, pc[q] \in InFlight, NEW place,
         Goto(q, place), session' = session, balance' = balance
  PROVE  Alone' /\ HoldsCommitted'
<1>1. \A r \in Requests \ {q} : pc'[r] = pc[r]
  BY DEF Goto, IInv, Types
<1> QED
  BY <1>1, AloneRuns DEF HoldsCommitted

LEMMA AloneLoads ==
  ASSUME IInv, Alone, HoldsCommitted, NEW q \in Requests, NEW w \in Wallets, Load(q, w),
         pc[q] \in InFlight, NEW place, Goto(q, place), balance' = balance
  PROVE  Alone' /\ HoldsCommitted'
<1>1. \A r \in Requests \ {q} : pc'[r] = pc[r]
  BY DEF Goto, IInv, Types
<1>2. session' = [session EXCEPT ![q][w] = Loaded(q, w)]
  BY DEF Load
<1>3. Loaded(q, w) = balance[w]
  BY DEF Loaded, HoldsCommitted
<1>4. \A v \in Wallets : session'[q][v] # NotLoaded => session'[q][v] = balance[v]
  BY <1>2, <1>3 DEF HoldsCommitted, IInv, Types
<1> QED
  BY <1>1, <1>4, AloneRuns

LEMMA AloneEnsuresTo ==
  ASSUME IInv, Alone, HoldsCommitted, NEW q \in Requests, EnsureTo(q)
  PROVE  Alone' /\ HoldsCommitted'
<1>1. pc[q] \in InFlight /\ balance' = balance
  BY DEF EnsureTo, InFlight
<1>2. CASE job[q].to \in exists
  <2>1. session' = [session EXCEPT ![q] = [Fresh EXCEPT ![job[q].to] = balance[job[q].to]]]
    BY <1>2 DEF EnsureTo
  <2>2. \A v \in Wallets : session'[q][v] # NotLoaded => session'[q][v] = balance[v]
    BY <2>1 DEF Fresh, IInv, Types
  <2>3. \A r \in Requests \ {q} : pc'[r] = pc[r]
    BY <1>2 DEF EnsureTo, Goto, IInv, Types
  <2> QED
    BY <1>1, <2>2, <2>3, AloneRuns
<1>3. CASE job[q].to \notin exists
  BY <1>1, <1>3, AloneGoes DEF EnsureTo
<1> QED
  BY <1>2, <1>3

\* A wallet is inserted by a request that holds no balance yet.
LEMMA AloneCreates ==
  ASSUME IInv, Alone, HoldsCommitted, NEW q \in Requests, Create(q)
  PROVE  Alone' /\ HoldsCommitted'
<1> DEFINE v == IF pc[q] = "create_from" THEN job[q].from ELSE job[q].to
           place == IF pc[q] = "create_from" THEN "ensure_from" ELSE "ensure_to"
<1>1. pc[q] \in InFlight /\ pc[q] \in Creating
  BY DEF Create, InFlight
<1>2. CASE v \in exists
  BY <1>1, <1>2, AloneEnds DEF Create, Ended
<1>3. CASE v \notin exists
  <2>1. Goto(q, place) /\ session' = session
    BY <1>3 DEF Create
  <2>2. \A w \in Wallets : session'[q][w] = NotLoaded
    BY <1>1, <2>1 DEF IInv, RequestOK, SessionOK, Creating, Locking, Fresh
  <2>3. \A r \in Requests \ {q} : pc'[r] = pc[r]
    BY <2>1 DEF Goto, IInv, Types
  <2> QED
    BY <1>1, <2>2, <2>3, AloneRuns
<1> QED
  BY <1>2, <1>3

LEMMA AloneNext ==
  ASSUME Threads = 1, IInv, Alone, HoldsCommitted, [Next]_vars
  PROVE  Alone' /\ HoldsCommitted'
<1>1. ASSUME NEW q \in Requests, EnsureFrom(q)  PROVE Alone' /\ HoldsCommitted'
  BY <1>1, AloneGoes DEF EnsureFrom, InFlight
<1>2. ASSUME NEW q \in Requests, Lookup(q)  PROVE Alone' /\ HoldsCommitted'
  BY <1>2, AloneGoes, AloneEnds DEF Lookup, InFlight, Ended
<1>3. ASSUME NEW q \in Requests, LockOriginal(q)  PROVE Alone' /\ HoldsCommitted'
  BY <1>3, AloneGoes, AloneEnds DEF LockOriginal, InFlight, Locking, Ended
<1>4. ASSUME NEW q \in Requests, LockFrom(q)  PROVE Alone' /\ HoldsCommitted'
  <2>1. job[q].from \in Wallets
    BY <1>4 DEF LockFrom, IInv, RequestOK, JobOK
  <2> QED
    BY <1>4, <2>1, AloneLoads DEF LockFrom, InFlight, Locking
<1>5. ASSUME NEW q \in Requests, LockTo(q)  PROVE Alone' /\ HoldsCommitted'
  <2>1. job[q].to \in Wallets
    BY <1>5 DEF LockTo, IInv, RequestOK, JobOK
  <2> QED
    BY <1>5, <2>1, AloneLoads DEF LockTo, InFlight, Locking
<1>6. ASSUME NEW q \in Requests, Post(q) \/ RollBack(q) \/ Abort(q)  PROVE Alone' /\ HoldsCommitted'
  BY <1>6, AloneEnds DEF Post, RollBack, Abort, InFlight, Locking, Ended
<1>7. ASSUME NEW q \in Requests, DeadlockVictim(q)  PROVE Alone' /\ HoldsCommitted'
  <2>1. pc[q] \in InFlight
    BY <1>7 DEF DeadlockVictim, OnCycle, Blocks, InFlight, Locking
  <2> QED
    BY <1>7, <2>1, AloneEnds DEF DeadlockVictim, Ended
<1>8. CASE UNCHANGED vars
  BY <1>8 DEF vars, Alone, HoldsCommitted
<1> QED
  BY <1>1, <1>2, <1>3, <1>4, <1>5, <1>6, <1>7, <1>8, AloneReceives, AloneEnsuresTo, AloneCreates
  DEF Next, Run

\* One request after another credits what is committed: the object the
\* request kept from before its lock is then as good as the row.
THEOREM SerialCreditsFresh == ASSUME Threads = 1 PROVE Spec => CreditsAreFresh
<1>1. Init => Alone /\ HoldsCommitted
  BY AloneInit
<1>2. IInv /\ Alone /\ HoldsCommitted /\ [Next]_vars => Alone' /\ HoldsCommitted'
  BY AloneNext
<1>3. IInv /\ HoldsCommitted => CreditIsFresh
  <2> SUFFICES ASSUME IInv, HoldsCommitted, NEW r \in Requests, Post(r), job[r].to # NoWallet
               PROVE  session[r][job[r].to] = balance[job[r].to]
    BY DEF CreditIsFresh
  <2>1. pc[r] = "post" /\ pc[r] \in InFlight
    BY DEF Post, InFlight, Locking
  <2>2. session[r][job[r].to] \in Nat /\ job[r].to \in Wallets
    BY <2>1 DEF IInv, RequestOK, JobOK, SessionOK, Entries
  <2> QED
    BY <2>1, <2>2, WalletAssumption DEF HoldsCommitted
<1> QED
  BY <1>1, <1>2, <1>3, Invariance, PTL DEF Spec, CreditsAreFresh

\* One request after another, every balance is the sum of its rows.
THEOREM SerialBalance == ASSUME Threads = 1 PROVE Spec => []BalanceIsSumOfRows
BY SerialCreditsFresh, OnlyStaleCreditsLose, PTL
=============================================================================
