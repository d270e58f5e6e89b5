---------------------------- MODULE TopupReview ----------------------------
(***************************************************************************)
(* Top-up requests: a parent asks for money in a child's wallet, and an    *)
(* administrator approves or rejects the row (request_topup and            *)
(* review_topup of app/services/wallet_service.py, driven by the family    *)
(* and admin routes).  The review route loads the row to check the school, *)
(* keeps the object, and only then locks: the status it tests under the    *)
(* lock is the one it loaded before.  An approval deposits in the same     *)
(* transaction, under a key derived from the row.                          *)
(***************************************************************************)
EXTENDS Integers, FiniteSets, SequencesExt

CONSTANTS
  Requests,  \* the HTTP requests of a behaviour
  Threads,   \* how many of them gunicorn runs at once
  Children,  \* each with the one parent who asks
  Amounts,
  NoWallet   \* the child has no row in wallets

ASSUME TopupAssumption ==
  /\ IsFiniteSet(Requests)
  /\ Threads \in Nat \ {0}
  /\ Amounts \subseteq Nat \ {0}
  /\ NoWallet \notin Nat

VARIABLES
  members,   \* children with an active link in the school
  topups,    \* wallet_topup_requests: row n is topups[n]
  wallet,    \* committed balance of each child's wallet
  credits,   \* deposits posted under the keys wallet_topup:n, in commit order
  pc, job,
  session    \* what each request's session holds: status of the row, balance

vars == <<members, topups, wallet, credits, pc, job, session>>

-----------------------------------------------------------------------------
Reviewing == {"lock", "ensure", "insert_wallet", "lookup", "credit"}
InFlight == Reviewing \cup {"insert"}
Ended == {"answered", "refused", "failed"}

NoJob == [op |-> "none"]
Nothing == [status |-> "pending", balance |-> NoWallet, inserted |-> FALSE]

Child(r) == topups[job[r].topup].child

\* The row lock of the top-up, held to the end of the transaction.
Granted(r) ==
  \A q \in Requests \ {r} :
    pc[q] \in Reviewing \ {"lock"} => job[q].topup # job[r].topup

\* Mutant: the deposit's key is fresh in every request, as admin_deposit makes
\* one when it is given none.
PostedUnderFreshKey(n) == FALSE

Posted(n) == \E i \in DOMAIN credits : credits[i] = n

-----------------------------------------------------------------------------
Init ==
  /\ members = Children
  /\ topups = << >>
  /\ wallet = [c \in Children |-> NoWallet]
  /\ credits = << >>
  /\ pc = [r \in Requests |-> "idle"]
  /\ job = [r \in Requests |-> NoJob]
  /\ session = [r \in Requests |-> Nothing]

Goto(r, place) == pc' = [pc EXCEPT ![r] = place]

End(r, outcome) ==
  /\ Goto(r, outcome)
  /\ session' = [session EXCEPT ![r] = Nothing]
  /\ job' = [job EXCEPT ![r] = IF outcome = "answered" THEN job[r] ELSE NoJob]

Take(r) ==
  /\ pc[r] = "idle"
  /\ Cardinality({q \in Requests : pc[q] \in InFlight}) < Threads

\* The parent's request passes the look for a pending row of the same pair.
Ask(r) ==
  /\ Take(r)
  /\ \E c \in members, a \in Amounts :
       /\ \A n \in DOMAIN topups : topups[n].child = c => topups[n].status # "pending"
       /\ job' = [job EXCEPT ![r] = [op |-> "ask", child |-> c, amount |-> a]]
  /\ Goto(r, "insert")
  /\ UNCHANGED <<members, topups, wallet, credits, session>>

Insert(r) ==
  /\ pc[r] = "insert"
  /\ topups' = Append(topups, [child |-> job[r].child, amount |-> job[r].amount,
                               status |-> "pending"])
  /\ End(r, "answered")
  /\ UNCHANGED <<members, wallet, credits>>

\* The review route loads the row and keeps the object.
Open(r) ==
  /\ Take(r)
  /\ \E n \in DOMAIN topups, decision \in {"approve", "reject"} :
       /\ job' = [job EXCEPT ![r] = [op |-> decision, topup |-> n]]
       /\ session' = [session EXCEPT ![r].status = topups[n].status]
  /\ Goto(r, "lock")
  /\ UNCHANGED <<members, topups, wallet, credits>>

\* Mutant: the row records the button that was pressed.
DecideAsClicked(n, status) ==
  topups' = [topups EXCEPT ![n].status = IF status = "approved" THEN "approve" ELSE "reject"]

Decide(n, status) == topups' = [topups EXCEPT ![n].status = status]

\* The row is locked; a rejection needs no more than that.
LockTopup(r) ==
  /\ pc[r] = "lock"
  /\ Granted(r)
  /\ \/ /\ session[r].status # "pending"
        /\ End(r, "refused")
        /\ UNCHANGED topups
     \/ /\ session[r].status = "pending"
        /\ job[r].op = "reject"
        /\ Decide(job[r].topup, "rejected")
        /\ End(r, "answered")
     \/ /\ session[r].status = "pending"
        /\ job[r].op = "approve"
        /\ Goto(r, "ensure")
        /\ UNCHANGED <<topups, job, session>>
  /\ UNCHANGED <<members, wallet, credits>>

\* Mutant: the error of admin_deposit is not looked at.
EnsureWalletErrorIgnored(r) ==
  /\ pc[r] = "ensure"
  /\ IF Child(r) \notin members
     THEN Decide(job[r].topup, "approved") /\ End(r, "answered")
     ELSE /\ session' = [session EXCEPT ![r].balance = wallet[Child(r)]]
          /\ Goto(r, IF wallet[Child(r)] = NoWallet THEN "insert_wallet" ELSE "lookup")
          /\ UNCHANGED <<topups, job>>
  /\ UNCHANGED <<members, wallet, credits>>

\* admin_deposit: an active member, then the wallet, whose object is kept.
EnsureWallet(r) ==
  /\ pc[r] = "ensure"
  /\ IF Child(r) \notin members
     THEN End(r, "refused")
     ELSE /\ session' = [session EXCEPT ![r].balance = wallet[Child(r)]]
          /\ Goto(r, IF wallet[Child(r)] = NoWallet THEN "insert_wallet" ELSE "lookup")
          /\ UNCHANGED job
  /\ UNCHANGED <<members, topups, wallet, credits>>

\* The nested tx() flushes the insert without committing it: the unique index
\* makes a second insert wait for the first, and fail if that one commits.
InsertWallet(r) ==
  /\ pc[r] = "insert_wallet"
  /\ \A q \in Requests \ {r} :
       pc[q] \in Reviewing /\ session[q].inserted => Child(q) # Child(r)
  /\ IF wallet[Child(r)] # NoWallet
     THEN End(r, "failed")
     ELSE /\ session' = [session EXCEPT ![r].balance = 0, ![r].inserted = TRUE]
          /\ Goto(r, "lookup")
          /\ UNCHANGED job
  /\ UNCHANGED <<members, topups, wallet, credits>>

\* admin_credit answers with the row already posted under the key; the review
\* then only sets the status.
Lookup(r) ==
  /\ pc[r] = "lookup"
  /\ IF Posted(job[r].topup)
     THEN Decide(job[r].topup, "approved") /\ End(r, "answered")
     ELSE Goto(r, "credit") /\ UNCHANGED <<topups, job, session>>
  /\ UNCHANGED <<members, wallet, credits>>

\* The wallet row is locked, credited from the loaded balance, and the deposit
\* and the decision commit together.
Credit(r) ==
  /\ pc[r] = "credit"
  /\ LET n == job[r].topup
     IN /\ wallet' = [wallet EXCEPT ![Child(r)] = session[r].balance + topups[n].amount]
        /\ credits' = Append(credits, n)
        /\ Decide(n, "approved")
  /\ End(r, "answered")
  /\ UNCHANGED members

Abort(r) ==
  /\ pc[r] \in InFlight
  /\ End(r, "failed")
  /\ UNCHANGED <<members, topups, wallet, credits>>

\* The link of a child is deactivated elsewhere.
Leave(c) ==
  /\ c \in members
  /\ members' = members \ {c}
  /\ UNCHANGED <<topups, wallet, credits, pc, job, session>>

Next ==
  \/ \E r \in Requests :
       \/ Ask(r) \/ Insert(r) \/ Open(r) \/ LockTopup(r) \/ EnsureWallet(r)
       \/ InsertWallet(r) \/ Lookup(r) \/ Credit(r) \/ Abort(r)
  \/ \E c \in Children : Leave(c)

Spec == Init /\ [][Next]_vars

-----------------------------------------------------------------------------
Jobs == {NoJob}
  \cup [op : {"ask"}, child : Children, amount : Amounts]
  \cup [op : {"approve", "reject"}, topup : DOMAIN topups]

TypeOK ==
  /\ members \subseteq Children
  /\ topups \in Seq([child : Children, amount : Amounts,
                     status : {"pending", "approved", "rejected"}])
  /\ wallet \in [Children -> Nat \cup {NoWallet}]
  /\ credits \in Seq(DOMAIN topups)
  /\ pc \in [Requests -> {"idle"} \cup InFlight \cup Ended]
  /\ job \in [Requests -> Jobs]
  /\ session \in [Requests -> [status : {"pending", "approved", "rejected"},
                               balance : Nat \cup {NoWallet}, inserted : BOOLEAN]]

\* No approval without the money: a row that stands as approved, and an approval
\* an administrator was told succeeded, have their deposit, whatever overlapped.
ApprovalIsCredited ==
  /\ \A n \in DOMAIN topups : topups[n].status = "approved" => Posted(n)
  /\ \A r \in Requests : pc[r] = "answered" /\ job[r].op = "approve" => Posted(job[r].topup)

\* What the deposits under the keys of posted brought to child c.
Deposited(rows, posted, c) ==
  LET sum[i \in 0..Len(posted)] ==
        IF i = 0 THEN 0
        ELSE sum[i - 1] + (IF rows[posted[i]].child = c THEN rows[posted[i]].amount ELSE 0)
  IN sum[Len(posted)]

\* However often a row is approved, it enriches the wallet once: it is deposited
\* once, and a balance never exceeds the rows deposited for the child.
NoMoneyFromNothing ==
  /\ IsInjective(credits)
  /\ \A c \in Children :
       wallet[c] # NoWallet => wallet[c] <= Deposited(topups, credits, c)

\* No money without an approval: the row of every deposit stands as approved.
CreditIsApproved == \A i \in DOMAIN credits : topups[credits[i]].status = "approved"
=============================================================================
