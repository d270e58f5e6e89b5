------------------------- MODULE TopupReviewProofs -------------------------
(***************************************************************************)
(* What TopupReview keeps for any requests, threads, children and amounts. *)
(* The invariant adds to the property where each request stands: an        *)
(* approval past the row lock names a row, and from the look for the       *)
(* deposit on it holds a balance.                                          *)
(***************************************************************************)
EXTENDS TopupReview, TLAPS

Status == {"pending", "approved", "rejected"}
Topup == [child : Children, amount : Amounts, status : Status]
Asking == [op : {"ask"}, child : Children, amount : Amounts]
Review == [op : {"approve", "reject"}, topup : DOMAIN topups]
Session == [status : Status, balance : Nat \cup {NoWallet}, inserted : BOOLEAN]

\* A request is at a place its job fits.
Fits(r) ==
  /\ pc[r] = "insert" => job[r] \in Asking
  /\ pc[r] \in Reviewing => job[r] \in Review
  /\ pc[r] \in Reviewing \ {"lock"} => job[r].op = "approve"
  /\ pc[r] \in {"lookup", "credit"} => session[r].balance \in Nat

ApprovedIsPosted == \A n \in DOMAIN topups : topups[n].status = "approved" => Posted(n)
AnswerIsPosted(r) == pc[r] = "answered" /\ job[r].op = "approve" => Posted(job[r].topup)

IInv ==
  /\ TypeOK
  /\ ApprovedIsPosted
  /\ \A r \in Requests : Fits(r) /\ AnswerIsPosted(r)

-----------------------------------------------------------------------------
\* What a step does to the rows and deposits, and to the requests.
RowsStep ==
  /\ topups' \in Seq(Topup) /\ credits' \in Seq(DOMAIN topups)
  /\ wallet' \in [Children -> Nat \cup {NoWallet}]
  /\ DOMAIN topups \subseteq DOMAIN topups'
  /\ \A n : Posted(n) => Posted(n)'
  /\ ApprovedIsPosted'

WillFit(r) ==
  /\ pc'[r] \in {"idle"} \cup InFlight \cup Ended
  /\ job'[r] \in Jobs
  /\ session'[r] \in Session
  /\ pc'[r] = "insert" => job'[r] \in Asking
  /\ pc'[r] \in Reviewing => job'[r] \in Review
  /\ pc'[r] \in Reviewing \ {"lock"} => job'[r].op = "approve"
  /\ pc'[r] \in {"lookup", "credit"} => session'[r].balance \in Nat
  /\ pc'[r] = "answered" /\ job'[r].op = "approve" =>
       \E i \in DOMAIN credits' : credits'[i] = job'[r].topup

\* Only request r moves.
Moves(r) ==
  /\ pc' = [pc EXCEPT ![r] = pc'[r]]
  /\ job' = [job EXCEPT ![r] = job'[r]]
  /\ session' = [session EXCEPT ![r] = session'[r]]

LEMMA Typed ==
  ASSUME IInv
  PROVE  /\ topups \in Seq(Topup) /\ credits \in Seq(DOMAIN topups)
         /\ wallet \in [Children -> Nat \cup {NoWallet}] /\ members \subseteq Children
         /\ pc \in [Requests -> {"idle"} \cup InFlight \cup Ended]
         /\ job \in [Requests -> Jobs] /\ session \in [Requests -> Session]
BY DEF IInv, TypeOK, Topup, Status, Session

LEMMA JobsGrow ==
  ASSUME DOMAIN topups \subseteq DOMAIN topups'
  PROVE  /\ \A j \in Jobs : j \in Jobs'
         /\ \A j \in Review : j \in Review'
BY DEF Jobs, Review

LEMMA StepKeeps ==
  ASSUME IInv, RowsStep, members' \subseteq Children, NEW r \in Requests, Moves(r), WillFit(r)
  PROVE  IInv'
<1>1. \A q \in Requests \ {r} : pc'[q] = pc[q] /\ job'[q] = job[q] /\ session'[q] = session[q]
  BY Typed DEF Moves
<1>2. credits' \in Seq(DOMAIN topups')
  BY DEF RowsStep
<1>3. job' \in [Requests -> Jobs']
  <2>1. DOMAIN job' = Requests /\ job' = [q \in Requests |-> job'[q]]
    BY Typed DEF Moves
  <2>2. \A q \in Requests : job'[q] \in Jobs'
    BY <1>1, Typed, JobsGrow DEF WillFit, RowsStep
  <2> QED
    BY <2>1, <2>2
<1>4. /\ pc' \in [Requests -> {"idle"} \cup InFlight \cup Ended]
      /\ session' \in [Requests -> Session]
  BY Typed DEF Moves, WillFit
<1>5. TypeOK'
  BY <1>2, <1>3, <1>4 DEF TypeOK, RowsStep, Topup, Status, Session
<1>6. \A q \in Requests : Fits(q)'
  BY <1>1, JobsGrow DEF Fits, WillFit, RowsStep, IInv, Asking
<1>7. \A q \in Requests : AnswerIsPosted(q)'
  <2>1. ASSUME NEW q \in Requests \ {r}  PROVE AnswerIsPosted(q)'
    BY <1>1, <2>1 DEF AnswerIsPosted, Posted, RowsStep, IInv
  <2>2. AnswerIsPosted(r)'
    BY DEF AnswerIsPosted, Posted, WillFit
  <2> QED
    BY <2>1, <2>2
<1> QED
  BY <1>5, <1>6, <1>7 DEF IInv, RowsStep

-----------------------------------------------------------------------------
LEMMA RowsKept == ASSUME IInv, UNCHANGED <<topups, wallet, credits>> PROVE RowsStep
BY Typed DEF RowsStep, IInv, ApprovedIsPosted, Posted

\* A decision: one row gets its status, and its deposit is there if it is an approval.
LEMMA RowDecided ==
  ASSUME IInv, NEW n \in DOMAIN topups, NEW status \in Status, Decide(n, status),
         wallet' \in [Children -> Nat \cup {NoWallet}], credits' \in Seq(DOMAIN topups),
         \A m : Posted(m) => Posted(m)',
         status = "approved" => \E i \in DOMAIN credits' : credits'[i] = n
  PROVE  RowsStep
<1> DEFINE row == [topups[n] EXCEPT !.status = status]
<1>1. topups[n] \in Topup /\ topups' = [topups EXCEPT ![n] = row]
  BY Typed DEF Decide
<1>2. row \in Topup /\ row.status = status
  BY <1>1 DEF Topup
<1> HIDE DEF row
<1>3. /\ topups' \in Seq(Topup) /\ DOMAIN topups' = DOMAIN topups /\ topups'[n] = row
      /\ \A m \in DOMAIN topups \ {n} : topups'[m] = topups[m]
  BY <1>1, <1>2, Typed
<1>4. ApprovedIsPosted'
  <2> SUFFICES ASSUME NEW m \in DOMAIN topups', topups'[m].status = "approved"
               PROVE  Posted(m)'
    BY DEF ApprovedIsPosted
  <2>1. CASE m = n
    BY <1>2, <1>3, <2>1 DEF Posted
  <2>2. CASE m # n
    <3>1. Posted(m)
      BY <1>3, <2>2 DEF IInv, ApprovedIsPosted
    <3> QED
      BY <3>1
  <2> QED
    BY <2>1, <2>2
<1> QED
  BY <1>3, <1>4 DEF RowsStep

\* A request that ends is refused, failed, or answered with what it was to do.
LEMMA RequestEnds ==
  ASSUME IInv, NEW r \in Requests, NEW outcome \in Ended, End(r, outcome),
         outcome = "answered" /\ job[r].op = "approve" =>
           \E i \in DOMAIN credits' : credits'[i] = job[r].topup
  PROVE  Moves(r) /\ WillFit(r)
<1>1. NoJob \in Jobs /\ NoJob.op = "none" /\ Nothing \in Session
  BY DEF Jobs, NoJob, Nothing, Session, Status
<1>2. /\ pc'[r] = outcome
      /\ job'[r] = IF outcome = "answered" THEN job[r] ELSE NoJob
      /\ session'[r] = Nothing
      /\ job[r] \in Jobs
      /\ Moves(r)
  BY Typed DEF End, Goto, Moves
<1>3. outcome \notin Reviewing \cup {"insert"}
  BY DEF Ended, Reviewing
<1> QED
  BY <1>1, <1>2, <1>3 DEF WillFit, Ended

\* One that goes on keeps its job.
LEMMA RequestGoesOn ==
  ASSUME IInv, NEW r \in Requests, NEW place \in Reviewing, Goto(r, place),
         job' = job, job[r] \in Review, place # "lock" => job[r].op = "approve",
         NEW held \in Session, session' = [session EXCEPT ![r] = held],
         place \in {"lookup", "credit"} => held.balance \in Nat
  PROVE  Moves(r) /\ WillFit(r)
<1>1. /\ pc'[r] = place /\ job'[r] = job[r] /\ session'[r] = held
      /\ job[r] \in Jobs
      /\ Moves(r)
  BY Typed DEF Goto, Moves
<1>2. place \in InFlight /\ place # "insert" /\ place # "answered"
  BY DEF InFlight, Reviewing
<1> QED
  BY <1>1, <1>2 DEF WillFit

-----------------------------------------------------------------------------
LEMMA InitInvariant == ASSUME Init PROVE IInv
<1>1. NoJob \in Jobs /\ NoJob.op = "none" /\ Nothing \in Session
  BY DEF Jobs, NoJob, Nothing, Session, Status
<1>2. TypeOK
  BY <1>1 DEF Init, TypeOK, Session, Status
<1> QED
  BY <1>1, <1>2 DEF Init, IInv, ApprovedIsPosted, Fits, AnswerIsPosted, Reviewing

LEMMA AskKeeps == ASSUME IInv, NEW r \in Requests, Ask(r) PROVE IInv'
<1>1. PICK c \in members, a \in Amounts :
        job' = [job EXCEPT ![r] = [op |-> "ask", child |-> c, amount |-> a]]
  BY DEF Ask
<1>2. /\ [op |-> "ask", child |-> c, amount |-> a] \in Asking
      /\ [op |-> "ask", child |-> c, amount |-> a] \in Jobs
  BY Typed DEF Asking, Jobs
<1>3. /\ pc'[r] = "insert" /\ job'[r] = [op |-> "ask", child |-> c, amount |-> a]
      /\ session'[r] = session[r] /\ session[r] \in Session
      /\ Moves(r)
  BY <1>1, Typed DEF Ask, Goto, Moves
<1>4. WillFit(r)
  BY <1>2, <1>3 DEF WillFit, InFlight, Reviewing
<1>5. RowsStep /\ members' \subseteq Children
  BY RowsKept, Typed DEF Ask
<1> QED
  BY <1>3, <1>4, <1>5, StepKeeps

LEMMA InsertKeeps == ASSUME IInv, NEW r \in Requests, Insert(r) PROVE IInv'
<1> DEFINE row == [child |-> job[r].child, amount |-> job[r].amount, status |-> "pending"]
<1>1. job[r] \in Asking /\ job[r].op # "approve"
  BY DEF IInv, Fits, Insert, Asking
<1>2. row \in Topup /\ row.status # "approved"
  BY <1>1 DEF Asking, Topup, Status
<1>3. topups' = Append(topups, row) /\ credits' = credits /\ wallet' = wallet
  BY DEF Insert
<1> HIDE DEF row
<1>4. /\ topups' \in Seq(Topup) /\ DOMAIN topups' = DOMAIN topups \cup {Len(topups) + 1}
      /\ topups'[Len(topups) + 1] = row
      /\ \A m \in DOMAIN topups : topups'[m] = topups[m]
  BY <1>2, <1>3, Typed
<1>5. ApprovedIsPosted'
  BY <1>2, <1>3, <1>4 DEF IInv, ApprovedIsPosted, Posted
<1>6. RowsStep
  BY <1>3, <1>4, <1>5, Typed DEF RowsStep, Posted
<1>7. Moves(r) /\ WillFit(r)
  BY <1>1, RequestEnds DEF Insert, Ended
<1> QED
  BY <1>6, <1>7, StepKeeps, Typed DEF Insert

LEMMA OpenKeeps == ASSUME IInv, NEW r \in Requests, Open(r) PROVE IInv'
<1>1. PICK n \in DOMAIN topups, decision \in {"approve", "reject"} :
        /\ job' = [job EXCEPT ![r] = [op |-> decision, topup |-> n]]
        /\ session' = [session EXCEPT ![r].status = topups[n].status]
  BY DEF Open
<1>2. /\ [op |-> decision, topup |-> n] \in Review
      /\ [op |-> decision, topup |-> n] \in Jobs
  BY DEF Review, Jobs
<1>3. topups[n].status \in Status
  <2>1. topups[n] \in Topup
    BY Typed
  <2> QED
    BY <2>1 DEF Topup
<1>4. [session[r] EXCEPT !.status = topups[n].status] \in Session
  BY <1>3, Typed DEF Session
<1>5. /\ pc'[r] = "lock" /\ job'[r] = [op |-> decision, topup |-> n]
      /\ session'[r] = [session[r] EXCEPT !.status = topups[n].status]
      /\ Moves(r)
  BY <1>1, Typed DEF Open, Goto, Moves
<1>6. WillFit(r)
  BY <1>2, <1>4, <1>5 DEF WillFit, InFlight, Reviewing
<1>7. RowsStep /\ members' \subseteq Children
  BY RowsKept, Typed DEF Open
<1> QED
  BY <1>5, <1>6, <1>7, StepKeeps

\* What a review knows past the load, and past the lock.
LEMMA Reviews ==
  ASSUME IInv, NEW r \in Requests, pc[r] \in Reviewing
  PROVE  /\ job[r] \in Review /\ job[r].topup \in DOMAIN topups
         /\ Child(r) \in Children /\ topups[job[r].topup].amount \in Amounts
         /\ pc[r] # "lock" => job[r].op = "approve"
<1>1. job[r] \in Review /\ (pc[r] # "lock" => job[r].op = "approve")
  BY DEF IInv, Fits
<1>2. job[r].topup \in DOMAIN topups
  BY <1>1 DEF Review
<1>3. topups[job[r].topup] \in Topup
  BY <1>2, Typed
<1> QED
  BY <1>1, <1>2, <1>3 DEF Child, Topup

LEMMA LockTopupKeeps == ASSUME IInv, NEW r \in Requests, LockTopup(r) PROVE IInv'
<1>1. pc[r] = "lock" /\ job[r] \in Review /\ job[r].topup \in DOMAIN topups
  BY Reviews DEF LockTopup, Reviewing
<1>2. members' \subseteq Children /\ wallet' = wallet /\ credits' = credits
  BY Typed DEF LockTopup
<1>3. CASE End(r, "refused") /\ UNCHANGED topups
  BY <1>2, <1>3, RowsKept, RequestEnds, StepKeeps DEF Ended
<1>4. CASE job[r].op = "reject" /\ Decide(job[r].topup, "rejected") /\ End(r, "answered")
  <2> DEFINE n == job[r].topup
  <2>1. n \in DOMAIN topups /\ Decide(n, "rejected")
    BY <1>1, <1>4
  <2> HIDE DEF n
  <2>2. RowsStep
    BY <1>2, <2>1, RowDecided, Typed DEF Status, Posted
  <2> QED
    BY <1>2, <1>4, <2>2, RequestEnds, StepKeeps DEF Ended
<1>5. CASE job[r].op = "approve" /\ Goto(r, "ensure") /\ UNCHANGED <<topups, job, session>>
  <2>1. session[r] \in Session /\ session' = [session EXCEPT ![r] = session[r]]
    BY <1>5, Typed
  <2> QED
    BY <1>1, <1>2, <1>5, <2>1, RowsKept, RequestGoesOn, StepKeeps DEF Reviewing
<1> QED
  BY <1>3, <1>4, <1>5 DEF LockTopup

\* The balance a session loads.
LEMMA Loads ==
  ASSUME IInv, NEW r \in Requests, NEW b \in Nat \cup {NoWallet}
  PROVE  /\ [session[r] EXCEPT !.balance = b] \in Session
         /\ [session[r] EXCEPT !.balance = b].balance = b
BY Typed DEF Session

LEMMA EnsureWalletKeeps == ASSUME IInv, NEW r \in Requests, EnsureWallet(r) PROVE IInv'
<1>1. /\ job[r] \in Review /\ job[r].op = "approve" /\ Child(r) \in Children
  BY Reviews DEF EnsureWallet, Reviewing
<1>2. members' \subseteq Children /\ RowsStep
  BY Typed, RowsKept DEF EnsureWallet
<1>3. CASE Child(r) \notin members
  <2>1. End(r, "refused")
    BY <1>3 DEF EnsureWallet
  <2> QED
    BY <1>2, <2>1, RequestEnds, StepKeeps DEF Ended
<1>4. CASE Child(r) \in members
  <2> DEFINE b == wallet[Child(r)]
             held == [session[r] EXCEPT !.balance = b]
             place == IF b = NoWallet THEN "insert_wallet" ELSE "lookup"
  <2>1. b \in Nat \cup {NoWallet}
    BY <1>1, Typed
  <2>2. session' = [session EXCEPT ![r] = held] /\ Goto(r, place) /\ job' = job
    BY <1>4, Typed DEF EnsureWallet
  <2>3. held \in Session /\ held.balance = b
    BY <2>1, Loads
  <2>4. place \in Reviewing /\ place # "credit" /\ (place = "lookup" => b \in Nat)
    BY <2>1 DEF Reviewing
  <2> HIDE DEF b, held, place
  <2>5. Moves(r) /\ WillFit(r)
    BY <1>1, <2>2, <2>3, <2>4, RequestGoesOn
  <2> QED
    BY <1>2, <2>5, StepKeeps
<1> QED
  BY <1>3, <1>4

LEMMA InsertWalletKeeps == ASSUME IInv, NEW r \in Requests, InsertWallet(r) PROVE IInv'
<1>1. /\ job[r] \in Review /\ job[r].op = "approve"
  BY Reviews DEF InsertWallet, Reviewing
<1>2. members' \subseteq Children /\ RowsStep
  BY Typed, RowsKept DEF InsertWallet
<1>3. CASE wallet[Child(r)] # NoWallet
  <2>1. End(r, "failed")
    BY <1>3 DEF InsertWallet
  <2> QED
    BY <1>2, <2>1, RequestEnds, StepKeeps DEF Ended
<1>4. CASE wallet[Child(r)] = NoWallet
  <2> DEFINE held == [session[r] EXCEPT !.balance = 0, !.inserted = TRUE]
  <2>1. session' = [session EXCEPT ![r] = held] /\ Goto(r, "lookup") /\ job' = job
    BY <1>4, Typed DEF InsertWallet
  <2>2. held \in Session /\ held.balance \in Nat
    <3>1. session[r] \in Session
      BY Typed
    <3> QED
      BY <3>1 DEF Session
  <2> HIDE DEF held
  <2>3. Moves(r) /\ WillFit(r)
    BY <1>1, <2>1, <2>2, RequestGoesOn DEF Reviewing
  <2> QED
    BY <1>2, <2>3, StepKeeps
<1> QED
  BY <1>3, <1>4

LEMMA LookupKeeps == ASSUME IInv, NEW r \in Requests, Lookup(r) PROVE IInv'
<1> DEFINE n == job[r].topup
<1>1. /\ job[r] \in Review /\ job[r].op = "approve" /\ n \in DOMAIN topups
  BY Reviews DEF Lookup, Reviewing
<1>2. members' \subseteq Children /\ wallet' = wallet /\ credits' = credits
  BY Typed DEF Lookup
<1>3. CASE Posted(n)
  <2>1. Decide(n, "approved") /\ End(r, "answered")
    BY <1>3 DEF Lookup
  <2>2. \E i \in DOMAIN credits' : credits'[i] = n
    BY <1>2, <1>3 DEF Posted
  <2>3. Moves(r) /\ WillFit(r)
    BY <2>1, <2>2, RequestEnds DEF Ended
  <2> HIDE DEF n
  <2>4. RowsStep
    BY <1>1, <1>2, <2>1, <2>2, RowDecided, Typed DEF Status, Posted
  <2> QED
    BY <1>2, <2>3, <2>4, StepKeeps
<1>4. CASE ~ Posted(n)
  <2>1. Goto(r, "credit") /\ UNCHANGED <<topups, job, session>>
    BY <1>4 DEF Lookup
  <2>2. /\ session[r] \in Session /\ session' = [session EXCEPT ![r] = session[r]]
        /\ session[r].balance \in Nat
    BY <2>1, Typed DEF IInv, Fits, Lookup
  <2>3. Moves(r) /\ WillFit(r)
    BY <1>1, <2>1, <2>2, RequestGoesOn DEF Reviewing
  <2> QED
    BY <1>2, <2>1, <2>3, RowsKept, StepKeeps
<1> QED
  BY <1>3, <1>4

LEMMA CreditKeeps == ASSUME IInv, NEW r \in Requests, Credit(r) PROVE IInv'
<1> DEFINE n == job[r].topup
           sum == session[r].balance + topups[n].amount
<1>1. /\ n \in DOMAIN topups /\ Child(r) \in Children /\ topups[n].amount \in Nat
      /\ session[r].balance \in Nat
  BY Reviews, TopupAssumption DEF Credit, Reviewing, IInv, Fits
<1>2. /\ wallet' = [wallet EXCEPT ![Child(r)] = sum]
      /\ credits' = Append(credits, n)
      /\ Decide(n, "approved") /\ End(r, "answered") /\ members' = members
  BY DEF Credit
<1>3. sum \in Nat
  BY <1>1
<1>4. wallet' \in [Children -> Nat \cup {NoWallet}]
  BY <1>2, <1>3, Typed
<1> HIDE DEF n, sum
<1>5. /\ credits' \in Seq(DOMAIN topups)
      /\ \A m : Posted(m) => Posted(m)'
      /\ \E i \in DOMAIN credits' : credits'[i] = n
  <2>1. /\ credits' \in Seq(DOMAIN topups)
        /\ DOMAIN credits' = DOMAIN credits \cup {Len(credits) + 1}
        /\ credits'[Len(credits) + 1] = n
        /\ \A i \in DOMAIN credits : credits'[i] = credits[i]
    BY <1>1, <1>2, Typed
  <2> QED
    BY <2>1 DEF Posted
<1>6. RowsStep
  BY <1>1, <1>2, <1>4, <1>5, RowDecided DEF Status
<1>7. Moves(r) /\ WillFit(r)
  BY <1>2, <1>5, RequestEnds DEF Ended, n
<1> QED
  BY <1>2, <1>6, <1>7, StepKeeps, Typed

LEMMA AbortKeeps == ASSUME IInv, NEW r \in Requests, Abort(r) PROVE IInv'
BY RowsKept, RequestEnds, StepKeeps, Typed DEF Abort, Ended

\* A child that leaves, and a step that is none of the program's, move no request.
LEMMA LeaveKeeps ==
  ASSUME IInv, members' \subseteq members, UNCHANGED <<topups, wallet, credits, pc, job, session>>
  PROVE  IInv'
BY DEF IInv, TypeOK, ApprovedIsPosted, Posted, Fits, AnswerIsPosted, Asking, Review, Jobs

\* The invariant holds in every reachable state of the top-up requests.
THEOREM Invariance == Spec => []IInv
<1>1. Init => IInv
  BY InitInvariant
<1>2. IInv /\ [Next]_vars => IInv'
  <2> SUFFICES ASSUME IInv, [Next]_vars PROVE IInv'
    OBVIOUS
  <2>1. ASSUME NEW r \in Requests,
               \/ Ask(r) \/ Insert(r) \/ Open(r) \/ LockTopup(r) \/ EnsureWallet(r)
               \/ InsertWallet(r) \/ Lookup(r) \/ Credit(r) \/ Abort(r)
        PROVE  IInv'
    BY <2>1, AskKeeps, InsertKeeps, OpenKeeps, LockTopupKeeps, EnsureWalletKeeps,
       InsertWalletKeeps, LookupKeeps, CreditKeeps, AbortKeeps
  <2>2. ASSUME NEW c \in Children, Leave(c)  PROVE IInv'
    BY <2>2, LeaveKeeps DEF Leave
  <2>3. CASE UNCHANGED vars
    BY <2>3, LeaveKeeps DEF vars
  <2> QED
    BY <2>1, <2>2, <2>3 DEF Next
<1> QED
  BY <1>1, <1>2, PTL DEF Spec

\* Rows, balances and jobs keep their types: a balance is never negative.
THEOREM TypeCorrect == Spec => []TypeOK
BY Invariance, PTL DEF IInv

\* A row that stands as approved, and an approval an administrator was told
\* succeeded, have their deposit (review_topup and admin_deposit share the commit).
THEOREM ApprovalCredited == Spec => []ApprovalIsCredited
<1>1. IInv => ApprovalIsCredited
  BY DEF IInv, ApprovedIsPosted, AnswerIsPosted, ApprovalIsCredited
<1> QED
  BY <1>1, Invariance, PTL

-----------------------------------------------------------------------------
(* The deposits.  Deposited is recursive; that the recursion defines one   *)
(* function is part of the invariant, and holds because deposits are added *)
(* one at a time.                                                          *)

Part(rows, n, c) == IF rows[n].child = c THEN rows[n].amount ELSE 0

Sums(f, rows, t, c) ==
  f = [i \in 0..Len(t) |-> IF i = 0 THEN 0 ELSE f[i - 1] + Part(rows, t[i], c)]

Summed(rows, t, c) ==
  \E f \in [0..Len(t) -> Nat] : Sums(f, rows, t, c) /\ \A g : Sums(g, rows, t, c) => g = f

LEMMA DepositedIsLast ==
  ASSUME NEW rows, NEW t, NEW c, NEW f, Sums(f, rows, t, c), \A g : Sums(g, rows, t, c) => g = f
  PROVE  Deposited(rows, t, c) = f[Len(t)]
<1> DEFINE h == CHOOSE g : Sums(g, rows, t, c)
<1>1. Sums(h, rows, t, c)
  OBVIOUS
<1>2. Deposited(rows, t, c) = h[Len(t)]
  BY DEF Deposited, Sums, Part
<1> HIDE DEF h
<1> QED
  BY <1>1, <1>2

\* A decision changes no child and no amount.
LEMMA SameDeposits ==
  ASSUME NEW rows, NEW new, NEW D, NEW t \in Seq(D), NEW c,
         \A n \in D : new[n].child = rows[n].child /\ new[n].amount = rows[n].amount,
         Summed(rows, t, c)
  PROVE  /\ Summed(new, t, c)
         /\ Deposited(new, t, c) = Deposited(rows, t, c)
         /\ Deposited(rows, t, c) \in Nat
<1>1. \A i \in 1..Len(t) : Part(new, t[i], c) = Part(rows, t[i], c)
  BY DEF Part
<1>2. PICK f \in [0..Len(t) -> Nat] : Sums(f, rows, t, c) /\ \A g : Sums(g, rows, t, c) => g = f
  BY DEF Summed
<1>3. ASSUME NEW g PROVE Sums(g, new, t, c) <=> Sums(g, rows, t, c)
  <2>1. \A i \in 0..Len(t) :
          (IF i = 0 THEN 0 ELSE g[i - 1] + Part(new, t[i], c))
            = (IF i = 0 THEN 0 ELSE g[i - 1] + Part(rows, t[i], c))
    BY <1>1
  <2> QED
    BY <2>1 DEF Sums
<1>4. Sums(f, new, t, c) /\ \A g : Sums(g, new, t, c) => g = f
  BY <1>2, <1>3
<1>5. Deposited(new, t, c) = f[Len(t)] /\ Deposited(rows, t, c) = f[Len(t)]
  BY <1>2, <1>4, DepositedIsLast
<1>6. Len(t) \in 0..Len(t)
  OBVIOUS
<1> QED
  BY <1>2, <1>4, <1>5, <1>6 DEF Summed

LEMMA OneMoreDeposit ==
  ASSUME NEW rows, NEW D, NEW t \in Seq(D), NEW m \in D, NEW c, Summed(rows, t, c),
         Part(rows, m, c) \in Nat
  PROVE  /\ Summed(rows, Append(t, m), c)
         /\ Deposited(rows, Append(t, m), c) = Deposited(rows, t, c) + Part(rows, m, c)
<1> DEFINE u == Append(t, m)
           n == Len(t)
           part == Part(rows, m, c)
<1>1. PICK f \in [0..n -> Nat] : Sums(f, rows, t, c) /\ \A g : Sums(g, rows, t, c) => g = f
  BY DEF Summed
<1>2. n \in Nat /\ Len(u) = n + 1 /\ u[n + 1] = m /\ \A i \in 1..n : u[i] = t[i]
  OBVIOUS
<1>3. part \in Nat
  OBVIOUS
<1>4. f = [i \in 0..n |-> IF i = 0 THEN 0 ELSE f[i - 1] + Part(rows, t[i], c)]
  BY <1>1 DEF Sums
<1> HIDE DEF u, n
<1> DEFINE h == [i \in 0..(n + 1) |-> IF i = n + 1 THEN f[n] + part ELSE f[i]]
<1>5. \A i \in 0..(n + 1) : h[i] = IF i = 0 THEN 0 ELSE h[i - 1] + Part(rows, u[i], c)
  <2> TAKE i \in 0..(n + 1)
  <2>1. CASE i = 0
    BY <1>2, <1>4, <2>1
  <2>2. CASE i \in 1..n
    BY <1>2, <1>4, <2>2
  <2>3. CASE i = n + 1
    BY <1>2, <2>3
  <2> QED
    BY <1>2, <2>1, <2>2, <2>3
<1> HIDE DEF part
<1>6. h \in [0..(n + 1) -> Nat] /\ h[n + 1] = f[n] + part
  BY <1>1, <1>2, <1>3
<1>7. Sums(h, rows, u, c)
  <2>1. h = [i \in 0..(n + 1) |-> h[i]]
    OBVIOUS
  <2> HIDE DEF h
  <2> QED
    BY <1>2, <1>5, <2>1 DEF Sums
<1>8. ASSUME NEW g, Sums(g, rows, u, c) PROVE g = h
  <2> DEFINE below == [i \in 0..n |-> g[i]]
  <2>1. g = [i \in 0..(n + 1) |-> IF i = 0 THEN 0 ELSE g[i - 1] + Part(rows, u[i], c)]
    BY <1>2, <1>8 DEF Sums
  <2>2. \A i \in 0..n : below[i] = IF i = 0 THEN 0 ELSE below[i - 1] + Part(rows, t[i], c)
    BY <1>2, <2>1
  <2>3. below = f
    BY <1>1, <2>2 DEF Sums, n
  <2>4. \A i \in 0..n : g[i] = f[i]
    BY <2>3
  <2>5. g[n + 1] = f[n] + part
    <3>1. n + 1 \in 0..(n + 1) /\ n + 1 # 0 /\ (n + 1) - 1 = n /\ n \in 0..n
      BY <1>2
    <3>2. g[n + 1] = g[n] + Part(rows, u[n + 1], c)
      BY <2>1, <3>1
    <3> QED
      BY <1>2, <2>4, <3>1, <3>2 DEF part
  <2>6. \A i \in 0..(n + 1) : g[i] = h[i]
    BY <1>2, <2>4, <2>5
  <2>7. g = [i \in 0..(n + 1) |-> g[i]]
    BY <2>1
  <2> QED
    BY <2>6, <2>7
<1> HIDE DEF h
<1>9. Summed(rows, u, c)
  BY <1>2, <1>6, <1>7, <1>8 DEF Summed
<1>10. Deposited(rows, u, c) = h[n + 1]
  BY <1>2, <1>7, <1>8, DepositedIsLast
<1>11. Deposited(rows, t, c) = f[n]
  BY <1>1, DepositedIsLast DEF n
<1> QED
  BY <1>6, <1>9, <1>10, <1>11 DEF u, part

LEMMA NothingDeposited ==
  ASSUME NEW rows, NEW c PROVE Summed(rows, << >>, c)
<1> DEFINE f == [i \in 0..0 |-> 0]
<1>1. Sums(f, rows, << >>, c) /\ \A g : Sums(g, rows, << >>, c) => g = f
  BY DEF Sums
<1>2. f \in [0..0 -> Nat] /\ Len(<< >>) = 0
  OBVIOUS
<1> HIDE DEF f
<1> QED
  BY <1>1, <1>2 DEF Summed

-----------------------------------------------------------------------------
(* The money.  Past the row lock a request has its row to itself, so what  *)
(* it finds not deposited stays so to its commit; and what it holds of the *)
(* balance was once committed, or is nothing.                              *)

PastLock(r) == pc[r] \in Reviewing \ {"lock"}
Apart(r, q) == PastLock(r) /\ PastLock(q) => job[r].topup # job[q].topup

HoldsItsShare(r) ==
  /\ pc[r] = "credit" => ~ Posted(job[r].topup)
  /\ pc[r] \in {"lookup", "credit"} => session[r].balance <= Deposited(topups, credits, Child(r))

Covered(c) == wallet[c] # NoWallet => wallet[c] <= Deposited(topups, credits, c)

MoneyOK ==
  /\ IsInjective(credits)
  /\ \A c \in Children : Summed(topups, credits, c) /\ Covered(c)
  /\ \A r, q \in Requests : r # q => Apart(r, q)
  /\ \A r \in Requests : HoldsItsShare(r)

\* Only rows are added, or decided.
RowsStay ==
  \A n \in DOMAIN topups : topups'[n].child = topups[n].child /\ topups'[n].amount = topups[n].amount

LEMMA StepMoves ==
  ASSUME IInv, NEW r \in Requests,
         \/ Ask(r) \/ Insert(r) \/ Open(r) \/ LockTopup(r) \/ EnsureWallet(r)
         \/ InsertWallet(r) \/ Lookup(r) \/ Credit(r) \/ Abort(r)
  PROVE  Moves(r)
<1>1. CASE Goto(r, pc'[r]) /\ UNCHANGED <<job, session>>
  BY <1>1, Typed DEF Goto, Moves
<1>2. ASSUME NEW outcome, End(r, outcome) PROVE Moves(r)
  BY <1>2, Typed DEF End, Goto, Moves
<1>3. CASE Ask(r)
  BY <1>3, Typed DEF Ask, Goto, Moves
<1>4. CASE Open(r)
  BY <1>4, Typed DEF Open, Goto, Moves
<1>5. CASE LockTopup(r)
  BY <1>2, <1>5, Typed DEF LockTopup, Goto, Moves
<1>6. CASE EnsureWallet(r)
  BY <1>2, <1>6, Typed DEF EnsureWallet, Goto, Moves
<1>7. CASE InsertWallet(r)
  BY <1>2, <1>7, Typed DEF InsertWallet, Goto, Moves
<1>8. CASE Lookup(r)
  BY <1>2, <1>8, Typed DEF Lookup, Goto, Moves
<1>9. CASE Insert(r) \/ Credit(r) \/ Abort(r)
  BY <1>2, <1>9 DEF Insert, Credit, Abort
<1> QED
  BY <1>3, <1>4, <1>5, <1>6, <1>7, <1>8, <1>9

LEMMA StepKeepsRows ==
  ASSUME IInv, [Next]_vars
  PROVE  RowsStay /\ DOMAIN topups \subseteq DOMAIN topups'
<1>1. CASE UNCHANGED topups
  BY <1>1 DEF RowsStay
<1>2. ASSUME NEW n \in DOMAIN topups, NEW status, Decide(n, status)
      PROVE  RowsStay /\ DOMAIN topups \subseteq DOMAIN topups'
  <2> DEFINE row == [topups[n] EXCEPT !.status = status]
  <2>1. topups[n] \in Topup /\ topups' = [topups EXCEPT ![n] = row]
    BY <1>2, Typed DEF Decide
  <2>2. row.child = topups[n].child /\ row.amount = topups[n].amount
    BY <2>1 DEF Topup
  <2> HIDE DEF row
  <2> QED
    BY <2>1, <2>2, Typed DEF RowsStay
<1>3. ASSUME NEW row, topups' = Append(topups, row)
      PROVE  RowsStay /\ DOMAIN topups \subseteq DOMAIN topups'
  BY <1>3, Typed DEF RowsStay
<1>4. ASSUME NEW r \in Requests, LockTopup(r) \/ Lookup(r) \/ Credit(r)
      PROVE  RowsStay /\ DOMAIN topups \subseteq DOMAIN topups'
  <2>1. job[r].topup \in DOMAIN topups
    BY <1>4, Reviews DEF LockTopup, Lookup, Credit, Reviewing
  <2> QED
    BY <1>1, <1>2, <1>4, <2>1 DEF LockTopup, Lookup, Credit
<1> QED
  BY <1>1, <1>3, <1>4 DEF Next, vars, Ask, Insert, Open, EnsureWallet, InsertWallet, Abort, Leave

\* A request past the lock has just been granted it, or had it before.
LEMMA LockHeld ==
  ASSUME IInv, NEW r \in Requests,
         \/ Ask(r) \/ Insert(r) \/ Open(r) \/ LockTopup(r) \/ EnsureWallet(r)
         \/ InsertWallet(r) \/ Lookup(r) \/ Credit(r) \/ Abort(r),
         PastLock(r)'
  PROVE  (PastLock(r) \/ Granted(r)) /\ job'[r] = job[r]
<1>1. ASSUME NEW outcome \in Ended, End(r, outcome) PROVE FALSE
  BY <1>1, Typed DEF End, Goto, PastLock, Ended, Reviewing
<1>2. CASE LockTopup(r)
  BY <1>1, <1>2 DEF LockTopup, Ended
<1>3. CASE EnsureWallet(r) \/ InsertWallet(r) \/ Lookup(r)
  BY <1>1, <1>3 DEF EnsureWallet, InsertWallet, Lookup, Ended, PastLock, Reviewing
<1>4. CASE Ask(r) \/ Open(r)
  BY <1>4, Typed DEF Ask, Open, Goto, PastLock, Reviewing
<1>5. CASE Insert(r) \/ Credit(r) \/ Abort(r)
  BY <1>1, <1>5 DEF Insert, Credit, Abort, Ended
<1> QED
  BY <1>2, <1>3, <1>4, <1>5

LEMMA ApartKept ==
  ASSUME IInv, MoneyOK, NEW r \in Requests, Moves(r),
         PastLock(r)' => (PastLock(r) \/ Granted(r)) /\ job'[r] = job[r]
  PROVE  \A p, q \in Requests : p # q => Apart(p, q)'
<1>1. \A q \in Requests \ {r} : pc'[q] = pc[q] /\ job'[q] = job[q]
  BY Typed DEF Moves
<1>2. \A q \in Requests \ {r} : Apart(r, q)' /\ Apart(q, r)'
  <2> TAKE q \in Requests \ {r}
  <2>1. PastLock(q)' <=> PastLock(q)
    BY <1>1 DEF PastLock
  <2>2. PastLock(r)' /\ PastLock(q) => job[r].topup # job[q].topup
    BY DEF MoneyOK, Apart, Granted, PastLock
  <2> QED
    BY <1>1, <2>1, <2>2 DEF Apart
<1>3. \A p, q \in Requests \ {r} : p # q => Apart(p, q)'
  BY <1>1 DEF MoneyOK, Apart, PastLock
<1> QED
  BY <1>2, <1>3

\* A step without a deposit.
LEMMA NoDepositKeeps ==
  ASSUME IInv, MoneyOK, RowsStay, DOMAIN topups \subseteq DOMAIN topups',
         UNCHANGED <<wallet, credits>>
  PROVE  /\ IsInjective(credits')
         /\ \A c \in Children : /\ Summed(topups', credits', c) /\ Covered(c)'
                                /\ Deposited(topups', credits', c) = Deposited(topups, credits, c)
                                /\ Deposited(topups, credits, c) \in Nat
<1>1. credits \in Seq(DOMAIN topups)
  BY Typed
<1>2. \A c \in Children :
        /\ Summed(topups', credits, c)
        /\ Deposited(topups', credits, c) = Deposited(topups, credits, c)
        /\ Deposited(topups, credits, c) \in Nat
  BY <1>1, SameDeposits DEF RowsStay, MoneyOK
<1> QED
  BY <1>2 DEF MoneyOK, Covered

LEMMA QuietStepKeeps ==
  ASSUME IInv, MoneyOK, RowsStay, DOMAIN topups \subseteq DOMAIN topups',
         UNCHANGED <<wallet, credits>>,
         NEW r \in Requests, Moves(r),
         PastLock(r)' => (PastLock(r) \/ Granted(r)) /\ job'[r] = job[r],
         pc'[r] \in {"lookup", "credit"} =>
           /\ pc[r] \in Reviewing
           /\ session'[r].balance <= Deposited(topups, credits, Child(r)),
         pc'[r] = "credit" => ~ Posted(job[r].topup)
  PROVE  MoneyOK'
<1>1. /\ IsInjective(credits')
      /\ \A c \in Children : /\ Summed(topups', credits', c) /\ Covered(c)'
                             /\ Deposited(topups', credits', c) = Deposited(topups, credits, c)
  BY NoDepositKeeps
<1>2. \A p, q \in Requests : p # q => Apart(p, q)'
  BY ApartKept
<1>3. ASSUME NEW q \in Requests, job'[q] = job[q], pc[q] \in Reviewing
      PROVE  /\ Child(q)' = Child(q)
             /\ Deposited(topups', credits', Child(q)') = Deposited(topups, credits, Child(q))
  <2>1. job[q].topup \in DOMAIN topups /\ Child(q) \in Children
    BY <1>3, Reviews
  <2> QED
    BY <1>1, <1>3, <2>1 DEF RowsStay, Child
<1>4. ASSUME NEW q \in Requests \ {r} PROVE HoldsItsShare(q)'
  <2>1. pc'[q] = pc[q] /\ job'[q] = job[q] /\ session'[q] = session[q]
    BY Typed DEF Moves
  <2>2. HoldsItsShare(q)
    BY DEF MoneyOK
  <2>3. pc[q] \in {"lookup", "credit"} => pc[q] \in Reviewing
    BY DEF Reviewing
  <2> QED
    BY <1>3, <2>1, <2>2, <2>3 DEF HoldsItsShare, Posted
<1>5. HoldsItsShare(r)'
  <2>1. pc'[r] \in {"lookup", "credit"} => job'[r] = job[r]
    BY DEF PastLock, Reviewing
  <2> QED
    BY <1>3, <2>1 DEF HoldsItsShare, Posted
<1> QED
  BY <1>1, <1>2, <1>4, <1>5 DEF MoneyOK

\* A step of one request that deposits nothing.
LEMMA QuietStepsKeep ==
  ASSUME IInv, MoneyOK, [Next]_vars, NEW r \in Requests,
         \/ Ask(r) \/ Insert(r) \/ Open(r) \/ LockTopup(r) \/ EnsureWallet(r)
         \/ InsertWallet(r) \/ Lookup(r) \/ Abort(r)
  PROVE  MoneyOK'
<1>1. RowsStay /\ DOMAIN topups \subseteq DOMAIN topups' /\ Moves(r)
  BY StepKeepsRows, StepMoves
<1>2. UNCHANGED <<wallet, credits>>
  BY DEF Ask, Insert, Open, LockTopup, EnsureWallet, InsertWallet, Lookup, Abort
<1>3. PastLock(r)' => (PastLock(r) \/ Granted(r)) /\ job'[r] = job[r]
  BY LockHeld
<1>4. ASSUME NEW outcome \in Ended, End(r, outcome) PROVE pc'[r] \notin {"lookup", "credit"}
  BY <1>4, Typed DEF End, Goto, Ended
<1>5. ASSUME NEW place, Goto(r, place) PROVE pc'[r] = place
  BY <1>5, Typed DEF Goto
<1>6. pc'[r] \in {"lookup", "credit"} => EnsureWallet(r) \/ InsertWallet(r) \/ Lookup(r)
  BY <1>4, <1>5 DEF Ask, Insert, Open, LockTopup, Abort, Ended
<1>7. ASSUME EnsureWallet(r), pc'[r] \in {"lookup", "credit"}
      PROVE  /\ pc'[r] # "credit" /\ pc[r] \in Reviewing
             /\ session'[r].balance <= Deposited(topups, credits, Child(r))
  <2>1. pc[r] \in Reviewing /\ Child(r) \in Children
    BY <1>7, Reviews DEF EnsureWallet, Reviewing
  <2>2. Child(r) \in members
    BY <1>4, <1>7 DEF EnsureWallet, Ended
  <2>3. /\ session' = [session EXCEPT ![r].balance = wallet[Child(r)]]
        /\ pc'[r] = IF wallet[Child(r)] = NoWallet THEN "insert_wallet" ELSE "lookup"
    BY <1>5, <1>7, <2>2 DEF EnsureWallet
  <2>4. session'[r].balance = wallet[Child(r)]
    <3>1. session[r] \in Session
      BY Typed
    <3> QED
      BY <2>3, <3>1, Typed DEF Session
  <2> QED
    BY <1>7, <2>1, <2>3, <2>4 DEF MoneyOK, Covered
<1>8. ASSUME InsertWallet(r), pc'[r] \in {"lookup", "credit"}
      PROVE  /\ pc'[r] # "credit" /\ pc[r] \in Reviewing
             /\ session'[r].balance <= Deposited(topups, credits, Child(r))
  <2>1. pc[r] \in Reviewing /\ Child(r) \in Children
    BY <1>8, Reviews DEF InsertWallet, Reviewing
  <2>2. session' = [session EXCEPT ![r].balance = 0, ![r].inserted = TRUE] /\ pc'[r] = "lookup"
    BY <1>4, <1>5, <1>8 DEF InsertWallet, Ended
  <2>3. session'[r].balance = 0
    <3>1. session[r] \in Session
      BY Typed
    <3> QED
      BY <2>2, <3>1, Typed DEF Session
  <2>4. Deposited(topups, credits, Child(r)) \in Nat
    BY <1>1, <1>2, <2>1, NoDepositKeeps
  <2> QED
    BY <2>1, <2>2, <2>3, <2>4
<1>9. ASSUME Lookup(r), pc'[r] \in {"lookup", "credit"}
      PROVE  /\ ~ Posted(job[r].topup) /\ pc[r] \in Reviewing
             /\ session'[r].balance <= Deposited(topups, credits, Child(r))
  <2>1. ~ Posted(job[r].topup) /\ session' = session /\ pc[r] = "lookup"
    BY <1>4, <1>9 DEF Lookup, Ended
  <2> QED
    BY <2>1 DEF MoneyOK, HoldsItsShare, Reviewing
<1> QED
  BY <1>1, <1>2, <1>3, <1>6, <1>7, <1>8, <1>9, QuietStepKeeps

LEMMA CreditKeepsMoney ==
  ASSUME IInv, MoneyOK, NEW r \in Requests, Credit(r), RowsStay,
         DOMAIN topups \subseteq DOMAIN topups', wallet' \in [Children -> Nat \cup {NoWallet}]
  PROVE  MoneyOK'
<1> DEFINE n == job[r].topup
           c0 == Child(r)
<1>1. /\ pc[r] = "credit" /\ n \in DOMAIN topups /\ c0 \in Children /\ c0 = topups[n].child
      /\ topups[n].amount \in Nat /\ session[r].balance \in Nat
  BY Reviews, TopupAssumption DEF Credit, Reviewing, IInv, Fits, Child
<1>2. /\ wallet' = [wallet EXCEPT ![c0] = session[r].balance + topups[n].amount]
      /\ credits' = Append(credits, n)
  BY DEF Credit
<1>3. ~ Posted(n) /\ session[r].balance <= Deposited(topups, credits, c0)
  BY <1>1 DEF MoneyOK, HoldsItsShare
<1> HIDE DEF n, c0
<1>4. credits \in Seq(DOMAIN topups) /\ Moves(r)
  BY Typed, StepMoves
<1>5. \A c : Part(topups, n, c) \in Nat
  BY <1>1 DEF Part
<1>6. \A c \in Children :
        /\ Summed(topups', credits', c)
        /\ Deposited(topups', credits', c) = Deposited(topups, credits, c) + Part(topups, n, c)
        /\ Deposited(topups, credits, c) \in Nat
  <2> TAKE c \in Children
  <2>1. Summed(topups, credits, c)
    BY DEF MoneyOK
  <2>2. /\ Summed(topups, credits', c)
        /\ Deposited(topups, credits', c) = Deposited(topups, credits, c) + Part(topups, n, c)
    <3> DEFINE D == DOMAIN topups
    <3>1. credits \in Seq(D) /\ n \in D /\ Part(topups, n, c) \in Nat
      BY <1>1, <1>4, <1>5
    <3> HIDE DEF D
    <3> QED
      BY <1>2, <2>1, <3>1, OneMoreDeposit
  <2>3. credits' \in Seq(DOMAIN topups)
    BY <1>1, <1>2, <1>4
  <2>4. /\ Summed(topups', credits', c)
        /\ Deposited(topups', credits', c) = Deposited(topups, credits', c)
    BY <2>2, <2>3, SameDeposits DEF RowsStay
  <2>5. Deposited(topups, credits, c) \in Nat
    <3>1. \A m \in DOMAIN topups :
            topups[m].child = topups[m].child /\ topups[m].amount = topups[m].amount
      OBVIOUS
    <3> QED
      BY <1>4, <2>1, <3>1, SameDeposits
  <2> QED
    BY <2>2, <2>4, <2>5
<1>7. \A c \in Children : Covered(c)'
  <2> TAKE c \in Children
  <2>1. CASE c = c0
    <3>1. wallet'[c] = session[r].balance + topups[n].amount /\ Part(topups, n, c) = topups[n].amount
      BY <1>1, <1>2, <2>1, Typed DEF Part
    <3> QED
      BY <1>1, <1>3, <1>6, <2>1, <3>1 DEF Covered
  <2>2. CASE c # c0
    <3>1. wallet'[c] = wallet[c]
      BY <1>2, <2>2, Typed
    <3>2. wallet[c] # NoWallet => wallet[c] \in Nat /\ wallet[c] <= Deposited(topups, credits, c)
      BY Typed DEF MoneyOK, Covered
    <3> QED
      BY <1>5, <1>6, <3>1, <3>2 DEF Covered
  <2> QED
    BY <2>1, <2>2
<1>8. /\ DOMAIN credits' = DOMAIN credits \cup {Len(credits) + 1}
      /\ credits'[Len(credits) + 1] = n
      /\ \A i \in DOMAIN credits : credits'[i] = credits[i]
  BY <1>1, <1>2, <1>4
<1>9. IsInjective(credits')
  BY <1>3, <1>8 DEF MoneyOK, IsInjective, Posted
<1>10. pc'[r] = "answered"
  BY Typed DEF Credit, End, Goto
<1>11. \A p, q \in Requests : p # q => Apart(p, q)'
  BY <1>4, <1>10, ApartKept DEF PastLock, Reviewing
<1>12. ASSUME NEW q \in Requests \ {r} PROVE HoldsItsShare(q)'
  <2> SUFFICES ASSUME pc'[q] \in {"lookup", "credit"} PROVE HoldsItsShare(q)'
    BY DEF HoldsItsShare
  <2>1. pc'[q] = pc[q] /\ job'[q] = job[q] /\ session'[q] = session[q]
    BY <1>4, Typed DEF Moves
  <2>2. pc[q] \in Reviewing /\ pc[q] # "lock"
    BY <2>1 DEF Reviewing
  <2>3. /\ job[q] \in Review /\ job[q].topup \in DOMAIN topups /\ Child(q) \in Children
        /\ session[q].balance \in Nat
    BY <2>1, <2>2, Reviews DEF IInv, Fits
  <2>4. job[q].topup # n
    BY <1>1, <2>2 DEF MoneyOK, Apart, PastLock, n, Reviewing
  <2>5. Child(q)' = Child(q)
    BY <2>1, <2>3 DEF Child, RowsStay
  <2>6. Posted(job[q].topup)' => Posted(job[q].topup)
    BY <1>8, <2>1, <2>4 DEF Posted
  <2>7. Deposited(topups, credits, Child(q)) <= Deposited(topups', credits', Child(q))
    BY <1>5, <1>6, <2>3
  <2>8. session[q].balance <= Deposited(topups', credits', Child(q))
    BY <1>5, <1>6, <2>1, <2>3, <2>7 DEF MoneyOK, HoldsItsShare
  <2> QED
    BY <2>1, <2>5, <2>6, <2>8 DEF MoneyOK, HoldsItsShare
<1>13. HoldsItsShare(r)'
  BY <1>10 DEF HoldsItsShare
<1> QED
  BY <1>6, <1>7, <1>9, <1>11, <1>12, <1>13 DEF MoneyOK

\* A row is deposited once and a balance never exceeds what was deposited, however
\* often and by however many the row is approved (review_topup, admin_credit's key).
THEOREM MoneyHasItsSource == Spec => []NoMoneyFromNothing
<1>1. Init => MoneyOK
  <2> SUFFICES ASSUME Init PROVE MoneyOK
    OBVIOUS
  <2>1. \A r \in Requests : pc[r] = "idle"
    BY DEF Init
  <2>2. IsInjective(credits) /\ \A c \in Children : Summed(topups, credits, c) /\ Covered(c)
    BY NothingDeposited DEF Init, IsInjective, Covered
  <2> QED
    BY <2>1, <2>2 DEF MoneyOK, Apart, PastLock, Reviewing, HoldsItsShare
<1>2. IInv /\ IInv' /\ MoneyOK /\ [Next]_vars => MoneyOK'
  <2> SUFFICES ASSUME IInv, IInv', MoneyOK, [Next]_vars PROVE MoneyOK'
    OBVIOUS
  <2>1. RowsStay /\ DOMAIN topups \subseteq DOMAIN topups'
    BY StepKeepsRows
  <2>2. CASE UNCHANGED <<topups, wallet, credits, pc, job, session>>
    BY <2>2 DEF MoneyOK, Summed, Sums, Part, Covered, Deposited, Apart, PastLock, HoldsItsShare,
       Posted, Child, IsInjective
  <2>3. ASSUME NEW r \in Requests, Credit(r) PROVE MoneyOK'
    BY <2>1, <2>3, CreditKeepsMoney DEF IInv, TypeOK
  <2> QED
    BY <2>2, <2>3, QuietStepsKeep DEF Next, vars, Leave
<1>3. MoneyOK => NoMoneyFromNothing
  BY DEF MoneyOK, Covered, NoMoneyFromNothing
<1> QED
  BY <1>1, <1>2, <1>3, Invariance, PTL DEF Spec
=============================================================================
