--------------------------- MODULE BillingProofs ---------------------------
(***************************************************************************)
(* The safety properties of Billing, for any threads, seats, gateways and  *)
(* bounds.  Every step is looked at once per table: what it may do to the  *)
(* subscriptions (SubsStep), to the payments (PaymentsStep), to the events *)
(* with the ledger (ChargesStep) and to the handlers (ThreadStep); the     *)
(* four together keep the invariant.                                       *)
(***************************************************************************)
EXTENDS Billing, TLAPS

Sub == [seat : Seats, status : SubStatus, over : BOOLEAN]
Payment == [sub : Nat, status : PaymentStatus, over : BOOLEAN]
Event == [sub : Nat, via : Gateways, kind : Kinds, taken : Nat, told : BOOLEAN]
Row == [sub : Nat, via : Gateways, charge : Nat]
Held == [payment : PaymentStatus \cup {"unread"}, sub : SubStatus \cup {"unread"}]

Tables ==
  /\ subs \in Seq(Sub) /\ payments \in Seq(Payment) /\ charges \in Seq(Event)
  /\ processed \subseteq DOMAIN charges /\ rows \subseteq Row /\ members \subseteq Seats

ForeignKeys ==
  /\ \A p \in DOMAIN payments : payments[p].sub \in DOMAIN subs
  /\ \A c \in DOMAIN charges : charges[c].sub \in DOMAIN subs
  /\ \A row \in rows : row.sub \in DOMAIN subs /\ row.charge \in DOMAIN charges

\* What a handler works on exists, and what it holds was a status.
JobFits(r) ==
  /\ pc[r] \in {"idle", "insert", "approve", "reject", "expire", "handle"}
  /\ pc[r] = "insert" => job[r].seat \in Seats
  /\ pc[r] \in {"approve", "reject"} => job[r].payment \in DOMAIN payments
  /\ pc[r] = "expire" => job[r].sub \in DOMAIN subs
  /\ pc[r] = "handle" => job[r].charge \in DOMAIN charges

Handlers ==
  /\ pc \in [Threads -> {"idle", "insert", "approve", "reject", "expire", "handle"}]
  /\ DOMAIN job = Threads
  /\ session \in [Threads -> Held]
  /\ \A r \in Threads : JobFits(r)

\* An event counts once it is processed, and its row is there if it activated.
Ledger ==
  \A c \in DOMAIN charges :
    /\ charges[c].taken = IF c \in processed THEN 1 ELSE 0
    /\ charges[c].kind = "exact" /\ c \in processed <=> \E row \in rows : row.charge = c

IInv ==
  /\ Tables /\ ForeignKeys /\ Handlers /\ Ledger
  /\ OneActivePerSeat /\ ActiveWasPaid /\ ApprovedIsMember

\* What ActiveWasPaid asks of a subscription that runs.
Paid(n) ==
  \/ \E p \in DOMAIN payments : payments[p].sub = n /\ payments[p].status \in {"approved", "rejected"}
  \/ \E row \in rows : row.sub = n

\* And what it finds after the step.
WillBePaid(n) ==
  \/ \E p \in DOMAIN payments' : payments'[p].sub = n /\ payments'[p].status \in {"approved", "rejected"}
  \/ \E row \in rows' : row.sub = n

-----------------------------------------------------------------------------
SubsStep ==
  /\ subs' \in Seq(Sub)
  /\ DOMAIN subs \subseteq DOMAIN subs'
  /\ \A n \in DOMAIN subs : subs'[n].seat = subs[n].seat
  /\ OneActivePerSeat'
  /\ \A n \in DOMAIN subs' : subs'[n].status = "active" =>
       WillBePaid(n) \/ (n \in DOMAIN subs /\ subs[n].status = "active")

PaymentsStep ==
  /\ payments' \in Seq(Payment) /\ members' \subseteq Seats
  /\ DOMAIN payments \subseteq DOMAIN payments'
  /\ \A p \in DOMAIN payments :
       /\ payments'[p].sub = payments[p].sub
       /\ payments[p].status \in {"approved", "rejected"} =>
            payments'[p].status \in {"approved", "rejected"}
  /\ \A p \in DOMAIN payments' :
       /\ payments'[p].sub \in DOMAIN subs
       /\ payments'[p].status = "approved" => subs[payments'[p].sub].seat \in members'

ChargesStep ==
  /\ charges' \in Seq(Event) /\ rows \subseteq rows' /\ rows' \subseteq Row
  /\ processed' \subseteq DOMAIN charges'
  /\ DOMAIN charges \subseteq DOMAIN charges'
  /\ \A c \in DOMAIN charges' : charges'[c].sub \in DOMAIN subs
  /\ \A row \in rows' : row.sub \in DOMAIN subs /\ row.charge \in DOMAIN charges'
  /\ Ledger'

ThreadStep ==
  /\ pc' \in [Threads -> {"idle", "insert", "approve", "reject", "expire", "handle"}]
  /\ DOMAIN job' = Threads
  /\ session' \in [Threads -> Held]
  /\ \A r \in Threads :
       /\ pc'[r] = "insert" => job'[r].seat \in Seats
       /\ pc'[r] \in {"approve", "reject"} => job'[r].payment \in DOMAIN payments
       /\ pc'[r] = "expire" => job'[r].sub \in DOMAIN subs
       /\ pc'[r] = "handle" => job'[r].charge \in DOMAIN charges

LEMMA StepsKeep ==
  ASSUME IInv, SubsStep, PaymentsStep, ChargesStep, ThreadStep PROVE IInv'
<1>1. Tables'
  BY DEF Tables, SubsStep, PaymentsStep, ChargesStep
<1>2. ForeignKeys'
  BY DEF ForeignKeys, SubsStep, PaymentsStep, ChargesStep
<1>3. Handlers'
  BY DEF Handlers, JobFits, SubsStep, PaymentsStep, ChargesStep, ThreadStep
<1>4. ApprovedIsMember'
  BY DEF ApprovedIsMember, SubsStep, PaymentsStep
<1>5. ActiveWasPaid'
  <2>1. \A n : Paid(n) => WillBePaid(n)
    BY DEF Paid, WillBePaid, PaymentsStep, ChargesStep
  <2>2. \A n \in DOMAIN subs : subs[n].status = "active" => Paid(n)
    BY DEF IInv, ActiveWasPaid, Paid
  <2>3. \A n \in DOMAIN subs' : subs'[n].status = "active" => WillBePaid(n)
    BY <2>1, <2>2 DEF SubsStep
  <2> QED
    BY <2>3 DEF ActiveWasPaid, WillBePaid
<1> QED
  BY <1>1, <1>2, <1>3, <1>4, <1>5 DEF IInv, SubsStep, ChargesStep

-----------------------------------------------------------------------------
\* A table whose row n becomes x, and one with a row more.
LEMMA RowSet ==
  ASSUME NEW S, NEW table \in Seq(S), NEW n \in DOMAIN table, NEW x \in S
  PROVE  /\ [table EXCEPT ![n] = x] \in Seq(S)
         /\ DOMAIN [table EXCEPT ![n] = x] = DOMAIN table
         /\ [table EXCEPT ![n] = x][n] = x
         /\ \A m \in DOMAIN table \ {n} : [table EXCEPT ![n] = x][m] = table[m]
OBVIOUS

LEMMA RowAdded ==
  ASSUME NEW S, NEW table \in Seq(S), NEW x \in S
  PROVE  /\ Append(table, x) \in Seq(S)
         /\ DOMAIN Append(table, x) = DOMAIN table \cup {Len(table) + 1}
         /\ Append(table, x)[Len(table) + 1] = x
         /\ \A m \in DOMAIN table : Append(table, x)[m] = table[m]
OBVIOUS

LEMMA RowsMapped ==
  ASSUME NEW S, NEW table \in Seq(S), NEW f, f = [m \in DOMAIN table |-> f[m]],
         \A m \in DOMAIN table : f[m] \in S
  PROVE  f \in Seq(S) /\ DOMAIN f = DOMAIN table
OBVIOUS

LEMMA ClosedSub ==
  ASSUME NEW row \in Sub, NEW status \in SubStatus \ {"active"}
  PROVE  /\ Closed(row, status) \in Sub
         /\ Closed(row, status).seat = row.seat
         /\ Closed(row, status).status # "active"
BY DEF Closed, Sub

LEMMA ClosedPayment ==
  ASSUME NEW row \in Payment, NEW status \in PaymentStatus
  PROVE  /\ Closed(row, status) \in Payment
         /\ Closed(row, status).sub = row.sub
         /\ Closed(row, status).status = status
BY DEF Closed, Payment

LEMMA ActivatedSub ==
  ASSUME subs \in Seq(Sub), NEW n \in DOMAIN subs, NEW seen
  PROVE  /\ Activated(n, seen) \in Sub
         /\ Activated(n, seen).seat = subs[n].seat
         /\ seen = "active" => Activated(n, seen).status = subs[n].status
<1>1. subs[n] \in Sub
  OBVIOUS
<1>2. CASE seen = "active"
  BY <1>1, <1>2 DEF Activated, Sub
<1>3. CASE seen # "active"
  BY <1>1, <1>3 DEF Activated, Sub, SubStatus
<1> QED
  BY <1>2, <1>3

-----------------------------------------------------------------------------
\* What a step may do to the subscriptions: nothing, end one, end many, start one.
LEMMA SubsKept == ASSUME IInv, subs' = subs PROVE SubsStep
BY DEF IInv, Tables, SubsStep, OneActivePerSeat

LEMMA SubReplaced ==
  ASSUME IInv, NEW n \in DOMAIN subs, NEW row \in Sub, subs' = [subs EXCEPT ![n] = row],
         row.seat = subs[n].seat,
         row.status = "active" =>
           \A m \in DOMAIN subs \ {n} :
             ~ (subs[m].seat = subs[n].seat /\ subs[m].status = "active"),
         row.status = "active" => subs[n].status = "active" \/ WillBePaid(n)
  PROVE  SubsStep
<1>1. /\ subs' \in Seq(Sub) /\ DOMAIN subs' = DOMAIN subs /\ subs'[n] = row
      /\ \A m \in DOMAIN subs \ {n} : subs'[m] = subs[m]
  BY RowSet DEF IInv, Tables
<1>2. OneActivePerSeat'
  BY <1>1 DEF IInv, OneActivePerSeat
<1> QED
  BY <1>1, <1>2 DEF SubsStep

LEMMA SubClosed ==
  ASSUME IInv, NEW n \in DOMAIN subs, NEW status \in SubStatus \ {"active"},
         subs' = [subs EXCEPT ![n] = Closed(subs[n], status)]
  PROVE  SubsStep
<1>1. subs[n] \in Sub
  BY DEF IInv, Tables
<1> QED
  BY <1>1, ClosedSub, SubReplaced

LEMMA SubActivated ==
  ASSUME IInv, NEW n \in DOMAIN subs, NEW seen, ~ Conflict(n, seen), WillBePaid(n),
         subs' = [subs EXCEPT ![n] = Activated(n, seen)]
  PROVE  SubsStep
<1>1. /\ Activated(n, seen) \in Sub
      /\ Activated(n, seen).seat = subs[n].seat
      /\ seen = "active" => Activated(n, seen).status = subs[n].status
  BY ActivatedSub DEF IInv, Tables
<1>2. CASE seen = "active"
  BY <1>1, <1>2, SubReplaced DEF IInv, OneActivePerSeat
<1>3. CASE seen # "active"
  BY <1>1, <1>3, SubReplaced DEF Conflict
<1> QED
  BY <1>2, <1>3

LEMMA SubsExpired ==
  ASSUME IInv, subs' = [n \in DOMAIN subs |-> subs'[n]],
         \A n \in DOMAIN subs : subs'[n] \in {subs[n], Closed(subs[n], "expired")}
  PROVE  SubsStep
<1>1. \A n \in DOMAIN subs : /\ subs'[n] \in Sub /\ subs'[n].seat = subs[n].seat
                             /\ subs'[n].status = "active" => subs[n].status = "active"
  <2> TAKE n \in DOMAIN subs
  <2>1. subs[n] \in Sub
    BY DEF IInv, Tables
  <2> QED
    BY <2>1, ClosedSub DEF SubStatus
<1>2. subs' \in Seq(Sub) /\ DOMAIN subs' = DOMAIN subs
  BY <1>1, RowsMapped DEF IInv, Tables
<1> QED
  BY <1>1, <1>2 DEF SubsStep, IInv, OneActivePerSeat

LEMMA SubAged ==
  ASSUME IInv, NEW n \in DOMAIN subs, subs' = [subs EXCEPT ![n].over = TRUE]
  PROVE  SubsStep
<1> DEFINE row == [subs[n] EXCEPT !.over = TRUE]
<1>1. subs[n] \in Sub /\ subs' = [subs EXCEPT ![n] = row]
  BY DEF IInv, Tables
<1>2. row \in Sub /\ row.seat = subs[n].seat /\ row.status = subs[n].status
  BY <1>1 DEF Sub
<1> QED
  BY <1>1, <1>2, SubReplaced DEF IInv, OneActivePerSeat

\* To the payments with the membership.
LEMMA PaymentsKept ==
  ASSUME IInv, payments' = payments, members \subseteq members', members' \subseteq Seats
  PROVE  PaymentsStep
BY DEF IInv, Tables, ForeignKeys, ApprovedIsMember, PaymentsStep

LEMMA PaymentReplaced ==
  ASSUME IInv, NEW p \in DOMAIN payments, NEW row \in Payment,
         payments' = [payments EXCEPT ![p] = row], row.sub = payments[p].sub,
         payments[p].status \in {"approved", "rejected"} => row.status \in {"approved", "rejected"},
         members \subseteq members', members' \subseteq Seats,
         row.status = "approved" => subs[row.sub].seat \in members'
  PROVE  PaymentsStep
<1>1. /\ payments' \in Seq(Payment) /\ DOMAIN payments' = DOMAIN payments
      /\ payments'[p] = row
      /\ \A m \in DOMAIN payments \ {p} : payments'[m] = payments[m]
  BY RowSet DEF IInv, Tables
<1> QED
  BY <1>1 DEF PaymentsStep, IInv, ForeignKeys, ApprovedIsMember

\* To the events and the ledger.
LEMMA ChargesKept == ASSUME IInv, UNCHANGED <<charges, processed, rows>> PROVE ChargesStep
BY DEF IInv, Tables, ForeignKeys, Ledger, ChargesStep

\* And to the handlers: none moves, one ends, one begins.
LEMMA ThreadsKept == ASSUME IInv, UNCHANGED <<pc, job, session>> PROVE ThreadStep
BY DEF IInv, Handlers, JobFits, ThreadStep

LEMMA ThreadEnds == ASSUME IInv, NEW r \in Threads, End(r) PROVE ThreadStep
<1>1. Nothing \in Held
  BY DEF Nothing, Held
<1> QED
  BY <1>1 DEF IInv, Handlers, JobFits, End, ThreadStep

LEMMA ThreadBegins ==
  ASSUME IInv, NEW r \in Threads, NEW place, NEW task, NEW held \in Held,
         Begin(r, place, task, held),
         place \in {"insert", "approve", "reject", "expire", "handle"},
         place = "insert" => task.seat \in Seats,
         place \in {"approve", "reject"} => task.payment \in DOMAIN payments,
         place = "expire" => task.sub \in DOMAIN subs,
         place = "handle" => task.charge \in DOMAIN charges
  PROVE  IInv'
<1>1. ThreadStep
  BY DEF IInv, Handlers, JobFits, Begin, ThreadStep
<1>2. UNCHANGED <<subs, payments, charges, processed, rows, members>>
  BY DEF Begin, data
<1>3. members' \subseteq Seats
  BY <1>2 DEF IInv, Tables
<1> QED
  BY <1>1, <1>2, <1>3, StepsKeep, SubsKept, PaymentsKept, ChargesKept

-----------------------------------------------------------------------------
LEMMA InitInvariant == ASSUME Init PROVE IInv
<1>1. Nothing \in Held
  BY DEF Nothing, Held
<1> QED
  BY <1>1 DEF Init, IInv, Tables, ForeignKeys, Handlers, JobFits, Ledger,
              OneActivePerSeat, ActiveWasPaid, ApprovedIsMember

\* A status a handler may hold.
LEMMA StatusHeld ==
  ASSUME IInv
  PROVE  /\ Nothing \in Held
         /\ \A n \in DOMAIN subs : subs[n].status \in SubStatus /\ subs[n].seat \in Seats
         /\ \A p \in DOMAIN payments : payments[p].status \in PaymentStatus
                                      /\ payments[p].sub \in DOMAIN subs
<1>1. Nothing \in Held
  BY DEF Nothing, Held
<1>2. \A n \in DOMAIN subs : subs[n] \in Sub
  BY DEF IInv, Tables
<1>3. \A p \in DOMAIN payments : payments[p] \in Payment /\ payments[p].sub \in DOMAIN subs
  BY DEF IInv, Tables, ForeignKeys
<1> QED
  BY <1>1, <1>2, <1>3 DEF Sub, Payment

LEMMA SubscribeKeeps == ASSUME IInv, NEW r \in Threads, Subscribe(r) PROVE IInv'
<1>1. PICK s \in Seats : Begin(r, "insert", [op |-> "subscribe", seat |-> s], Nothing)
  BY DEF Subscribe
<1> QED
  BY <1>1, ThreadBegins, StatusHeld

LEMMA InsertSubKeeps == ASSUME IInv, NEW r \in Threads, InsertSub(r) PROVE IInv'
<1> DEFINE row == NewSub(job[r].seat)
<1>1. row \in Sub /\ row.status = "pending"
  <2>1. job[r].seat \in Seats
    BY DEF IInv, Handlers, JobFits, InsertSub
  <2> QED
    BY <2>1 DEF NewSub, Sub, SubStatus
<1>2. subs' = Append(subs, row)
  BY DEF InsertSub
<1> HIDE DEF row
<1>3. /\ subs' \in Seq(Sub) /\ DOMAIN subs' = DOMAIN subs \cup {Len(subs) + 1}
      /\ subs'[Len(subs) + 1] = row
      /\ \A m \in DOMAIN subs : subs'[m] = subs[m]
  BY <1>1, <1>2, RowAdded DEF IInv, Tables
<1>4. OneActivePerSeat'
  BY <1>1, <1>3 DEF IInv, OneActivePerSeat
<1>5. SubsStep
  BY <1>1, <1>3, <1>4 DEF SubsStep
<1>6. PaymentsStep /\ ChargesStep /\ ThreadStep
  BY PaymentsKept, ChargesKept, ThreadEnds DEF InsertSub, IInv, Tables
<1> QED
  BY <1>5, <1>6, StepsKeep

LEMMA PayKeeps == ASSUME IInv, NEW r \in Threads, Pay(r) PROVE IInv'
<1>1. PICK n \in DOMAIN subs :
        payments' = Append(payments, [sub |-> n, status |-> "pending", over |-> FALSE])
  BY DEF Pay
<1> DEFINE row == [sub |-> n, status |-> "pending", over |-> FALSE]
<1>2. row \in Payment /\ row.sub = n /\ row.status = "pending"
  <2>1. n \in Nat
    BY DEF IInv, Tables
  <2> QED
    BY <2>1 DEF Payment, PaymentStatus
<1> HIDE DEF row
<1>3. /\ payments' \in Seq(Payment)
      /\ DOMAIN payments' = DOMAIN payments \cup {Len(payments) + 1}
      /\ payments'[Len(payments) + 1] = row
      /\ \A m \in DOMAIN payments : payments'[m] = payments[m]
  BY <1>1, <1>2, RowAdded DEF IInv, Tables, row
<1>4. members' = members /\ members \subseteq Seats
  BY DEF Pay, IInv, Tables
<1>5. PaymentsStep
  BY <1>2, <1>3, <1>4 DEF PaymentsStep, IInv, ForeignKeys, ApprovedIsMember
<1>6. SubsStep /\ ChargesStep /\ ThreadStep
  BY SubsKept, ChargesKept, ThreadsKept DEF Pay
<1> QED
  BY <1>5, <1>6, StepsKeep

LEMMA OpenReviewKeeps == ASSUME IInv, NEW r \in Threads, OpenReview(r) PROVE IInv'
<1>1. PICK n \in DOMAIN payments, decision \in {"approve", "reject"}, scoped \in BOOLEAN :
        Begin(r, decision, [op |-> decision, payment |-> n],
              [payment |-> payments[n].status,
               sub |-> IF scoped THEN subs[payments[n].sub].status ELSE "unread"])
  BY DEF OpenReview
<1>2. [payment |-> payments[n].status,
       sub |-> IF scoped THEN subs[payments[n].sub].status ELSE "unread"] \in Held
  BY StatusHeld DEF Held
<1> QED
  BY <1>1, <1>2, ThreadBegins

\* A handler that ends with nothing written.
LEMMA GivingUpKeeps ==
  ASSUME IInv, NEW r \in Threads, End(r), UNCHANGED data PROVE IInv'
BY SubsKept, PaymentsKept, ChargesKept, ThreadEnds, StepsKeep DEF data, IInv, Tables

LEMMA ApproveKeeps == ASSUME IInv, NEW r \in Threads, Approve(r) PROVE IInv'
<1> DEFINE p == job[r].payment
           n == payments[p].sub
           row == Closed(payments[p], "approved")
<1>1. p \in DOMAIN payments /\ n \in DOMAIN subs /\ subs[n].seat \in Seats
  BY StatusHeld DEF IInv, Handlers, JobFits, Approve
<1>2. row \in Payment /\ row.sub = n /\ row.status = "approved"
  <2>1. payments[p] \in Payment
    BY <1>1 DEF IInv, Tables
  <2> QED
    BY <2>1, ClosedPayment DEF PaymentStatus
<1>3. /\ ~ Conflict(n, Seen(r, n))
      /\ payments' = [payments EXCEPT ![p] = row]
      /\ subs' = [subs EXCEPT ![n] = Activated(n, Seen(r, n))]
      /\ members' = members \cup {subs[n].seat}
      /\ End(r)
      /\ UNCHANGED <<charges, processed, rows>>
  BY DEF Approve
<1> HIDE DEF p, n, row
<1>4. SubsStep
  <2>1. p \in DOMAIN payments' /\ payments'[p] = row
    BY <1>1, <1>2, <1>3, RowSet DEF IInv, Tables
  <2>2. WillBePaid(n)
    BY <1>2, <2>1 DEF WillBePaid, n
  <2> QED
    BY <1>1, <1>3, <2>2, SubActivated
<1>5. members \subseteq members' /\ members' \subseteq Seats
  BY <1>1, <1>3 DEF IInv, Tables
<1>6. PaymentsStep
  BY <1>1, <1>2, <1>3, <1>5, PaymentReplaced DEF n
<1>7. ChargesStep /\ ThreadStep
  BY <1>3, ChargesKept, ThreadEnds
<1> QED
  BY <1>4, <1>6, <1>7, StepsKeep

LEMMA RejectKeeps == ASSUME IInv, NEW r \in Threads, Reject(r) PROVE IInv'
<1> DEFINE p == job[r].payment
           n == payments[p].sub
           row == Closed(payments[p], "rejected")
<1>1. p \in DOMAIN payments /\ n \in DOMAIN subs
  BY StatusHeld DEF IInv, Handlers, JobFits, Reject
<1>2. row \in Payment /\ row.sub = n /\ row.status = "rejected"
  <2>1. payments[p] \in Payment
    BY <1>1 DEF IInv, Tables
  <2> QED
    BY <2>1, ClosedPayment DEF PaymentStatus
<1>3. /\ payments' = [payments EXCEPT ![p] = row]
      /\ subs' = [subs EXCEPT ![n] = Closed(subs[n], "cancelled")] \/ subs' = subs
      /\ members' = members
      /\ End(r)
      /\ UNCHANGED <<charges, processed, rows>>
  BY DEF Reject
<1> HIDE DEF p, n, row
<1>4. SubsStep
  BY <1>1, <1>3, SubsKept, SubClosed DEF SubStatus
<1>5. PaymentsStep
  BY <1>1, <1>2, <1>3, PaymentReplaced DEF n, IInv, Tables
<1>6. ChargesStep /\ ThreadStep
  BY <1>3, ChargesKept, ThreadEnds
<1> QED
  BY <1>4, <1>5, <1>6, StepsKeep

LEMMA OpenPayPageKeeps == ASSUME IInv, NEW r \in Threads, OpenPayPage(r) PROVE IInv'
<1>1. PICK n \in DOMAIN subs :
        Begin(r, "expire", [op |-> "expire", sub |-> n], [Nothing EXCEPT !.sub = "pending"])
  BY DEF OpenPayPage
<1>2. [Nothing EXCEPT !.sub = "pending"] \in Held
  BY DEF Nothing, Held, SubStatus, PaymentStatus
<1> QED
  BY <1>1, <1>2, ThreadBegins

LEMMA ExpireOneKeeps == ASSUME IInv, NEW r \in Threads, ExpireOne(r) PROVE IInv'
<1> DEFINE n == job[r].sub
<1>1. n \in DOMAIN subs
  BY DEF IInv, Handlers, JobFits, ExpireOne
<1>2. subs' = [subs EXCEPT ![n] = Closed(subs[n], "expired")]
  BY DEF ExpireOne
<1> HIDE DEF n
<1>3. SubsStep
  BY <1>1, <1>2, SubClosed DEF SubStatus
<1>4. PaymentsStep /\ ChargesStep /\ ThreadStep
  BY PaymentsKept, ChargesKept, ThreadEnds DEF ExpireOne, IInv, Tables
<1> QED
  BY <1>3, <1>4, StepsKeep

LEMMA DeliverKeeps == ASSUME IInv, NEW r \in Threads, Deliver(r) PROVE IInv'
<1>1. PICK c \in DOMAIN charges : Begin(r, "handle", [op |-> "handle", charge |-> c], Nothing)
  BY DEF Deliver
<1> QED
  BY <1>1, ThreadBegins, StatusHeld

LEMMA ChargeKeeps == ASSUME IInv, Charge PROVE IInv'
<1>1. PICK n \in DOMAIN subs, g \in Gateways, k \in Kinds :
        charges' = Append(charges, [sub |-> n, via |-> g, kind |-> k, taken |-> 0, told |-> FALSE])
  BY DEF Charge
<1> DEFINE row == [sub |-> n, via |-> g, kind |-> k, taken |-> 0, told |-> FALSE]
           new == Len(charges) + 1
<1>2. row \in Event /\ row.sub = n /\ row.taken = 0
  <2>1. n \in Nat
    BY DEF IInv, Tables
  <2> QED
    BY <2>1 DEF Event
<1> HIDE DEF row
<1>3. /\ charges' \in Seq(Event)
      /\ DOMAIN charges' = DOMAIN charges \cup {new}
      /\ charges'[new] = row
      /\ \A m \in DOMAIN charges : charges'[m] = charges[m]
      /\ new \notin DOMAIN charges
  BY <1>1, <1>2, RowAdded DEF IInv, Tables, row
<1>4. processed' = processed /\ rows' = rows
  BY DEF Charge
<1>5. new \notin processed /\ \A x \in rows : x.charge # new
  BY <1>3 DEF IInv, Tables, ForeignKeys
<1>6. Ledger'
  BY <1>2, <1>3, <1>4, <1>5 DEF Ledger, IInv
<1>7. ChargesStep
  BY <1>2, <1>3, <1>4, <1>6 DEF ChargesStep, IInv, Tables, ForeignKeys
<1>8. SubsStep /\ PaymentsStep /\ ThreadStep
  BY SubsKept, PaymentsKept, ThreadsKept DEF Charge, IInv, Tables
<1> QED
  BY <1>7, <1>8, StepsKeep

LEMMA EventTyped ==
  ASSUME NEW x \in Event, NEW k \in Nat
  PROVE  LET row == [x EXCEPT !.taken = k, !.told = TRUE]
         IN row \in Event /\ row.taken = k /\ row.sub = x.sub /\ row.kind = x.kind
BY DEF Event

\* An event that takes effect, or is only answered.
LEMMA EventTaken ==
  ASSUME IInv, NEW c \in DOMAIN charges, NewEvent(c), Taken(c), processed' = processed \cup {c},
         IF charges[c].kind = "exact"
         THEN rows' = WithRow(c, charges[c].sub) ELSE rows' = rows
  PROVE  ChargesStep
<1> DEFINE row == [charges[c] EXCEPT !.taken = 1, !.told = TRUE]
           credit == [sub |-> charges[c].sub, via |-> charges[c].via, charge |-> c]
<1>1. charges[c] \in Event /\ charges[c].sub \in DOMAIN subs /\ charges[c].taken = 0
  BY DEF IInv, Tables, ForeignKeys, Ledger, NewEvent
<1>2. charges' = [charges EXCEPT ![c] = row]
  <2>1. charges[c].taken + 1 = 1
    BY <1>1
  <2> QED
    BY <2>1, Zenon DEF Taken
<1>3. /\ row \in Event /\ row.taken = 1
      /\ row.sub = charges[c].sub /\ row.kind = charges[c].kind
  BY <1>1, EventTyped
<1> HIDE DEF row
<1>4. /\ charges' \in Seq(Event) /\ DOMAIN charges' = DOMAIN charges /\ charges'[c] = row
      /\ \A m \in DOMAIN charges \ {c} : charges'[m] = charges[m]
  BY <1>2, <1>3, RowSet DEF IInv, Tables
<1>5. c \notin processed
  BY DEF NewEvent
<1>6. credit \in Row /\ credit.sub \in DOMAIN subs /\ credit.charge = c
  <2>1. c \in Nat
    BY DEF IInv, Tables
  <2> QED
    BY <1>1, <2>1 DEF Row, Event
<1>7. rows' = IF charges[c].kind = "exact" THEN rows \cup {credit} ELSE rows
  BY DEF WithRow
<1> HIDE DEF credit
<1>8. Ledger'
  BY <1>3, <1>4, <1>5, <1>6, <1>7 DEF Ledger, IInv
<1> QED
  BY <1>1, <1>3, <1>4, <1>6, <1>7, <1>8 DEF ChargesStep, IInv, Tables, ForeignKeys

LEMMA EventTold ==
  ASSUME IInv, NEW c \in DOMAIN charges, Told(c), UNCHANGED <<processed, rows>>
  PROVE  ChargesStep
<1> DEFINE row == [charges[c] EXCEPT !.told = TRUE]
<1>1. charges[c] \in Event /\ charges' = [charges EXCEPT ![c] = row]
  BY DEF IInv, Tables, Told
<1>2. /\ row \in Event /\ row.taken = charges[c].taken
      /\ row.sub = charges[c].sub /\ row.kind = charges[c].kind
  BY <1>1 DEF Event
<1> HIDE DEF row
<1>3. /\ charges' \in Seq(Event) /\ DOMAIN charges' = DOMAIN charges /\ charges'[c] = row
      /\ \A m \in DOMAIN charges \ {c} : charges'[m] = charges[m]
  BY <1>1, <1>2, RowSet DEF IInv, Tables
<1>4. Ledger'
  BY <1>2, <1>3 DEF Ledger, IInv
<1> QED
  BY <1>2, <1>3, <1>4 DEF ChargesStep, IInv, Tables, ForeignKeys

LEMMA HandlesCharge ==
  ASSUME IInv, NEW r \in Threads, pc[r] = "handle"
  PROVE  /\ job[r].charge \in DOMAIN charges
         /\ charges[job[r].charge].sub \in DOMAIN subs
BY DEF IInv, Handlers, JobFits, ForeignKeys

LEMMA HandleExactKeeps == ASSUME IInv, NEW r \in Threads, HandleExact(r) PROVE IInv'
<1> DEFINE c == job[r].charge
           n == charges[c].sub
<1>1. c \in DOMAIN charges /\ n \in DOMAIN subs
  BY HandlesCharge DEF HandleExact
<1>2. /\ charges[c].kind = "exact" /\ NewEvent(c)
      /\ \/ /\ Postable(c, n)
            /\ subs' = [subs EXCEPT ![n] = Activated(n, subs[n].status)]
            /\ rows' = WithRow(c, n)
            /\ processed' = processed \cup {c}
            /\ Taken(c)
         \/ /\ Told(c)
            /\ UNCHANGED <<subs, rows, processed>>
      /\ End(r)
      /\ UNCHANGED <<payments, members>>
  BY DEF HandleExact
<1> HIDE DEF c
<1>3. SubsStep
  <2>1. ASSUME Postable(c, n), subs' = [subs EXCEPT ![n] = Activated(n, subs[n].status)],
               rows' = WithRow(c, n)
        PROVE  SubsStep
    <3>1. WillBePaid(n)
      <4> DEFINE credit == [sub |-> n, via |-> charges[c].via, charge |-> c]
      <4>1. credit \in rows' /\ credit.sub = n
        BY <2>1 DEF WithRow
      <4> QED
        BY <4>1 DEF WillBePaid
    <3> QED
      BY <1>1, <2>1, <3>1, SubActivated DEF Postable
  <2> QED
    BY <1>2, <2>1, SubsKept
<1>4. ChargesStep
  BY <1>1, <1>2, EventTaken, EventTold
<1>5. PaymentsStep /\ ThreadStep
  BY <1>2, PaymentsKept, ThreadEnds DEF IInv, Tables
<1> QED
  BY <1>3, <1>4, <1>5, StepsKeep

LEMMA HandleOffKeeps == ASSUME IInv, NEW r \in Threads, HandleOff(r) PROVE IInv'
<1> DEFINE c == job[r].charge
           n == charges[c].sub
<1>1. c \in DOMAIN charges /\ n \in DOMAIN subs
  BY HandlesCharge DEF HandleOff
<1>2. /\ charges[c].kind = "off" /\ NewEvent(c)
      /\ subs' = [subs EXCEPT ![n] = Closed(subs[n], "pending_review")]
      /\ processed' = processed \cup {c}
      /\ Taken(c)
      /\ End(r)
      /\ UNCHANGED <<payments, rows, members>>
  BY DEF HandleOff
<1> HIDE DEF c, n
<1>3. SubsStep
  BY <1>1, <1>2, SubClosed DEF SubStatus
<1>4. ChargesStep
  BY <1>1, <1>2, EventTaken DEF n
<1>5. PaymentsStep /\ ThreadStep
  BY <1>2, PaymentsKept, ThreadEnds DEF IInv, Tables
<1> QED
  BY <1>3, <1>4, <1>5, StepsKeep

LEMMA HandleUnreadableKeeps ==
  ASSUME IInv, NEW r \in Threads, HandleUnreadable(r) PROVE IInv'
<1>1. ChargesStep
  BY HandlesCharge, EventTold DEF HandleUnreadable
<1>2. SubsStep /\ PaymentsStep /\ ThreadStep
  BY SubsKept, PaymentsKept, ThreadEnds DEF HandleUnreadable, IInv, Tables
<1> QED
  BY <1>1, <1>2, StepsKeep

\* The jobs: one UPDATE over a table.
LEMMA ExpireSubscriptionsKeeps ==
  ASSUME IInv, ExpireSubscriptions \/ SweepPending PROVE IInv'
<1>1. /\ subs' = [n \in DOMAIN subs |-> subs'[n]]
      /\ \A n \in DOMAIN subs : subs'[n] \in {subs[n], Closed(subs[n], "expired")}
  BY DEF ExpireSubscriptions, SweepPending
<1>2. SubsStep
  BY <1>1, SubsExpired
<1>3. PaymentsStep /\ ChargesStep /\ ThreadStep
  BY PaymentsKept, ChargesKept, ThreadsKept DEF ExpireSubscriptions, SweepPending, IInv, Tables
<1> QED
  BY <1>2, <1>3, StepsKeep

LEMMA ExpirePaymentsKeeps == ASSUME IInv, ExpirePayments PROVE IInv'
<1>1. /\ payments' = [p \in DOMAIN payments |-> payments'[p]]
      /\ \A p \in DOMAIN payments :
           \/ payments'[p] = payments[p]
           \/ payments[p].status = "pending" /\ payments'[p] = Closed(payments[p], "expired")
  BY DEF ExpirePayments
<1>2. \A p \in DOMAIN payments :
        /\ payments'[p] \in Payment /\ payments'[p].sub = payments[p].sub
        /\ payments'[p].status = "approved" => payments[p].status = "approved"
        /\ payments[p].status # "pending" => payments'[p] = payments[p]
  <2> TAKE p \in DOMAIN payments
  <2>1. payments[p] \in Payment
    BY DEF IInv, Tables
  <2> QED
    BY <1>1, <2>1, ClosedPayment DEF PaymentStatus
<1>3. payments' \in Seq(Payment) /\ DOMAIN payments' = DOMAIN payments
  BY <1>1, <1>2, RowsMapped DEF IInv, Tables
<1>4. members' = members
  BY DEF ExpirePayments
<1>5. PaymentsStep
  BY <1>2, <1>3, <1>4 DEF PaymentsStep, IInv, Tables, ForeignKeys, ApprovedIsMember
<1>6. SubsStep /\ ChargesStep /\ ThreadStep
  BY SubsKept, ChargesKept, ThreadsKept DEF ExpirePayments
<1> QED
  BY <1>5, <1>6, StepsKeep

LEMMA TimeKeeps == ASSUME IInv, Time PROVE IInv'
<1>1. ASSUME NEW n \in DOMAIN subs, Lapse(n) \/ AgeSub(n)  PROVE IInv'
  <2>1. SubsStep
    BY <1>1, SubAged DEF Lapse, AgeSub
  <2>2. PaymentsStep /\ ChargesStep /\ ThreadStep
    BY <1>1, PaymentsKept, ChargesKept, ThreadsKept DEF Lapse, AgeSub, IInv, Tables
  <2> QED
    BY <2>1, <2>2, StepsKeep
<1>2. ASSUME NEW p \in DOMAIN payments, AgePayment(p)  PROVE IInv'
  <2> DEFINE row == [payments[p] EXCEPT !.over = TRUE]
  <2>1. /\ payments[p] \in Payment /\ payments' = [payments EXCEPT ![p] = row]
        /\ payments[p].status = "pending" /\ members' = members
    BY <1>2 DEF AgePayment, IInv, Tables
  <2>2. row \in Payment /\ row.sub = payments[p].sub /\ row.status = payments[p].status
    BY <2>1 DEF Payment
  <2> HIDE DEF row
  <2>3. PaymentsStep
    BY <2>1, <2>2, PaymentReplaced DEF IInv, Tables
  <2>4. SubsStep /\ ChargesStep /\ ThreadStep
    BY <1>2, SubsKept, ChargesKept, ThreadsKept DEF AgePayment
  <2> QED
    BY <2>3, <2>4, StepsKeep
<1> QED
  BY <1>1, <1>2 DEF Time

-----------------------------------------------------------------------------
LEMMA NextKeeps == ASSUME IInv, [Next]_vars PROVE IInv'
<1>1. ASSUME NEW r \in Threads,
             \/ Subscribe(r) \/ InsertSub(r) \/ Pay(r)
             \/ OpenReview(r) \/ Reviewed(r) \/ Approve(r) \/ ApproveFails(r) \/ Reject(r)
             \/ OpenPayPage(r) \/ ExpireOne(r)
             \/ Deliver(r)
             \/ HandleExact(r) \/ HandleOff(r) \/ HandleUnreadable(r) \/ Abort(r)
      PROVE  IInv'
  <2>1. ASSUME Reviewed(r) \/ ApproveFails(r) \/ Abort(r)  PROVE IInv'
    BY <2>1, GivingUpKeeps DEF Reviewed, ApproveFails, Abort
  <2> QED
    BY <1>1, <2>1, SubscribeKeeps, InsertSubKeeps, PayKeeps, OpenReviewKeeps, ApproveKeeps,
       RejectKeeps, OpenPayPageKeeps, ExpireOneKeeps, DeliverKeeps, HandleExactKeeps,
       HandleOffKeeps, HandleUnreadableKeeps
<1>2. CASE UNCHANGED vars
  BY <1>2, SubsKept, PaymentsKept, ChargesKept, ThreadsKept, StepsKeep DEF vars, IInv, Tables
<1> QED
  BY <1>1, <1>2, ChargeKeeps, ExpireSubscriptionsKeeps, ExpirePaymentsKeeps, TimeKeeps DEF Next

\* The invariant holds in every reachable state of subscriptions, reviews, webhooks
\* and jobs.
THEOREM Invariance == Spec => []IInv
<1>1. Init => IInv
  BY InitInvariant
<1>2. IInv /\ [Next]_vars => IInv'
  BY NextKeeps
<1> QED
  BY <1>1, <1>2, PTL DEF Spec

\* A table whose rows are all in a smaller set.
LEMMA Narrowed ==
  ASSUME NEW S, NEW T, NEW table \in Seq(S), \A m \in DOMAIN table : table[m] \in T
  PROVE  table \in Seq(T)
OBVIOUS

\* The tables keep their types and their foreign keys.
THEOREM TypeCorrect == Spec => []TypeOK
<1>1. IInv => TypeOK
  <2> SUFFICES ASSUME IInv PROVE TypeOK
    OBVIOUS
  <2>1. subs \in Seq([seat : Seats, status : SubStatus, over : BOOLEAN])
    BY DEF IInv, Tables, Sub
  <2>2. payments \in Seq([sub : DOMAIN subs, status : PaymentStatus, over : BOOLEAN])
    <3>1. \A p \in DOMAIN payments :
            payments[p] \in [sub : DOMAIN subs, status : PaymentStatus, over : BOOLEAN]
      <4> TAKE p \in DOMAIN payments
      <4>1. payments[p] \in Payment /\ payments[p].sub \in DOMAIN subs
        BY DEF IInv, Tables, ForeignKeys
      <4> QED
        BY <4>1 DEF Payment
    <3> QED
      BY <3>1, Narrowed DEF IInv, Tables
  <2>3. charges \in Seq([sub : DOMAIN subs, via : Gateways, kind : Kinds, taken : Nat, told : BOOLEAN])
    <3>1. \A c \in DOMAIN charges :
            charges[c] \in [sub : DOMAIN subs, via : Gateways, kind : Kinds, taken : Nat, told : BOOLEAN]
      <4> TAKE c \in DOMAIN charges
      <4>1. charges[c] \in Event /\ charges[c].sub \in DOMAIN subs
        BY DEF IInv, Tables, ForeignKeys
      <4> QED
        BY <4>1 DEF Event
    <3> QED
      BY <3>1, Narrowed DEF IInv, Tables
  <2>4. rows \subseteq [sub : DOMAIN subs, via : Gateways, charge : DOMAIN charges]
    BY DEF IInv, Tables, ForeignKeys, Row
  <2> QED
    BY <2>1, <2>2, <2>3, <2>4 DEF TypeOK, IInv, Tables, Handlers, Held
<1> QED
  BY <1>1, Invariance, PTL

\* Whatever overlaps, a seat has one running subscription at most (the partial index
\* behind approve_payment and the webhook's activation).
THEOREM OneActive == Spec => []OneActivePerSeat
BY Invariance, PTL DEF IInv

\* No subscription runs without a decided payment or a ledger row, in whatever order
\* reviews, expiries and webhooks overwrite each other (_activate has two callers).
THEOREM ActivePaid == Spec => []ActiveWasPaid
BY Invariance, PTL DEF IInv

\* An approved payment leaves its student in the class (approve_payment activates and
\* enrols in the commit that approves).
THEOREM ApprovalEnrols == Spec => []ApprovedIsMember
BY Invariance, PTL DEF IInv

\* An event takes effect once, however often and however simultaneously the gateway
\* delivers it (the insert into processed_events).
THEOREM EventCountsOnce == Spec => []EventOnce
<1>1. IInv => EventOnce
  BY DEF IInv, Ledger, EventOnce
<1> QED
  BY <1>1, Invariance, PTL

\* An activation by a gateway and its ledger row exist together or not at all
\* (_create_ledger_entry shares the commit).
THEOREM ActivationHasItsRow == Spec => []RowPerActivation
<1>1. IInv => RowPerActivation
  BY DEF IInv, Ledger, RowPerActivation
<1> QED
  BY <1>1, Invariance, PTL
=============================================================================
