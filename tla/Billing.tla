------------------------------ MODULE Billing ------------------------------
(***************************************************************************)
(* Class subscriptions and the two ways to pay for one: a manual payment   *)
(* that an administrator reviews (app/services/billing.py), and a gateway  *)
(* webhook (app/services/payments.py).  Cron jobs and page views expire    *)
(* what is over.  A handler reads in one step and commits in another, with *)
(* every other handler in between: a row lock only delays the commit, and  *)
(* what the commit tests is the object the session loaded before the lock. *)
(***************************************************************************)
EXTENDS Integers, FiniteSets, SequencesExt

CONSTANTS
  Threads,      \* the handlers that run at once
  Seats,        \* a student and a class
  Gateways,     \* payment gateways
  Kinds,        \* what a webhook reports: exact, off or unreadable payments
  MaxSubs, MaxPayments, MaxCharges   \* bounds of the model

ASSUME BillingAssumption ==
  /\ IsFiniteSet(Threads)
  /\ Kinds \subseteq {"exact", "off", "unreadable"}
  /\ {MaxSubs, MaxPayments, MaxCharges} \subseteq Nat

VARIABLES
  subs,       \* subscriptions: row n is subs[n]
  payments,   \* manual_payments
  charges,    \* what the gateways collected, and what became of the event
  processed,  \* processed_events
  rows,       \* subscription_credit rows of wallet_transactions
  members,    \* seats with an active class membership
  pc, job,
  session     \* status of the payment and of the subscription a handler holds

vars == <<subs, payments, charges, processed, rows, members, pc, job, session>>
data == <<subs, payments, charges, processed, rows, members>>

-----------------------------------------------------------------------------
SubStatus == {"pending", "active", "expired", "cancelled", "pending_review"}
PaymentStatus == {"pending", "approved", "rejected", "expired"}

NoJob == [op |-> "none"]
Nothing == [payment |-> "unread", sub |-> "unread"]

\* What a handler sees of a subscription: the object it holds, or a fresh read.
Seen(r, n) == IF session[r].sub = "unread" THEN subs[n].status ELSE session[r].sub

\* A status that ends a row's wait: over, its deadline passed, is said of rows that
\* wait or run.
Closed(row, status) == [row EXCEPT !.status = status, !.over = FALSE]

\* Mutant: the index is the old one over user, class, plan and price.
NoConflict(n, seen) == FALSE

\* The partial unique index lets one row of a seat be active.
Conflict(n, seen) ==
  /\ seen # "active"
  /\ \E m \in DOMAIN subs \ {n} : subs[m].seat = subs[n].seat /\ subs[m].status = "active"

\* Mutant: the status copied to the subscription is the payment's.
ActivatedAsApproved(n, seen) == [subs[n] EXCEPT !.over = FALSE, !.status = "approved"]

\* _activate: a new period, and a status written only when it changes the object.
Activated(n, seen) ==
  [subs[n] EXCEPT !.over = FALSE, !.status = IF seen = "active" THEN @ ELSE "active"]

-----------------------------------------------------------------------------
Init ==
  /\ subs = << >> /\ payments = << >> /\ charges = << >>
  /\ processed = {} /\ rows = {} /\ members = {}
  /\ pc = [r \in Threads |-> "idle"]
  /\ job = [r \in Threads |-> NoJob]
  /\ session = [r \in Threads |-> Nothing]

\* A free thread reads what it needs and holds it until its commit.
Begin(r, place, task, held) ==
  /\ pc[r] = "idle"
  /\ pc' = [pc EXCEPT ![r] = place]
  /\ job' = [job EXCEPT ![r] = task]
  /\ session' = [session EXCEPT ![r] = held]
  /\ UNCHANGED data

End(r) ==
  /\ pc' = [pc EXCEPT ![r] = "idle"]
  /\ job' = [job EXCEPT ![r] = NoJob]
  /\ session' = [session EXCEPT ![r] = Nothing]

\* Mutant: a new subscription runs at once, payment to follow.
BornActive(s) == [seat |-> s, status |-> "active", over |-> FALSE]

NewSub(s) == [seat |-> s, status |-> "pending", over |-> FALSE]

\* subscribe: no active row of the seat, so nothing is locked.
Subscribe(r) ==
  \E s \in Seats :
    /\ ~ \E n \in DOMAIN subs : subs[n].seat = s /\ subs[n].status = "active"
    /\ Begin(r, "insert", [op |-> "subscribe", seat |-> s], Nothing)

InsertSub(r) ==
  /\ pc[r] = "insert"
  /\ Len(subs) < MaxSubs
  /\ subs' = Append(subs, NewSub(job[r].seat))
  /\ End(r)
  /\ UNCHANGED <<payments, charges, processed, rows, members>>

\* record_manual_payment asks nothing of the subscription's status.
Pay(r) ==
  /\ pc[r] = "idle"
  /\ Len(payments) < MaxPayments
  /\ \E n \in DOMAIN subs :
       payments' = Append(payments, [sub |-> n, status |-> "pending", over |-> FALSE])
  /\ UNCHANGED <<subs, charges, processed, rows, members, pc, job, session>>

\* The review routes load the payment; the school check of a school_admin loads
\* its subscription too, a super_admin's does not.
OpenReview(r) ==
  \E n \in DOMAIN payments, decision \in {"approve", "reject"}, scoped \in BOOLEAN :
    Begin(r, decision, [op |-> decision, payment |-> n],
          [payment |-> payments[n].status,
           sub |-> IF scoped THEN subs[payments[n].sub].status ELSE "unread"])

\* A TxError: the payment was reviewed when it was loaded.
Reviewed(r) ==
  /\ pc[r] \in {"approve", "reject"}
  /\ session[r].payment # "pending"
  /\ End(r)
  /\ UNCHANGED data

\* Mutant: the membership is left to the student.
ApproveWithoutMember(r) ==
  /\ pc[r] = "approve"
  /\ session[r].payment = "pending"
  /\ LET p == job[r].payment
         n == payments[p].sub
     IN /\ ~ Conflict(n, Seen(r, n))
        /\ payments' = [payments EXCEPT ![p] = Closed(@, "approved")]
        /\ subs' = [subs EXCEPT ![n] = Activated(n, Seen(r, n))]
  /\ End(r)
  /\ UNCHANGED <<charges, processed, rows, members>>

\* approve_payment: the decision, the period and the membership in one commit.
Approve(r) ==
  /\ pc[r] = "approve"
  /\ session[r].payment = "pending"
  /\ LET p == job[r].payment
         n == payments[p].sub
     IN /\ ~ Conflict(n, Seen(r, n))
        /\ payments' = [payments EXCEPT ![p] = Closed(@, "approved")]
        /\ subs' = [subs EXCEPT ![n] = Activated(n, Seen(r, n))]
        /\ members' = members \cup {subs[n].seat}
  /\ End(r)
  /\ UNCHANGED <<charges, processed, rows>>

\* The index refuses the activation, and the whole approval is rolled back.
ApproveFails(r) ==
  /\ pc[r] = "approve"
  /\ session[r].payment = "pending"
  /\ LET n == payments[job[r].payment].sub IN Conflict(n, Seen(r, n))
  /\ End(r)
  /\ UNCHANGED data

Reject(r) ==
  /\ pc[r] = "reject"
  /\ session[r].payment = "pending"
  /\ LET p == job[r].payment
         n == payments[p].sub
     IN /\ payments' = [payments EXCEPT ![p] = Closed(@, "rejected")]
        /\ subs' = IF Seen(r, n) = "pending"
                   THEN [subs EXCEPT ![n] = Closed(@, "cancelled")]
                   ELSE subs
  /\ End(r)
  /\ UNCHANGED <<charges, processed, rows, members>>

\* can_pay_class loads a stale pending subscription and expires it under a lock,
\* still trusting the status it loaded.
OpenPayPage(r) ==
  \E n \in DOMAIN subs :
    /\ subs[n].status = "pending" /\ subs[n].over
    /\ Begin(r, "expire", [op |-> "expire", sub |-> n], [Nothing EXCEPT !.sub = "pending"])

ExpireOne(r) ==
  /\ pc[r] = "expire"
  /\ subs' = [subs EXCEPT ![job[r].sub] = Closed(@, "expired")]
  /\ End(r)
  /\ UNCHANGED <<payments, charges, processed, rows, members>>

-----------------------------------------------------------------------------
\* The customer pays at the gateway; create_payment_intent checks the owner and
\* the price, not the status.
Charge ==
  /\ Len(charges) < MaxCharges
  /\ \E n \in DOMAIN subs, g \in Gateways, k \in Kinds :
       charges' = Append(charges, [sub |-> n, via |-> g, kind |-> k, taken |-> 0, told |-> FALSE])
  /\ UNCHANGED <<subs, payments, processed, rows, members, pc, job, session>>

\* verify_webhook acknowledges an event already processed; any other is handled,
\* though another delivery of it may be under way.
Deliver(r) ==
  \E c \in DOMAIN charges \ processed :
    Begin(r, "handle", [op |-> "handle", charge |-> c], Nothing)

Taken(c) ==
  charges' = [charges EXCEPT ![c] = [charges[c] EXCEPT !.taken = charges[c].taken + 1, !.told = TRUE]]
Told(c) == charges' = [charges EXCEPT ![c].told = TRUE]

\* Mutant: the event id is compared in memory and no unique index guards it.
Fresh(c) == TRUE

\* The insert of the event waits for another delivery of it, and fails if that
\* one committed.
NewEvent(c) == c \notin processed

\* _create_ledger_entry commits event, activation and row together: the row's key
\* names subscription, amount and gateway, and the index allows one active row.
Postable(c, n) ==
  /\ ~ Conflict(n, subs[n].status)
  /\ ~ \E row \in rows : row.sub = n /\ row.via = charges[c].via

WithRow(c, n) == rows \cup {[sub |-> n, via |-> charges[c].via, charge |-> c]}

\* Mutant: the event is committed before what it stands for, which may then fail.
HandleExactEventFirst(r) ==
  /\ pc[r] = "handle"
  /\ LET c == job[r].charge
         n == charges[c].sub
     IN /\ charges[c].kind = "exact" /\ NewEvent(c)
        /\ IF Postable(c, n)
           THEN subs' = [subs EXCEPT ![n] = Activated(n, subs[n].status)] /\ rows' = WithRow(c, n)
           ELSE UNCHANGED <<subs, rows>>
        /\ processed' = processed \cup {c}
        /\ Taken(c)
  /\ End(r)
  /\ UNCHANGED <<payments, members>>

HandleExact(r) ==
  /\ pc[r] = "handle"
  /\ LET c == job[r].charge
         n == charges[c].sub
     IN /\ charges[c].kind = "exact" /\ NewEvent(c)
        /\ \/ /\ Postable(c, n)
              /\ subs' = [subs EXCEPT ![n] = Activated(n, subs[n].status)]
              /\ rows' = WithRow(c, n)
              /\ processed' = processed \cup {c}
              /\ Taken(c)
           \/ /\ ~ Postable(c, n)      \* rolled back, logged, and answered as a success
              /\ Told(c)
              /\ UNCHANGED <<subs, rows, processed>>
  /\ End(r)
  /\ UNCHANGED <<payments, members>>

\* _flag_for_review: the amount does not match or looks suspicious.
HandleOff(r) ==
  /\ pc[r] = "handle"
  /\ LET c == job[r].charge
     IN /\ charges[c].kind = "off" /\ NewEvent(c)
        /\ subs' = [subs EXCEPT ![charges[c].sub] = Closed(@, "pending_review")]
        /\ processed' = processed \cup {c}
        /\ Taken(c)
  /\ End(r)
  /\ UNCHANGED <<payments, rows, members>>

\* No subscription or amount in the payload: nothing is committed.
HandleUnreadable(r) ==
  /\ pc[r] = "handle"
  /\ charges[job[r].charge].kind = "unreadable"
  /\ Told(job[r].charge)
  /\ End(r)
  /\ UNCHANGED <<subs, payments, processed, rows, members>>

\* An IntegrityError of the event's insert, a lost connection, a killed worker.
Abort(r) ==
  /\ pc[r] # "idle"
  /\ End(r)
  /\ UNCHANGED data

-----------------------------------------------------------------------------
\* Mutant: the job stops after the oldest subscription.
ExpireFirstOnly ==
  /\ \E n \in DOMAIN subs :
       /\ subs[n].status = "active" /\ subs[n].over /\ n = 1
       /\ subs' = [subs EXCEPT ![n] = Closed(@, "expired")]
  /\ UNCHANGED <<payments, charges, processed, rows, members, pc, job, session>>

\* The hourly job: one UPDATE of every active row past its end.
ExpireSubscriptions ==
  /\ \E n \in DOMAIN subs : subs[n].status = "active" /\ subs[n].over
  /\ subs' = [n \in DOMAIN subs |->
                IF subs[n].status = "active" /\ subs[n].over
                THEN Closed(subs[n], "expired") ELSE subs[n]]
  /\ UNCHANGED <<payments, charges, processed, rows, members, pc, job, session>>

\* Mutant: the job ends the approved payments instead of the pending ones.
ExpireNoPayments ==
  /\ \E p \in DOMAIN payments : payments[p].status = "approved" /\ payments[p].over
  /\ payments' = [p \in DOMAIN payments |->
                    IF payments[p].status = "approved" /\ payments[p].over
                    THEN Closed(payments[p], "expired") ELSE payments[p]]
  /\ UNCHANGED <<subs, charges, processed, rows, members, pc, job, session>>

\* The five-minute job: one UPDATE of every pending payment past its 24 hours.
ExpirePayments ==
  /\ \E p \in DOMAIN payments : payments[p].status = "pending" /\ payments[p].over
  /\ payments' = [p \in DOMAIN payments |->
                    IF payments[p].status = "pending" /\ payments[p].over
                    THEN Closed(payments[p], "expired") ELSE payments[p]]
  /\ UNCHANGED <<subs, charges, processed, rows, members, pc, job, session>>

\* expire_stale_pending_subscriptions, called by the access check of a page.
SweepPending ==
  /\ \E n \in DOMAIN subs : subs[n].status = "pending" /\ subs[n].over
  /\ subs' = [n \in DOMAIN subs |->
                IF subs[n].status = "pending" /\ subs[n].over
                THEN Closed(subs[n], "expired") ELSE subs[n]]
  /\ UNCHANGED <<payments, charges, processed, rows, members, pc, job, session>>

\* Time passes: a period ends, a pending row outlives its grace.
Lapse(n) ==
  /\ subs[n].status = "active" /\ ~ subs[n].over
  /\ subs' = [subs EXCEPT ![n].over = TRUE]
  /\ UNCHANGED <<payments, charges, processed, rows, members, pc, job, session>>

AgeSub(n) ==
  /\ subs[n].status = "pending" /\ ~ subs[n].over
  /\ subs' = [subs EXCEPT ![n].over = TRUE]
  /\ UNCHANGED <<payments, charges, processed, rows, members, pc, job, session>>

AgePayment(p) ==
  /\ p \in DOMAIN payments
  /\ payments[p].status = "pending" /\ ~ payments[p].over
  /\ payments' = [payments EXCEPT ![p].over = TRUE]
  /\ UNCHANGED <<subs, charges, processed, rows, members, pc, job, session>>

Time ==
  \/ \E n \in DOMAIN subs : Lapse(n) \/ AgeSub(n)
  \/ \E p \in DOMAIN payments : AgePayment(p)

Next ==
  \/ \E r \in Threads :
       \/ Subscribe(r) \/ InsertSub(r) \/ Pay(r)
       \/ OpenReview(r) \/ Reviewed(r) \/ Approve(r) \/ ApproveFails(r) \/ Reject(r)
       \/ OpenPayPage(r) \/ ExpireOne(r)
       \/ Deliver(r)
       \/ HandleExact(r) \/ HandleOff(r) \/ HandleUnreadable(r) \/ Abort(r)
  \/ Charge \/ ExpireSubscriptions \/ ExpirePayments \/ SweepPending \/ Time

Spec == Init /\ [][Next]_vars

\* The crontab runs both jobs for ever, and time does not stop.
Scheduled ==
  /\ WF_vars(ExpireSubscriptions)
  /\ WF_vars(ExpirePayments)
  /\ \A p \in 1..MaxPayments : WF_vars(AgePayment(p))

FairSpec == Spec /\ Scheduled

-----------------------------------------------------------------------------
TypeOK ==
  /\ subs \in Seq([seat : Seats, status : SubStatus, over : BOOLEAN])
  /\ payments \in Seq([sub : DOMAIN subs, status : PaymentStatus, over : BOOLEAN])
  /\ charges \in Seq([sub : DOMAIN subs, via : Gateways, kind : Kinds, taken : Nat, told : BOOLEAN])
  /\ processed \subseteq DOMAIN charges
  /\ rows \subseteq [sub : DOMAIN subs, via : Gateways, charge : DOMAIN charges]
  /\ members \subseteq Seats
  /\ pc \in [Threads -> {"idle", "insert", "approve", "reject", "expire", "handle"}]
  /\ session \in [Threads -> [payment : PaymentStatus \cup {"unread"},
                              sub : SubStatus \cup {"unread"}]]

\* A seat never has two running subscriptions, although nothing is locked when
\* there is none, approvals do not ask, and a webhook and a review may overlap.
OneActivePerSeat ==
  \A m, n \in DOMAIN subs :
    subs[m].status = "active" /\ subs[n].status = "active" /\ subs[m].seat = subs[n].seat => m = n

\* Only money starts a subscription: one that runs has a payment an administrator
\* decided or a ledger row of a gateway, in whatever order reviews, expiries and
\* webhooks overwrote each other.
ActiveWasPaid ==
  \A n \in DOMAIN subs : subs[n].status = "active" =>
    \/ \E p \in DOMAIN payments : payments[p].sub = n /\ payments[p].status \in {"approved", "rejected"}
    \/ \E row \in rows : row.sub = n

\* An approved payment leaves its student in the class: a failed activation takes
\* the approval with it.
ApprovedIsMember ==
  \A p \in DOMAIN payments :
    payments[p].status = "approved" => subs[payments[p].sub].seat \in members

\* An event delivered many times, even at once, takes effect once; and a gateway
\* activation and its ledger row exist together or not at all.
EventOnce == \A c \in DOMAIN charges : charges[c].taken <= 1
RowPerActivation ==
  \A c \in DOMAIN charges :
    charges[c].kind = "exact" /\ charges[c].taken > 0 <=> \E row \in rows : row.charge = c

\* A period that is over ends, and a payment nobody reviews does not stay pending,
\* as long as cron runs the jobs.
Over(n) == n \in DOMAIN subs /\ subs[n].status = "active" /\ subs[n].over
Waiting(p) == p \in DOMAIN payments /\ payments[p].status = "pending"

LapsedSubEnds == \A n \in 1..MaxSubs : Over(n) ~> ~ Over(n)
PendingPaymentsEnd == \A p \in 1..MaxPayments : Waiting(p) ~> ~ Waiting(p)

\* A subscription that runs is paid: some payment of it stands as approved, or a
\* gateway row exists.
ActiveIsPaid ==
  \A n \in DOMAIN subs : subs[n].status = "active" =>
    \/ \E p \in DOMAIN payments : payments[p].sub = n /\ payments[p].status = "approved"
    \/ \E row \in rows : row.sub = n

\* Every payment a gateway was told succeeded has its own row in the ledger.
PaymentHasRow ==
  \A c \in DOMAIN charges :
    charges[c].kind = "exact" /\ charges[c].told => \E row \in rows : row.charge = c
=============================================================================
