------------------------- MODULE TutoringSettlement -------------------------
(***************************************************************************)
(* How the lessons of one tutor turn into money: the dual confirmation of  *)
(* a payment, completion with its commission record and the two ledger     *)
(* legs, the auto-timeout command, and payouts (app/services/tutoring.py,  *)
(* the tutoring routes and the payout review of the admin routes).         *)
(*                                                                         *)
(* Every route loads the session row first and keeps the object, so what   *)
(* the handler reads after SELECT ... FOR UPDATE is what it loaded before. *)
(* All else a handler touches is read and written under row locks it holds *)
(* to its commit, so the locked part of a handler is one step.             *)
(***************************************************************************)
EXTENDS Integers, FiniteSets, SequencesExt

CONSTANTS
  Requests,  \* the HTTP requests and command runs of a behaviour
  Threads,   \* how many of them run at once
  Sessions,  \* the tutoring sessions of the tutor
  Prices,    \* 0 stands for no price; multiples of five make the commission exact
  Payable,   \* amounts a tutor asks to be paid out, at least TUTOR_MIN_PAYOUT
  NoWallet, NoCommission

ASSUME SettlementAssumption ==
  /\ IsFiniteSet(Requests) /\ IsFiniteSet(Sessions)
  /\ Threads \in Nat \ {0}
  /\ Prices \subseteq {p \in Nat : p % 5 = 0}
  /\ Payable \subseteq Nat \ {0}
  /\ NoWallet \notin Int
  /\ NoCommission \notin [net : Nat, status : {"pending", "withdrawn"}]

VARIABLES
  school,       \* the tutor has an active school
  row,          \* tutoring_sessions
  wallet,       \* committed balance of the tutor's wallet
  ledger,       \* wallet_transactions of the sessions, in commit order
  commission,   \* tutor_commissions, unique by session
  payouts,      \* tutor_payouts: row n is payouts[n]
  pc, job,
  held          \* the session (or payout) object a request keeps

vars == <<school, row, wallet, ledger, commission, payouts, pc, job, held>>

-----------------------------------------------------------------------------
InFlight == {"work", "reload", "settle"}
Ended == {"answered", "refused"}
Statuses == {"requested", "active", "completed", "cancelled"}
Decisions == {"pending", "approved", "rejected"}

NoJob == [op |-> "none"]
Nothing == [status |-> "none"]

\* Mutant: the rate is put on top of the price.
FeeOnTop(price) == (price * 120) \div 100

\* COMMISSION_RATE is 20.
Fee(price) == (price * 20) \div 100

Leg(s, kind, amount) == [session |-> s, kind |-> kind, amount |-> amount]

\* Mutant: payment and completion use different keys for the same inflow.
PostedByOtherName(s, kind) ==
  kind = "commission" /\ \E i \in DOMAIN ledger : ledger[i].session = s /\ ledger[i].kind = kind

Posted(s, kind) == \E i \in DOMAIN ledger : ledger[i].session = s /\ ledger[i].kind = kind

\* A leg whose key is not there yet is added, and moves the balance.
Posting(table, l) == IF Posted(l.session, l.kind) THEN table ELSE Append(table, l)

Signed(l) == IF l.kind = "inflow" THEN l.amount ELSE -l.amount

\* Mutant: the balance is credited even when the leg is there already.
EffectOfAll(l) == Signed(l)

Effect(l) == IF Posted(l.session, l.kind) THEN 0 ELSE Signed(l)

Balance == IF wallet = NoWallet THEN 0 ELSE wallet

-----------------------------------------------------------------------------
Init ==
  /\ school = TRUE
  /\ \E p \in Prices :
       row = [s \in Sessions |-> [status |-> "requested", price |-> p, paid |-> FALSE,
                                  student |-> FALSE, tutor |-> FALSE]]
  /\ wallet \in {NoWallet, 0}
  /\ ledger = << >>
  /\ commission = [s \in Sessions |-> NoCommission]
  /\ payouts = << >>
  /\ pc = [r \in Requests |-> "idle"]
  /\ job = [r \in Requests |-> NoJob]
  /\ held = [r \in Requests |-> Nothing]

Goto(r, place) == pc' = [pc EXCEPT ![r] = place]

End(r, outcome) ==
  /\ Goto(r, outcome)
  /\ job' = [job EXCEPT ![r] = NoJob]
  /\ held' = [held EXCEPT ![r] = Nothing]

Take(r) ==
  /\ pc[r] = "idle"
  /\ Cardinality({q \in Requests : pc[q] \in InFlight}) < Threads

At(r, op) == pc[r] = "work" /\ job[r].op = op

\* A route takes the session row and checks who asks.
ReceiveSession(r) ==
  /\ Take(r)
  /\ \E s \in Sessions :
       /\ \/ \E op \in {"student_confirms", "tutor_confirms", "tutor_rejects"} :
               job' = [job EXCEPT ![r] = [op |-> op, session |-> s]]
          \/ \E value \in {"completed", "cancelled"} :
               job' = [job EXCEPT ![r] = [op |-> "close", session |-> s, value |-> value]]
          \/ \E value \in {"active", "completed"} :
               job' = [job EXCEPT ![r] = [op |-> "live", session |-> s, value |-> value]]
          \/ \E price \in Prices :
               job' = [job EXCEPT ![r] = [op |-> "edit", session |-> s, value |-> price]]
       /\ held' = [held EXCEPT ![r] = row[s]]
  /\ Goto(r, "work")
  /\ UNCHANGED <<school, row, wallet, ledger, commission, payouts>>

\* The auto-timeout command loads every unpaid session. The commit of the first
\* one expires the others, their id in __dict__ is gone, and the look-up by that
\* id finds nothing: a run decides one session and skips the rest.
ReceiveTimeout(r) ==
  LET found == {s \in Sessions : ~ row[s].paid /\ row[s].status # "cancelled"}
  IN /\ Take(r)
     /\ \E s \in found :
          /\ job' = [job EXCEPT ![r] = [op |-> "timeout", session |-> s, found |-> found]]
          /\ held' = [held EXCEPT ![r] = row[s]]
     /\ Goto(r, "work")
     /\ UNCHANGED <<school, row, wallet, ledger, commission, payouts>>

\* The row a request writes: a column is updated only where the new value
\* differs from the object's, the others keep what is committed.
Flushed(r, s, new) ==
  [f \in DOMAIN new |-> IF new[f] # held[r][f] THEN new[f] ELSE row[s][f]]

Write(r, new) ==
  LET s == job[r].session IN row' = [row EXCEPT ![s] = Flushed(r, s, new)]

\* _finalize_session_payment: no school, price or wallet skips the inflow, and
\* the session is paid all the same.
Inflow(r) == Leg(job[r].session, "inflow", held[r].price)

Finalize(r) ==
  IF school /\ held[r].price > 0 /\ wallet # NoWallet
  THEN /\ ledger' = Posting(ledger, Inflow(r))
       /\ wallet' = wallet + Effect(Inflow(r))
  ELSE UNCHANGED <<wallet, ledger>>

\* The work of both confirmations under the row lock: mine is the flag of the
\* one who confirms, theirs the flag of the other side.
Confirm(r, mine, theirs) ==
  LET new == [held[r] EXCEPT ![mine] = TRUE]
  IN \/ /\ held[r].paid
        /\ UNCHANGED <<row, wallet, ledger>>
     \/ /\ ~ held[r].paid /\ ~ held[r][theirs]
        /\ Write(r, new)
        /\ UNCHANGED <<wallet, ledger>>
     \/ /\ ~ held[r].paid /\ held[r][theirs]
        /\ Write(r, [new EXCEPT !.paid = TRUE])
        /\ Finalize(r)

ConfirmByStudent(r) ==
  /\ At(r, "student_confirms")
  /\ Confirm(r, "student", "tutor")
  /\ End(r, "answered")
  /\ UNCHANGED <<school, commission, payouts>>

ConfirmByTutor(r) ==
  /\ At(r, "tutor_confirms")
  /\ Confirm(r, "tutor", "student")
  /\ End(r, "answered")
  /\ UNCHANGED <<school, commission, payouts>>

RejectByTutor(r) ==
  /\ At(r, "tutor_rejects")
  /\ \/ held[r].paid /\ End(r, "refused") /\ UNCHANGED row
     \/ /\ ~ held[r].paid
        /\ Write(r, [held[r] EXCEPT !.student = FALSE, !.tutor = FALSE])
        /\ End(r, "answered")
  /\ UNCHANGED <<school, wallet, ledger, commission, payouts>>

\* update_session and update_session_live_status lock nothing.
UpdateSession(r) ==
  /\ pc[r] = "work" /\ job[r].op \in {"close", "live", "edit"}
  /\ Write(r, IF job[r].op = "edit" THEN [held[r] EXCEPT !.price = job[r].value]
                                    ELSE [held[r] EXCEPT !.status = job[r].value])
  /\ IF job[r].op = "close" /\ job[r].value = "completed"
     THEN Goto(r, "reload") /\ UNCHANGED <<job, held>>
     ELSE End(r, "answered")
  /\ UNCHANGED <<school, wallet, ledger, commission, payouts>>

\* The commit expired the object: the first look at session.status in
\* create_commission_record loads the row again, still without a lock.
Reload(r) ==
  /\ pc[r] = "reload"
  /\ IF row[job[r].session].status = "completed"
     THEN /\ held' = [held EXCEPT ![r] = row[job[r].session]]
          /\ Goto(r, "settle")
          /\ UNCHANGED job
     ELSE End(r, "answered")
  /\ UNCHANGED <<school, row, wallet, ledger, commission, payouts>>

Charge(r) == Leg(job[r].session, "commission", Fee(held[r].price))

\* _append_commission_ledger: both legs, in a wallet made if missing.
PostLegs(r) ==
  /\ ledger' = Posting(Posting(ledger, Inflow(r)), Charge(r))
  /\ wallet' = Balance + Effect(Inflow(r)) + Effect(Charge(r))

\* Mutant: the record takes the price from the row, the legs from the object.
RecordOfRow(r) ==
  LET s == job[r].session
  IN commission' = [commission EXCEPT ![s] =
       [net |-> row[s].price - Fee(row[s].price), status |-> "pending"]]

Record(r) ==
  commission' = [commission EXCEPT ![job[r].session] =
    [net |-> held[r].price - Fee(held[r].price), status |-> "pending"]]

\* create_commission_record after the lock: one record per session, the wallet
\* made if missing; without a school the TxError undoes the record.
Settle(r) ==
  /\ pc[r] = "settle"
  /\ \/ /\ commission[job[r].session] # NoCommission
        /\ End(r, "answered")
        /\ UNCHANGED <<wallet, ledger, commission>>
     \/ /\ commission[job[r].session] = NoCommission
        /\ school
        /\ Record(r) /\ PostLegs(r)
        /\ End(r, "answered")
     \/ /\ commission[job[r].session] = NoCommission
        /\ ~ school
        /\ End(r, "refused")
        /\ UNCHANGED <<wallet, ledger, commission>>
  /\ UNCHANGED <<school, row, payouts>>

\* auto_timeout_unconfirmed_sessions on one candidate: both confirmations are
\* forced, the payment finalized, the session completed, and its commission
\* created by a nested tx() whose TxError is caught: the record it had added
\* stays in the session and commits without its legs.
Timeout(r) ==
  /\ At(r, "timeout")
  /\ Write(r, [held[r] EXCEPT !.student = TRUE, !.tutor = TRUE, !.paid = TRUE,
                              !.status = "completed"])
  /\ \/ /\ commission[job[r].session] # NoCommission
        /\ Finalize(r)
        /\ UNCHANGED commission
     \/ /\ commission[job[r].session] = NoCommission
        /\ Record(r)
        /\ IF school THEN PostLegs(r) ELSE UNCHANGED <<wallet, ledger>>
  /\ End(r, "answered")
  /\ UNCHANGED <<school, payouts>>

-----------------------------------------------------------------------------
\* request_payout locks the pending commissions and compares with their sum;
\* payouts already asked for are not taken off it.
Pending == {s \in Sessions : commission[s] # NoCommission /\ commission[s].status = "pending"}
Withdrawable == MapThenSumSet(LAMBDA s : commission[s].net, Pending)

RequestPayout(r) ==
  /\ Take(r)
  /\ \E amount \in Payable :
       /\ amount <= Withdrawable
       /\ payouts' = Append(payouts, [amount |-> amount, status |-> "pending"])
  /\ End(r, "answered")
  /\ UNCHANGED <<school, row, wallet, ledger, commission>>

ReceiveReview(r) ==
  /\ Take(r)
  /\ \E n \in DOMAIN payouts, decision \in {"approved", "rejected"} :
       /\ job' = [job EXCEPT ![r] = [op |-> "review", payout |-> n, value |-> decision]]
       /\ held' = [held EXCEPT ![r] = [status |-> payouts[n].status]]
  /\ Goto(r, "work")
  /\ UNCHANGED <<school, row, wallet, ledger, commission, payouts>>

\* Mutant: the route keeps the object it looked the payout up with.
PayoutStatusHeld(r) == held[r].status

\* The route drops the object of its 404 check, so the locked row is read anew.
PayoutStatus(r) == payouts[job[r].payout].status

\* An approval withdraws every pending commission of the tutor.
ReviewPayout(r) ==
  /\ At(r, "review")
  /\ IF PayoutStatus(r) # "pending"
     THEN End(r, "refused") /\ UNCHANGED <<commission, payouts>>
     ELSE /\ payouts' = [payouts EXCEPT ![job[r].payout].status = job[r].value]
          /\ commission' = IF job[r].value = "approved"
                           THEN [s \in Sessions |-> IF s \in Pending
                                   THEN [commission[s] EXCEPT !.status = "withdrawn"]
                                   ELSE commission[s]]
                           ELSE commission
          /\ End(r, "answered")
  /\ UNCHANGED <<school, row, wallet, ledger>>

\* The tutor's role link is deactivated elsewhere.
LoseSchool ==
  /\ school
  /\ school' = FALSE
  /\ UNCHANGED <<row, wallet, ledger, commission, payouts, pc, job, held>>

Abort(r) ==
  /\ pc[r] \in InFlight
  /\ End(r, "refused")
  /\ UNCHANGED <<school, row, wallet, ledger, commission, payouts>>

Next ==
  \/ \E r \in Requests :
       \/ ReceiveSession(r) \/ ReceiveTimeout(r) \/ ConfirmByStudent(r) \/ ConfirmByTutor(r) \/ RejectByTutor(r)
       \/ UpdateSession(r) \/ Reload(r) \/ Settle(r) \/ Timeout(r)
       \/ RequestPayout(r) \/ ReceiveReview(r) \/ ReviewPayout(r) \/ Abort(r)
  \/ LoseSchool

Spec == Init /\ [][Next]_vars

-----------------------------------------------------------------------------
SessionRow == [status : Statuses, price : Prices, paid : BOOLEAN,
               student : BOOLEAN, tutor : BOOLEAN]

\* The columns hold what the models declare, no net is negative, and a request
\* that is not under way holds neither work nor object.
TypeOK ==
  /\ school \in BOOLEAN
  /\ row \in [Sessions -> SessionRow]
  /\ wallet = NoWallet \/ wallet \in Int
  /\ \A i \in DOMAIN ledger : ledger[i] \in [session : Sessions, kind : {"inflow", "commission"}, amount : Nat]
  /\ \A s \in Sessions : commission[s] # NoCommission =>
       commission[s] \in [net : Nat, status : {"pending", "withdrawn"}]
  /\ \A n \in DOMAIN payouts : payouts[n] \in [amount : Payable, status : Decisions]
  /\ pc \in [Requests -> InFlight \cup Ended \cup {"idle"}]
  /\ \A r \in Requests : (pc[r] \in InFlight) <=> (job[r] # NoJob /\ held[r] # Nothing)

Amounts(table, kind) ==
  LET sum[n \in 0..Len(table)] ==
        IF n = 0 THEN 0
        ELSE sum[n - 1] + (IF table[n].kind = kind THEN table[n].amount ELSE 0)
  IN sum[Len(table)]

\* Whoever posts first, payment, completion or timeout, the tutor's balance is
\* what the inflow legs brought less what the commission legs took
\* (_append_commission_ledger and _finalize_session_payment share the keys).
BalanceIsSumOfLegs ==
  Balance = Amounts(ledger, "inflow") - Amounts(ledger, "commission")

\* A lesson is collected once and charged once, in whatever order payment,
\* completion, repeated completion and timeout come.
LegsOnce ==
  \A i, j \in DOMAIN ledger :
    ledger[i].session = ledger[j].session /\ ledger[i].kind = ledger[j].kind => i = j

\* A commission leg never stands without its record, and both were computed
\* from the same price, although the price can be edited at any time.
LegMatchesRecord ==
  \A i \in DOMAIN ledger : ledger[i].kind = "commission" =>
    LET c == commission[ledger[i].session]
    IN c # NoCommission /\ Fee(c.net + ledger[i].amount) = ledger[i].amount

\* review_payout: a decided payout is never decided again, by whomever and
\* however the reviews overlap.
DecisionIsFinal ==
  [][\A n \in DOMAIN payouts : payouts[n].status # "pending" => payouts'[n] = payouts[n]]_payouts

\* What models/tutoring.py says of the two flags: money is closed only with the
\* confirmation of both sides.
PaidByBoth == \A s \in Sessions : row[s].paid => row[s].student /\ row[s].tutor

\* What request_payout's docstring promises (no double withdrawal): approved
\* payouts never exceed what the tutor has earned.
ApprovedPayoutsCovered ==
  MapThenSumSet(LAMBDA n : payouts[n].amount, {n \in DOMAIN payouts : payouts[n].status = "approved"})
    <= MapThenSumSet(LAMBDA s : commission[s].net, {s \in Sessions : commission[s] # NoCommission})

\* CHANGELOG.md:31-33: a lesson that cannot be settled keeps neither a commission
\* record nor ledger rows, so every record has its two legs.
RecordHasLegs ==
  \A s \in Sessions : commission[s] # NoCommission => Posted(s, "inflow") /\ Posted(s, "commission")

\* What the docstring of auto_timeout_unconfirmed_sessions says: a run that ends
\* leaves none of the sessions it found unpaid, unless one was cancelled.
TimeoutReachesAll ==
  [][\A r \in Requests : At(r, "timeout") /\ pc'[r] = "answered" =>
       \A s \in job[r].found : row'[s].paid \/ row'[s].status = "cancelled"]_vars
=============================================================================
