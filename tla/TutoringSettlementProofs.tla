---------------------- MODULE TutoringSettlementProofs ----------------------
(***************************************************************************)
(* What TutoringSettlement keeps for any requests, threads, lessons and    *)
(* prices.  The invariant has a part for the rows, one for the money, and  *)
(* one for the requests: what a request under way may rely on is that its  *)
(* lesson or payout exists and that its object was once a row.             *)
(***************************************************************************)
EXTENDS TutoringSettlement, TLAPS

LegRow == [session : Sessions, kind : {"inflow", "commission"}, amount : Nat]
CommissionRow == [net : Nat, status : {"pending", "withdrawn"}]
Payout == [amount : Payable, status : Decisions]

LessonOps == {"student_confirms", "tutor_confirms", "tutor_rejects",
              "close", "live", "edit", "timeout"}

OnLesson(r) ==
  /\ job[r].op \in LessonOps /\ job[r].session \in Sessions
  /\ held[r] \in SessionRow
  /\ job[r].op = "edit" => job[r].value \in Prices
  /\ job[r].op \in {"close", "live"} => job[r].value \in Statuses

OnPayout(r) ==
  /\ pc[r] = "work" /\ job[r].op = "review"
  /\ held[r] \in [status : Decisions]
  /\ job[r].value \in Decisions

RequestOK(r) ==
  /\ pc[r] \in InFlight \cup Ended \cup {"idle"}
  /\ pc[r] \in InFlight => OnLesson(r) \/ OnPayout(r)
  /\ pc[r] \notin InFlight => job[r] = NoJob /\ held[r] = Nothing

RequestsOK ==
  /\ pc = [r \in Requests |-> pc[r]]
  /\ job = [r \in Requests |-> job[r]]
  /\ held = [r \in Requests |-> held[r]]
  /\ \A r \in Requests : RequestOK(r)

RowsOK ==
  /\ school \in BOOLEAN
  /\ row \in [Sessions -> SessionRow]
  /\ payouts \in Seq(Payout)

MoneyOK ==
  /\ wallet = NoWallet \/ wallet \in Int
  /\ ledger \in Seq(LegRow)
  /\ commission \in [Sessions -> CommissionRow \cup {NoCommission}]
  /\ LegsOnce /\ LegMatchesRecord

IInv == RequestsOK /\ RowsOK /\ MoneyOK

-----------------------------------------------------------------------------
LEMMA InitInvariant == Init => IInv
<1> SUFFICES ASSUME Init PROVE IInv
  OBVIOUS
<1>1. RequestsOK
  BY DEF Init, RequestsOK, RequestOK, InFlight, Ended
<1>2. RowsOK
  BY DEF Init, RowsOK, SessionRow, Statuses
<1>3. MoneyOK
  BY DEF Init, MoneyOK, LegsOnce, LegMatchesRecord
<1> QED
  BY <1>1, <1>2, <1>3 DEF IInv

\* The invariant contains the types.
LEMMA Typed == IInv => TypeOK
<1> SUFFICES ASSUME IInv PROVE TypeOK
  OBVIOUS
<1>1. pc \in [Requests -> InFlight \cup Ended \cup {"idle"}]
  BY DEF IInv, RequestsOK, RequestOK
<1>2. ASSUME NEW r \in Requests PROVE (pc[r] \in InFlight) <=> (job[r] # NoJob /\ held[r] # Nothing)
  <2>1. CASE pc[r] \in InFlight
    <3>1. OnLesson(r) \/ OnPayout(r)
      BY <2>1 DEF IInv, RequestsOK, RequestOK
    <3>2. job[r].op # "none" /\ held[r].status # "none"
      BY <3>1 DEF OnLesson, OnPayout, LessonOps, SessionRow, Statuses, Decisions
    <3> QED
      BY <2>1, <3>2 DEF NoJob, Nothing
  <2>2. CASE pc[r] \notin InFlight
    BY <2>2 DEF IInv, RequestsOK, RequestOK
  <2> QED
    BY <2>1, <2>2
<1>3. \A i \in DOMAIN ledger : ledger[i] \in [session : Sessions, kind : {"inflow", "commission"}, amount : Nat]
  <2>1. \A i \in DOMAIN ledger : ledger[i] \in LegRow
    BY DEF IInv, MoneyOK
  <2> QED
    BY <2>1 DEF LegRow
<1>4. \A s \in Sessions : commission[s] # NoCommission => commission[s] \in [net : Nat, status : {"pending", "withdrawn"}]
  BY DEF IInv, MoneyOK, CommissionRow
<1>5. \A n \in DOMAIN payouts : payouts[n] \in [amount : Payable, status : Decisions]
  <2>1. \A n \in DOMAIN payouts : payouts[n] \in Payout
    BY DEF IInv, RowsOK
  <2> QED
    BY <2>1 DEF Payout
<1> QED
  BY <1>1, <1>2, <1>3, <1>4, <1>5 DEF TypeOK, IInv, RowsOK, MoneyOK

-----------------------------------------------------------------------------
(* Requests. *)

\* Only r moves.
Moves(r) ==
  /\ pc' = [pc EXCEPT ![r] = pc'[r]]
  /\ job' = [job EXCEPT ![r] = job'[r]]
  /\ held' = [held EXCEPT ![r] = held'[r]]

LEMMA MoveKeeps ==
  ASSUME RequestsOK, NEW r \in Requests, Moves(r), RequestOK(r)'
  PROVE  RequestsOK'
<1>1. \A q \in Requests \ {r} : pc'[q] = pc[q] /\ job'[q] = job[q] /\ held'[q] = held[q]
  BY DEF Moves, RequestsOK
<1>2. \A q \in Requests \ {r} : RequestOK(q)'
  BY <1>1 DEF RequestsOK, RequestOK, OnLesson, OnPayout
<1>3. /\ pc' = [q \in Requests |-> pc'[q]]
      /\ job' = [q \in Requests |-> job'[q]]
      /\ held' = [q \in Requests |-> held'[q]]
  BY DEF RequestsOK, Moves
<1> QED
  BY <1>2, <1>3 DEF RequestsOK

LEMMA EndKeeps ==
  ASSUME RequestsOK, NEW r \in Requests, NEW outcome \in Ended, End(r, outcome)
  PROVE  RequestsOK'
<1>1. pc'[r] = outcome /\ job'[r] = NoJob /\ held'[r] = Nothing /\ Moves(r)
  BY DEF RequestsOK, End, Goto, Moves
<1>2. RequestOK(r)'
  BY <1>1 DEF RequestOK, Ended, InFlight
<1> QED
  BY <1>1, <1>2, MoveKeeps

LEMMA RequestsUnchanged ==
  ASSUME RequestsOK, UNCHANGED <<pc, job, held>> PROVE RequestsOK'
BY DEF RequestsOK, RequestOK, OnLesson, OnPayout

LEMMA TakeKeeps ==
  ASSUME RequestsOK, NEW r \in Requests, Goto(r, "work"), Moves(r),
         \/ /\ job'[r].op \in LessonOps /\ job'[r].session \in Sessions /\ held'[r] \in SessionRow
            /\ job'[r].op = "edit" => job'[r].value \in Prices
            /\ job'[r].op \in {"close", "live"} => job'[r].value \in Statuses
         \/ job'[r].op = "review" /\ held'[r] \in [status : Decisions] /\ job'[r].value \in Decisions
  PROVE  RequestsOK'
<1>1. pc'[r] = "work"
  BY DEF Goto, RequestsOK
<1>2. RequestOK(r)'
  BY <1>1 DEF RequestOK, OnLesson, OnPayout, InFlight
<1> QED
  BY <1>2, MoveKeeps

-----------------------------------------------------------------------------
(* Rows. *)

LEMMA FlushedIsRow ==
  ASSUME NEW r, NEW s \in Sessions, NEW new \in SessionRow, held[r] \in SessionRow, row[s] \in SessionRow
  PROVE  Flushed(r, s, new) \in SessionRow
BY DEF Flushed, SessionRow

LEMMA WriteKeeps ==
  ASSUME RowsOK, NEW r, job[r].session \in Sessions, held[r] \in SessionRow,
         NEW new \in SessionRow, Write(r, new)
  PROVE  row' \in [Sessions -> SessionRow]
<1>1. row[job[r].session] \in SessionRow
  BY DEF RowsOK
<1>2. Flushed(r, job[r].session, new) \in SessionRow
  BY <1>1, FlushedIsRow
<1> QED
  BY <1>2 DEF Write, RowsOK

LEMMA RowsUnchanged == ASSUME RowsOK, UNCHANGED <<school, row, payouts>> PROVE RowsOK'
BY DEF RowsOK

-----------------------------------------------------------------------------
(* Money. *)

SameKey(a, b) == a.session = b.session /\ a.kind = b.kind

\* A table u made from t by rows of L, without a key twice.
Grown(t, u, L) ==
  /\ u \in Seq(LegRow)
  /\ \A i, j \in DOMAIN u : SameKey(u[i], u[j]) => i = j
  /\ \A i \in DOMAIN u : u[i] \in L \/ \E j \in DOMAIN t : u[i] = t[j]

LEMMA RowAdded ==
  ASSUME NEW S, NEW t \in Seq(S), NEW l \in S
  PROVE  /\ Append(t, l) \in Seq(S)
         /\ DOMAIN Append(t, l) = DOMAIN t \cup {Len(t) + 1}
         /\ Append(t, l)[Len(t) + 1] = l
         /\ \A i \in DOMAIN t : Append(t, l)[i] = t[i]
OBVIOUS

LEMMA LegAdded ==
  ASSUME NEW t \in Seq(LegRow), NEW l \in LegRow,
         \A i, j \in DOMAIN t : SameKey(t[i], t[j]) => i = j,
         \A i \in DOMAIN t : ~ SameKey(t[i], l)
  PROVE  Grown(t, Append(t, l), {l})
<1> DEFINE u == Append(t, l)
<1>1. /\ u \in Seq(LegRow) /\ DOMAIN u = DOMAIN t \cup {Len(t) + 1}
      /\ u[Len(t) + 1] = l /\ \A i \in DOMAIN t : u[i] = t[i]
  BY RowAdded
<1> HIDE DEF u
<1>2. ASSUME NEW i \in DOMAIN u, NEW j \in DOMAIN u, SameKey(u[i], u[j]) PROVE i = j
  BY <1>1, <1>2 DEF SameKey
<1>3. Grown(t, u, {l})
  BY <1>1, <1>2 DEF Grown
<1> QED
  BY <1>3 DEF u

LEMMA NonePosted ==
  ASSUME MoneyOK PROVE Grown(ledger, ledger, {})
BY DEF MoneyOK, LegsOnce, Grown, SameKey

LEMMA OnePosted ==
  ASSUME MoneyOK, NEW l \in LegRow
  PROVE  Grown(ledger, Posting(ledger, l), {l})
<1>1. ledger \in Seq(LegRow) /\ \A i, j \in DOMAIN ledger : SameKey(ledger[i], ledger[j]) => i = j
  BY DEF MoneyOK, LegsOnce, SameKey
<1>2. CASE Posted(l.session, l.kind)
  BY <1>1, <1>2 DEF Posting, Grown
<1>3. CASE ~ Posted(l.session, l.kind)
  <2>1. \A i \in DOMAIN ledger : ~ SameKey(ledger[i], l)
    BY <1>3 DEF Posted, SameKey
  <2> QED
    BY <1>1, <1>3, <2>1, LegAdded DEF Posting
<1> QED
  BY <1>2, <1>3

LEMMA TwoPosted ==
  ASSUME MoneyOK, NEW k \in LegRow, NEW l \in LegRow, k.kind # l.kind
  PROVE  Grown(ledger, Posting(Posting(ledger, k), l), {k, l})
<1> DEFINE t == Posting(ledger, k)
<1>1. Grown(ledger, t, {k})
  BY OnePosted
<1> HIDE DEF t
<1>2. CASE Posted(l.session, l.kind)
  BY <1>1, <1>2 DEF Posting, Grown, t
<1>3. CASE ~ Posted(l.session, l.kind)
  <2>1. \A i \in DOMAIN ledger : ~ SameKey(ledger[i], l)
    BY <1>3 DEF Posted, SameKey
  <2>2. \A i \in DOMAIN t : ~ SameKey(t[i], l)
    BY <1>1, <2>1 DEF Grown, SameKey
  <2>3. Grown(t, Append(t, l), {l})
    BY <1>1, <2>2, LegAdded DEF Grown
  <2>4. Grown(ledger, Append(t, l), {k, l})
    BY <1>1, <2>3 DEF Grown
  <2> QED
    BY <1>3, <2>4 DEF Posting, t
<1> QED
  BY <1>2, <1>3

\* A step may add legs that match the records it leaves, and change no net.
LEMMA MoneyStep ==
  ASSUME MoneyOK, wallet' = NoWallet \/ wallet' \in Int,
         NEW L, Grown(ledger, ledger', L),
         commission' \in [Sessions -> CommissionRow \cup {NoCommission}],
         \A l \in L : l.kind = "commission" =>
           /\ commission'[l.session] # NoCommission
           /\ Fee(commission'[l.session].net + l.amount) = l.amount,
         \A s \in Sessions : commission[s] # NoCommission =>
           commission'[s] # NoCommission /\ commission'[s].net = commission[s].net
  PROVE  MoneyOK'
<1>1. ledger' \in Seq(LegRow) /\ LegsOnce'
  BY DEF Grown, LegsOnce, SameKey
<1>2. LegMatchesRecord'
  <2> SUFFICES ASSUME NEW i \in DOMAIN ledger', ledger'[i].kind = "commission"
               PROVE  /\ commission'[ledger'[i].session] # NoCommission
                      /\ Fee(commission'[ledger'[i].session].net + ledger'[i].amount) = ledger'[i].amount
    BY DEF LegMatchesRecord
  <2>1. CASE ledger'[i] \in L
    BY <2>1
  <2>2. ASSUME NEW j \in DOMAIN ledger, ledger'[i] = ledger[j]
        PROVE  /\ commission'[ledger'[i].session] # NoCommission
               /\ Fee(commission'[ledger'[i].session].net + ledger'[i].amount) = ledger'[i].amount
    <3>1. ledger[j] \in LegRow
      BY DEF MoneyOK
    <3>2. ledger[j].session \in Sessions
      BY <3>1 DEF LegRow
    <3>3. /\ commission[ledger[j].session] # NoCommission
          /\ Fee(commission[ledger[j].session].net + ledger[j].amount) = ledger[j].amount
      BY <2>2 DEF MoneyOK, LegMatchesRecord
    <3> QED
      BY <2>2, <3>2, <3>3
  <2> QED
    BY <2>1, <2>2 DEF Grown
<1> QED
  BY <1>1, <1>2 DEF MoneyOK

LEMMA MoneyUnchanged == ASSUME MoneyOK, UNCHANGED <<wallet, ledger, commission>> PROVE MoneyOK'
BY DEF MoneyOK, LegsOnce, LegMatchesRecord

-----------------------------------------------------------------------------
(* What the object of a request gives. *)

LEMMA PricesAndFees ==
  ASSUME NEW p \in Prices
  PROVE  p \in Nat /\ Fee(p) \in Nat /\ p - Fee(p) \in Nat
<1>1. p \in Nat
  BY SettlementAssumption
<1> QED
  BY <1>1 DEF Fee

LEMMA LegsOfLesson ==
  ASSUME NEW r, OnLesson(r)
  PROVE  /\ Inflow(r) \in LegRow /\ Inflow(r).kind = "inflow"
         /\ Charge(r) \in LegRow /\ Charge(r).kind = "commission"
         /\ Charge(r).session = job[r].session /\ Charge(r).amount = Fee(held[r].price)
         /\ held[r].price \in Prices
<1>1. held[r].price \in Prices /\ job[r].session \in Sessions
  BY DEF OnLesson, SessionRow
<1> QED
  BY <1>1, PricesAndFees DEF Inflow, Charge, Leg, LegRow

LEMMA EffectIsInt == ASSUME NEW l \in LegRow PROVE Effect(l) \in Int
BY DEF Effect, Signed, LegRow

LEMMA BalanceIsInt == ASSUME MoneyOK PROVE Balance \in Int
BY DEF MoneyOK, Balance

LEMMA FinalizeKeeps ==
  ASSUME MoneyOK, NEW r, OnLesson(r), Finalize(r), UNCHANGED commission
  PROVE  MoneyOK'
<1>1. CASE school /\ held[r].price > 0 /\ wallet # NoWallet
  <2>1. ledger' = Posting(ledger, Inflow(r)) /\ wallet' = wallet + Effect(Inflow(r))
    BY <1>1 DEF Finalize
  <2>2. Inflow(r) \in LegRow /\ Inflow(r).kind # "commission"
    BY LegsOfLesson
  <2>3. Grown(ledger, ledger', {Inflow(r)})
    BY <2>1, <2>2, OnePosted
  <2>4. wallet' \in Int
    BY <1>1, <2>1, <2>2, EffectIsInt DEF MoneyOK
  <2> QED
    BY <2>2, <2>3, <2>4, MoneyStep DEF MoneyOK
<1>2. CASE ~ (school /\ held[r].price > 0 /\ wallet # NoWallet)
  BY <1>2, MoneyUnchanged DEF Finalize
<1> QED
  BY <1>1, <1>2

LEMMA RecordMade ==
  ASSUME MoneyOK, NEW r, OnLesson(r), Record(r)
  PROVE  /\ commission' \in [Sessions -> CommissionRow \cup {NoCommission}]
         /\ commission'[job[r].session] # NoCommission
         /\ commission'[job[r].session].net + Charge(r).amount = held[r].price
         /\ \A s \in Sessions \ {job[r].session} : commission'[s] = commission[s]
<1> DEFINE new == [net |-> held[r].price - Fee(held[r].price), status |-> "pending"]
<1>1. held[r].price \in Prices /\ Charge(r).amount = Fee(held[r].price)
  BY LegsOfLesson
<1>2. new \in CommissionRow /\ new.net + Charge(r).amount = held[r].price
  BY <1>1, PricesAndFees DEF CommissionRow
<1>3. new # NoCommission
  BY <1>2, SettlementAssumption DEF CommissionRow
<1>4. commission' = [commission EXCEPT ![job[r].session] = new]
  BY DEF Record
<1>5. job[r].session \in Sessions
  BY DEF OnLesson
<1> HIDE DEF new
<1> QED
  BY <1>2, <1>3, <1>4, <1>5 DEF MoneyOK

LEMMA RecordKeeps ==
  ASSUME MoneyOK, NEW r, OnLesson(r), commission[job[r].session] = NoCommission, Record(r),
         PostLegs(r) \/ UNCHANGED <<wallet, ledger>>
  PROVE  MoneyOK'
<1>1. \A s \in Sessions : commission[s] # NoCommission => commission'[s] = commission[s]
  BY RecordMade
<1>2. CASE PostLegs(r)
  <2>1. Inflow(r) \in LegRow /\ Charge(r) \in LegRow /\ Inflow(r).kind = "inflow"
        /\ Charge(r).kind = "commission"
    BY LegsOfLesson
  <2>2. Grown(ledger, ledger', {Inflow(r), Charge(r)})
    BY <1>2, <2>1, TwoPosted DEF PostLegs
  <2>3. wallet' \in Int
    BY <1>2, <2>1, EffectIsInt, BalanceIsInt DEF PostLegs
  <2>4. /\ commission'[Charge(r).session] # NoCommission
        /\ Fee(commission'[Charge(r).session].net + Charge(r).amount) = Charge(r).amount
    BY RecordMade, LegsOfLesson
  <2> QED
    BY <1>1, <2>1, <2>2, <2>3, <2>4, RecordMade, MoneyStep
<1>3. CASE UNCHANGED <<wallet, ledger>>
  BY <1>1, <1>3, RecordMade, NonePosted, MoneyStep DEF MoneyOK
<1> QED
  BY <1>2, <1>3

-----------------------------------------------------------------------------
(* The actions. *)

LEMMA UnderWay ==
  ASSUME IInv, NEW r \in Requests, pc[r] \in InFlight, job[r].op # "review"
  PROVE  OnLesson(r) /\ job[r].session \in Sessions /\ held[r] \in SessionRow
BY DEF IInv, RequestsOK, RequestOK, OnLesson, OnPayout

LEMMA ReceiveSessionKeeps ==
  ASSUME IInv, NEW r \in Requests, ReceiveSession(r) PROVE IInv'
<1>1. PICK s \in Sessions :
        /\ \/ \E op \in {"student_confirms", "tutor_confirms", "tutor_rejects"} :
                job' = [job EXCEPT ![r] = [op |-> op, session |-> s]]
           \/ \E value \in {"completed", "cancelled"} :
                job' = [job EXCEPT ![r] = [op |-> "close", session |-> s, value |-> value]]
           \/ \E value \in {"active", "completed"} :
                job' = [job EXCEPT ![r] = [op |-> "live", session |-> s, value |-> value]]
           \/ \E price \in Prices :
                job' = [job EXCEPT ![r] = [op |-> "edit", session |-> s, value |-> price]]
        /\ held' = [held EXCEPT ![r] = row[s]]
  BY DEF ReceiveSession
<1>2. Goto(r, "work") /\ UNCHANGED <<school, row, wallet, ledger, commission, payouts>>
  BY DEF ReceiveSession
<1>3. job = [q \in Requests |-> job[q]] /\ held = [q \in Requests |-> held[q]]
      /\ pc = [q \in Requests |-> pc[q]]
  BY DEF IInv, RequestsOK
<1>4. Moves(r) /\ held'[r] = row[s] /\ row[s] \in SessionRow
  BY <1>1, <1>2, <1>3 DEF Moves, Goto, IInv, RowsOK
<1>5. /\ job'[r].op \in LessonOps /\ job'[r].session \in Sessions
      /\ job'[r].op = "edit" => job'[r].value \in Prices
      /\ job'[r].op \in {"close", "live"} => job'[r].value \in Statuses
  BY <1>1, <1>3 DEF LessonOps, Statuses
<1>6. RequestsOK'
  BY <1>2, <1>4, <1>5, TakeKeeps DEF IInv
<1> QED
  BY <1>2, <1>6, RowsUnchanged, MoneyUnchanged DEF IInv

LEMMA ReceiveTimeoutKeeps ==
  ASSUME IInv, NEW r \in Requests, ReceiveTimeout(r) PROVE IInv'
<1> DEFINE found == {s \in Sessions : ~ row[s].paid /\ row[s].status # "cancelled"}
<1>1. PICK s \in Sessions : /\ job' = [job EXCEPT ![r] = [op |-> "timeout", session |-> s, found |-> found]]
                            /\ held' = [held EXCEPT ![r] = row[s]]
  BY DEF ReceiveTimeout
<1>2. Goto(r, "work") /\ UNCHANGED <<school, row, wallet, ledger, commission, payouts>>
  BY DEF ReceiveTimeout
<1> HIDE DEF found
<1>3. job = [q \in Requests |-> job[q]] /\ held = [q \in Requests |-> held[q]]
      /\ pc = [q \in Requests |-> pc[q]]
  BY DEF IInv, RequestsOK
<1>4. Moves(r) /\ held'[r] = row[s] /\ row[s] \in SessionRow
  BY <1>1, <1>2, <1>3 DEF Moves, Goto, IInv, RowsOK
<1>5. job'[r].op = "timeout" /\ job'[r].session \in Sessions
  BY <1>1, <1>3
<1>6. RequestsOK'
  BY <1>2, <1>4, <1>5, TakeKeeps DEF IInv, LessonOps
<1> QED
  BY <1>2, <1>6, RowsUnchanged, MoneyUnchanged DEF IInv

LEMMA ConfirmKeeps ==
  ASSUME IInv, NEW r \in Requests, OnLesson(r), NEW mine \in {"student", "tutor"},
         NEW theirs \in {"student", "tutor"}, Confirm(r, mine, theirs),
         UNCHANGED <<school, commission, payouts>>
  PROVE  RowsOK' /\ MoneyOK'
<1> DEFINE new == [held[r] EXCEPT ![mine] = TRUE]
           paid == [new EXCEPT !.paid = TRUE]
<1>1. new \in SessionRow
  BY DEF OnLesson, SessionRow
<1>2. paid \in SessionRow
  BY <1>1 DEF SessionRow
<1>3. \/ UNCHANGED <<row, wallet, ledger>>
      \/ Write(r, new) /\ UNCHANGED <<wallet, ledger>>
      \/ Write(r, paid) /\ Finalize(r)
  BY DEF Confirm
<1> HIDE DEF new, paid
<1>4. MoneyOK'
  BY <1>3, MoneyUnchanged, FinalizeKeeps DEF IInv
<1>5. row' \in [Sessions -> SessionRow]
  BY <1>1, <1>2, <1>3, WriteKeeps DEF IInv, RowsOK, OnLesson
<1> QED
  BY <1>4, <1>5 DEF IInv, RowsOK

LEMMA ConfirmationsKeep ==
  ASSUME IInv, NEW r \in Requests, ConfirmByStudent(r) \/ ConfirmByTutor(r) PROVE IInv'
<1>1. OnLesson(r)
  BY UnderWay DEF ConfirmByStudent, ConfirmByTutor, At, InFlight
<1>2. RowsOK' /\ MoneyOK'
  BY <1>1, ConfirmKeeps DEF ConfirmByStudent, ConfirmByTutor
<1>3. RequestsOK'
  BY EndKeeps DEF ConfirmByStudent, ConfirmByTutor, IInv, Ended
<1> QED
  BY <1>2, <1>3 DEF IInv

LEMMA RejectKeeps ==
  ASSUME IInv, NEW r \in Requests, RejectByTutor(r) PROVE IInv'
<1>1. OnLesson(r)
  BY UnderWay DEF RejectByTutor, At, InFlight
<1> DEFINE new == [held[r] EXCEPT !.student = FALSE, !.tutor = FALSE]
<1>2. new \in SessionRow
  BY <1>1 DEF OnLesson, SessionRow
<1>3. UNCHANGED row \/ Write(r, new)
  BY DEF RejectByTutor
<1> HIDE DEF new
<1>4. row' \in [Sessions -> SessionRow]
  BY <1>1, <1>2, <1>3, WriteKeeps DEF IInv, RowsOK, OnLesson
<1>5. RowsOK' /\ MoneyOK'
  BY <1>4, MoneyUnchanged DEF RejectByTutor, IInv, RowsOK
<1>6. RequestsOK'
  BY EndKeeps DEF RejectByTutor, IInv, Ended
<1> QED
  BY <1>5, <1>6 DEF IInv

LEMMA UpdateKeeps ==
  ASSUME IInv, NEW r \in Requests, UpdateSession(r) PROVE IInv'
<1>1. OnLesson(r) /\ pc[r] = "work" /\ job[r].op \in {"close", "live", "edit"}
  BY UnderWay DEF UpdateSession, InFlight
<1> DEFINE new == IF job[r].op = "edit" THEN [held[r] EXCEPT !.price = job[r].value]
                                        ELSE [held[r] EXCEPT !.status = job[r].value]
<1>2. new \in SessionRow
  <2>1. CASE job[r].op = "edit"
    BY <1>1, <2>1 DEF OnLesson, SessionRow
  <2>2. CASE job[r].op # "edit"
    BY <1>1, <2>2 DEF OnLesson, SessionRow
  <2> QED
    BY <2>1, <2>2
<1>3. Write(r, new)
  BY DEF UpdateSession
<1> HIDE DEF new
<1>4. row' \in [Sessions -> SessionRow]
  BY <1>1, <1>2, <1>3, WriteKeeps DEF IInv, OnLesson
<1>5. RowsOK' /\ MoneyOK'
  BY <1>4, MoneyUnchanged DEF UpdateSession, IInv, RowsOK
<1>6. RequestsOK'
  <2>1. CASE End(r, "answered")
    BY <2>1, EndKeeps DEF IInv, Ended
  <2>2. CASE Goto(r, "reload") /\ UNCHANGED <<job, held>>
    <3>1. pc'[r] = "reload" /\ Moves(r)
      BY <2>2 DEF IInv, RequestsOK, Goto, Moves
    <3>2. RequestOK(r)'
      BY <1>1, <2>2, <3>1 DEF RequestOK, OnLesson, InFlight
    <3> QED
      BY <3>1, <3>2, MoveKeeps DEF IInv
  <2> QED
    BY <2>1, <2>2 DEF UpdateSession
<1> QED
  BY <1>5, <1>6 DEF IInv

LEMMA ReloadKeeps ==
  ASSUME IInv, NEW r \in Requests, Reload(r) PROVE IInv'
<1>1. OnLesson(r)
  BY DEF IInv, RequestsOK, RequestOK, OnPayout, Reload, InFlight
<1>2. RequestsOK'
  <2>1. CASE End(r, "answered")
    BY <2>1, EndKeeps DEF IInv, Ended
  <2>2. CASE held' = [held EXCEPT ![r] = row[job[r].session]] /\ Goto(r, "settle") /\ UNCHANGED job
    <3>1. pc'[r] = "settle" /\ Moves(r) /\ held'[r] = row[job[r].session] /\ job'[r] = job[r]
      BY <2>2 DEF IInv, RequestsOK, Goto, Moves
    <3>2. row[job[r].session] \in SessionRow
      BY <1>1 DEF OnLesson, IInv, RowsOK
    <3>3. RequestOK(r)'
      BY <1>1, <3>1, <3>2 DEF RequestOK, OnLesson, InFlight
    <3> QED
      BY <3>1, <3>3, MoveKeeps DEF IInv
  <2> QED
    BY <2>1, <2>2 DEF Reload
<1> QED
  BY <1>2, RowsUnchanged, MoneyUnchanged DEF Reload, IInv

LEMMA SettleKeeps ==
  ASSUME IInv, NEW r \in Requests, Settle(r) PROVE IInv'
<1>1. OnLesson(r)
  BY DEF IInv, RequestsOK, RequestOK, OnPayout, Settle, InFlight
<1>2. MoneyOK'
  BY <1>1, MoneyUnchanged, RecordKeeps DEF Settle, IInv
<1>3. RequestsOK'
  BY EndKeeps DEF Settle, IInv, Ended
<1> QED
  BY <1>2, <1>3, RowsUnchanged DEF Settle, IInv

LEMMA TimeoutKeeps ==
  ASSUME IInv, NEW r \in Requests, Timeout(r) PROVE IInv'
<1>1. OnLesson(r)
  BY UnderWay DEF Timeout, At, InFlight
<1> DEFINE new == [held[r] EXCEPT !.student = TRUE, !.tutor = TRUE, !.paid = TRUE, !.status = "completed"]
<1>2. new \in SessionRow
  BY <1>1 DEF OnLesson, SessionRow, Statuses
<1>3. Write(r, new)
  BY DEF Timeout
<1> HIDE DEF new
<1>4. row' \in [Sessions -> SessionRow]
  BY <1>1, <1>2, <1>3, WriteKeeps DEF IInv, OnLesson
<1>5. RowsOK'
  BY <1>4 DEF Timeout, IInv, RowsOK
<1>6. MoneyOK'
  BY <1>1, FinalizeKeeps, RecordKeeps DEF Timeout, IInv
<1>7. RequestsOK'
  BY EndKeeps DEF Timeout, IInv, Ended
<1> QED
  BY <1>5, <1>6, <1>7 DEF IInv

LEMMA RequestPayoutKeeps ==
  ASSUME IInv, NEW r \in Requests, RequestPayout(r) PROVE IInv'
<1>1. PICK amount \in Payable : payouts' = Append(payouts, [amount |-> amount, status |-> "pending"])
  BY DEF RequestPayout
<1>2. [amount |-> amount, status |-> "pending"] \in Payout
  BY DEF Payout, Decisions
<1>3. payouts' \in Seq(Payout)
  BY <1>1, <1>2, RowAdded DEF IInv, RowsOK
<1>4. RowsOK' /\ MoneyOK'
  BY <1>3, MoneyUnchanged DEF RequestPayout, IInv, RowsOK
<1>5. RequestsOK'
  BY EndKeeps DEF RequestPayout, IInv, Ended
<1> QED
  BY <1>4, <1>5 DEF IInv

LEMMA ReceiveReviewKeeps ==
  ASSUME IInv, NEW r \in Requests, ReceiveReview(r) PROVE IInv'
<1>1. PICK n \in DOMAIN payouts, decision \in {"approved", "rejected"} :
        /\ job' = [job EXCEPT ![r] = [op |-> "review", payout |-> n, value |-> decision]]
        /\ held' = [held EXCEPT ![r] = [status |-> payouts[n].status]]
  BY DEF ReceiveReview
<1>2. Goto(r, "work") /\ UNCHANGED <<school, row, wallet, ledger, commission, payouts>>
  BY DEF ReceiveReview
<1>3. job = [q \in Requests |-> job[q]] /\ held = [q \in Requests |-> held[q]]
      /\ pc = [q \in Requests |-> pc[q]]
  BY DEF IInv, RequestsOK
<1>4. Moves(r) /\ held'[r] = [status |-> payouts[n].status]
  BY <1>1, <1>2, <1>3 DEF Moves, Goto
<1>5. payouts[n] \in Payout
  BY DEF IInv, RowsOK
<1>6. held'[r] \in [status : Decisions]
  BY <1>4, <1>5 DEF Payout
<1>7. job'[r].op = "review" /\ job'[r].value \in Decisions
  BY <1>1, <1>3 DEF Decisions
<1>8. RequestsOK'
  BY <1>2, <1>4, <1>6, <1>7, TakeKeeps DEF IInv
<1> QED
  BY <1>2, <1>8, RowsUnchanged, MoneyUnchanged DEF IInv

LEMMA RowSet ==
  ASSUME NEW S, NEW t \in Seq(S), NEW n \in DOMAIN t, NEW x \in S
  PROVE  /\ [t EXCEPT ![n] = x] \in Seq(S)
         /\ \A i \in DOMAIN t \ {n} : [t EXCEPT ![n] = x][i] = t[i]
         /\ DOMAIN [t EXCEPT ![n] = x] = DOMAIN t
OBVIOUS

\* A decision moves one pending payout, and takes the commissions to withdrawn.
LEMMA PayoutDecided ==
  ASSUME IInv, NEW r \in Requests, OnPayout(r), PayoutStatus(r) = "pending",
         payouts' = [payouts EXCEPT ![job[r].payout].status = job[r].value]
  PROVE  /\ payouts' \in Seq(Payout)
         /\ \A n \in DOMAIN payouts : payouts[n].status # "pending" => payouts'[n] = payouts[n]
<1> DEFINE n == job[r].payout
           new == [payouts[n] EXCEPT !.status = job[r].value]
<1>1. payouts \in Seq(Payout)
  BY DEF IInv, RowsOK
<1>2. CASE n \in DOMAIN payouts
  <2>1. payouts[n] \in Payout
    BY <1>1, <1>2
  <2>2. new \in Payout
    BY <2>1 DEF OnPayout, Payout
  <2>3. payouts' = [payouts EXCEPT ![n] = new] /\ payouts[n].status = "pending"
    BY DEF PayoutStatus
  <2> HIDE DEF n, new
  <2>4. /\ [payouts EXCEPT ![n] = new] \in Seq(Payout)
        /\ \A i \in DOMAIN payouts \ {n} : [payouts EXCEPT ![n] = new][i] = payouts[i]
    BY <1>1, <1>2, <2>2, RowSet
  <2> QED
    BY <2>3, <2>4
<1>3. CASE n \notin DOMAIN payouts
  <2>1. payouts' = [i \in DOMAIN payouts |-> payouts[i]]
    BY <1>3
  <2>2. payouts = [i \in DOMAIN payouts |-> payouts[i]]
    BY <1>1
  <2> QED
    BY <1>1, <2>1, <2>2
<1> QED
  BY <1>2, <1>3

LEMMA CommissionsWithdrawn ==
  ASSUME MoneyOK, UNCHANGED <<wallet, ledger>>,
         commission' = [s \in Sessions |-> IF s \in Pending
                          THEN [commission[s] EXCEPT !.status = "withdrawn"] ELSE commission[s]]
  PROVE  MoneyOK'
<1>1. ASSUME NEW s \in Sessions
      PROVE  /\ commission'[s] \in CommissionRow \cup {NoCommission}
             /\ commission[s] # NoCommission =>
                  commission'[s] # NoCommission /\ commission'[s].net = commission[s].net
  <2>1. CASE s \in Pending
    <3>1. commission[s] \in CommissionRow
      BY <2>1 DEF Pending, MoneyOK
    <3>2. commission'[s] = [commission[s] EXCEPT !.status = "withdrawn"]
      BY <2>1
    <3>3. commission'[s] \in CommissionRow /\ commission'[s].net = commission[s].net
      BY <3>1, <3>2 DEF CommissionRow
    <3> QED
      BY <3>3, SettlementAssumption DEF CommissionRow
  <2>2. CASE s \notin Pending
    BY <2>2 DEF MoneyOK
  <2> QED
    BY <2>1, <2>2
<1>2. commission' \in [Sessions -> CommissionRow \cup {NoCommission}]
  BY <1>1
<1> QED
  BY <1>1, <1>2, NonePosted, MoneyStep DEF MoneyOK

LEMMA ReviewKeeps ==
  ASSUME IInv, NEW r \in Requests, ReviewPayout(r)
  PROVE  /\ IInv'
         /\ \A n \in DOMAIN payouts : payouts[n].status # "pending" => payouts'[n] = payouts[n]
<1>1. OnPayout(r)
  BY DEF ReviewPayout, At, IInv, RequestsOK, RequestOK, OnLesson, LessonOps, InFlight
<1>2. RequestsOK'
  BY EndKeeps DEF ReviewPayout, IInv, Ended
<1>3. CASE PayoutStatus(r) # "pending"
  BY <1>2, <1>3, RowsUnchanged, MoneyUnchanged DEF ReviewPayout, IInv
<1>4. CASE PayoutStatus(r) = "pending"
  <2>1. payouts' = [payouts EXCEPT ![job[r].payout].status = job[r].value]
    BY <1>4 DEF ReviewPayout
  <2>2. \/ UNCHANGED <<wallet, ledger, commission>>
        \/ /\ UNCHANGED <<wallet, ledger>>
           /\ commission' = [s \in Sessions |-> IF s \in Pending
                                THEN [commission[s] EXCEPT !.status = "withdrawn"]
                                ELSE commission[s]]
    BY <1>4 DEF ReviewPayout
  <2>3. MoneyOK'
    BY <2>2, MoneyUnchanged, CommissionsWithdrawn DEF IInv
  <2>4. RowsOK'
    BY <1>1, <1>4, <2>1, PayoutDecided DEF ReviewPayout, IInv, RowsOK
  <2> QED
    BY <1>1, <1>2, <1>4, <2>1, <2>3, <2>4, PayoutDecided DEF IInv
<1> QED
  BY <1>3, <1>4

LEMMA AbortKeeps ==
  ASSUME IInv, NEW r \in Requests, Abort(r) PROVE IInv'
<1>1. RequestsOK'
  BY EndKeeps DEF Abort, IInv, Ended
<1> QED
  BY <1>1, RowsUnchanged, MoneyUnchanged DEF Abort, IInv

LEMMA LoseSchoolKeeps == ASSUME IInv, LoseSchool PROVE IInv'
<1>1. RowsOK'
  BY DEF LoseSchool, IInv, RowsOK
<1> QED
  BY <1>1, RequestsUnchanged, MoneyUnchanged DEF LoseSchool, IInv

-----------------------------------------------------------------------------
\* The invariant holds in every reachable state of the settlement.
THEOREM Invariance == Spec => []IInv
<1>1. IInv /\ [Next]_vars => IInv'
  <2> SUFFICES ASSUME IInv, [Next]_vars PROVE IInv'
    OBVIOUS
  <2>1. CASE UNCHANGED vars
    BY <2>1, RequestsUnchanged, RowsUnchanged, MoneyUnchanged DEF vars, IInv
  <2> QED
    BY <2>1, ReceiveSessionKeeps, ReceiveTimeoutKeeps, ConfirmationsKeep, RejectKeeps, UpdateKeeps,
       ReloadKeeps, SettleKeeps, TimeoutKeeps, RequestPayoutKeeps, ReceiveReviewKeeps, ReviewKeeps,
       AbortKeeps, LoseSchoolKeeps DEF Next
<1> QED
  BY <1>1, InitInvariant, PTL DEF Spec

\* The columns hold what the models of tutoring.py declare.
THEOREM TypesHold == Spec => []TypeOK
BY Invariance, Typed, PTL

\* A lesson is collected once and charged once, in whatever order payment, completion
\* and timeout come (the shared keys of _append_commission_ledger).
THEOREM CollectedOnce == Spec => []LegsOnce
<1>1. IInv => LegsOnce
  BY DEF IInv, MoneyOK
<1> QED
  BY <1>1, Invariance, PTL

\* A commission leg stands with its record, and both are of one price, whoever edits
\* the price meanwhile (create_commission_record).
THEOREM ChargedAsRecorded == Spec => []LegMatchesRecord
<1>1. IInv => LegMatchesRecord
  BY DEF IInv, MoneyOK
<1> QED
  BY <1>1, Invariance, PTL

\* A step decides no payout again.
LEMMA StepKeepsDecisions ==
  ASSUME IInv, [Next]_vars
  PROVE  [\A n \in DOMAIN payouts : payouts[n].status # "pending" => payouts'[n] = payouts[n]]_payouts
<1>1. CASE UNCHANGED payouts
  BY <1>1
<1>2. ASSUME NEW r \in Requests, RequestPayout(r)
      PROVE  \A n \in DOMAIN payouts : payouts'[n] = payouts[n]
  <2>1. PICK amount \in Payable : payouts' = Append(payouts, [amount |-> amount, status |-> "pending"])
    BY <1>2 DEF RequestPayout
  <2>2. [amount |-> amount, status |-> "pending"] \in Payout
    BY DEF Payout, Decisions
  <2> QED
    BY <2>1, <2>2, RowAdded DEF IInv, RowsOK
<1> QED
  BY <1>1, <1>2, ReviewKeeps DEF Next, vars, ReceiveSession, ReceiveTimeout, ConfirmByStudent, ConfirmByTutor,
     RejectByTutor, UpdateSession, Reload, Settle, Timeout, ReceiveReview, Abort, LoseSchool

\* A decided payout is never decided again, however the reviews overlap (review_payout
\* reads the locked row anew).
THEOREM DecidedOnce == Spec => DecisionIsFinal
BY StepKeepsDecisions, Invariance, PTL DEF Spec, DecisionIsFinal

-----------------------------------------------------------------------------
(* The balance.  Amounts is recursive; that the recursion defines one      *)
(* function is part of the invariant, and holds because the ledger grows   *)
(* by one row at a time.                                                   *)

Part(l, kind) == IF l.kind = kind THEN l.amount ELSE 0

Sums(f, table, kind) ==
  f = [n \in 0..Len(table) |-> IF n = 0 THEN 0 ELSE f[n - 1] + Part(table[n], kind)]

Summed(table, kind) ==
  \E f \in [0..Len(table) -> Int] : Sums(f, table, kind) /\ \A g : Sums(g, table, kind) => g = f

SumsTo(table, b) ==
  /\ Summed(table, "inflow") /\ Summed(table, "commission")
  /\ b = Amounts(table, "inflow") - Amounts(table, "commission")

LEMMA AmountsIsLast ==
  ASSUME NEW t, NEW kind, NEW f, Sums(f, t, kind), \A g : Sums(g, t, kind) => g = f
  PROVE  Amounts(t, kind) = f[Len(t)]
<1> DEFINE h == CHOOSE g : Sums(g, t, kind)
<1>1. Sums(h, t, kind)
  OBVIOUS
<1>2. Amounts(t, kind) = h[Len(t)]
  BY DEF Amounts, Sums, Part
<1> HIDE DEF h
<1> QED
  BY <1>1, <1>2

LEMMA SumOfOneMore ==
  ASSUME NEW t \in Seq(LegRow), NEW l \in LegRow, NEW kind, Summed(t, kind)
  PROVE  /\ Summed(Append(t, l), kind)
         /\ Amounts(t, kind) \in Int
         /\ Amounts(Append(t, l), kind) = Amounts(t, kind) + Part(l, kind)
<1> DEFINE u == Append(t, l)
           n == Len(t)
<1>1. PICK f \in [0..n -> Int] : Sums(f, t, kind) /\ \A g : Sums(g, t, kind) => g = f
  BY DEF Summed
<1>2. n \in Nat /\ Len(u) = n + 1 /\ u[n + 1] = l /\ \A i \in 1..n : u[i] = t[i]
  OBVIOUS
<1>3. Part(l, kind) \in Int
  BY DEF Part, LegRow
<1> HIDE DEF u, n
<1> DEFINE h == [i \in 0..(n + 1) |-> IF i = n + 1 THEN f[n] + Part(l, kind) ELSE f[i]]
<1>4. f = [i \in 0..n |-> IF i = 0 THEN 0 ELSE f[i - 1] + Part(t[i], kind)]
  BY <1>1 DEF Sums, n
<1>5. \A i \in 0..(n + 1) : h[i] = IF i = 0 THEN 0 ELSE h[i - 1] + Part(u[i], kind)
  <2> TAKE i \in 0..(n + 1)
  <2>1. CASE i = 0
    BY <1>2, <1>4, <2>1
  <2>2. CASE i \in 1..n
    BY <1>2, <1>4, <2>2
  <2>3. CASE i = n + 1
    BY <1>2, <2>3
  <2> QED
    BY <1>2, <2>1, <2>2, <2>3
<1>6. h \in [0..(n + 1) -> Int] /\ h[n + 1] = f[n] + Part(l, kind)
  BY <1>1, <1>2, <1>3
<1>7. Sums(h, u, kind)
  <2>1. h = [i \in 0..(n + 1) |-> h[i]]
    OBVIOUS
  <2> HIDE DEF h
  <2> QED
    BY <1>2, <1>5, <2>1 DEF Sums
<1>8. ASSUME NEW g, Sums(g, u, kind) PROVE g = h
  <2> DEFINE below == [i \in 0..n |-> g[i]]
  <2>1. g = [i \in 0..(n + 1) |-> IF i = 0 THEN 0 ELSE g[i - 1] + Part(u[i], kind)]
    BY <1>2, <1>8 DEF Sums
  <2>2. \A i \in 0..n : below[i] = IF i = 0 THEN 0 ELSE below[i - 1] + Part(t[i], kind)
    BY <1>2, <2>1
  <2>3. Sums(below, t, kind)
    BY <2>2 DEF Sums, n
  <2>4. below = f
    BY <1>1, <2>3
  <2>5. \A i \in 0..n : g[i] = f[i]
    BY <2>4
  <2>6. g[n + 1] = f[n] + Part(l, kind)
    <3>1. n + 1 \in 0..(n + 1) /\ n + 1 # 0 /\ (n + 1) - 1 = n /\ n \in 0..n
      BY <1>2
    <3>2. g[n + 1] = g[n] + Part(l, kind)
      BY <1>2, <2>1, <3>1
    <3> QED
      BY <2>5, <3>1, <3>2
  <2>7. \A i \in 0..(n + 1) : g[i] = h[i]
    BY <1>2, <2>5, <2>6
  <2>8. g = [i \in 0..(n + 1) |-> g[i]]
    BY <2>1
  <2> QED
    BY <2>7, <2>8
<1> HIDE DEF h
<1>9. Summed(u, kind)
  BY <1>2, <1>6, <1>7, <1>8 DEF Summed
<1>10. Amounts(u, kind) = h[n + 1]
  BY <1>2, <1>7, <1>8, AmountsIsLast
<1>11. Amounts(t, kind) = f[n]
  BY <1>1, AmountsIsLast DEF n
<1> QED
  BY <1>1, <1>2, <1>6, <1>9, <1>10, <1>11 DEF u

LEMMA NothingSums == SumsTo(<< >>, 0)
<1>1. ASSUME NEW kind PROVE Summed(<< >>, kind) /\ Amounts(<< >>, kind) = 0
  <2> DEFINE f == [n \in 0..0 |-> 0]
  <2>1. Sums(f, << >>, kind)
    BY DEF Sums
  <2>2. \A g : Sums(g, << >>, kind) => g = f
    BY DEF Sums
  <2>3. f \in [0..0 -> Int] /\ f[0] = 0 /\ Len(<< >>) = 0
    OBVIOUS
  <2> HIDE DEF f
  <2> QED
    BY <2>1, <2>2, <2>3, AmountsIsLast DEF Summed
<1> QED
  BY <1>1 DEF SumsTo

LEMMA LegSums ==
  ASSUME NEW t \in Seq(LegRow), NEW l \in LegRow, NEW b \in Int, SumsTo(t, b)
  PROVE  SumsTo(Append(t, l), b + Signed(l))
<1>1. /\ Summed(t, "inflow") /\ Summed(t, "commission")
      /\ b = Amounts(t, "inflow") - Amounts(t, "commission")
  BY DEF SumsTo
<1> DEFINE u == Append(t, l)
<1>2. /\ Summed(u, "inflow") /\ Amounts(t, "inflow") \in Int
      /\ Amounts(u, "inflow") = Amounts(t, "inflow") + Part(l, "inflow")
  BY <1>1, SumOfOneMore
<1>3. /\ Summed(u, "commission") /\ Amounts(t, "commission") \in Int
      /\ Amounts(u, "commission") = Amounts(t, "commission") + Part(l, "commission")
  BY <1>1, SumOfOneMore
<1>4. l.kind \in {"inflow", "commission"} /\ l.amount \in Nat
  BY DEF LegRow
<1> HIDE DEF u
<1>5. b + Signed(l) = Amounts(u, "inflow") - Amounts(u, "commission")
  BY <1>1, <1>2, <1>3, <1>4 DEF Part, Signed
<1>6. SumsTo(u, b + Signed(l))
  BY <1>2, <1>3, <1>5 DEF SumsTo
<1> QED
  BY <1>6 DEF u

LEMMA PostingSums ==
  ASSUME NEW t \in Seq(LegRow), NEW l \in LegRow, NEW b \in Int, SumsTo(t, b)
  PROVE  SumsTo(Posting(t, l), b + Effect(l)) /\ Posting(t, l) \in Seq(LegRow)
<1>1. CASE Posted(l.session, l.kind)
  BY <1>1 DEF Posting, Effect
<1>2. CASE ~ Posted(l.session, l.kind)
  BY <1>2, LegSums, RowAdded DEF Posting, Effect
<1> QED
  BY <1>1, <1>2

\* What any step does to ledger and balance.
LegPosted ==
  \E l \in LegRow : ledger' = Posting(ledger, l) /\ Balance' = Balance + Effect(l)
LegsPosted ==
  \E k, l \in LegRow : /\ ledger' = Posting(Posting(ledger, k), l)
                       /\ Balance' = Balance + Effect(k) + Effect(l)

LEMMA BalanceOfInt == ASSUME wallet' \in Int PROVE Balance' = wallet'
BY SettlementAssumption DEF Balance

LEMMA FinalizePosts ==
  ASSUME IInv, NEW r, OnLesson(r), Finalize(r)
  PROVE  LegPosted \/ UNCHANGED <<ledger, Balance>>
<1>1. CASE school /\ held[r].price > 0 /\ wallet # NoWallet
  <2>1. ledger' = Posting(ledger, Inflow(r)) /\ wallet' = wallet + Effect(Inflow(r))
    BY <1>1 DEF Finalize
  <2>2. Inflow(r) \in LegRow
    BY LegsOfLesson
  <2>3. Balance = wallet /\ wallet \in Int
    BY <1>1 DEF Balance, IInv, MoneyOK
  <2>4. Balance' = Balance + Effect(Inflow(r))
    BY <2>1, <2>2, <2>3, EffectIsInt, BalanceOfInt
  <2> QED
    BY <2>1, <2>2, <2>4 DEF LegPosted
<1>2. CASE ~ (school /\ held[r].price > 0 /\ wallet # NoWallet)
  BY <1>2 DEF Finalize, Balance
<1> QED
  BY <1>1, <1>2

LEMMA PostLegsPosts ==
  ASSUME IInv, NEW r, OnLesson(r), PostLegs(r) PROVE LegsPosted
<1>1. ledger' = Posting(Posting(ledger, Inflow(r)), Charge(r))
      /\ wallet' = Balance + Effect(Inflow(r)) + Effect(Charge(r))
  BY DEF PostLegs
<1>2. Inflow(r) \in LegRow /\ Charge(r) \in LegRow
  BY LegsOfLesson
<1>3. Balance' = wallet'
  BY <1>1, <1>2, EffectIsInt, BalanceIsInt, BalanceOfInt DEF IInv
<1> QED
  BY <1>1, <1>2, <1>3 DEF LegsPosted

LEMMA StepPosts ==
  ASSUME IInv, [Next]_vars
  PROVE  LegPosted \/ LegsPosted \/ UNCHANGED <<ledger, Balance>>
<1>1. CASE UNCHANGED <<wallet, ledger>>
  BY <1>1 DEF Balance
<1>2. ASSUME NEW r \in Requests, ConfirmByStudent(r) \/ ConfirmByTutor(r) \/ Settle(r) \/ Timeout(r)
      PROVE  LegPosted \/ LegsPosted \/ UNCHANGED <<ledger, Balance>>
  <2>1. OnLesson(r)
    <3>1. CASE Settle(r)
      BY <3>1 DEF IInv, RequestsOK, RequestOK, OnPayout, Settle, InFlight
    <3> QED
      BY <1>2, <3>1, UnderWay DEF ConfirmByStudent, ConfirmByTutor, Timeout, At, InFlight
  <2>2. Finalize(r) \/ PostLegs(r) \/ UNCHANGED <<wallet, ledger>>
    BY <1>2 DEF ConfirmByStudent, ConfirmByTutor, Confirm, Settle, Timeout
  <2> QED
    BY <1>1, <2>1, <2>2, FinalizePosts, PostLegsPosts
<1> QED
  BY <1>1, <1>2 DEF Next, vars, ReceiveSession, ReceiveTimeout, RejectByTutor, UpdateSession, Reload,
     RequestPayout, ReceiveReview, ReviewPayout, Abort, LoseSchool

\* Whoever posts first, the balance of the tutor is what the inflow legs brought less
\* what the commission legs took (_append_commission_ledger, _finalize_session_payment).
THEOREM BalanceExplained == Spec => []BalanceIsSumOfLegs
<1>1. Init => SumsTo(ledger, Balance)
  BY NothingSums DEF Init, Balance
<1>2. IInv /\ SumsTo(ledger, Balance) /\ [Next]_vars => SumsTo(ledger, Balance)'
  <2> SUFFICES ASSUME IInv, SumsTo(ledger, Balance), [Next]_vars
               PROVE  SumsTo(ledger', Balance')
    BY DEF SumsTo, Summed, Sums, Part, Amounts
  <2>1. ledger \in Seq(LegRow) /\ Balance \in Int
    BY BalanceIsInt DEF IInv, MoneyOK
  <2>2. ASSUME NEW l \in LegRow, ledger' = Posting(ledger, l), Balance' = Balance + Effect(l)
        PROVE  SumsTo(ledger', Balance')
    BY <2>1, <2>2, PostingSums
  <2>3. ASSUME NEW k \in LegRow, NEW l \in LegRow,
               ledger' = Posting(Posting(ledger, k), l), Balance' = Balance + Effect(k) + Effect(l)
        PROVE  SumsTo(ledger', Balance')
    <3>1. SumsTo(Posting(ledger, k), Balance + Effect(k)) /\ Posting(ledger, k) \in Seq(LegRow)
      BY <2>1, PostingSums
    <3>2. Balance + Effect(k) \in Int
      BY <2>1, EffectIsInt
    <3> QED
      BY <2>3, <3>1, <3>2, PostingSums
  <2> QED
    BY <2>2, <2>3, StepPosts DEF LegPosted, LegsPosted
<1>3. SumsTo(ledger, Balance) => BalanceIsSumOfLegs
  BY DEF SumsTo, BalanceIsSumOfLegs
<1> QED
  BY <1>1, <1>2, <1>3, Invariance, PTL DEF Spec
=============================================================================
