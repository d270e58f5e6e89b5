------------------------- MODULE QuizAttemptsProofs -------------------------
(***************************************************************************)
(* What QuizAttempts keeps for any quiz, any number allowed and any number *)
(* of handlers.  The invariant adds to the properties where each handler   *)
(* stands: what it is to write names an attempt and rows that are there.   *)
(***************************************************************************)
EXTENDS QuizAttempts, FiniteSetTheorems, TLAPS

Places == {"idle", "insert", "form", "write", "submit", "lock", "score"}
Statuses == {"in_progress", "submitted"}
Ops == {"save", "submit", "force"}
Attempt == [status : Statuses, late : BOOLEAN, score : Nat, submissions : Nat, hand : BOOLEAN]
Answer == [attempt : Nat, question : Questions, value : Values \cup {"none"}, mark : Marks]
Loaded == [status : {"unread"} \cup Statuses, seen : Seq(Values \cup {"none"})]

FormJob == [op : Ops, attempt : Nat, todo : SUBSET Questions]
WriteJob == [op : Ops, attempt : Nat, todo : SUBSET Questions,
             question : Questions, value : Values, row : Nat]
GradeJob == [op : {"grade"}, row : Nat, mark : {0, 1}, total : Nat]

\* A handler is at a place its job fits.
Fits(r) ==
  /\ pc[r] = "insert" => job[r].used \in Nat /\ job[r].used < Allowed
  /\ pc[r] \in {"form", "submit", "lock"} => job[r] \in FormJob
  /\ pc[r] = "write" => job[r] \in WriteJob /\ job[r].row \in 0..Len(answers)
  /\ pc[r] \in {"form", "write", "submit", "lock"} => job[r].attempt \in DOMAIN attempts
  /\ pc[r] = "score" => job[r] \in GradeJob /\ job[r].row \in DOMAIN answers
  /\ Len(session[r].seen) <= Len(answers)

ThreadsOK ==
  /\ pc \in [Threads -> Places]
  /\ job = [r \in Threads |-> job[r]]
  /\ session \in [Threads -> Loaded]
  /\ \A r \in Threads : Fits(r)

RowsOK ==
  /\ attempts \in Seq(Attempt) /\ answers \in Seq(Answer)
  /\ \A i \in DOMAIN answers : answers[i].attempt \in DOMAIN attempts
  /\ AttemptsWithinLimit /\ SubmittedIsComplete /\ NoQuestionPaidTwice

IInv == ThreadsOK /\ RowsOK

-----------------------------------------------------------------------------
\* Tables.
LEMMA RowSet ==
  ASSUME NEW S, NEW t \in Seq(S), NEW n \in DOMAIN t, NEW x \in S
  PROVE  /\ [t EXCEPT ![n] = x] \in Seq(S)
         /\ Len([t EXCEPT ![n] = x]) = Len(t)
         /\ DOMAIN [t EXCEPT ![n] = x] = DOMAIN t
         /\ [t EXCEPT ![n] = x][n] = x
         /\ \A m \in DOMAIN t \ {n} : [t EXCEPT ![n] = x][m] = t[m]
OBVIOUS

LEMMA RowAdded ==
  ASSUME NEW S, NEW t \in Seq(S), NEW x \in S
  PROVE  /\ Append(t, x) \in Seq(S)
         /\ Len(Append(t, x)) = Len(t) + 1 /\ Len(t) \in Nat
         /\ DOMAIN Append(t, x) = DOMAIN t \cup {Len(t) + 1}
         /\ Len(t) + 1 \notin DOMAIN t
         /\ Append(t, x)[Len(t) + 1] = x
         /\ \A m \in DOMAIN t : Append(t, x)[m] = t[m]
OBVIOUS

LEMMA RowsMapped ==
  ASSUME NEW S, NEW t \in Seq(S), NEW f, f = [m \in DOMAIN t |-> f[m]],
         \A m \in DOMAIN t : f[m] \in S
  PROVE  f \in Seq(S) /\ DOMAIN f = DOMAIN t /\ Len(f) = Len(t)
OBVIOUS

LEMMA RowsAfter ==
  ASSUME NEW S, NEW s \in Seq(S), NEW t \in Seq(S)
  PROVE  /\ s \o t \in Seq(S) /\ Len(s) <= Len(s \o t)
         /\ \A i \in DOMAIN s : i \in DOMAIN (s \o t) /\ (s \o t)[i] = s[i]
         /\ \A i \in DOMAIN t : Len(s) + i \in DOMAIN (s \o t) /\ (s \o t)[Len(s) + i] = t[i]
         /\ \A i \in DOMAIN (s \o t) :
              i \in DOMAIN s \/ \E k \in DOMAIN t : (s \o t)[i] = t[k]
<1> DEFINE u == s \o t
           m == Len(s)
           n == Len(t)
<1>1. /\ u \in Seq(S) /\ m \in Nat /\ n \in Nat /\ Len(u) = m + n
      /\ DOMAIN u = 1..(m + n) /\ DOMAIN s = 1..m /\ DOMAIN t = 1..n
      /\ \A i \in 1..m : u[i] = s[i]
      /\ \A i \in 1..n : u[m + i] = t[i]
  OBVIOUS
<1> HIDE DEF u, m, n
<1>2. /\ \A i \in 1..m : i \in 1..(m + n)
      /\ \A i \in 1..n : m + i \in 1..(m + n)
      /\ m <= m + n
  BY <1>1
<1>3. ASSUME NEW i \in DOMAIN u PROVE i \in DOMAIN s \/ \E k \in DOMAIN t : u[i] = t[k]
  <2>1. i \notin 1..m => i - m \in 1..n /\ i = m + (i - m)
    BY <1>1, <1>3
  <2> QED
    BY <1>1, <2>1
<1>4. /\ u \in Seq(S) /\ m <= Len(u)
      /\ \A i \in DOMAIN s : i \in DOMAIN u /\ u[i] = s[i]
      /\ \A i \in DOMAIN t : m + i \in DOMAIN u /\ u[m + i] = t[i]
  BY <1>1, <1>2
<1> QED
  BY <1>3, <1>4 DEF u, m

\* The elements of a finite set, in some order.
LEMMA SetInOrder ==
  ASSUME NEW T, IsFiniteSet(T)
  PROVE  /\ SetToSeq(T) \in Seq(T)
         /\ \A x \in T : \E i \in DOMAIN SetToSeq(T) : SetToSeq(T)[i] = x
<1> DEFINE c == Cardinality(T)
           g == CHOOSE f \in [1..c -> T] : IsInjective(f)
<1>1. c \in Nat /\ ExistsBijection(1..c, T)
  BY FS_CardinalityType
<1>2. \E f \in [1..c -> T] : IsInjective(f)
  BY <1>1 DEF ExistsBijection, Bijection, Injection, Surjection
<1>3. g \in [1..c -> T] /\ IsInjective(g)
  BY <1>2
<1>4. g = SetToSeq(T)
  BY DEF SetToSeq
<1> HIDE DEF g
<1>5. IsFiniteSet(1..c) /\ Cardinality(1..c) = c
  BY <1>1, FS_Interval
<1>6. g \in Surjection(1..c, T)
  BY <1>3, <1>5, FS_Injection DEF Injection
<1>7. \A x \in T : \E i \in 1..c : g[i] = x
  BY <1>6 DEF Surjection
<1>8. g \in Seq(T) /\ DOMAIN g = 1..c
  BY <1>1, <1>3
<1> QED
  BY <1>4, <1>7, <1>8

LEMMA MarkTyped ==
  ASSUME NEW q, NEW v
  PROVE  Mark(q, v) \in Marks /\ (Mark(q, v) = 1 => q \in Objective)
BY QuizAssumption DEF Mark, Marks

\* The sum of a submission counts no question twice.
LEMMA TotalBounded ==
  ASSUME NEW r, NEW pick
  PROVE  Total(r, pick) \in Nat /\ Total(r, pick) <= Cardinality(Objective)
<1> DEFINE T == {q \in Questions : MarkOf(r, q, pick[q]) = 1}
<1>1. T \in SUBSET Objective
  BY MarkTyped, QuizAssumption DEF MarkOf
<1>2. IsFiniteSet(Objective)
  BY FS_Subset, QuizAssumption
<1>3. Total(r, pick) = Cardinality(T)
  BY DEF Total
<1> HIDE DEF T
<1> QED
  BY <1>1, <1>2, <1>3, FS_Subset, FS_CardinalityType

LEMMA TotalWithTyped ==
  ASSUME NEW i, NEW m, answers \in Seq(Answer)
  PROVE  TotalWith(i, m) \in Nat
<1> DEFINE T == {k \in DOMAIN answers : /\ answers[k].attempt = answers[i].attempt
                                      /\ (IF k = i THEN m ELSE answers[k].mark) = 1}
<1>1. IsFiniteSet(DOMAIN answers)
  BY FS_Interval
<1>2. IsFiniteSet(T) /\ TotalWith(i, m) = Cardinality(T)
  BY <1>1, FS_Subset DEF TotalWith
<1> HIDE DEF T
<1> QED
  BY <1>2, FS_CardinalityType

-----------------------------------------------------------------------------
\* Only handler r moves.
Moves(r) ==
  /\ pc' = [pc EXCEPT ![r] = pc'[r]]
  /\ job' = [job EXCEPT ![r] = job'[r]]
  /\ session' = [session EXCEPT ![r] = session'[r]]

WillFit(r) ==
  /\ pc'[r] \in Places /\ session'[r] \in Loaded
  /\ pc'[r] = "insert" => job'[r].used \in Nat /\ job'[r].used < Allowed
  /\ pc'[r] \in {"form", "submit", "lock"} => job'[r] \in FormJob
  /\ pc'[r] = "write" => job'[r] \in WriteJob /\ job'[r].row \in 0..Len(answers)
  /\ pc'[r] \in {"form", "write", "submit", "lock"} => job'[r].attempt \in DOMAIN attempts
  /\ pc'[r] = "score" => job'[r] \in GradeJob /\ job'[r].row \in DOMAIN answers
  /\ Len(session'[r].seen) <= Len(answers)

\* What a step leaves of the tables.
TablesGrow ==
  /\ DOMAIN attempts \subseteq DOMAIN attempts' /\ DOMAIN answers \subseteq DOMAIN answers'
  /\ Len(answers) <= Len(answers')

LEMMA Typed ==
  ASSUME IInv
  PROVE  /\ pc \in [Threads -> Places] /\ job = [r \in Threads |-> job[r]]
         /\ session \in [Threads -> Loaded]
         /\ attempts \in Seq(Attempt) /\ answers \in Seq(Answer)
         /\ Len(attempts) \in Nat /\ Len(answers) \in Nat
         /\ DOMAIN attempts = 1..Len(attempts) /\ DOMAIN answers = 1..Len(answers)
BY DEF IInv, ThreadsOK, RowsOK

LEMMA FitKept ==
  ASSUME NEW n \in Nat, NEW m \in Nat, n <= m PROVE 0..n \subseteq 0..m
OBVIOUS

LEMMA StepKeeps ==
  ASSUME IInv, RowsOK', TablesGrow, NEW r \in Threads, Moves(r), WillFit(r)
  PROVE  IInv'
<1>1. \A q \in Threads \ {r} : pc'[q] = pc[q] /\ job'[q] = job[q] /\ session'[q] = session[q]
  BY Typed DEF Moves
<1>2. Len(answers) \in Nat /\ Len(answers') \in Nat /\ Len(answers) <= Len(answers')
  BY Typed DEF TablesGrow, RowsOK
<1>3. 0..Len(answers) \subseteq 0..Len(answers')
  BY <1>2, FitKept
<1>4. ASSUME NEW q \in Threads, NEW l \in Nat, l <= Len(answers) PROVE l <= Len(answers')
  BY <1>2, <1>4
<1>5. \A q \in Threads : Len(session[q].seen) \in Nat
  BY Typed DEF Loaded
<1>6. ASSUME NEW q \in Threads \ {r} PROVE Fits(q)'
  <2>1. Fits(q)
    BY DEF IInv, ThreadsOK
  <2>2. Len(session[q].seen) <= Len(answers')
    BY <1>4, <1>5, <2>1 DEF Fits
  <2> QED
    BY <1>1, <1>3, <2>1, <2>2 DEF Fits, TablesGrow
<1>7. Fits(r)'
  <2>1. Len(session'[r].seen) \in Nat
    BY DEF WillFit, Loaded
  <2>2. Len(session'[r].seen) <= Len(answers')
    BY <1>4, <2>1 DEF WillFit
  <2> QED
    BY <1>3, <2>2 DEF Fits, WillFit, TablesGrow
<1>8. pc' \in [Threads -> Places] /\ session' \in [Threads -> Loaded]
  BY Typed DEF Moves, WillFit
<1>9. job' = [q \in Threads |-> job'[q]]
  BY Typed DEF Moves
<1> QED
  BY <1>6, <1>7, <1>8, <1>9 DEF IInv, ThreadsOK

LEMMA RowsKept == ASSUME IInv, UNCHANGED <<attempts, answers>> PROVE RowsOK' /\ TablesGrow
BY Typed DEF IInv, RowsOK, AttemptsWithinLimit, SubmittedIsComplete, NoQuestionPaidTwice, RowsOf,
   TablesGrow

\* Rows stay what and where they are; an attempt that ends is complete, and a new
\* score without a teacher counts no question twice.
LEMMA RowsHold ==
  ASSUME IInv, attempts' \in Seq(Attempt), answers' \in Seq(Answer), TablesGrow,
         Len(attempts') <= Allowed,
         \A i \in DOMAIN answers : /\ answers'[i].attempt = answers[i].attempt
                                  /\ answers'[i].question = answers[i].question,
         \A i \in DOMAIN answers' : answers'[i].attempt \in DOMAIN attempts',
         \A n \in DOMAIN attempts' : attempts'[n].status = "submitted" =>
           \/ n \in DOMAIN attempts /\ attempts[n].status = "submitted"
           \/ \A q \in Questions : \E i \in DOMAIN answers' :
                answers'[i].attempt = n /\ answers'[i].question = q,
         \A n \in DOMAIN attempts' : ~ attempts'[n].hand =>
           \/ n \in DOMAIN attempts /\ ~ attempts[n].hand /\ attempts'[n].score = attempts[n].score
           \/ attempts'[n].score <= Cardinality(Objective)
  PROVE  RowsOK'
<1>1. ASSUME NEW n \in DOMAIN attempts', attempts'[n].status = "submitted", NEW q \in Questions
      PROVE  \E i \in DOMAIN answers' : answers'[i].attempt = n /\ answers'[i].question = q
  <2>1. CASE n \in DOMAIN attempts /\ attempts[n].status = "submitted"
    <3>1. PICK i \in DOMAIN answers : answers[i].attempt = n /\ answers[i].question = q
      BY <2>1 DEF IInv, RowsOK, SubmittedIsComplete, RowsOf
    <3> QED
      BY <3>1 DEF TablesGrow
  <2> QED
    BY <1>1, <2>1
<1>2. SubmittedIsComplete'
  BY <1>1 DEF SubmittedIsComplete, RowsOf
<1>3. NoQuestionPaidTwice'
  BY DEF NoQuestionPaidTwice, IInv, RowsOK
<1> QED
  BY <1>2, <1>3 DEF RowsOK, AttemptsWithinLimit

\* A handler that ends, and one that goes on.
LEMMA HandlerEnds == ASSUME IInv, NEW r \in Threads, End(r) PROVE Moves(r) /\ WillFit(r)
<1>1. /\ pc'[r] = "idle" /\ session'[r] = Nothing /\ Moves(r)
  BY Typed DEF End, Goto, Moves
<1>2. Nothing \in Loaded /\ Len(Nothing.seen) = 0
  BY DEF Nothing, Loaded
<1>3. Len(answers) \in Nat
  BY Typed
<1> QED
  BY <1>1, <1>2, <1>3 DEF WillFit, Places

LEMMA HandlerMoves ==
  ASSUME IInv, NEW r \in Threads, NEW place \in Places, Goto(r, place),
         NEW j, job' = [job EXCEPT ![r] = j],
         NEW held \in Loaded, session' = [session EXCEPT ![r] = held]
  PROVE  Moves(r) /\ pc'[r] = place /\ job'[r] = j /\ session'[r] = held
BY Typed DEF Goto, Moves

LEMMA SameHeld ==
  ASSUME IInv, NEW r \in Threads, UNCHANGED session
  PROVE  /\ session[r] \in Loaded /\ session' = [session EXCEPT ![r] = session[r]]
         /\ Len(session[r].seen) <= Len(answers)
BY Typed DEF IInv, ThreadsOK, Fits

LEMMA SameJob ==
  ASSUME IInv, NEW r \in Threads, UNCHANGED job PROVE job' = [job EXCEPT ![r] = job[r]]
BY Typed

-----------------------------------------------------------------------------
\* One lemma per step.
LEMMA InitInvariant == Init => IInv
<1> SUFFICES ASSUME Init PROVE IInv
  OBVIOUS
<1>1. Nothing \in Loaded /\ Len(Nothing.seen) = 0
  BY DEF Nothing, Loaded
<1>2. attempts = << >> /\ answers = << >> /\ Len(attempts) = 0 /\ Len(answers) = 0
  BY DEF Init
<1>3. ThreadsOK
  BY <1>1, <1>2 DEF Init, ThreadsOK, Fits, Places
<1>4. RowsOK
  BY <1>2, QuizAssumption DEF RowsOK, AttemptsWithinLimit, SubmittedIsComplete, NoQuestionPaidTwice
<1> QED
  BY <1>3, <1>4 DEF IInv

LEMMA StartKeeps == ASSUME IInv, NEW r \in Threads, Start(r) PROVE IInv'
<1>1. RowsOK' /\ TablesGrow
  BY RowsKept DEF Start
<1>2. Len(attempts) \in Nat /\ Len(attempts) < Allowed
  BY Typed DEF Start
<1> DEFINE j == [op |-> "start", used |-> Len(attempts)]
<1>3. j.used \in Nat /\ j.used < Allowed
  BY <1>2
<1>4. Goto(r, "insert") /\ job' = [job EXCEPT ![r] = j] /\ UNCHANGED session
  BY DEF Start
<1>5. "insert" \in Places
  BY DEF Places
<1> HIDE DEF j
<1>6. Moves(r) /\ pc'[r] = "insert" /\ job'[r] = j /\ session'[r] = session[r]
  BY <1>4, <1>5, HandlerMoves, SameHeld
<1>7. WillFit(r)
  BY <1>3, <1>4, <1>5, <1>6, SameHeld DEF WillFit
<1> QED
  BY <1>1, <1>6, <1>7, StepKeeps

LEMMA InsertAttemptKeeps == ASSUME IInv, NEW r \in Threads, InsertAttempt(r) PROVE IInv'
<1>1. Moves(r) /\ WillFit(r)
  BY HandlerEnds DEF InsertAttempt
<1>2. CASE ~ Free(job[r].used)
  <2>1. UNCHANGED <<attempts, answers>>
    BY <1>2 DEF InsertAttempt
  <2> QED
    BY <1>1, <2>1, RowsKept, StepKeeps
<1>3. CASE Free(job[r].used)
  <2>1. attempts' = Append(attempts, NewAttempt) /\ UNCHANGED answers
    BY <1>3 DEF InsertAttempt
  <2>2. Len(attempts) < Allowed
    BY <1>3 DEF InsertAttempt, Free, IInv, ThreadsOK, Fits
  <2>3. NewAttempt \in Attempt /\ NewAttempt.status = "in_progress" /\ NewAttempt.score = 0
    BY DEF NewAttempt, Attempt, Statuses
  <2> DEFINE c == Len(attempts) + 1
  <2>4. /\ attempts' \in Seq(Attempt) /\ Len(attempts') = c /\ attempts'[c] = NewAttempt
        /\ DOMAIN attempts' = DOMAIN attempts \cup {c} /\ c \notin DOMAIN attempts
        /\ \A m \in DOMAIN attempts : attempts'[m] = attempts[m]
    BY <2>1, <2>3, RowAdded, Typed
  <2>5. c <= Allowed
    BY <2>2, Typed, QuizAssumption
  <2> HIDE DEF c
  <2>6. TablesGrow
    BY <2>1, <2>4, Typed DEF TablesGrow
  <2>7. 0 <= Cardinality(Objective)
    BY QuizAssumption, FS_Subset, FS_CardinalityType
  <2>8. \A i \in DOMAIN answers' : answers'[i].attempt \in DOMAIN attempts'
    BY <2>1, <2>4 DEF IInv, RowsOK
  <2>9. answers' \in Seq(Answer)
    BY <2>1, Typed
  <2>10. /\ \A n \in DOMAIN attempts' : attempts'[n].status = "submitted" =>
              n \in DOMAIN attempts /\ attempts[n].status = "submitted"
         /\ \A n \in DOMAIN attempts' : ~ attempts'[n].hand =>
              \/ n \in DOMAIN attempts /\ ~ attempts[n].hand /\ attempts'[n].score = attempts[n].score
              \/ attempts'[n].score <= Cardinality(Objective)
    BY <2>3, <2>4, <2>7
  <2>11. RowsOK'
    BY <2>1, <2>4, <2>5, <2>6, <2>8, <2>9, <2>10, RowsHold
  <2> QED
    BY <1>1, <2>6, <2>11, StepKeeps
<1> QED
  BY <1>2, <1>3

LEMMA LoadKeeps == ASSUME IInv, NEW r \in Threads, Load(r) PROVE IInv'
<1>1. RowsOK' /\ TablesGrow
  BY RowsKept DEF Load
<1>2. PICK n \in DOMAIN attempts, op \in Ops :
        /\ job' = [job EXCEPT ![r] = [op |-> op, attempt |-> n, todo |-> Questions]]
        /\ session' = [session EXCEPT ![r] =
             [status |-> attempts[n].status,
              seen |-> [i \in DOMAIN answers |-> answers[i].value]]]
  BY DEF Load, Ops
<1> DEFINE j == [op |-> op, attempt |-> n, todo |-> Questions]
           seen == [i \in DOMAIN answers |-> answers[i].value]
           held == [status |-> attempts[n].status, seen |-> seen]
<1>3. j \in FormJob /\ j.attempt \in DOMAIN attempts
  BY Typed DEF FormJob
<1>4. seen \in Seq(Values \cup {"none"}) /\ Len(seen) = Len(answers)
  <2>1. \A i \in DOMAIN answers : answers[i] \in Answer
    BY Typed
  <2>2. \A i \in DOMAIN answers : answers[i].value \in Values \cup {"none"}
    BY <2>1 DEF Answer
  <2> QED
    BY <2>2, Typed
<1>5. attempts[n].status \in Statuses
  <2>1. attempts[n] \in Attempt
    BY Typed
  <2> QED
    BY <2>1 DEF Attempt
<1>6. held \in Loaded /\ held.seen = seen
  BY <1>4, <1>5 DEF Loaded
<1>7. Goto(r, "form") /\ "form" \in Places
  BY DEF Load, Places
<1>8. job' = [job EXCEPT ![r] = j] /\ session' = [session EXCEPT ![r] = held]
  BY <1>2
<1> HIDE DEF j, held, seen
<1>9. Moves(r) /\ pc'[r] = "form" /\ job'[r] = j /\ session'[r] = held
  BY <1>6, <1>7, <1>8, HandlerMoves
<1>10. Len(answers) \in Nat
  BY Typed
<1>11. WillFit(r)
  BY <1>3, <1>4, <1>6, <1>7, <1>9, <1>10 DEF WillFit
<1> QED
  BY <1>1, <1>9, <1>11, StepKeeps

LEMMA FormDoneKeeps == ASSUME IInv, NEW r \in Threads, FormDone(r) PROVE IInv'
<1>1. RowsOK' /\ TablesGrow
  BY RowsKept DEF FormDone
<1>2. CASE End(r)
  BY <1>1, <1>2, HandlerEnds, StepKeeps
<1>3. CASE Goto(r, "submit") /\ UNCHANGED <<job, session>>
  <2>1. job[r] \in FormJob /\ job[r].attempt \in DOMAIN attempts
    BY DEF FormDone, IInv, ThreadsOK, Fits
  <2>2. "submit" \in Places
    BY DEF Places
  <2>3. /\ Moves(r) /\ pc'[r] = "submit" /\ job'[r] = job[r] /\ session'[r] = session[r]
    BY <1>3, <2>2, HandlerMoves, SameHeld, SameJob
  <2>4. WillFit(r)
    BY <1>3, <2>1, <2>2, <2>3, SameHeld DEF WillFit
  <2> QED
    BY <1>1, <2>3, <2>4, StepKeeps
<1> QED
  BY <1>2, <1>3 DEF FormDone

LEMMA LookKeeps == ASSUME IInv, NEW r \in Threads, Look(r) PROVE IInv'
<1>1. RowsOK' /\ TablesGrow
  BY RowsKept DEF Look
<1>1a. PICK q \in job[r].todo, v \in Values :
         \E i \in IF RowsOf(job[r].attempt, q) = {} THEN {0} ELSE RowsOf(job[r].attempt, q) :
           job' = [job EXCEPT ![r] = [op |-> job[r].op, attempt |-> job[r].attempt,
                     todo |-> job[r].todo \ {q}, question |-> q, value |-> v, row |-> i]]
  BY DEF Look
<1>2. PICK i \in IF RowsOf(job[r].attempt, q) = {} THEN {0} ELSE RowsOf(job[r].attempt, q) :
        job' = [job EXCEPT ![r] = [op |-> job[r].op, attempt |-> job[r].attempt,
                  todo |-> job[r].todo \ {q}, question |-> q, value |-> v, row |-> i]]
  BY <1>1a
<1> DEFINE j == [op |-> job[r].op, attempt |-> job[r].attempt, todo |-> job[r].todo \ {q},
                 question |-> q, value |-> v, row |-> i]
<1>3. job[r] \in FormJob /\ job[r].attempt \in DOMAIN attempts
  BY DEF Look, IInv, ThreadsOK, Fits
<1>4. /\ job[r].op \in Ops /\ job[r].attempt \in Nat /\ job[r].todo \subseteq Questions
  BY <1>3 DEF FormJob
<1>5. i \in 0..Len(answers) /\ i \in Nat
  <2>1. i = 0 \/ i \in DOMAIN answers
    BY DEF RowsOf
  <2> QED
    BY <2>1, Typed
<1>6. j \in WriteJob /\ j.row \in 0..Len(answers) /\ j.attempt \in DOMAIN attempts
  BY <1>3, <1>4, <1>5 DEF WriteJob
<1>7. /\ Goto(r, "write") /\ "write" \in Places
      /\ job' = [job EXCEPT ![r] = j] /\ UNCHANGED session
  BY <1>2 DEF Look, Places
<1> HIDE DEF j
<1>8. Moves(r) /\ pc'[r] = "write" /\ job'[r] = j /\ session'[r] = session[r]
  BY <1>7, HandlerMoves, SameHeld
<1>9. WillFit(r)
  BY <1>6, <1>7, <1>8, SameHeld DEF WillFit
<1> QED
  BY <1>1, <1>8, <1>9, StepKeeps

\* What a handler sees in a row is a value.
LEMMA SeenTyped ==
  ASSUME IInv, NEW r \in Threads, NEW i \in DOMAIN answers
  PROVE  Seen(r, i) \in Values \cup {"none"}
<1>1. session[r] \in Loaded /\ answers[i] \in Answer /\ i \in Nat /\ 1 <= i
  BY Typed
<1>2. session[r].seen \in Seq(Values \cup {"none"}) /\ answers[i].value \in Values \cup {"none"}
  BY <1>1 DEF Loaded, Answer
<1> QED
  BY <1>1, <1>2 DEF Seen

LEMMA ValueWritten ==
  ASSUME NEW a \in Answer, NEW v \in Values \cup {"none"}
  PROVE  /\ [a EXCEPT !.value = v] \in Answer
         /\ [a EXCEPT !.value = v].attempt = a.attempt
         /\ [a EXCEPT !.value = v].question = a.question
BY DEF Answer

LEMMA MarkWritten ==
  ASSUME NEW a \in Answer, NEW m \in Marks
  PROVE  /\ [a EXCEPT !.mark = m] \in Answer
         /\ [a EXCEPT !.mark = m].attempt = a.attempt
         /\ [a EXCEPT !.mark = m].question = a.question
BY DEF Answer

\* A save that finds no row leaves one, of the attempt it is for.
LEMMA RowWritten ==
  ASSUME IInv, NEW r \in Threads, Write(r), job[r].row = 0
  PROVE  RowsOK' /\ TablesGrow
<1> DEFINE a == [attempt |-> job[r].attempt, question |-> job[r].question,
                 value |-> job[r].value, mark |-> NoMark]
           c == Len(answers) + 1
<1>1. job[r] \in WriteJob /\ job[r].attempt \in DOMAIN attempts
  BY DEF Write, IInv, ThreadsOK, Fits
<1>2. job[r].attempt \in Nat /\ job[r].question \in Questions /\ job[r].value \in Values
  BY <1>1 DEF WriteJob
<1>3. a \in Answer /\ a.attempt \in DOMAIN attempts
  BY <1>1, <1>2 DEF Answer, Marks
<1>4. answers' = Append(answers, a) /\ UNCHANGED attempts
  BY DEF Write
<1> HIDE DEF a
<1>5. /\ answers' \in Seq(Answer) /\ Len(answers') = c /\ answers'[c] = a
      /\ DOMAIN answers' = DOMAIN answers \cup {c} /\ Len(answers) <= c
      /\ \A m \in DOMAIN answers : answers'[m] = answers[m]
  BY <1>3, <1>4, RowAdded, Typed
<1> HIDE DEF c
<1>6. TablesGrow
  BY <1>4, <1>5 DEF TablesGrow
<1>7. /\ \A i \in DOMAIN answers : answers[i].attempt \in DOMAIN attempts
      /\ Len(attempts) <= Allowed
  BY DEF IInv, RowsOK, AttemptsWithinLimit
<1>8. \A i \in DOMAIN answers' : answers'[i].attempt \in DOMAIN attempts'
  BY <1>3, <1>4, <1>5, <1>7
<1>9. RowsOK'
  BY <1>4, <1>5, <1>6, <1>7, <1>8, Typed, RowsHold
<1> QED
  BY <1>6, <1>9

\* Rows may change their value and their mark.
LEMMA RowsRewritten ==
  ASSUME IInv, UNCHANGED attempts, answers' \in Seq(Answer), DOMAIN answers' = DOMAIN answers,
         Len(answers') = Len(answers),
         \A i \in DOMAIN answers : /\ answers'[i].attempt = answers[i].attempt
                                  /\ answers'[i].question = answers[i].question
  PROVE  RowsOK' /\ TablesGrow
<1>1. TablesGrow
  BY Typed DEF TablesGrow
<1>2. /\ \A i \in DOMAIN answers : answers[i].attempt \in DOMAIN attempts
      /\ Len(attempts) <= Allowed
  BY DEF IInv, RowsOK, AttemptsWithinLimit
<1>3. RowsOK'
  BY <1>1, <1>2, Typed, RowsHold
<1> QED
  BY <1>1, <1>3

LEMMA RowOverwritten ==
  ASSUME IInv, NEW r \in Threads, Write(r), job[r].row # 0
  PROVE  RowsOK' /\ TablesGrow
<1> DEFINE i == job[r].row
           v == job[r].value
           a == [answers[i] EXCEPT !.value = v]
<1>1. job[r] \in WriteJob /\ i \in 0..Len(answers)
  BY DEF Write, IInv, ThreadsOK, Fits
<1>2. i \in DOMAIN answers /\ v \in Values
  BY <1>1, Typed DEF WriteJob
<1>3. UNCHANGED attempts /\ (answers' = answers \/ answers' = [answers EXCEPT ![i] = a])
  BY DEF Write
<1>4. CASE answers' = answers
  BY <1>3, <1>4, RowsKept
<1>5. CASE answers' = [answers EXCEPT ![i] = a]
  <2>1. answers[i] \in Answer
    BY <1>2, Typed
  <2>2. a \in Answer /\ a.attempt = answers[i].attempt /\ a.question = answers[i].question
    BY <1>2, <2>1, ValueWritten
  <2> HIDE DEF a, i
  <2>3. /\ answers' \in Seq(Answer) /\ DOMAIN answers' = DOMAIN answers
        /\ Len(answers') = Len(answers) /\ answers'[i] = a
        /\ \A m \in DOMAIN answers \ {i} : answers'[m] = answers[m]
    BY <1>2, <1>5, <2>2, RowSet, Typed
  <2>4. \A m \in DOMAIN answers : /\ answers'[m].attempt = answers[m].attempt
                                 /\ answers'[m].question = answers[m].question
    BY <2>2, <2>3
  <2> QED
    BY <1>3, <2>3, <2>4, RowsRewritten
<1> QED
  BY <1>3, <1>4, <1>5

LEMMA WriteKeeps == ASSUME IInv, NEW r \in Threads, Write(r) PROVE IInv'
<1>1. RowsOK' /\ TablesGrow
  BY RowWritten, RowOverwritten
<1> DEFINE j == [op |-> job[r].op, attempt |-> job[r].attempt, todo |-> job[r].todo]
<1>2. job[r] \in WriteJob /\ job[r].attempt \in DOMAIN attempts
  BY DEF Write, IInv, ThreadsOK, Fits
<1>3. j \in FormJob /\ j.attempt \in DOMAIN attempts
  BY <1>2 DEF WriteJob, FormJob
<1>4. Nothing \in Loaded /\ Len(Nothing.seen) = 0
  BY DEF Nothing, Loaded
<1>5. /\ Goto(r, "form") /\ "form" \in Places
      /\ job' = [job EXCEPT ![r] = j] /\ session' = [session EXCEPT ![r] = Nothing]
  BY DEF Write, Places
<1> HIDE DEF j
<1>6. Moves(r) /\ pc'[r] = "form" /\ job'[r] = j /\ session'[r] = Nothing
  BY <1>4, <1>5, HandlerMoves
<1>7. WillFit(r)
  BY <1>3, <1>4, <1>5, <1>6, Typed DEF WillFit
<1> QED
  BY <1>1, <1>6, <1>7, StepKeeps

LEMMA HeldTyped ==
  ASSUME IInv, NEW r \in Threads, job[r].attempt \in DOMAIN attempts
  PROVE  Held(r) \in Statuses
<1>1. session[r] \in Loaded /\ attempts[job[r].attempt] \in Attempt
  BY Typed
<1>2. session[r].status \in {"unread"} \cup Statuses /\ attempts[job[r].attempt].status \in Statuses
  BY <1>1 DEF Loaded, Attempt
<1> QED
  BY <1>2 DEF Held

LEMMA ReadAttemptKeeps == ASSUME IInv, NEW r \in Threads, ReadAttempt(r) PROVE IInv'
<1>1. RowsOK' /\ TablesGrow
  BY RowsKept DEF ReadAttempt
<1>2. job[r] \in FormJob /\ job[r].attempt \in DOMAIN attempts
  BY DEF ReadAttempt, IInv, ThreadsOK, Fits
<1> DEFINE held == [session[r] EXCEPT !.status = Held(r)]
<1>3. held \in Loaded /\ held.seen = session[r].seen
  BY <1>2, HeldTyped, SameHeld, Typed DEF Loaded
<1>4. /\ Goto(r, "lock") /\ "lock" \in Places
      /\ UNCHANGED job /\ session' = [session EXCEPT ![r] = held]
  BY DEF ReadAttempt, Places
<1> HIDE DEF held
<1>4a. job' = [job EXCEPT ![r] = job[r]]
  BY <1>4, SameJob
<1>5. Moves(r) /\ pc'[r] = "lock" /\ job'[r] = job[r] /\ session'[r] = held
  BY <1>3, <1>4, <1>4a, HandlerMoves
<1>6. Len(session[r].seen) <= Len(answers)
  BY DEF IInv, ThreadsOK, Fits
<1>7. WillFit(r)
  BY <1>2, <1>3, <1>4, <1>5, <1>6 DEF WillFit
<1> QED
  BY <1>1, <1>5, <1>7, StepKeeps

LEMMA ClosedKeeps == ASSUME IInv, NEW r \in Threads, Closed(r) PROVE IInv'
BY RowsKept, HandlerEnds, StepKeeps DEF Closed

LEMMA TooLateKeeps == ASSUME IInv, NEW r \in Threads, TooLate(r) PROVE IInv'
<1>1. RowsOK' /\ TablesGrow
  BY RowsKept DEF TooLate
<1> DEFINE j == [job[r] EXCEPT !.op = "force"]
<1>2. job[r] \in FormJob /\ job[r].attempt \in DOMAIN attempts
  BY DEF TooLate, IInv, ThreadsOK, Fits
<1>3. j \in FormJob /\ j.attempt \in DOMAIN attempts
  BY <1>2 DEF FormJob, Ops
<1>4. Nothing \in Loaded /\ Len(Nothing.seen) = 0
  BY DEF Nothing, Loaded
<1>5. /\ Goto(r, "submit") /\ "submit" \in Places
      /\ job' = [job EXCEPT ![r] = j] /\ session' = [session EXCEPT ![r] = Nothing]
  BY DEF TooLate, Places
<1> HIDE DEF j
<1>6. Moves(r) /\ pc'[r] = "submit" /\ job'[r] = j /\ session'[r] = Nothing
  BY <1>4, <1>5, HandlerMoves
<1>7. WillFit(r)
  BY <1>3, <1>4, <1>5, <1>6, Typed DEF WillFit
<1> QED
  BY <1>1, <1>6, <1>7, StepKeeps

\* The rows of a submission: those that were there, with their marks, then blanks.
LEMMA MarkedRows ==
  ASSUME IInv, NEW r \in Threads, NEW pick
  PROVE  /\ Marked(r, pick) \in Seq(Answer) /\ Len(Marked(r, pick)) = Len(answers)
         /\ DOMAIN Marked(r, pick) = DOMAIN answers
         /\ \A i \in DOMAIN answers : /\ Marked(r, pick)[i].attempt = answers[i].attempt
                                     /\ Marked(r, pick)[i].question = answers[i].question
<1> DEFINE t == Marked(r, pick)
<1>1. ASSUME NEW i \in DOMAIN answers
      PROVE  /\ t[i] \in Answer
             /\ t[i].attempt = answers[i].attempt /\ t[i].question = answers[i].question
  <2> DEFINE m == Mark(answers[i].question, Seen(r, i))
  <2>1. answers[i] \in Answer /\ m \in Marks
    BY <1>1, Typed, MarkTyped
  <2>2. t[i] = answers[i] \/ t[i] = [answers[i] EXCEPT !.mark = m]
    BY DEF Marked
  <2> HIDE DEF m, t
  <2> QED
    BY <2>1, <2>2, MarkWritten
<1>2. t = [i \in DOMAIN answers |-> t[i]]
  BY DEF Marked
<1> HIDE DEF t
<1>3. t \in Seq(Answer) /\ DOMAIN t = DOMAIN answers /\ Len(t) = Len(answers)
  BY <1>1, <1>2, RowsMapped, Typed
<1> QED
  BY <1>1, <1>3 DEF t

LEMMA BlankRows ==
  ASSUME NEW n \in Nat, NEW Q \in SUBSET Questions,
         NEW B, B = {[attempt |-> n, question |-> q, value |-> "none", mark |-> NoMark] : q \in Q}
  PROVE  /\ SetToSeq(B) \in Seq(Answer)
         /\ \A i \in DOMAIN SetToSeq(B) : SetToSeq(B)[i].attempt = n
         /\ \A q \in Q : \E i \in DOMAIN SetToSeq(B) : SetToSeq(B)[i].question = q
<1> DEFINE f == [q \in Q |-> [attempt |-> n, question |-> q, value |-> "none", mark |-> NoMark]]
           t == SetToSeq(B)
<1>1. IsFiniteSet(Q)
  BY FS_Subset, QuizAssumption
<1>2. f \in Surjection(Q, B)
  BY DEF Surjection
<1>3. IsFiniteSet(B)
  BY <1>1, <1>2, FS_Surjection
<1>4. t \in Seq(B) /\ \A x \in B : \E i \in DOMAIN t : t[i] = x
  BY <1>3, SetInOrder
<1>5. B \subseteq Answer
  BY DEF Answer, Marks
<1>6. \A x \in B : x.attempt = n
  OBVIOUS
<1>6a. \A q \in Q : f[q] \in B /\ f[q].question = q
  OBVIOUS
<1> HIDE DEF t
<1>7. t \in Seq(Answer) /\ \A i \in DOMAIN t : t[i] \in B
  BY <1>4, <1>5
<1> HIDE DEF f
<1>8. /\ \A i \in DOMAIN t : t[i].attempt = n
      /\ \A q \in Q : \E i \in DOMAIN t : t[i].question = q
  BY <1>4, <1>6, <1>6a, <1>7
<1> QED
  BY <1>7, <1>8 DEF t

LEMMA SubmittedTyped ==
  ASSUME NEW a \in Attempt, NEW total \in Nat
  PROVE  /\ Submitted(a, total) \in Attempt
         /\ Submitted(a, total).score = total
<1>1. ASSUME NEW k \in Nat
      PROVE  LET b == [a EXCEPT !.status = "submitted", !.score = total, !.submissions = k]
             IN  b \in Attempt /\ b.score = total
  BY DEF Attempt, Statuses
<1>2. a.submissions + 1 \in Nat
  BY DEF Attempt
<1> QED
  BY <1>1, <1>2 DEF Submitted

\* A submission leaves a row for every question of its attempt.
LEMMA SubmittedRows ==
  ASSUME IInv, NEW r \in Threads, NEW n \in DOMAIN attempts, NEW pick \in Picks(n),
         answers' = WithBlanks(n, Marked(r, pick), pick)
  PROVE  /\ answers' \in Seq(Answer) /\ Len(answers) <= Len(answers')
         /\ DOMAIN answers \subseteq DOMAIN answers'
         /\ \A i \in DOMAIN answers : /\ answers'[i].attempt = answers[i].attempt
                                     /\ answers'[i].question = answers[i].question
         /\ \A i \in DOMAIN answers' : answers'[i].attempt \in DOMAIN attempts
         /\ \A q \in Questions : \E i \in DOMAIN answers' :
              answers'[i].attempt = n /\ answers'[i].question = q
<1> DEFINE Q == {q \in Questions : pick[q] = 0}
           B == {[attempt |-> n, question |-> q, value |-> "none", mark |-> NoMark] : q \in Q}
           s == Marked(r, pick)
           t == SetToSeq(B)
<1>1. n \in Nat /\ \A i \in DOMAIN answers : answers[i].attempt \in DOMAIN attempts
  BY Typed DEF IInv, RowsOK
<1>2. /\ s \in Seq(Answer) /\ Len(s) = Len(answers) /\ DOMAIN s = DOMAIN answers
      /\ \A i \in DOMAIN answers : /\ s[i].attempt = answers[i].attempt
                                  /\ s[i].question = answers[i].question
  BY MarkedRows
<1>3. answers' = s \o t
  BY DEF WithBlanks
<1>4. Q \in SUBSET Questions /\ \A q \in Questions \ Q : pick[q] \in RowsOf(n, q)
  BY DEF Picks
<1> HIDE DEF s, Q
<1>5. /\ t \in Seq(Answer) /\ \A i \in DOMAIN t : t[i].attempt = n
      /\ \A q \in Q : \E i \in DOMAIN t : t[i].question = q
  BY <1>1, <1>4, BlankRows
<1> HIDE DEF t
<1>5a. /\ s \o t \in Seq(Answer) /\ Len(s) <= Len(s \o t)
       /\ \A i \in DOMAIN s : i \in DOMAIN (s \o t) /\ (s \o t)[i] = s[i]
       /\ \A i \in DOMAIN t : Len(s) + i \in DOMAIN (s \o t) /\ (s \o t)[Len(s) + i] = t[i]
       /\ \A i \in DOMAIN (s \o t) :
            i \in DOMAIN s \/ \E k \in DOMAIN t : (s \o t)[i] = t[k]
  BY <1>2, <1>5, RowsAfter
<1>6. /\ answers' \in Seq(Answer) /\ Len(s) <= Len(answers')
      /\ \A i \in DOMAIN s : i \in DOMAIN answers' /\ answers'[i] = s[i]
      /\ \A i \in DOMAIN t : \E k \in DOMAIN answers' : answers'[k] = t[i]
      /\ \A i \in DOMAIN answers' : i \in DOMAIN s \/ \E k \in DOMAIN t : answers'[i] = t[k]
  BY <1>3, <1>5a
<1>7. ASSUME NEW q \in Questions
      PROVE  \E i \in DOMAIN answers' : answers'[i].attempt = n /\ answers'[i].question = q
  <2>1. CASE q \in Q
    BY <1>5, <1>6, <2>1
  <2>2. CASE q \notin Q
    <3>1. pick[q] \in DOMAIN answers /\ answers[pick[q]].attempt = n /\ answers[pick[q]].question = q
      BY <1>4, <2>2 DEF RowsOf
    <3> QED
      BY <1>2, <1>6, <3>1
  <2> QED
    BY <2>1, <2>2
<1>8. ASSUME NEW i \in DOMAIN answers' PROVE answers'[i].attempt \in DOMAIN attempts
  <2>1. CASE i \in DOMAIN s
    BY <1>1, <1>2, <1>6, <2>1
  <2>2. CASE \E k \in DOMAIN t : answers'[i] = t[k]
    BY <1>5, <2>2
  <2> QED
    BY <1>6, <2>1, <2>2
<1> QED
  BY <1>2, <1>6, <1>7, <1>8

LEMMA SubmitKeeps == ASSUME IInv, NEW r \in Threads, Submit(r) PROVE IInv'
<1> DEFINE n == job[r].attempt
<1>1. n \in DOMAIN attempts
  BY DEF Submit, IInv, ThreadsOK, Fits
<1>2. PICK pick \in Picks(n) :
        /\ answers' = WithBlanks(n, Marked(r, pick), pick)
        /\ attempts' = [attempts EXCEPT ![n] = Submitted(attempts[n], Total(r, pick))]
  BY DEF Submit
<1> DEFINE a == Submitted(attempts[n], Total(r, pick))
<1>3. a \in Attempt /\ a.score <= Cardinality(Objective)
  <2>1. attempts[n] \in Attempt
    BY <1>1, Typed
  <2> QED
    BY <2>1, SubmittedTyped, TotalBounded
<1>4. attempts' = [attempts EXCEPT ![n] = a]
  BY <1>2
<1>5. Moves(r) /\ WillFit(r)
  BY HandlerEnds DEF Submit
<1> HIDE DEF n, a
<1>6. /\ attempts' \in Seq(Attempt) /\ Len(attempts') = Len(attempts)
      /\ DOMAIN attempts' = DOMAIN attempts /\ attempts'[n] = a
      /\ \A m \in DOMAIN attempts \ {n} : attempts'[m] = attempts[m]
  BY <1>1, <1>3, <1>4, RowSet, Typed
<1>7. /\ answers' \in Seq(Answer) /\ Len(answers) <= Len(answers')
      /\ DOMAIN answers \subseteq DOMAIN answers'
      /\ \A i \in DOMAIN answers : /\ answers'[i].attempt = answers[i].attempt
                                  /\ answers'[i].question = answers[i].question
      /\ \A i \in DOMAIN answers' : answers'[i].attempt \in DOMAIN attempts
      /\ \A q \in Questions : \E i \in DOMAIN answers' :
           answers'[i].attempt = n /\ answers'[i].question = q
  BY <1>1, <1>2, SubmittedRows
<1>8. TablesGrow /\ Len(attempts') <= Allowed
  BY <1>6, <1>7 DEF TablesGrow, IInv, RowsOK, AttemptsWithinLimit
<1>9. \A m \in DOMAIN attempts' : attempts'[m].status = "submitted" =>
        \/ m \in DOMAIN attempts /\ attempts[m].status = "submitted"
        \/ \A q \in Questions : \E i \in DOMAIN answers' :
             answers'[i].attempt = m /\ answers'[i].question = q
  BY <1>6, <1>7
<1>10. \A m \in DOMAIN attempts' : ~ attempts'[m].hand =>
         \/ m \in DOMAIN attempts /\ ~ attempts[m].hand /\ attempts'[m].score = attempts[m].score
         \/ attempts'[m].score <= Cardinality(Objective)
  BY <1>3, <1>6
<1>11. RowsOK'
  BY <1>6, <1>7, <1>8, <1>9, <1>10, RowsHold
<1> QED
  BY <1>5, <1>8, <1>11, StepKeeps

LEMMA DeadlockKeeps ==
  ASSUME IInv, NEW r \in Threads, NEW q \in Threads, Deadlock(r, q) PROVE IInv'
BY RowsKept, HandlerEnds, StepKeeps DEF Deadlock

LEMMA OpenGradeKeeps == ASSUME IInv, NEW r \in Threads, OpenGrade(r) PROVE IInv'
<1>1. RowsOK' /\ TablesGrow
  BY RowsKept DEF OpenGrade
<1>2. PICK i \in DOMAIN answers, m \in {0, 1} :
        job' = [job EXCEPT ![r] = [op |-> "grade", row |-> i, mark |-> m, total |-> TotalWith(i, m)]]
  BY DEF OpenGrade
<1> DEFINE j == [op |-> "grade", row |-> i, mark |-> m, total |-> TotalWith(i, m)]
<1>3. i \in Nat /\ TotalWith(i, m) \in Nat
  BY Typed, TotalWithTyped
<1>4. j \in GradeJob /\ j.row \in DOMAIN answers
  BY <1>3 DEF GradeJob
<1>5. /\ Goto(r, "score") /\ "score" \in Places
      /\ job' = [job EXCEPT ![r] = j] /\ UNCHANGED session
  BY <1>2 DEF OpenGrade, Places
<1> HIDE DEF j
<1>6. Moves(r) /\ pc'[r] = "score" /\ job'[r] = j /\ session'[r] = session[r]
  BY <1>5, HandlerMoves, SameHeld
<1>7. WillFit(r)
  BY <1>4, <1>5, <1>6, SameHeld DEF WillFit
<1> QED
  BY <1>1, <1>6, <1>7, StepKeeps

LEMMA ScoreWritten ==
  ASSUME NEW a \in Attempt, NEW total \in Nat
  PROVE  LET b == [a EXCEPT !.score = total, !.hand = TRUE]
         IN  b \in Attempt /\ b.status = a.status /\ (b.hand <=> TRUE)
BY DEF Attempt

\* Attempts may change; a score without a teacher stays.
LEMMA AttemptRewritten ==
  ASSUME IInv, NEW n \in DOMAIN attempts, NEW a \in Attempt, attempts' = [attempts EXCEPT ![n] = a],
         a.status = attempts[n].status,
         ~ a.hand => ~ attempts[n].hand /\ a.score = attempts[n].score,
         answers' \in Seq(Answer), DOMAIN answers' = DOMAIN answers, Len(answers') = Len(answers),
         \A i \in DOMAIN answers : /\ answers'[i].attempt = answers[i].attempt
                                  /\ answers'[i].question = answers[i].question
  PROVE  RowsOK' /\ TablesGrow
<1>1. /\ attempts' \in Seq(Attempt) /\ Len(attempts') = Len(attempts)
      /\ DOMAIN attempts' = DOMAIN attempts /\ attempts'[n] = a
      /\ \A m \in DOMAIN attempts \ {n} : attempts'[m] = attempts[m]
  BY RowSet, Typed
<1>2. Len(answers) <= Len(answers')
  BY Typed
<1>3. TablesGrow
  BY <1>1, <1>2 DEF TablesGrow
<1>4. /\ \A i \in DOMAIN answers : answers[i].attempt \in DOMAIN attempts
      /\ Len(attempts') <= Allowed
  BY <1>1 DEF IInv, RowsOK, AttemptsWithinLimit
<1>5. \A i \in DOMAIN answers' : answers'[i].attempt \in DOMAIN attempts'
  BY <1>1, <1>4
<1>6. /\ \A m \in DOMAIN attempts' : attempts'[m].status = "submitted" =>
           m \in DOMAIN attempts /\ attempts[m].status = "submitted"
      /\ \A m \in DOMAIN attempts' : ~ attempts'[m].hand =>
           m \in DOMAIN attempts /\ ~ attempts[m].hand /\ attempts'[m].score = attempts[m].score
  BY <1>1
<1>7. RowsOK'
  BY <1>1, <1>3, <1>4, <1>5, <1>6, RowsHold
<1> QED
  BY <1>3, <1>7

LEMMA GradeKeeps == ASSUME IInv, NEW r \in Threads, Grade(r) PROVE IInv'
<1> DEFINE i == job[r].row
           n == answers[i].attempt
           total == job[r].total
           m == job[r].mark
           a == [attempts[n] EXCEPT !.score = total, !.hand = TRUE]
           b == [answers[i] EXCEPT !.mark = m]
<1>1. job[r] \in GradeJob /\ i \in DOMAIN answers
  BY DEF Grade, IInv, ThreadsOK, Fits
<1>2. total \in Nat /\ m \in Marks
  BY <1>1 DEF GradeJob, Marks
<1>3. n \in DOMAIN attempts
  BY <1>1 DEF IInv, RowsOK
<1>4. answers' = [answers EXCEPT ![i] = b] /\ attempts' = [attempts EXCEPT ![n] = a]
  BY DEF Grade
<1>5. answers[i] \in Answer /\ attempts[n] \in Attempt
  BY <1>1, <1>3, Typed
<1>6. a \in Attempt /\ a.status = attempts[n].status /\ (a.hand <=> TRUE)
  BY <1>2, <1>5, ScoreWritten
<1>7. b \in Answer /\ b.attempt = answers[i].attempt /\ b.question = answers[i].question
  BY <1>2, <1>5, MarkWritten
<1>8. Moves(r) /\ WillFit(r)
  BY HandlerEnds DEF Grade
<1> HIDE DEF i, n, a, b, m, total
<1>9. /\ answers' \in Seq(Answer) /\ DOMAIN answers' = DOMAIN answers
      /\ Len(answers') = Len(answers) /\ answers'[i] = b
      /\ \A k \in DOMAIN answers \ {i} : answers'[k] = answers[k]
  BY <1>1, <1>4, <1>7, RowSet, Typed
<1>10. \A k \in DOMAIN answers : /\ answers'[k].attempt = answers[k].attempt
                                /\ answers'[k].question = answers[k].question
  BY <1>7, <1>9
<1>11. RowsOK' /\ TablesGrow
  BY <1>3, <1>4, <1>6, <1>9, <1>10, AttemptRewritten
<1> QED
  BY <1>8, <1>11, StepKeeps

LEMMA TimeUpKeeps == ASSUME IInv, NEW n \in DOMAIN attempts, TimeUp(n) PROVE IInv'
<1> DEFINE a == [attempts[n] EXCEPT !.late = TRUE]
<1>1. attempts[n] \in Attempt
  BY Typed
<1>2. /\ a \in Attempt /\ a.status = attempts[n].status
      /\ a.hand = attempts[n].hand /\ a.score = attempts[n].score
      /\ a.hand \in BOOLEAN
  BY <1>1 DEF Attempt
<1>3. attempts' = [attempts EXCEPT ![n] = a] /\ UNCHANGED <<answers, pc, job, session>>
  BY DEF TimeUp
<1> HIDE DEF a
<1>4. RowsOK' /\ TablesGrow
  BY <1>2, <1>3, AttemptRewritten, Typed
<1>5. \A r \in Threads : Fits(r)'
  BY <1>3, <1>4 DEF Fits, TablesGrow, IInv, ThreadsOK
<1> QED
  BY <1>3, <1>4, <1>5 DEF IInv, ThreadsOK

-----------------------------------------------------------------------------
LEMMA FinishKeeps == ASSUME IInv, NEW r \in Threads, Finish(r) PROVE IInv'
BY FormDoneKeeps, WriteKeeps, ReadAttemptKeeps, ClosedKeeps, TooLateKeeps, SubmitKeeps,
   InsertAttemptKeeps, GradeKeeps DEF Finish

LEMMA NextInvariant == IInv /\ [Next]_vars => IInv'
<1> SUFFICES ASSUME IInv, [Next]_vars PROVE IInv'
  OBVIOUS
<1>1. ASSUME NEW r \in Threads, Start(r) \/ Load(r) \/ Look(r) \/ OpenGrade(r) \/ Finish(r)
      PROVE  IInv'
  BY <1>1, StartKeeps, LoadKeeps, LookKeeps, OpenGradeKeeps, FinishKeeps
<1>2. ASSUME NEW r \in Threads, NEW q \in Threads, Deadlock(r, q) PROVE IInv'
  BY <1>2, DeadlockKeeps
<1>3. ASSUME NEW n \in DOMAIN attempts, TimeUp(n) PROVE IInv'
  BY <1>3, TimeUpKeeps
<1>4. CASE UNCHANGED vars
  <2>1. RowsOK'
    BY <1>4, RowsKept DEF vars
  <2>2. ThreadsOK'
    BY <1>4 DEF vars, IInv, ThreadsOK, Fits
  <2> QED
    BY <2>1, <2>2 DEF IInv
<1> QED
  BY <1>1, <1>2, <1>3, <1>4 DEF Next

\* The invariant holds of every run: each handler is where its job fits, and the
\* rows of both tables keep to the limits below.
THEOREM Invariance == Spec => []IInv
BY InitInvariant, NextInvariant, PTL DEF Spec

\* The tables, the places and what a handler holds have their types, and a row
\* is of an attempt that is there.
THEOREM TypeCorrect == Spec => []TypeOK
<1>1. IInv => TypeOK
  <2> SUFFICES ASSUME IInv PROVE TypeOK
    OBVIOUS
  <2> DEFINE R == [attempt : DOMAIN attempts, question : Questions,
                   value : Values \cup {"none"}, mark : Marks]
  <2>1. ASSUME NEW i \in DOMAIN answers PROVE answers[i] \in R
    <3>1. answers[i] \in Answer /\ answers[i].attempt \in DOMAIN attempts
      BY Typed DEF IInv, RowsOK
    <3> QED
      BY <3>1 DEF Answer
  <2>2. answers = [i \in DOMAIN answers |-> answers[i]]
    BY Typed
  <2> HIDE DEF R
  <2>3. answers \in Seq(R)
    BY <2>1, <2>2, RowsMapped, Typed
  <2>4. attempts \in Seq(Attempt)
    BY Typed
  <2>5. ASSUME NEW r \in Threads
        PROVE  /\ session[r].status \in {"unread", "in_progress", "submitted"}
               /\ Len(session[r].seen) <= Len(answers)
    <3>1. session[r] \in Loaded
      BY Typed
    <3> QED
      BY <3>1 DEF Loaded, Statuses, IInv, ThreadsOK, Fits
  <2> QED
    BY <2>3, <2>4, <2>5, Typed DEF TypeOK, R, Attempt, Statuses, Places
<1> QED
  BY <1>1, Invariance, PTL

\* However many tabs start at once, the two indexes keep the attempts of a student
\* within what the quiz allows.
THEOREM LimitHolds == Spec => []AttemptsWithinLimit
<1>1. IInv => AttemptsWithinLimit
  BY DEF IInv, RowsOK
<1> QED
  BY <1>1, Invariance, PTL

\* Whoever submits, and however often, leaves a row for every question.
THEOREM CompleteWhenSubmitted == Spec => []SubmittedIsComplete
<1>1. IInv => SubmittedIsComplete
  BY DEF IInv, RowsOK
<1> QED
  BY <1>1, Invariance, PTL

\* Two rows of a question and two submissions of an attempt pay no question twice,
\* for any number of handlers, until a teacher adds the rows up.
THEOREM PaidOnce == Spec => []NoQuestionPaidTwice
<1>1. IInv => NoQuestionPaidTwice
  BY DEF IInv, RowsOK
<1> QED
  BY <1>1, Invariance, PTL

=============================================================================
