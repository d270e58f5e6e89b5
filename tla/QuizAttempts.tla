---------------------------- MODULE QuizAttempts ----------------------------
(***************************************************************************)
(* The attempts of one student at one quiz (app/services/assessment.py and *)
(* the assessment routes): start, save, submit, submission forced by       *)
(* proctoring, and the teacher's grading.  A handler loads the attempt     *)
(* with its answers, keeps the objects, and only a commit of its own makes *)
(* it read them again; submit_attempt tests the held status under the row  *)
(* lock and marks the held answers.  A handler that dies keeps what it     *)
(* committed, which is what a handler that never goes on does.             *)
(***************************************************************************)
EXTENDS Integers, FiniteSets, SequencesExt

CONSTANTS
  Threads,     \* the handlers that run at once
  Questions, Objective,  \* those of the quiz, and those marked by the program
  Allowed,     \* attempts_allowed of the quiz
  NoMark       \* awarded_mark is NULL

ASSUME QuizAssumption ==
  /\ IsFiniteSet(Questions)
  /\ Objective \subseteq Questions
  /\ Allowed \in Nat \ {0}
  /\ NoMark \notin Int

VARIABLES
  attempts,  \* quiz_attempts: attempt number n is attempts[n]
  answers,   \* answers, in insertion order; no index keeps two rows of a question apart
  pc, job,
  session    \* status and answers a handler holds from its load

vars == <<attempts, answers, pc, job, session>>

-----------------------------------------------------------------------------
Values == {"right", "wrong"}
Marks == {NoMark, 0, 1}

NoJob == [op |-> "none"]
Nothing == [status |-> "unread", seen |-> << >>]

Held(r) == IF session[r].status = "unread"
           THEN attempts[job[r].attempt].status ELSE session[r].status

\* The value a handler sees in row i: what it loaded, if it did.
Seen(r, i) == IF i <= Len(session[r].seen) THEN session[r].seen[i] ELSE answers[i].value

RowsOf(n, q) == {i \in DOMAIN answers : answers[i].attempt = n /\ answers[i].question = q}

\* _grade_answer: a mark for what the program can mark, none for an essay.
Mark(q, v) == IF q \notin Objective THEN NoMark ELSE IF v = "right" THEN 1 ELSE 0

-----------------------------------------------------------------------------
Init ==
  /\ attempts = << >> /\ answers = << >>
  /\ pc = [r \in Threads |-> "idle"]
  /\ job = [r \in Threads |-> NoJob]
  /\ session = [r \in Threads |-> Nothing]

Goto(r, place) == pc' = [pc EXCEPT ![r] = place]

End(r) ==
  /\ Goto(r, "idle")
  /\ job' = [job EXCEPT ![r] = NoJob]
  /\ session' = [session EXCEPT ![r] = Nothing]

Open == {n \in DOMAIN attempts : attempts[n].status = "in_progress"}

\* start_attempt: no attempt is open, and the used ones are below the limit.
Start(r) ==
  /\ pc[r] = "idle"
  /\ Open = {}
  /\ Len(attempts) < Allowed
  /\ Goto(r, "insert")
  /\ job' = [job EXCEPT ![r] = [op |-> "start", used |-> Len(attempts)]]
  /\ UNCHANGED <<attempts, answers, session>>

\* Mutant: the table has neither index.
FreeWithoutIndex(used) == TRUE

\* uq_quiz_attempt and uq_attempt_open_per_quiz_student.
Free(used) == Len(attempts) = used /\ Open = {}

NewAttempt == [status |-> "in_progress", late |-> FALSE, score |-> 0,
               submissions |-> 0, hand |-> FALSE]

\* The insert, or an IntegrityError answered with the attempt the other one opened.
InsertAttempt(r) ==
  /\ pc[r] = "insert"
  /\ attempts' = IF Free(job[r].used) THEN Append(attempts, NewAttempt) ELSE attempts
  /\ End(r)
  /\ UNCHANGED answers

\* attempt_save, attempt_submit and proctor_log load attempt and answers; the last
\* two go on only with an attempt in progress.
Load(r) ==
  /\ pc[r] = "idle"
  /\ \E n \in DOMAIN attempts, op \in {"save", "submit", "force"} :
       /\ op # "save" => attempts[n].status = "in_progress"
       /\ job' = [job EXCEPT ![r] = [op |-> op, attempt |-> n, todo |-> Questions]]
       /\ session' = [session EXCEPT ![r] =
            [status |-> attempts[n].status,
             seen |-> [i \in DOMAIN answers |-> answers[i].value]]]
  /\ Goto(r, "form")
  /\ UNCHANGED <<attempts, answers>>

\* The form has no further answer, or save_answer refuses one: a save ends here.
FormDone(r) ==
  /\ pc[r] = "form"
  /\ IF job[r].op = "save" THEN End(r) ELSE Goto(r, "submit") /\ UNCHANGED <<job, session>>
  /\ UNCHANGED <<attempts, answers>>

\* save_answer: the attempt runs, the time is not over; look for the row.
Look(r) ==
  /\ pc[r] = "form"
  /\ Held(r) = "in_progress"
  /\ ~ attempts[job[r].attempt].late
  /\ \E q \in job[r].todo, v \in Values :
       LET rows == RowsOf(job[r].attempt, q)
       IN \E i \in IF rows = {} THEN {0} ELSE rows :
            job' = [job EXCEPT ![r] = [op |-> job[r].op, attempt |-> job[r].attempt,
                     todo |-> job[r].todo \ {q}, question |-> q, value |-> v, row |-> i]]
  /\ Goto(r, "write")
  /\ UNCHANGED <<attempts, answers, session>>

\* Its commit: an update only when the value differs from the one loaded.  It
\* expires what the handler holds.
Write(r) ==
  /\ pc[r] = "write"
  /\ LET j == job[r]
     IN answers' =
          IF j.row = 0
          THEN Append(answers, [attempt |-> j.attempt, question |-> j.question,
                                value |-> j.value, mark |-> NoMark])
          ELSE IF Seen(r, j.row) = j.value THEN answers
          ELSE [answers EXCEPT ![j.row].value = j.value]
  /\ job' = [job EXCEPT ![r] = [op |-> job[r].op, attempt |-> job[r].attempt, todo |-> job[r].todo]]
  /\ session' = [session EXCEPT ![r] = Nothing]
  /\ Goto(r, "form")
  /\ UNCHANGED attempts

\* submit_attempt reads the id of the attempt, which loads an expired object.
ReadAttempt(r) ==
  /\ pc[r] = "submit"
  /\ session' = [session EXCEPT ![r].status = Held(r)]
  /\ Goto(r, "lock")
  /\ UNCHANGED <<attempts, answers, job>>

Closed(r) ==
  /\ pc[r] = "lock"
  /\ Held(r) # "in_progress"
  /\ End(r)
  /\ UNCHANGED <<attempts, answers>>

\* Mutant: the second call does not allow what the first refused.
TooLateTwice(r) ==
  /\ pc[r] = "lock"
  /\ Held(r) = "in_progress"
  /\ attempts[job[r].attempt].late /\ job[r].op # "force"
  /\ End(r)
  /\ UNCHANGED <<attempts, answers>>

\* The time is over: rolled back, then submitted again with allow_after_deadline.
TooLate(r) ==
  /\ pc[r] = "lock"
  /\ Held(r) = "in_progress"
  /\ attempts[job[r].attempt].late /\ job[r].op # "force"
  /\ job' = [job EXCEPT ![r].op = "force"]
  /\ session' = [session EXCEPT ![r] = Nothing]
  /\ Goto(r, "submit")
  /\ UNCHANGED <<attempts, answers>>

\* A teacher's grading holds the lock of an answer that the submission will write.
Grading(q, n) == pc[q] = "score" /\ answers[job[q].row].attempt = n

\* One row per question, whichever the query returned last; 0 when there is none.
Picks(n) ==
  {p \in [Questions -> 0..Len(answers)] :
     \A q \in Questions : IF RowsOf(n, q) = {} THEN p[q] = 0 ELSE p[q] \in RowsOf(n, q)}

MarkOf(r, q, i) == IF i = 0 THEN NoMark ELSE Mark(q, Seen(r, i))

\* Mutant: every row of a question is added up.
TotalOfRows(r, pick) ==
  Cardinality({i \in DOMAIN answers :
    answers[i].attempt = job[r].attempt /\ Mark(answers[i].question, Seen(r, i)) = 1})

\* Mutant: a wrong answer costs its mark.
TotalWithPenalty(r, pick) ==
  Cardinality({q \in Questions : MarkOf(r, q, pick[q]) = 1})
    - Cardinality({q \in Questions : MarkOf(r, q, pick[q]) = 0})

\* A question is worth one mark: the sum of the marks is how many got it.
Total(r, pick) == Cardinality({q \in Questions : MarkOf(r, q, pick[q]) = 1})

\* Mutant: a question without an answer gets no row.
WithBlanksLeftOut(n, rows, pick) == rows

WithBlanks(n, rows, pick) ==
  rows \o SetToSeq({[attempt |-> n, question |-> q, value |-> "none", mark |-> NoMark] :
                      q \in {q \in Questions : pick[q] = 0}})

Submitted(a, total) ==
  [a EXCEPT !.status = "submitted", !.score = total, !.submissions = a.submissions + 1]

\* What is written over the rows that were answered.
Marked(r, pick) ==
  [i \in DOMAIN answers |->
     IF (\E q \in Questions : pick[q] = i) /\ Seen(r, i) # "none"
     THEN [answers[i] EXCEPT !.mark = Mark(answers[i].question, Seen(r, i))]
     ELSE answers[i]]

\* _submit: marks, blanks, status and score in one commit.
Submit(r) ==
  /\ pc[r] = "lock"
  /\ Held(r) = "in_progress"
  /\ attempts[job[r].attempt].late => job[r].op = "force"
  /\ \A q \in Threads : ~ Grading(q, job[r].attempt)
  /\ LET n == job[r].attempt
     IN \E pick \in Picks(n) :
          /\ answers' = WithBlanks(n, Marked(r, pick), pick)
          /\ attempts' = [attempts EXCEPT ![n] = Submitted(attempts[n], Total(r, pick))]
  /\ End(r)

\* The submission holds the attempt and waits for the answer, the grading waits
\* for the attempt: PostgreSQL ends one of the two.
Deadlock(r, q) ==
  /\ pc[r] = "lock"
  /\ Held(r) = "in_progress"
  /\ attempts[job[r].attempt].late => job[r].op = "force"
  /\ Grading(q, job[r].attempt)
  /\ End(r) \/ End(q)
  /\ UNCHANGED <<attempts, answers>>

\* The marks of the attempt that row i is of, with mark m for that row.
TotalWith(i, m) ==
  Cardinality({k \in DOMAIN answers : /\ answers[k].attempt = answers[i].attempt
                                      /\ (IF k = i THEN m ELSE answers[k].mark) = 1})

\* grade_essay, of any answer of any attempt: the mark is flushed and locks the
\* row, the other marks are read, and the sum is committed as the score.
OpenGrade(r) ==
  /\ pc[r] = "idle"
  /\ \E i \in DOMAIN answers, m \in {0, 1} :
       /\ \A q \in Threads : pc[q] = "score" => job[q].row # i
       /\ job' = [job EXCEPT ![r] =
            [op |-> "grade", row |-> i, mark |-> m, total |-> TotalWith(i, m)]]
  /\ Goto(r, "score")
  /\ UNCHANGED <<attempts, answers, session>>

Grade(r) ==
  /\ pc[r] = "score"
  /\ LET j == job[r]
         n == answers[j.row].attempt
     IN /\ answers' = [answers EXCEPT ![j.row].mark = j.mark]
        /\ attempts' = [attempts EXCEPT ![n] =
                       [attempts[n] EXCEPT !.score = j.total, !.hand = TRUE]]
  /\ End(r)

\* The time of the quiz and its grace are over.
TimeUp(n) ==
  /\ attempts[n].status = "in_progress" /\ ~ attempts[n].late
  /\ attempts' = [attempts EXCEPT ![n].late = TRUE]
  /\ UNCHANGED <<answers, pc, job, session>>

Finish(r) ==
  \/ FormDone(r) \/ Write(r) \/ ReadAttempt(r) \/ Closed(r) \/ TooLate(r) \/ Submit(r)
  \/ InsertAttempt(r) \/ Grade(r)

Next ==
  \/ \E r \in Threads :
       \/ Start(r) \/ Load(r) \/ Look(r) \/ OpenGrade(r) \/ Finish(r)
       \/ \E q \in Threads \ {r} : Deadlock(r, q)
  \/ \E n \in DOMAIN attempts : TimeUp(n)

\* A handler that has begun runs to its end.
FairSpec == Init /\ [][Next]_vars /\ \A r \in Threads : WF_vars(Finish(r))
Spec == Init /\ [][Next]_vars

-----------------------------------------------------------------------------
TypeOK ==
  /\ attempts \in Seq([status : {"in_progress", "submitted"}, late : BOOLEAN, score : Nat,
                       submissions : Nat, hand : BOOLEAN])
  /\ answers \in Seq([attempt : DOMAIN attempts, question : Questions,
                      value : Values \cup {"none"}, mark : Marks])
  /\ pc \in [Threads -> {"idle", "insert", "form", "write", "submit", "lock", "score"}]
  /\ \A r \in Threads : /\ session[r].status \in {"unread", "in_progress", "submitted"}
                        /\ Len(session[r].seen) <= Len(answers)

\* However many tabs start at once, a student has no more attempts than the quiz
\* allows.
AttemptsWithinLimit == Len(attempts) <= Allowed

\* A submitted attempt has a row for each question, marked or not, whoever
\* submitted it and whatever the time.
SubmittedIsComplete ==
  \A n \in DOMAIN attempts : attempts[n].status = "submitted" =>
    \A q \in Questions : RowsOf(n, q) # {}

\* Two tabs may leave two rows of one question, and an attempt may be submitted
\* twice: no question is paid twice, as long as no teacher adds the rows up.
NoQuestionPaidTwice ==
  \A n \in DOMAIN attempts : ~ attempts[n].hand => attempts[n].score <= Cardinality(Objective)

\* Who asks to submit gets a submitted attempt, even if the time ends on the way;
\* only a teacher who grades an answer meanwhile can stop it.
Submitting(n) == \E r \in Threads : pc[r] \in {"submit", "lock"} /\ job[r].attempt = n
SubmissionEnds ==
  \A n \in 1..Allowed :
    Submitting(n) ~> \/ \E q \in Threads : Grading(q, n)
                     \/ n \in DOMAIN attempts /\ (attempts[n].status = "submitted" \/ attempts[n].hand)

\* An attempt is submitted once.
SubmittedOnce == \A n \in DOMAIN attempts : attempts[n].submissions <= 1
=============================================================================
