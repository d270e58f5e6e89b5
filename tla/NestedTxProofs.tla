--------------------------- MODULE NestedTxProofs ---------------------------
(***************************************************************************)
(* What NestedTx keeps for any number of calls and any nesting.  The first *)
(* invariant says what a reader of tx() keeps in mind: the calls that run  *)
(* are one transaction, the rows of the session are all of it, and after a *)
(* database error the session does not work until the outermost call ends. *)
(* The second says where each row and each hook of those calls is.         *)
(***************************************************************************)
EXTENDS NestedTx, TLAPS

Call == [outer : Nat, wrote : BOOLEAN, asked : BOOLEAN, struck : BOOLEAN,
         status : {"running", "done", "failed"}]
Frame == [call : Nat, hooks : Seq(Nat)]
Session == [state : {"ok", "aborted", "inactive"}, added : SUBSET Nat, flushed : SUBSET Nat]

CallsOK ==
  /\ calls \in Seq(Call)
  /\ \A c \in DOMAIN calls : calls[c].outer \in DOMAIN calls

StackOK ==
  /\ stack \in Seq(Frame)
  /\ \A i \in DOMAIN stack :
       /\ stack[i].call \in DOMAIN calls
       /\ calls[stack[i].call].status = "running"
       /\ calls[stack[i].call].outer = stack[1].call
       /\ \A j \in DOMAIN stack \ {i} : stack[j].call # stack[i].call

SessionOK ==
  /\ session \in Session
  /\ \A c \in session.added \cup session.flushed :
       stack # << >> /\ c \in DOMAIN calls /\ calls[c].outer = stack[1].call
  /\ stack # << >> /\ calls[stack[1].call].struck => session.state # "ok"

IInv ==
  /\ CallsOK /\ StackOK /\ SessionOK
  /\ db \subseteq DOMAIN calls
  /\ AllOrNothing

-----------------------------------------------------------------------------
\* A step that ends no call twice and reopens none keeps the committed rows right.
CallsStep ==
  /\ calls' \in Seq(Call)
  /\ DOMAIN calls \subseteq DOMAIN calls'
  /\ \A c \in DOMAIN calls :
       /\ calls'[c].outer = calls[c].outer
       /\ calls[c].status = "done" => calls'[c].status = "done" /\ calls'[c].struck = calls[c].struck
  /\ \A c \in DOMAIN calls' : calls'[c].outer \in DOMAIN calls'

LEMMA StepKeeps ==
  ASSUME IInv, CallsStep, StackOK', SessionOK',
         \A c \in db' \ db :
           /\ c \in DOMAIN calls'
           /\ calls'[calls'[c].outer].status = "done" /\ ~ calls'[calls'[c].outer].struck
  PROVE  IInv'
<1>1. db' \subseteq DOMAIN calls'
  BY DEF IInv, CallsStep
<1>2. AllOrNothing'
  <2> SUFFICES ASSUME NEW c \in db'
               PROVE  calls'[calls'[c].outer].status = "done" /\ ~ calls'[calls'[c].outer].struck
    BY DEF AllOrNothing
  <2>1. CASE c \in db
    BY <2>1 DEF IInv, CallsOK, AllOrNothing, CallsStep
  <2>2. CASE c \notin db
    BY <2>2
  <2> QED
    BY <2>1, <2>2
<1> QED
  BY <1>1, <1>2 DEF IInv, CallsStep, CallsOK

LEMMA NothingMoves ==
  ASSUME IInv, UNCHANGED <<calls, stack, session, db>> PROVE IInv'
BY DEF IInv, CallsOK, StackOK, SessionOK, AllOrNothing

LEMMA CallsKept == ASSUME IInv, calls' = calls PROVE CallsStep
BY DEF IInv, CallsOK, CallsStep

LEMMA RowSet ==
  ASSUME NEW S, NEW table \in Seq(S), NEW n \in DOMAIN table, NEW x \in S
  PROVE  /\ [table EXCEPT ![n] = x] \in Seq(S)
         /\ DOMAIN [table EXCEPT ![n] = x] = DOMAIN table
         /\ [table EXCEPT ![n] = x][n] = x
         /\ \A m \in DOMAIN table \ {n} : [table EXCEPT ![n] = x][m] = table[m]
OBVIOUS

LEMMA RowsMapped ==
  ASSUME NEW S, NEW table \in Seq(S), NEW f, f = [m \in DOMAIN table |-> f[m]],
         \A m \in DOMAIN table : f[m] \in S
  PROVE  f \in Seq(S) /\ DOMAIN f = DOMAIN table
OBVIOUS

LEMMA CallSet ==
  ASSUME IInv, NEW c \in DOMAIN calls, NEW row \in Call, calls' = [calls EXCEPT ![c] = row],
         row.outer = calls[c].outer, calls[c].status = "running"
  PROVE  /\ CallsStep
         /\ DOMAIN calls' = DOMAIN calls /\ calls'[c] = row
         /\ \A m \in DOMAIN calls \ {c} : calls'[m] = calls[m]
<1>1. /\ calls' \in Seq(Call) /\ DOMAIN calls' = DOMAIN calls /\ calls'[c] = row
      /\ \A m \in DOMAIN calls \ {c} : calls'[m] = calls[m]
  BY RowSet DEF IInv, CallsOK
<1> QED
  BY <1>1 DEF CallsStep, IInv, CallsOK

\* The call that runs, and the outermost one.
LEMMA Running ==
  ASSUME IInv, stack # << >>
  PROVE  /\ Len(stack) \in Nat \ {0} /\ 1 \in DOMAIN stack /\ Len(stack) \in DOMAIN stack
         /\ DOMAIN stack = 1..Len(stack)
         /\ Current = stack[Len(stack)].call /\ Current \in Nat
         /\ Current \in DOMAIN calls /\ stack[1].call \in DOMAIN calls
         /\ calls[Current] \in Call /\ calls[stack[1].call] \in Call
         /\ calls[Current].status = "running" /\ calls[stack[1].call].status = "running"
         /\ calls[Current].outer = stack[1].call
         /\ calls[stack[1].call].outer = stack[1].call
<1>1. /\ Len(stack) \in Nat \ {0} /\ 1 \in DOMAIN stack /\ Len(stack) \in DOMAIN stack
      /\ DOMAIN stack = 1..Len(stack)
  BY DEF IInv, StackOK
<1>2. Current = stack[Len(stack)].call
  BY DEF Current, Last
<1>3. Current \in DOMAIN calls /\ stack[1].call \in DOMAIN calls
  BY <1>1, <1>2 DEF IInv, StackOK
<1>4. DOMAIN calls = 1..Len(calls) /\ calls[Current] \in Call /\ calls[stack[1].call] \in Call
  BY <1>3 DEF IInv, CallsOK
<1> QED
  BY <1>1, <1>2, <1>3, <1>4 DEF IInv, StackOK

\* The calls that still run after a step, when they ran before it.
LEMMA StackShrinks ==
  ASSUME IInv, CallsStep, stack' \in Seq(Frame), DOMAIN stack' \subseteq DOMAIN stack,
         \A i \in DOMAIN stack' : /\ stack'[i].call = stack[i].call
                                 /\ calls'[stack[i].call].status = "running"
  PROVE  StackOK'
<1> SUFFICES ASSUME NEW i \in DOMAIN stack'
             PROVE  /\ stack'[i].call \in DOMAIN calls'
                    /\ calls'[stack'[i].call].status = "running"
                    /\ calls'[stack'[i].call].outer = stack'[1].call
                    /\ \A j \in DOMAIN stack' \ {i} : stack'[j].call # stack'[i].call
  BY DEF StackOK
<1>1. 1 \in DOMAIN stack' /\ i \in DOMAIN stack
  OBVIOUS
<1>2. /\ stack[i].call \in DOMAIN calls
      /\ calls[stack[i].call].outer = stack[1].call
      /\ \A j \in DOMAIN stack \ {i} : stack[j].call # stack[i].call
  BY <1>1 DEF IInv, StackOK
<1>3. stack'[1].call = stack[1].call /\ stack'[i].call = stack[i].call
  BY <1>1
<1>4. calls'[stack[i].call].outer = calls[stack[i].call].outer
  BY <1>2 DEF CallsStep
<1>5. ASSUME NEW j \in DOMAIN stack' \ {i}  PROVE stack'[j].call # stack'[i].call
  BY <1>2, <1>3
<1> QED
  BY <1>2, <1>3, <1>4, <1>5 DEF CallsStep

LEMMA SessionKept ==
  ASSUME IInv, CallsStep, session' = session, stack # << >>, stack' # << >>,
         stack'[1].call = stack[1].call,
         calls'[stack[1].call].struck = calls[stack[1].call].struck
  PROVE  SessionOK'
BY DEF IInv, SessionOK, CallsStep

LEMMA SessionCleared ==
  ASSUME session' = Clean, stack' = << >> PROVE SessionOK'
BY DEF SessionOK, Clean, Session

-----------------------------------------------------------------------------
LEMMA InitInvariant == ASSUME Init PROVE IInv
BY DEF Init, IInv, CallsOK, StackOK, SessionOK, AllOrNothing, Clean, Session

LEMMA EnterKeeps == ASSUME IInv, Enter PROVE IInv'
<1> DEFINE new == Len(calls) + 1
           row == [outer |-> IF stack = << >> THEN new ELSE stack[1].call,
                   wrote |-> FALSE, asked |-> FALSE, status |-> "running", struck |-> FALSE]
           frame == [call |-> new, hooks |-> << >>]
<1>1. calls' = Append(calls, row) /\ stack' = Append(stack, frame) /\ session' = session /\ db' = db
  BY DEF Enter
<1>2. new \in Nat /\ new \notin DOMAIN calls
  BY DEF IInv, CallsOK
<1>3. /\ row \in Call /\ row.status = "running" /\ ~ row.struck
      /\ stack = << >> => row.outer = new
      /\ stack # << >> => row.outer = stack[1].call /\ stack[1].call \in DOMAIN calls
  <2>1. stack # << >> => stack[1].call \in DOMAIN calls /\ stack[1].call \in Nat
    BY Running DEF IInv, CallsOK
  <2> QED
    BY <1>2, <2>1 DEF Call
<1>4. frame \in Frame /\ frame.call = new
  BY <1>2 DEF Frame
<1> HIDE DEF row, frame
<1>5. /\ calls' \in Seq(Call) /\ DOMAIN calls' = DOMAIN calls \cup {new} /\ calls'[new] = row
      /\ \A c \in DOMAIN calls : calls'[c] = calls[c]
  BY <1>1, <1>3 DEF IInv, CallsOK
<1>6. /\ stack' \in Seq(Frame) /\ stack' # << >>
      /\ DOMAIN stack' = DOMAIN stack \cup {Len(stack) + 1}
      /\ stack'[Len(stack) + 1] = frame
      /\ \A i \in DOMAIN stack : stack'[i] = stack[i]
      /\ stack = << >> => stack'[1] = frame
      /\ stack # << >> => stack'[1] = stack[1]
      /\ 1 \in DOMAIN stack'
  BY <1>1, <1>4 DEF IInv, StackOK
<1> HIDE DEF new
<1>7. CallsStep
  BY <1>2, <1>3, <1>5 DEF CallsStep, IInv, CallsOK
<1>8. row.outer = stack'[1].call
  BY <1>3, <1>4, <1>6
<1>9. StackOK'
  <2>1. ASSUME NEW i \in DOMAIN stack'
        PROVE  /\ stack'[i].call \in DOMAIN calls'
               /\ calls'[stack'[i].call].status = "running"
               /\ calls'[stack'[i].call].outer = stack'[1].call
    <3>1. CASE i = Len(stack) + 1
      BY <1>3, <1>4, <1>5, <1>6, <1>8, <3>1
    <3>2. CASE i # Len(stack) + 1
      <4>1. i \in DOMAIN stack /\ stack # << >>
        BY <1>6, <2>1, <3>2
      <4> QED
        BY <1>5, <1>6, <4>1 DEF IInv, StackOK
    <3> QED
      BY <3>1, <3>2
  <2>2. \A i \in DOMAIN stack : stack'[i].call # new
    BY <1>2, <1>6 DEF IInv, StackOK
  <2>3. ASSUME NEW i \in DOMAIN stack', NEW j \in DOMAIN stack' \ {i}
        PROVE  stack'[j].call # stack'[i].call
    BY <1>4, <1>6, <2>2, <2>3 DEF IInv, StackOK
  <2> QED
    BY <1>6, <2>1, <2>3 DEF StackOK
<1>10. SessionOK'
  <2>1. CASE stack = << >>
    BY <1>1, <1>3, <1>4, <1>5, <1>6, <2>1 DEF IInv, SessionOK
  <2>2. CASE stack # << >>
    BY <1>1, <1>3, <1>5, <1>6, <1>7, <2>2, SessionKept
  <2> QED
    BY <2>1, <2>2
<1> QED
  BY <1>1, <1>7, <1>9, <1>10, StepKeeps

LEMMA AddKeeps == ASSUME IInv, Add PROVE IInv'
<1> DEFINE row == [calls[Current] EXCEPT !.wrote = TRUE]
<1>1. stack # << >>
  BY DEF Add, InBody
<1>2. /\ calls' = [calls EXCEPT ![Current] = row]
      /\ session' = [session EXCEPT !.added = session.added \cup {Current}]
      /\ stack' = stack /\ db' = db
  BY DEF Add
<1>3. /\ row \in Call /\ row.outer = calls[Current].outer
      /\ row.status = "running" /\ row.struck = calls[Current].struck
  BY <1>1, Running DEF Call
<1> HIDE DEF row
<1>4. /\ CallsStep /\ DOMAIN calls' = DOMAIN calls /\ calls'[Current] = row
      /\ \A m \in DOMAIN calls \ {Current} : calls'[m] = calls[m]
  BY <1>1, <1>2, <1>3, CallSet, Running
<1>5. StackOK'
  <2>1. \A i \in DOMAIN stack' : /\ stack'[i].call = stack[i].call
                                /\ calls'[stack[i].call].status = "running"
    BY <1>2, <1>3, <1>4 DEF IInv, StackOK
  <2> QED
    BY <1>2, <1>4, <2>1, StackShrinks DEF IInv, StackOK
<1>6. /\ session' \in Session /\ session'.added = session.added \cup {Current}
      /\ session'.flushed = session.flushed /\ session'.state = session.state
  <2>1. session \in Session /\ session.added \cup {Current} \in SUBSET Nat
    BY <1>1, Running DEF IInv, SessionOK, Session
  <2> QED
    BY <1>2, <2>1 DEF Session
<1>7. calls'[stack[1].call].struck = calls[stack[1].call].struck
  BY <1>1, <1>3, <1>4, Running
<1>8. SessionOK'
  <2>1. ASSUME NEW c \in session'.added \cup session'.flushed
        PROVE  c \in DOMAIN calls /\ calls[c].outer = stack[1].call
    <3>1. CASE c = Current
      BY <1>1, <3>1, Running
    <3>2. CASE c # Current
      BY <1>6, <2>1, <3>2 DEF IInv, SessionOK
    <3> QED
      BY <3>1, <3>2
  <2>2. \A c \in DOMAIN calls : c \in DOMAIN calls' /\ calls'[c].outer = calls[c].outer
    BY <1>4 DEF CallsStep
  <2>3. calls'[stack'[1].call].struck => session'.state # "ok"
    BY <1>1, <1>2, <1>6, <1>7 DEF IInv, SessionOK
  <2> QED
    BY <1>1, <1>2, <1>6, <2>1, <2>2, <2>3 DEF SessionOK
<1> QED
  BY <1>2, <1>4, <1>5, <1>8, StepKeeps

LEMMA RegisterKeeps == ASSUME IInv, Register PROVE IInv'
<1> DEFINE row == [calls[Current] EXCEPT !.asked = TRUE]
           top == stack[Len(stack)]
           frame == [top EXCEPT !.hooks = Append(top.hooks, Current)]
<1>1. stack # << >>
  BY DEF Register, InBody
<1>2. /\ calls' = [calls EXCEPT ![Current] = row]
      /\ stack' = [stack EXCEPT ![Len(stack)] = frame]
      /\ session' = session /\ db' = db
  BY DEF Register
<1>3. /\ row \in Call /\ row.outer = calls[Current].outer
      /\ row.status = "running" /\ row.struck = calls[Current].struck
  BY <1>1, Running DEF Call
<1>4. frame \in Frame /\ frame.call = top.call
  <2>1. top \in Frame
    BY <1>1, Running DEF IInv, StackOK
  <2>2. top.hooks \in Seq(Nat) /\ Current \in Nat
    BY <1>1, <2>1, Running DEF Frame
  <2>3. Append(top.hooks, Current) \in Seq(Nat)
    BY <2>2
  <2> QED
    BY <2>1, <2>3 DEF Frame
<1> HIDE DEF row, frame, top
<1>5. /\ CallsStep /\ DOMAIN calls' = DOMAIN calls /\ calls'[Current] = row
      /\ \A m \in DOMAIN calls \ {Current} : calls'[m] = calls[m]
  BY <1>1, <1>2, <1>3, CallSet, Running
<1>6. /\ stack' \in Seq(Frame) /\ DOMAIN stack' = DOMAIN stack
      /\ \A i \in DOMAIN stack : stack'[i].call = stack[i].call
      /\ stack' # << >>
  BY <1>1, <1>2, <1>4, Running, RowSet DEF IInv, StackOK, top
<1>7. StackOK'
  <2>1. \A i \in DOMAIN stack' : calls'[stack[i].call].status = "running"
    BY <1>3, <1>5, <1>6 DEF IInv, StackOK
  <2> QED
    BY <1>5, <1>6, <2>1, StackShrinks
<1>8. SessionOK'
  BY <1>1, <1>2, <1>3, <1>5, <1>6, Running, SessionKept
<1> QED
  BY <1>2, <1>5, <1>7, <1>8, StepKeeps

LEMMA FlushKeeps == ASSUME IInv, Flush PROVE IInv'
<1> DEFINE all == session.flushed \cup session.added
<1>1. session \in Session /\ all \in SUBSET Nat
  BY DEF IInv, SessionOK, Session
<1>2. session' = [session EXCEPT !.flushed = all, !.added = {}]
  BY DEF Flush
<1> HIDE DEF all
<1>3. /\ session' \in Session /\ session'.flushed = all /\ session'.added = {}
      /\ session'.state = session.state
  BY <1>1, <1>2 DEF Session
<1>4. /\ calls' = calls /\ stack' = stack /\ db' = db
  BY DEF Flush
<1>5. SessionOK'
  BY <1>3, <1>4 DEF IInv, SessionOK, all
<1>6. CallsStep /\ StackOK'
  BY <1>4, CallsKept DEF IInv, StackOK
<1> QED
  BY <1>4, <1>5, <1>6, StepKeeps

\* A database error marks the outermost call, and the session stops working.
LEMMA StruckKeeps ==
  ASSUME IInv, stack # << >>, calls' = Struck(Current), UNCHANGED <<stack, db>>,
         session' \in Session, session'.state # "ok",
         session'.added \cup session'.flushed \subseteq session.added \cup session.flushed
  PROVE  IInv'
<1> DEFINE top == stack[1].call
           row == [calls[top] EXCEPT !.struck = TRUE]
<1>1. calls' = [calls EXCEPT ![top] = row]
  BY Running DEF Struck
<1>2. row \in Call /\ row.outer = calls[top].outer /\ row.status = "running"
  BY Running DEF Call
<1>3. top \in DOMAIN calls /\ calls[top].status = "running"
  BY Running
<1> HIDE DEF row, top
<1>4. /\ CallsStep /\ DOMAIN calls' = DOMAIN calls /\ calls'[top] = row
      /\ \A m \in DOMAIN calls \ {top} : calls'[m] = calls[m]
  BY <1>1, <1>2, <1>3, CallSet
<1>5. StackOK'
  <2>1. \A i \in DOMAIN stack' : calls'[stack[i].call].status = "running"
    BY <1>2, <1>4 DEF IInv, StackOK
  <2> QED
    BY <1>4, <2>1, StackShrinks DEF IInv, StackOK
<1>6. SessionOK'
  BY <1>4 DEF IInv, SessionOK, CallsStep
<1> QED
  BY <1>4, <1>5, <1>6, StepKeeps

LEMMA FlushFailsKeeps == ASSUME IInv, FlushFails PROVE IInv'
<1>1. /\ session' \in Session /\ session'.state = "inactive"
      /\ session'.added = {} /\ session'.flushed = {}
  BY DEF FlushFails, Clean, Session
<1>2. stack # << >> /\ calls' = Struck(Current) /\ UNCHANGED <<stack, db>>
  BY DEF FlushFails, InBody
<1> QED
  BY <1>1, <1>2, StruckKeeps

LEMMA QueryFailsKeeps == ASSUME IInv, QueryFails PROVE IInv'
<1>1. session \in Session /\ session' = [session EXCEPT !.state = "aborted"]
  BY DEF QueryFails, IInv, SessionOK
<1>2. /\ session' \in Session /\ session'.state = "aborted"
      /\ session'.added = session.added /\ session'.flushed = session.flushed
  BY <1>1 DEF Session
<1>3. stack # << >> /\ calls' = Struck(Current) /\ UNCHANGED <<stack, db>>
  BY DEF QueryFails, InBody
<1> QED
  BY <1>2, <1>3, StruckKeeps

-----------------------------------------------------------------------------
\* The last call ends: the calls around it go on.
LEMMA LastCallEnds ==
  ASSUME IInv, stack # << >>, NEW status \in {"done", "failed"},
         calls' = [calls EXCEPT ![Current].status = status]
  PROVE  /\ CallsStep /\ DOMAIN calls' = DOMAIN calls
         /\ calls'[Current].status = status
         /\ \A c \in DOMAIN calls : calls'[c].struck = calls[c].struck
         /\ \A i \in 1..Len(stack) - 1 : calls'[stack[i].call].status = "running"
<1> DEFINE row == [calls[Current] EXCEPT !.status = status]
<1>1. calls' = [calls EXCEPT ![Current] = row]
  OBVIOUS
<1>2. /\ row \in Call /\ row.outer = calls[Current].outer
      /\ row.status = status /\ row.struck = calls[Current].struck
  BY Running DEF Call
<1> HIDE DEF row
<1>3. /\ CallsStep /\ DOMAIN calls' = DOMAIN calls /\ calls'[Current] = row
      /\ \A m \in DOMAIN calls \ {Current} : calls'[m] = calls[m]
  BY <1>1, <1>2, Running, CallSet
<1>4. ASSUME NEW i \in 1..Len(stack) - 1  PROVE calls'[stack[i].call].status = "running"
  <2>1. i \in DOMAIN stack /\ Len(stack) \in DOMAIN stack \ {i}
    BY Running
  <2>2. stack[i].call # Current /\ stack[i].call \in DOMAIN calls
        /\ calls[stack[i].call].status = "running"
    BY <2>1, Running DEF IInv, StackOK
  <2> QED
    BY <1>3, <2>2
<1> QED
  BY <1>2, <1>3, <1>4

LEMMA FrontOf ==
  ASSUME NEW S, NEW s \in Seq(S), NEW n \in Nat, Len(s) = n + 1
  PROVE  /\ SubSeq(s, 1, n) \in Seq(S)
         /\ DOMAIN SubSeq(s, 1, n) = 1..n
         /\ \A i \in 1..n : SubSeq(s, 1, n)[i] = s[i]
OBVIOUS

LEMMA FrontOfStack ==
  ASSUME IInv, stack # << >>
  PROVE  /\ Front(stack) \in Seq(Frame)
         /\ DOMAIN Front(stack) = 1..Len(stack) - 1
         /\ \A i \in 1..Len(stack) - 1 : Front(stack)[i] = stack[i]
         /\ Len(stack) = 1 => Front(stack) = << >>
<1> DEFINE n == Len(stack) - 1
<1>1. stack \in Seq(Frame) /\ n \in Nat /\ Len(stack) = n + 1
  BY Running DEF IInv, StackOK
<1>2. Front(stack) = SubSeq(stack, 1, n)
  BY DEF Front
<1> HIDE DEF n
<1>3. /\ Front(stack) \in Seq(Frame) /\ DOMAIN Front(stack) = 1..n
      /\ \A i \in 1..n : Front(stack)[i] = stack[i]
  BY <1>1, <1>2, FrontOf
<1>4. n = 0 => Front(stack) = << >>
  BY <1>3
<1> QED
  BY <1>1, <1>3, <1>4 DEF n

LEMMA FailKeeps == ASSUME IInv, Fail PROVE IInv'
<1>1. /\ stack # << >> /\ calls' = [calls EXCEPT ![Current].status = "failed"]
      /\ stack' = Front(stack) /\ db' = db
      /\ session' = IF Len(stack) = 1 THEN Clean ELSE session
  BY DEF Fail
<1>2. /\ CallsStep
      /\ \A c \in DOMAIN calls : calls'[c].struck = calls[c].struck
      /\ \A i \in 1..Len(stack) - 1 : calls'[stack[i].call].status = "running"
  BY <1>1, LastCallEnds
<1>3. StackOK'
  BY <1>1, <1>2, FrontOfStack, Running, StackShrinks
<1>4. SessionOK'
  <2>1. CASE Len(stack) = 1
    BY <1>1, <2>1, FrontOfStack, SessionCleared
  <2>2. CASE Len(stack) # 1
    <3>1. 1 \in 1..Len(stack) - 1
      BY <1>1, <2>2, Running
    <3>2. stack' # << >> /\ stack'[1] = stack[1]
      BY <1>1, <3>1, FrontOfStack
    <3> QED
      BY <1>1, <1>2, <2>2, <3>2, Running, SessionKept
  <2> QED
    BY <2>1, <2>2
<1> QED
  BY <1>1, <1>2, <1>3, <1>4, StepKeeps

LEMMA ReturnKeeps == ASSUME IInv, Return PROVE IInv'
<1> DEFINE k == Len(stack) - 1
           below == stack[k]
           frame == [below EXCEPT !.hooks = below.hooks \o Last(stack).hooks]
           all == session.flushed \cup session.added
<1>1. /\ stack # << >> /\ Len(stack) > 1 /\ calls' = [calls EXCEPT ![Current].status = "done"]
      /\ session' = [session EXCEPT !.flushed = all, !.added = {}]
      /\ db' = db
  BY DEF Return, InBody
<1>2. /\ CallsStep
      /\ \A c \in DOMAIN calls : calls'[c].struck = calls[c].struck
      /\ \A i \in 1..k : calls'[stack[i].call].status = "running"
  BY <1>1, LastCallEnds
<1>3. k \in DOMAIN Front(stack) /\ k \in DOMAIN stack /\ 1 \in 1..k /\ Front(stack)[k] = below
  BY <1>1, Running, FrontOfStack
<1>4. stack' = [Front(stack) EXCEPT ![k] = frame]
  BY <1>1, <1>3 DEF Return
<1>5. frame \in Frame /\ frame.call = below.call
  <2>1. below \in Frame /\ stack[Len(stack)] \in Frame
    BY <1>1, <1>3, Running DEF IInv, StackOK
  <2>2. below.hooks \in Seq(Nat) /\ Last(stack).hooks \in Seq(Nat)
    BY <2>1 DEF Frame, Last
  <2>3. below.hooks \o Last(stack).hooks \in Seq(Nat)
    BY <2>2
  <2> QED
    BY <2>1, <2>3 DEF Frame
<1> HIDE DEF frame
<1>6. /\ stack' \in Seq(Frame) /\ DOMAIN stack' = 1..k
      /\ \A i \in 1..k : stack'[i].call = stack[i].call
  BY <1>1, <1>3, <1>4, <1>5, FrontOfStack, RowSet
<1>7. StackOK'
  BY <1>1, <1>2, <1>6, Running, StackShrinks
<1>8. stack' # << >> /\ stack'[1].call = stack[1].call
  BY <1>3, <1>6
<1>9. session \in Session /\ all \in SUBSET Nat
  BY DEF IInv, SessionOK, Session
<1> HIDE DEF all
<1>10. /\ session' \in Session /\ session'.flushed = all /\ session'.added = {}
       /\ session'.state = session.state
  BY <1>1, <1>9 DEF Session
<1>11. SessionOK'
  <2>1. \A c \in session'.added \cup session'.flushed :
          c \in DOMAIN calls /\ calls[c].outer = stack[1].call
    BY <1>10 DEF IInv, SessionOK, all
  <2>2. \A c \in DOMAIN calls : c \in DOMAIN calls' /\ calls'[c].outer = calls[c].outer
    BY <1>2 DEF CallsStep
  <2>3. calls'[stack'[1].call].struck => session'.state # "ok"
    BY <1>1, <1>2, <1>8, <1>10, Running DEF IInv, SessionOK
  <2> QED
    BY <1>8, <1>10, <2>1, <2>2, <2>3 DEF SessionOK
<1> QED
  BY <1>1, <1>2, <1>7, <1>11, StepKeeps

\* The commit: every row of the session belongs to the call that ends, and no error
\* struck it.
LEMMA CommitKeeps == ASSUME IInv, Commit PROVE IInv'
<1>1. /\ stack # << >> /\ Len(stack) = 1 /\ calls' = [calls EXCEPT ![Current].status = "done"]
      /\ session' = Clean /\ stack' = << >>
      /\ \/ session.state = "ok" /\ db' = db \cup session.added \cup session.flushed
         \/ db' = db
  BY DEF Commit, InBody
<1>2. /\ CallsStep /\ DOMAIN calls' = DOMAIN calls
      /\ calls'[Current].status = "done"
      /\ \A c \in DOMAIN calls : calls'[c].struck = calls[c].struck
  BY <1>1, LastCallEnds
<1>3. StackOK'
  BY <1>1 DEF StackOK
<1>4. ASSUME NEW c \in db' \ db
      PROVE  /\ c \in DOMAIN calls'
             /\ calls'[calls'[c].outer].status = "done" /\ ~ calls'[calls'[c].outer].struck
  <2>1. session.state = "ok" /\ c \in session.added \cup session.flushed
    BY <1>1, <1>4
  <2>2. c \in DOMAIN calls /\ calls[c].outer = stack[1].call /\ ~ calls[stack[1].call].struck
    BY <1>1, <2>1 DEF IInv, SessionOK
  <2>3. stack[1].call = Current /\ Current \in DOMAIN calls
    BY <1>1, Running
  <2>4. calls'[c].outer = Current
    BY <1>2, <2>2, <2>3 DEF CallsStep
  <2> QED
    BY <1>2, <2>2, <2>3, <2>4
<1> QED
  BY <1>1, <1>2, <1>3, <1>4, StepKeeps, SessionCleared

LEMMA CrashKeeps == ASSUME IInv, Crash PROVE IInv'
<1>1. /\ calls' = [c \in DOMAIN calls |->
                    IF calls[c].status = "running" THEN [calls[c] EXCEPT !.status = "failed"]
                    ELSE calls[c]]
      /\ stack' = << >> /\ session' = Clean /\ db' = db
  BY DEF Crash
<1>2. \A c \in DOMAIN calls : /\ calls'[c] \in Call /\ calls'[c].outer = calls[c].outer
                              /\ calls[c].status = "done" => calls'[c] = calls[c]
  <2> TAKE c \in DOMAIN calls
  <2>1. calls[c] \in Call
    BY DEF IInv, CallsOK
  <2>2. CASE calls[c].status = "running"
    BY <1>1, <2>1, <2>2 DEF Call
  <2>3. CASE calls[c].status # "running"
    BY <1>1, <2>1, <2>3
  <2> QED
    BY <2>2, <2>3
<1>3. DOMAIN calls' = DOMAIN calls /\ calls' \in Seq(Call)
  <2>1. calls' = [c \in DOMAIN calls |-> calls'[c]] /\ calls \in Seq(Call)
    BY <1>1 DEF IInv, CallsOK
  <2> QED
    BY <1>2, <2>1, RowsMapped
<1>4. CallsStep
  BY <1>2, <1>3 DEF CallsStep, IInv, CallsOK
<1>5. StackOK'
  BY <1>1 DEF StackOK
<1> QED
  BY <1>1, <1>4, <1>5, StepKeeps, SessionCleared

-----------------------------------------------------------------------------
\* The invariant holds in every reachable state of tx() and its hooks.
THEOREM Invariance == Spec => []IInv
<1>1. Init => IInv
  BY InitInvariant
<1>2. IInv /\ [Next]_vars => IInv'
  <2> SUFFICES ASSUME IInv, [Next]_vars PROVE IInv'
    OBVIOUS
  <2>1. ASSUME RegisterOutside \/ Refused \/ Raise \/ Catch \/ RunHook  PROVE IInv'
    BY <2>1, NothingMoves DEF RegisterOutside, Refused, Raise, Catch, RunHook, hookVars
  <2>2. CASE UNCHANGED vars
    BY <2>2, NothingMoves DEF vars
  <2> QED
    BY <2>1, <2>2, EnterKeeps, AddKeeps, RegisterKeeps, FlushKeeps, FlushFailsKeeps,
       QueryFailsKeeps, FailKeeps, ReturnKeeps, CommitKeeps, CrashKeeps DEF Next, Continue
<1> QED
  BY <1>1, <1>2, PTL DEF Spec

\* However calls nest and whichever exceptions are caught on the way, what a database
\* error or a failed outermost call touched leaves no row (tx() of app/core/db.py).
THEOREM NothingHalfWritten == Spec => []AllOrNothing
BY Invariance, PTL DEF IInv

-----------------------------------------------------------------------------
(* The rows of the transaction.  Each row of its calls is in the session,  *)
(* or lost to a database error, which is also the only thing that stops    *)
(* the session.                                                            *)

RowsKnown ==
  /\ session.state # "ok" => stack # << >> /\ calls[stack[1].call].struck
  /\ \A c \in DOMAIN calls :
       stack # << >> /\ calls[c].outer = stack[1].call /\ calls[c].wrote =>
         c \in session.added \cup session.flushed \/ calls[calls[c].outer].struck
  /\ \A c \in session.added \cup session.flushed \cup db : c \in DOMAIN calls /\ calls[c].wrote
  /\ Len(calls) <= MaxCalls
  /\ raising \in {"no", "body", "caller"}

\* What a step leaves of the calls there are.
Grown ==
  \A c \in DOMAIN calls :
    /\ c \in DOMAIN calls' /\ calls'[c].outer = calls[c].outer
    /\ calls[c].asked => calls'[c].asked
    /\ calls[c].wrote => calls'[c].wrote
    /\ calls[c].struck => calls'[c].struck
    /\ calls[c].status = "done" => calls'[c].status = "done" /\ calls'[c].wrote = calls[c].wrote

LEMMA OneCallSet ==
  ASSUME IInv, NEW c \in DOMAIN calls, NEW row, calls' = [calls EXCEPT ![c] = row],
         row.outer = calls[c].outer, calls[c].status = "running",
         calls[c].asked => row.asked, calls[c].wrote => row.wrote, calls[c].struck => row.struck
  PROVE  /\ Grown /\ DOMAIN calls' = DOMAIN calls /\ calls'[c] = row
         /\ \A m \in DOMAIN calls \ {c} : calls'[m] = calls[m]
<1>1. /\ DOMAIN calls' = DOMAIN calls /\ calls'[c] = row
      /\ \A m \in DOMAIN calls \ {c} : calls'[m] = calls[m]
  BY DEF IInv, CallsOK
<1> QED
  BY <1>1 DEF Grown

\* The changes that calls of a transaction see.
LEMMA CallMarked ==
  ASSUME IInv, stack # << >>
  PROVE  /\ calls' = [calls EXCEPT ![Current].wrote = TRUE] =>
              /\ Grown /\ DOMAIN calls' = DOMAIN calls /\ calls'[Current].wrote
              /\ calls'[Current].struck = calls[Current].struck
              /\ \A c \in DOMAIN calls \ {Current} : calls'[c] = calls[c]
         /\ calls' = [calls EXCEPT ![Current].asked = TRUE] =>
              /\ Grown /\ DOMAIN calls' = DOMAIN calls /\ calls'[Current].asked
              /\ calls'[Current].wrote = calls[Current].wrote
              /\ calls'[Current].struck = calls[Current].struck
              /\ \A c \in DOMAIN calls \ {Current} : calls'[c] = calls[c]
<1>1. Current \in DOMAIN calls /\ calls[Current] \in Call /\ calls[Current].status = "running"
  BY Running
<1>2. ASSUME calls' = [calls EXCEPT ![Current].wrote = TRUE]
      PROVE  /\ Grown /\ DOMAIN calls' = DOMAIN calls /\ calls'[Current].wrote
             /\ calls'[Current].struck = calls[Current].struck
             /\ \A c \in DOMAIN calls \ {Current} : calls'[c] = calls[c]
  <2> DEFINE row == [calls[Current] EXCEPT !.wrote = TRUE]
  <2>1. /\ row.outer = calls[Current].outer /\ row.asked = calls[Current].asked
        /\ row.wrote /\ row.struck = calls[Current].struck
    BY <1>1 DEF Call
  <2>2. calls' = [calls EXCEPT ![Current] = row]
    BY <1>2
  <2> HIDE DEF row
  <2> QED
    BY <1>1, <2>1, <2>2, OneCallSet
<1>3. ASSUME calls' = [calls EXCEPT ![Current].asked = TRUE]
      PROVE  /\ Grown /\ DOMAIN calls' = DOMAIN calls /\ calls'[Current].asked
             /\ calls'[Current].wrote = calls[Current].wrote
             /\ calls'[Current].struck = calls[Current].struck
             /\ \A c \in DOMAIN calls \ {Current} : calls'[c] = calls[c]
  <2> DEFINE row == [calls[Current] EXCEPT !.asked = TRUE]
  <2>1. /\ row.outer = calls[Current].outer /\ row.wrote = calls[Current].wrote
        /\ row.asked /\ row.struck = calls[Current].struck
    BY <1>1 DEF Call
  <2>2. calls' = [calls EXCEPT ![Current] = row]
    BY <1>3
  <2> HIDE DEF row
  <2> QED
    BY <1>1, <2>1, <2>2, OneCallSet
<1> QED
  BY <1>2, <1>3

LEMMA CallStruck ==
  ASSUME IInv, stack # << >>, calls' = Struck(Current)
  PROVE  /\ Grown /\ DOMAIN calls' = DOMAIN calls /\ calls'[stack[1].call].struck
         /\ \A c \in DOMAIN calls : calls'[c].wrote = calls[c].wrote
<1> DEFINE top == stack[1].call
           row == [calls[top] EXCEPT !.struck = TRUE]
<1>1. /\ top \in DOMAIN calls /\ calls[top].status = "running" /\ calls[top] \in Call
      /\ calls' = [calls EXCEPT ![top] = row]
  BY Running DEF Struck
<1>2. /\ row.outer = calls[top].outer /\ row.asked = calls[top].asked
      /\ row.wrote = calls[top].wrote /\ row.struck
  BY <1>1 DEF Call
<1> HIDE DEF row, top
<1>3. /\ Grown /\ DOMAIN calls' = DOMAIN calls /\ calls'[top] = row
      /\ \A m \in DOMAIN calls \ {top} : calls'[m] = calls[m]
  BY <1>1, <1>2, OneCallSet
<1> QED
  BY <1>2, <1>3 DEF top

LEMMA CallEnded ==
  ASSUME IInv, stack # << >>, NEW status, calls' = [calls EXCEPT ![Current].status = status]
  PROVE  /\ Grown /\ DOMAIN calls' = DOMAIN calls /\ calls'[Current].status = status
         /\ \A c \in DOMAIN calls : calls'[c].wrote = calls[c].wrote
         /\ \A c \in DOMAIN calls \ {Current} : calls'[c] = calls[c]
<1> DEFINE row == [calls[Current] EXCEPT !.status = status]
<1>1. /\ Current \in DOMAIN calls /\ calls[Current] \in Call /\ calls[Current].status = "running"
      /\ calls' = [calls EXCEPT ![Current] = row]
  BY Running
<1>2. /\ row.outer = calls[Current].outer /\ row.asked = calls[Current].asked
      /\ row.wrote = calls[Current].wrote /\ row.struck = calls[Current].struck
      /\ row.status = status
  BY <1>1 DEF Call
<1> HIDE DEF row
<1>3. /\ Grown /\ DOMAIN calls' = DOMAIN calls /\ calls'[Current] = row
      /\ \A m \in DOMAIN calls \ {Current} : calls'[m] = calls[m]
  BY <1>1, <1>2, OneCallSet
<1> QED
  BY <1>2, <1>3

LEMMA CallsCrashed ==
  ASSUME IInv, Crash
  PROVE  /\ Grown /\ DOMAIN calls' = DOMAIN calls
         /\ \A c \in DOMAIN calls : calls'[c].wrote = calls[c].wrote
<1>1. \A c \in DOMAIN calls :
        /\ calls'[c].outer = calls[c].outer /\ calls'[c].wrote = calls[c].wrote
        /\ calls'[c].asked = calls[c].asked /\ calls'[c].struck = calls[c].struck
        /\ calls[c].status = "done" => calls'[c] = calls[c]
  <2> TAKE c \in DOMAIN calls
  <2>1. calls[c] \in Call
    BY DEF IInv, CallsOK
  <2>2. CASE calls[c].status = "running"
    BY <2>1, <2>2 DEF Crash, Call
  <2>3. CASE calls[c].status # "running"
    BY <2>1, <2>3 DEF Crash
  <2> QED
    BY <2>2, <2>3
<1>2. DOMAIN calls' = DOMAIN calls
  BY DEF Crash
<1> QED
  BY <1>1, <1>2 DEF Grown

LEMMA CallEntered ==
  ASSUME IInv, Enter
  PROVE  /\ Grown /\ calls' \in Seq(Call)
         /\ DOMAIN calls' = DOMAIN calls \cup {Len(calls) + 1}
         /\ Len(calls) + 1 \notin DOMAIN calls
         /\ Len(calls') = Len(calls) + 1
         /\ \A c \in DOMAIN calls : calls'[c] = calls[c]
         /\ ~ calls'[Len(calls) + 1].wrote
<1> DEFINE row == [outer |-> IF stack = << >> THEN Len(calls) + 1 ELSE stack[1].call,
                   wrote |-> FALSE, asked |-> FALSE, status |-> "running", struck |-> FALSE]
<1>1. calls' = Append(calls, row) /\ ~ row.wrote
  BY DEF Enter
<1>2. row \in Call
  <2>1. stack # << >> => stack[1].call \in Nat
    BY Running DEF IInv, CallsOK
  <2> QED
    BY <2>1 DEF Call, IInv, CallsOK
<1> HIDE DEF row
<1>3. /\ calls' \in Seq(Call) /\ DOMAIN calls' = DOMAIN calls \cup {Len(calls) + 1}
      /\ Len(calls) + 1 \notin DOMAIN calls /\ Len(calls') = Len(calls) + 1
      /\ \A c \in DOMAIN calls : calls'[c] = calls[c]
      /\ calls'[Len(calls) + 1] = row
  BY <1>1, <1>2 DEF IInv, CallsOK
<1> QED
  BY <1>1, <1>3 DEF Grown

LEMMA RowsKept ==
  ASSUME IInv, RowsKnown, Grown, DOMAIN calls' = DOMAIN calls, Len(calls') = Len(calls),
         \A c \in DOMAIN calls : calls'[c].wrote = calls[c].wrote,
         raising' \in {"no", "body", "caller"},
         stack' # << >> => stack # << >> /\ stack'[1].call = stack[1].call,
         session'.state # "ok" =>
           stack' # << >> /\ (session.state # "ok" \/ calls'[stack[1].call].struck),
         stack' # << >> =>
           \/ session.added \cup session.flushed \subseteq session'.added \cup session'.flushed
           \/ calls'[stack[1].call].struck,
         session'.added \cup session'.flushed \cup db' \subseteq
           session.added \cup session.flushed \cup db
  PROVE  RowsKnown'
<1>1. session'.state # "ok" => stack' # << >> /\ calls'[stack'[1].call].struck
  BY Running DEF RowsKnown, Grown
<1>2. ASSUME NEW c \in DOMAIN calls', stack' # << >>, calls'[c].outer = stack'[1].call,
             calls'[c].wrote
      PROVE  c \in session'.added \cup session'.flushed \/ calls'[calls'[c].outer].struck
  <2>1. /\ c \in DOMAIN calls /\ calls[c].outer = stack[1].call /\ calls[c].wrote
        /\ calls[c].outer \in DOMAIN calls
    BY <1>2 DEF Grown, IInv, CallsOK
  <2>2. c \in session.added \cup session.flushed \/ calls[stack[1].call].struck
    BY <1>2, <2>1 DEF RowsKnown
  <2> QED
    BY <1>2, <2>1, <2>2 DEF Grown
<1>3. \A c \in session'.added \cup session'.flushed \cup db' : c \in DOMAIN calls' /\ calls'[c].wrote
  BY DEF RowsKnown
<1> QED
  BY <1>1, <1>2, <1>3 DEF RowsKnown

LEMMA SameLength ==
  ASSUME IInv, IInv', DOMAIN calls' = DOMAIN calls PROVE Len(calls') = Len(calls)
<1>1. calls \in Seq(Call) /\ calls' \in Seq(Call)
  BY DEF IInv, CallsOK
<1>2. DOMAIN calls = 1..Len(calls) /\ DOMAIN calls' = 1..Len(calls')
      /\ Len(calls) \in Nat /\ Len(calls') \in Nat
  BY <1>1
<1>3. \A m, n \in Nat : 1..m = 1..n => m <= n
  <2> SUFFICES ASSUME NEW m \in Nat, NEW n \in Nat, 1..m = 1..n, ~ (m <= n) PROVE FALSE
    OBVIOUS
  <2>1. m \in 1..m /\ m \notin 1..n
    OBVIOUS
  <2> QED
    BY <2>1
<1>4. Len(calls) <= Len(calls') /\ Len(calls') <= Len(calls)
  BY <1>2, <1>3
<1> QED
  BY <1>2, <1>4

\* A step that touches no row.
LEMMA NoRowMoves ==
  ASSUME IInv, RowsKnown, UNCHANGED <<calls, session, db>>, stack' = stack,
         raising' \in {"no", "body", "caller"}
  PROVE  RowsKnown'
BY DEF RowsKnown

LEMMA FirstStays ==
  ASSUME IInv, stack # << >>, stack' = Front(stack)
  PROVE  stack' # << >> => stack'[1].call = stack[1].call
<1>1. DOMAIN Front(stack) = 1..Len(stack) - 1
      /\ (\A i \in 1..Len(stack) - 1 : Front(stack)[i] = stack[i])
      /\ (Len(stack) = 1 => Front(stack) = << >>)
      /\ Len(stack) \in Nat \ {0}
  BY FrontOfStack, Running
<1>2. Len(stack) # 1 => 1 \in 1..Len(stack) - 1
  BY Running
<1> QED
  BY <1>1, <1>2

\* A nested call that returns leaves the calls around it, and hands on its hooks.
LEMMA ReturnsTo ==
  ASSUME IInv, Return
  PROVE  LET k == Len(stack) - 1
         IN /\ k \in DOMAIN stack /\ 1 \in 1..k /\ DOMAIN stack' = 1..k /\ stack' # << >>
            /\ stack'[1].call = stack[1].call
            /\ \A i \in 1..k : stack'[i].call = stack[i].call
            /\ \A i \in 1..k \ {k} : stack'[i].hooks = stack[i].hooks
            /\ stack'[k].hooks = stack[k].hooks \o stack[k + 1].hooks
<1> DEFINE k == Len(stack) - 1
           frame == [stack[k] EXCEPT !.hooks = stack[k].hooks \o stack[k + 1].hooks]
<1>1. stack # << >> /\ Len(stack) > 1
  BY DEF Return, InBody
<1>2. k \in DOMAIN stack /\ 1 \in 1..k /\ k \in 1..k /\ k + 1 = Len(stack) /\ stack[k] \in Frame
  BY <1>1, Running DEF IInv, StackOK
<1>3. /\ DOMAIN Front(stack) = 1..k /\ \A i \in 1..k : Front(stack)[i] = stack[i]
  BY <1>1, FrontOfStack
<1>4. stack' = [Front(stack) EXCEPT ![k] = frame]
  BY <1>2, <1>3 DEF Return, Last
<1>5. frame.call = stack[k].call /\ frame.hooks = stack[k].hooks \o stack[k + 1].hooks
  BY <1>2 DEF Frame
<1> HIDE DEF k, frame
<1>6. /\ DOMAIN stack' = 1..k /\ stack'[k] = frame
      /\ \A i \in 1..k \ {k} : stack'[i] = stack[i]
  BY <1>2, <1>3, <1>4
<1>7. stack' # << >>
  BY <1>2, <1>6
<1>8. \A i \in 1..k : stack'[i].call = stack[i].call
  BY <1>5, <1>6
<1> QED
  BY <1>2, <1>5, <1>6, <1>7, <1>8 DEF k

LEMMA EnterKnows == ASSUME IInv, RowsKnown, Enter PROVE RowsKnown'
<1> DEFINE new == Len(calls) + 1
           frame == [call |-> new, hooks |-> << >>]
<1>1. /\ Grown /\ DOMAIN calls' = DOMAIN calls \cup {new} /\ new \notin DOMAIN calls
      /\ Len(calls') = new /\ ~ calls'[new].wrote
      /\ \A c \in DOMAIN calls : calls'[c] = calls[c]
  BY CallEntered
<1>2. /\ session' = session /\ db' = db /\ raising' = raising /\ Len(calls) < MaxCalls
      /\ stack' = Append(stack, frame)
  BY DEF Enter
<1>3. Len(calls) \in Nat /\ MaxCalls \in Nat
  BY NestedTxAssumption DEF IInv, CallsOK
<1>4. /\ stack' # << >>
      /\ stack = << >> => stack'[1].call = new
      /\ stack # << >> => stack'[1] = stack[1]
  BY <1>2 DEF IInv, StackOK
<1>5. Len(calls') <= MaxCalls
  BY <1>1, <1>2, <1>3
<1> HIDE DEF new
<1>6. session'.state # "ok" => stack' # << >> /\ calls'[stack'[1].call].struck
  BY <1>1, <1>2, <1>4, Running DEF RowsKnown
<1>7. ASSUME NEW c \in DOMAIN calls', calls'[c].outer = stack'[1].call, calls'[c].wrote
      PROVE  c \in session'.added \cup session'.flushed \/ calls'[calls'[c].outer].struck
  <2>1. c \in DOMAIN calls /\ calls[c].outer \in DOMAIN calls /\ calls'[c] = calls[c]
    BY <1>1, <1>7 DEF IInv, CallsOK
  <2>2. stack # << >> /\ calls[c].outer = stack[1].call
    BY <1>1, <1>4, <1>7, <2>1
  <2> QED
    BY <1>1, <1>2, <1>7, <2>1, <2>2 DEF RowsKnown
<1>8. \A c \in session'.added \cup session'.flushed \cup db' : c \in DOMAIN calls' /\ calls'[c].wrote
  BY <1>1, <1>2 DEF RowsKnown
<1> QED
  BY <1>2, <1>5, <1>6, <1>7, <1>8 DEF RowsKnown

LEMMA AddKnows == ASSUME IInv, IInv', RowsKnown, Add PROVE RowsKnown'
<1>1. /\ stack # << >> /\ calls' = [calls EXCEPT ![Current].wrote = TRUE]
      /\ session' = [session EXCEPT !.added = session.added \cup {Current}]
      /\ stack' = stack /\ db' = db /\ raising' = raising
  BY DEF Add, InBody
<1>2. /\ Grown /\ DOMAIN calls' = DOMAIN calls /\ calls'[Current].wrote
      /\ calls'[Current].struck = calls[Current].struck
      /\ \A c \in DOMAIN calls \ {Current} : calls'[c] = calls[c]
  BY <1>1, CallMarked
<1>3. /\ session'.added = session.added \cup {Current} /\ session'.flushed = session.flushed
      /\ session'.state = session.state
  BY <1>1 DEF IInv, SessionOK, Session
<1>4. ASSUME NEW c \in DOMAIN calls', calls'[c].outer = stack'[1].call, calls'[c].wrote
      PROVE  c \in session'.added \cup session'.flushed \/ calls'[calls'[c].outer].struck
  <2>1. CASE c = Current
    BY <1>3, <2>1
  <2>2. CASE c # Current
    <3>1. c \in DOMAIN calls /\ calls'[c] = calls[c] /\ calls[c].outer \in DOMAIN calls
      BY <1>2, <1>4, <2>2 DEF IInv, CallsOK
    <3>2. c \in session.added \cup session.flushed \/ calls[calls[c].outer].struck
      BY <1>1, <1>4, <3>1 DEF RowsKnown
    <3> QED
      BY <1>2, <1>3, <3>1, <3>2 DEF Grown
  <2> QED
    BY <2>1, <2>2
<1>5. session'.state # "ok" => stack' # << >> /\ calls'[stack'[1].call].struck
  BY <1>1, <1>2, <1>3, Running DEF RowsKnown, Grown
<1>6. \A c \in session'.added \cup session'.flushed \cup db' : c \in DOMAIN calls' /\ calls'[c].wrote
  BY <1>1, <1>2, <1>3, Running DEF RowsKnown
<1> QED
  BY <1>1, <1>2, <1>4, <1>5, <1>6, SameLength DEF RowsKnown

LEMMA StepKnowsRows == ASSUME IInv, IInv', RowsKnown, [Next]_vars PROVE RowsKnown'
<1>1. session \in Session
  BY DEF IInv, SessionOK
<1>2. CASE UNCHANGED vars
  BY <1>2, NoRowMoves DEF vars, RowsKnown
<1>3. CASE RegisterOutside \/ Refused \/ Raise \/ Catch \/ RunHook
  BY <1>3, NoRowMoves DEF RegisterOutside, Refused, Raise, Catch, RunHook, RowsKnown, hookVars
<1>4. CASE Register
  <2>1. /\ stack # << >> /\ calls' = [calls EXCEPT ![Current].asked = TRUE]
        /\ session' = session /\ db' = db /\ raising' = raising
    BY <1>4 DEF Register, InBody
  <2>2. /\ Grown /\ DOMAIN calls' = DOMAIN calls
        /\ \A c \in DOMAIN calls : calls'[c].wrote = calls[c].wrote
    BY <2>1, CallMarked
  <2>3. stack' # << >> /\ stack'[1].call = stack[1].call
    <3> DEFINE n == Len(stack)
    <3>1. n \in DOMAIN stack /\ stack[n] \in Frame /\ 1 \in DOMAIN stack /\ DOMAIN << >> = {}
      BY <2>1, Running DEF IInv, StackOK
    <3>2. stack' = [stack EXCEPT ![n] = [stack[n] EXCEPT !.hooks = Append(stack[n].hooks, Current)]]
      BY <1>4 DEF Register
    <3> HIDE DEF n
    <3> QED
      BY <3>1, <3>2 DEF Frame
  <2> QED
    BY <2>1, <2>2, <2>3, SameLength, RowsKept DEF RowsKnown
<1>5. CASE Flush
  <2>1. /\ calls' = calls /\ stack' = stack /\ db' = db /\ raising' = raising /\ stack # << >>
        /\ session' = [session EXCEPT !.flushed = session.flushed \cup session.added, !.added = {}]
    BY <1>5 DEF Flush, InBody
  <2>2. /\ session'.added = {} /\ session'.flushed = session.flushed \cup session.added
        /\ session'.state = session.state
    BY <1>1, <2>1 DEF Session
  <2>3. Grown
    BY <2>1 DEF Grown
  <2> QED
    BY <2>1, <2>2, <2>3, RowsKept DEF RowsKnown
<1>6. CASE FlushFails \/ QueryFails
  <2>1. /\ stack # << >> /\ calls' = Struck(Current) /\ stack' = stack /\ db' = db
        /\ raising' = "body"
    BY <1>6 DEF FlushFails, QueryFails, InBody
  <2>2. /\ Grown /\ DOMAIN calls' = DOMAIN calls /\ calls'[stack[1].call].struck
        /\ \A c \in DOMAIN calls : calls'[c].wrote = calls[c].wrote
    BY <2>1, CallStruck
  <2>3. session'.added \cup session'.flushed \subseteq session.added \cup session.flushed
    <3>1. CASE FlushFails
      BY <3>1 DEF FlushFails, Clean
    <3>2. CASE QueryFails
      BY <1>1, <3>2 DEF QueryFails, Session
    <3> QED
      BY <1>6, <3>1, <3>2
  <2> QED
    BY <2>1, <2>2, <2>3, SameLength, RowsKept
<1>7. CASE Fail
  <2>1. /\ stack # << >> /\ calls' = [calls EXCEPT ![Current].status = "failed"]
        /\ stack' = Front(stack) /\ db' = db /\ raising' = "caller"
        /\ session' = IF Len(stack) = 1 THEN Clean ELSE session
    BY <1>7 DEF Fail
  <2>2. /\ Grown /\ DOMAIN calls' = DOMAIN calls
        /\ \A c \in DOMAIN calls : calls'[c].wrote = calls[c].wrote
    BY <2>1, CallEnded
  <2>3. stack' # << >> => stack'[1].call = stack[1].call /\ Len(stack) # 1
    BY <2>1, FirstStays, FrontOfStack
  <2>4. Clean.state = "ok" /\ Clean.added = {} /\ Clean.flushed = {}
    BY DEF Clean
  <2>5. Len(stack) # 1 => stack' # << >>
    <3>1. Len(stack) # 1 => 1 \in 1..Len(stack) - 1
      BY <2>1, Running
    <3> QED
      BY <2>1, <3>1, FrontOfStack
  <2> QED
    BY <2>1, <2>2, <2>3, <2>4, <2>5, SameLength, RowsKept
<1>8. CASE Return
  <2>1. /\ stack # << >> /\ Len(stack) > 1 /\ calls' = [calls EXCEPT ![Current].status = "done"]
        /\ session' = [session EXCEPT !.flushed = session.flushed \cup session.added, !.added = {}]
        /\ db' = db /\ raising' = raising
    BY <1>8 DEF Return, InBody
  <2>2. /\ Grown /\ DOMAIN calls' = DOMAIN calls
        /\ \A c \in DOMAIN calls : calls'[c].wrote = calls[c].wrote
    BY <2>1, CallEnded
  <2>3. /\ session'.added = {} /\ session'.flushed = session.flushed \cup session.added
        /\ session'.state = session.state
    BY <1>1, <2>1 DEF Session
  <2>4. stack' # << >> /\ stack'[1].call = stack[1].call
    BY <1>8, ReturnsTo
  <2> QED
    BY <2>1, <2>2, <2>3, <2>4, SameLength, RowsKept DEF RowsKnown
<1>9. CASE Commit
  <2>1. /\ stack # << >> /\ calls' = [calls EXCEPT ![Current].status = "done"]
        /\ session' = Clean /\ stack' = << >> /\ raising' = raising
        /\ db' \subseteq session.added \cup session.flushed \cup db
    BY <1>9 DEF Commit, InBody
  <2>2. /\ Grown /\ DOMAIN calls' = DOMAIN calls
        /\ \A c \in DOMAIN calls : calls'[c].wrote = calls[c].wrote
    BY <2>1, CallEnded
  <2> QED
    BY <2>1, <2>2, SameLength, RowsKept DEF RowsKnown, Clean
<1>10. CASE Crash
  <2>1. stack' = << >> /\ session' = Clean /\ db' = db /\ raising' = "no"
    BY <1>10 DEF Crash
  <2> QED
    BY <1>10, <2>1, CallsCrashed, SameLength, RowsKept DEF Clean
<1> QED
  BY <1>2, <1>3, <1>4, <1>5, <1>6, <1>7, <1>8, <1>9, <1>10, EnterKnows, AddKnows DEF Next, Continue

-----------------------------------------------------------------------------
(* The hooks.  Each is in one place: with a running call, in the queue, or *)
(* run.  With a running call it is that call's own or one that returned;   *)
(* past the commit it is of a call that is done and whose row is there.    *)

Settled(c) ==
  /\ calls[c].status = "done"
  /\ calls[c].wrote => c \in db \/ calls[calls[c].outer].struck

HooksApart ==
  /\ queue \in Seq(Nat) /\ IsInjective(queue)
  /\ fired \in Seq(Nat) /\ IsInjective(fired)
  /\ ToSet(queue) \cap ToSet(fired) = {}
  /\ \A i \in DOMAIN stack :
       /\ IsInjective(stack[i].hooks)
       /\ ToSet(stack[i].hooks) \cap (ToSet(queue) \cup ToSet(fired)) = {}
       /\ \A j \in DOMAIN stack \ {i} : ToSet(stack[i].hooks) \cap ToSet(stack[j].hooks) = {}

HooksKnown ==
  /\ \A i \in DOMAIN stack : \A c \in ToSet(stack[i].hooks) :
       /\ c \in DOMAIN calls /\ calls[c].asked /\ calls[c].outer = stack[1].call
       /\ c = stack[i].call \/ calls[c].status = "done"
  /\ \A c \in ToSet(queue) \cup ToSet(fired) : c \in DOMAIN calls /\ calls[c].asked /\ Settled(c)
  /\ lost \subseteq {c \in DOMAIN calls : calls[c].asked}

\* Sequences without repetition.
LEMMA OneMore ==
  ASSUME NEW s \in Seq(Nat), NEW x \in Nat, IsInjective(s), x \notin ToSet(s)
  PROVE  /\ Append(s, x) \in Seq(Nat) /\ IsInjective(Append(s, x))
         /\ ToSet(Append(s, x)) = ToSet(s) \cup {x}
<1> DEFINE t == Append(s, x)
           n == Len(s)
<1>1. /\ t \in Seq(Nat) /\ DOMAIN t = 1..(n + 1) /\ t[n + 1] = x /\ n \in Nat
      /\ DOMAIN s = 1..n /\ \A i \in 1..n : t[i] = s[i]
  OBVIOUS
<1> HIDE DEF t, n
<1>2. \A i \in 1..n : t[i] # x
  BY <1>1 DEF ToSet
<1>3. \A i \in DOMAIN t : i \in 1..n \/ i = n + 1
  BY <1>1
<1>4. IsInjective(t)
  BY <1>1, <1>2, <1>3 DEF IsInjective
<1>5. ToSet(t) = ToSet(s) \cup {x}
  BY <1>1, <1>3 DEF ToSet
<1> QED
  BY <1>1, <1>4, <1>5 DEF t

LEMMA OneAfterTheOther ==
  ASSUME NEW s \in Seq(Nat), NEW t \in Seq(Nat), IsInjective(s), IsInjective(t),
         ToSet(s) \cap ToSet(t) = {}
  PROVE  /\ s \o t \in Seq(Nat) /\ IsInjective(s \o t)
         /\ ToSet(s \o t) = ToSet(s) \cup ToSet(t)
<1> DEFINE u == s \o t
           m == Len(s)
           n == Len(t)
<1>1. /\ u \in Seq(Nat) /\ m \in Nat /\ n \in Nat
      /\ DOMAIN u = 1..(m + n) /\ DOMAIN s = 1..m /\ DOMAIN t = 1..n
      /\ \A i \in 1..m : u[i] = s[i]
      /\ \A i \in 1..n : u[m + i] = t[i]
  OBVIOUS
<1> HIDE DEF u, m, n
<1>2. \A i \in DOMAIN u : i \in 1..m \/ \E k \in 1..n : i = m + k
  <2> TAKE i \in DOMAIN u
  <2>1. i \notin 1..m => i - m \in 1..n /\ i = m + (i - m)
    BY <1>1
  <2> QED
    BY <2>1
<1>3. \A i \in 1..m, k \in 1..n : u[i] # u[m + k]
  BY <1>1 DEF ToSet
<1>4. IsInjective(u)
  <2> SUFFICES ASSUME NEW a \in DOMAIN u, NEW b \in DOMAIN u, u[a] = u[b] PROVE a = b
    BY DEF IsInjective
  <2>1. CASE a \in 1..m /\ b \in 1..m
    BY <1>1, <2>1 DEF IsInjective
  <2>2. CASE a \in 1..m /\ b \notin 1..m
    BY <1>2, <1>3, <2>2
  <2>3. CASE a \notin 1..m /\ b \in 1..m
    BY <1>2, <1>3, <2>3
  <2>4. CASE a \notin 1..m /\ b \notin 1..m
    <3>1. PICK k \in 1..n, l \in 1..n : a = m + k /\ b = m + l
      BY <1>2, <2>4
    <3>2. t[k] = t[l]
      BY <1>1, <3>1
    <3> QED
      BY <1>1, <3>1, <3>2 DEF IsInjective
  <2> QED
    BY <2>1, <2>2, <2>3, <2>4
<1>5. ToSet(u) = ToSet(s) \cup ToSet(t)
  <2>1. ToSet(u) \subseteq ToSet(s) \cup ToSet(t)
    <3> SUFFICES ASSUME NEW i \in DOMAIN u PROVE u[i] \in ToSet(s) \cup ToSet(t)
      BY DEF ToSet
    <3>1. CASE i \in 1..m
      BY <1>1, <3>1 DEF ToSet
    <3>2. CASE i \notin 1..m
      <4>1. PICK k \in 1..n : i = m + k
        BY <1>2, <3>2
      <4> QED
        BY <1>1, <4>1 DEF ToSet
    <3> QED
      BY <3>1, <3>2
  <2>2. \A i \in 1..m : i \in DOMAIN u
    BY <1>1
  <2>3. \A i \in 1..n : m + i \in DOMAIN u
    BY <1>1
  <2>4. ToSet(s) \subseteq ToSet(u) /\ ToSet(t) \subseteq ToSet(u)
    BY <1>1, <2>2, <2>3 DEF ToSet
  <2> QED
    BY <2>1, <2>4
<1> QED
  BY <1>1, <1>4, <1>5 DEF u

LEMMA FirstTaken ==
  ASSUME NEW s \in Seq(Nat), s # << >>, IsInjective(s)
  PROVE  /\ Head(s) \in ToSet(s) /\ Head(s) \in Nat
         /\ Tail(s) \in Seq(Nat) /\ IsInjective(Tail(s))
         /\ ToSet(Tail(s)) = ToSet(s) \ {Head(s)}
<1> DEFINE t == Tail(s)
           n == Len(s)
<1>1. /\ t \in Seq(Nat) /\ n \in Nat \ {0} /\ DOMAIN s = 1..n /\ DOMAIN t = 1..(n - 1)
      /\ \A i \in 1..(n - 1) : t[i] = s[i + 1]
      /\ Head(s) = s[1] /\ s[1] \in Nat
  OBVIOUS
<1> HIDE DEF t, n
<1>2. 1 \in DOMAIN s /\ \A i \in DOMAIN t : i + 1 \in DOMAIN s /\ i + 1 # 1
  BY <1>1
<1>3. \A i \in DOMAIN s \ {1} : i - 1 \in DOMAIN t /\ (i - 1) + 1 = i
  BY <1>1
<1>4. Head(s) \in ToSet(s) /\ Head(s) \in Nat
  BY <1>1, <1>2 DEF ToSet
<1>5. IsInjective(t)
  <2> SUFFICES ASSUME NEW a \in DOMAIN t, NEW b \in DOMAIN t, t[a] = t[b] PROVE a = b
    BY DEF IsInjective
  <2>1. a + 1 = b + 1
    BY <1>1, <1>2 DEF IsInjective
  <2> QED
    BY <1>1, <2>1
<1>6. ToSet(t) \subseteq ToSet(s) \ {Head(s)}
  <2> SUFFICES ASSUME NEW i \in DOMAIN t PROVE t[i] \in ToSet(s) /\ t[i] # Head(s)
    BY DEF ToSet
  <2>1. t[i] = s[i + 1] /\ i + 1 \in DOMAIN s /\ i + 1 # 1 /\ 1 \in DOMAIN s
    BY <1>1, <1>2
  <2> QED
    BY <1>1, <2>1 DEF ToSet, IsInjective
<1>7. ToSet(s) \ {Head(s)} \subseteq ToSet(t)
  <2> SUFFICES ASSUME NEW i \in DOMAIN s, s[i] # Head(s) PROVE s[i] \in ToSet(t)
    BY DEF ToSet
  <2>1. i - 1 \in DOMAIN t /\ t[i - 1] = s[i]
    BY <1>1, <1>3
  <2> QED
    BY <2>1 DEF ToSet
<1> QED
  BY <1>1, <1>4, <1>5, <1>6, <1>7 DEF t

LEMMA NoneLeft == ToSet(<< >>) = {} /\ IsInjective(<< >>) /\ << >> \in Seq(Nat)
BY DEF ToSet, IsInjective

HooksOK == HooksApart /\ HooksKnown

LEMMA HooksOfFrame ==
  ASSUME IInv, NEW i \in DOMAIN stack PROVE stack[i] \in Frame /\ stack[i].hooks \in Seq(Nat)
<1>1. stack[i] \in Frame
  BY DEF IInv, StackOK
<1> QED
  BY <1>1 DEF Frame

LEMMA StepGrows == ASSUME IInv, [Next]_vars PROVE Grown /\ db \subseteq db'
<1>1. db \subseteq db'
  BY DEF Next, Continue, vars, hookVars, Enter, Add, Register, RegisterOutside, Flush, FlushFails,
     QueryFails, Raise, Refused, Fail, Catch, Return, Commit, RunHook, Crash
<1>2. CASE calls' = calls
  BY <1>1, <1>2 DEF Grown
<1>3. CASE Add \/ Register
  BY <1>3, CallMarked DEF Add, Register, InBody
<1>4. CASE FlushFails \/ QueryFails
  BY <1>4, CallStruck DEF FlushFails, QueryFails, InBody
<1>5. CASE Fail \/ Return \/ Commit
  BY <1>5, CallEnded DEF Fail, Return, Commit, InBody
<1> QED
  BY <1>1, <1>2, <1>3, <1>4, <1>5, CallEntered, CallsCrashed
     DEF Next, Continue, vars, hookVars, RegisterOutside, Flush, Raise, Refused, Catch, RunHook

\* What is known of a hook stays true of it.
LEMMA KnownKept ==
  ASSUME IInv, HooksKnown, Grown, db \subseteq db'
  PROVE  /\ \A c \in ToSet(queue) \cup ToSet(fired) :
              c \in DOMAIN calls' /\ calls'[c].asked /\ Settled(c)'
         /\ lost \subseteq {c \in DOMAIN calls' : calls'[c].asked}
         /\ \A i \in DOMAIN stack : \A c \in ToSet(stack[i].hooks) :
              /\ c \in DOMAIN calls' /\ calls'[c].asked /\ calls'[c].outer = stack[1].call
              /\ c = stack[i].call \/ calls'[c].status = "done"
<1>1. ASSUME NEW c \in ToSet(queue) \cup ToSet(fired)
      PROVE  c \in DOMAIN calls' /\ calls'[c].asked /\ Settled(c)'
  <2>1. c \in DOMAIN calls /\ calls[c].asked /\ Settled(c) /\ calls[c].outer \in DOMAIN calls
    BY DEF HooksKnown, IInv, CallsOK
  <2> QED
    BY <2>1 DEF Grown, Settled
<1> QED
  BY <1>1 DEF Grown, HooksKnown

LEMMA HooksStay ==
  ASSUME IInv, HooksOK, Grown, db \subseteq db', UNCHANGED <<stack, queue, fired, lost>>
  PROVE  HooksOK'
<1>1. HooksApart'
  BY DEF HooksOK, HooksApart
<1>2. HooksKnown'
  BY KnownKept DEF HooksOK, HooksKnown
<1> QED
  BY <1>1, <1>2 DEF HooksOK

LEMMA EnterHooks == ASSUME IInv, IInv', HooksOK, Enter, Grown, db \subseteq db' PROVE HooksOK'
<1> DEFINE n == Len(stack) + 1
           frame == [call |-> Len(calls) + 1, hooks |-> << >>]
<1>1. stack' = Append(stack, frame) /\ UNCHANGED <<queue, fired, lost>>
  BY DEF Enter, hookVars
<1>2. frame.hooks = << >>
  OBVIOUS
<1> HIDE DEF frame
<1>3. /\ DOMAIN stack' = DOMAIN stack \cup {n} /\ n \notin DOMAIN stack /\ stack'[n] = frame
      /\ \A i \in DOMAIN stack : stack'[i] = stack[i]
      /\ stack # << >> => stack'[1] = stack[1]
  BY <1>1 DEF IInv, StackOK
<1> HIDE DEF n
<1>4. ToSet(stack'[n].hooks) = {} /\ IsInjective(stack'[n].hooks)
  BY <1>2, <1>3, NoneLeft
<1>5. HooksApart'
  <2>1. ASSUME NEW i \in DOMAIN stack'
        PROVE  /\ IsInjective(stack'[i].hooks)
               /\ ToSet(stack'[i].hooks) \cap (ToSet(queue) \cup ToSet(fired)) = {}
               /\ \A j \in DOMAIN stack' \ {i} :
                    ToSet(stack'[i].hooks) \cap ToSet(stack'[j].hooks) = {}
    BY <1>3, <1>4 DEF HooksOK, HooksApart
  <2> QED
    BY <1>1, <2>1 DEF HooksOK, HooksApart
<1>6. HooksKnown'
  <2>1. ASSUME NEW i \in DOMAIN stack', NEW c \in ToSet(stack'[i].hooks)
        PROVE  /\ c \in DOMAIN calls' /\ calls'[c].asked /\ calls'[c].outer = stack'[1].call
               /\ c = stack'[i].call \/ calls'[c].status = "done"
    <3>1. i \in DOMAIN stack /\ stack # << >> /\ stack'[i] = stack[i]
      BY <1>3, <1>4
    <3> QED
      BY <1>3, <3>1, KnownKept DEF HooksOK
  <2> QED
    BY <1>1, <2>1, KnownKept DEF HooksOK, HooksKnown
<1> QED
  BY <1>5, <1>6 DEF HooksOK

LEMMA RegisterHooks == ASSUME IInv, HooksOK, Register, Grown, db \subseteq db' PROVE HooksOK'
<1> DEFINE n == Len(stack)
           frame == [stack[n] EXCEPT !.hooks = Append(stack[n].hooks, Current)]
<1>1. /\ stack # << >> /\ ~ calls[Current].asked
      /\ calls' = [calls EXCEPT ![Current].asked = TRUE]
      /\ stack' = [stack EXCEPT ![n] = frame] /\ UNCHANGED <<queue, fired, lost>>
  BY DEF Register, InBody, hookVars
<1>2. /\ n \in DOMAIN stack /\ 1 \in DOMAIN stack /\ stack[n] \in Frame
      /\ stack[n].hooks \in Seq(Nat) /\ Current = stack[n].call
      /\ Current \in Nat /\ Current \in DOMAIN calls /\ calls[Current].outer = stack[1].call
  BY <1>1, Running, HooksOfFrame
<1>3. frame.hooks = Append(stack[n].hooks, Current) /\ frame.call = stack[n].call
  BY <1>2 DEF Frame
<1> HIDE DEF frame, n
<1>4. /\ DOMAIN stack' = DOMAIN stack /\ stack'[n] = frame
      /\ \A i \in DOMAIN stack \ {n} : stack'[i] = stack[i]
      /\ \A i \in DOMAIN stack : stack'[i].call = stack[i].call
  BY <1>1, <1>2, <1>3 DEF IInv, StackOK
<1>5. /\ Current \notin ToSet(queue) \cup ToSet(fired)
      /\ \A i \in DOMAIN stack : Current \notin ToSet(stack[i].hooks)
  BY <1>1 DEF HooksOK, HooksKnown
<1>6. IsInjective(stack[n].hooks)
  BY <1>2 DEF HooksOK, HooksApart
<1>7. /\ IsInjective(stack'[n].hooks)
      /\ ToSet(stack'[n].hooks) = ToSet(stack[n].hooks) \cup {Current}
  BY <1>2, <1>3, <1>4, <1>5, <1>6, OneMore
<1>8. HooksApart'
  <2>1. ASSUME NEW i \in DOMAIN stack'
        PROVE  /\ IsInjective(stack'[i].hooks)
               /\ ToSet(stack'[i].hooks) \cap (ToSet(queue) \cup ToSet(fired)) = {}
               /\ \A j \in DOMAIN stack' \ {i} :
                    ToSet(stack'[i].hooks) \cap ToSet(stack'[j].hooks) = {}
    <3>1. /\ i \in DOMAIN stack /\ IsInjective(stack[i].hooks)
          /\ ToSet(stack[i].hooks) \cap (ToSet(queue) \cup ToSet(fired)) = {}
      BY <1>4 DEF HooksOK, HooksApart
    <3>2. /\ IsInjective(stack'[i].hooks)
          /\ ToSet(stack'[i].hooks) \cap (ToSet(queue) \cup ToSet(fired)) = {}
      BY <1>4, <1>5, <1>7, <3>1
    <3>3. ASSUME NEW j \in DOMAIN stack' \ {i}
          PROVE  ToSet(stack'[i].hooks) \cap ToSet(stack'[j].hooks) = {}
      <4>1. ToSet(stack[i].hooks) \cap ToSet(stack[j].hooks) = {} /\ j \in DOMAIN stack
        BY <1>4, <3>1 DEF HooksOK, HooksApart
      <4> QED
        BY <1>4, <1>5, <1>7, <3>1, <4>1
    <3> QED
      BY <3>2, <3>3
  <2> QED
    BY <1>1, <2>1 DEF HooksOK, HooksApart
<1>9. calls'[Current].asked /\ Current \in DOMAIN calls' /\ calls'[Current].outer = stack[1].call
  BY <1>1, <1>2, CallMarked DEF Grown
<1>10. HooksKnown'
  <2>1. ASSUME NEW i \in DOMAIN stack', NEW c \in ToSet(stack'[i].hooks)
        PROVE  /\ c \in DOMAIN calls' /\ calls'[c].asked /\ calls'[c].outer = stack'[1].call
               /\ c = stack'[i].call \/ calls'[c].status = "done"
    <3>1. stack'[1].call = stack[1].call /\ stack'[i].call = stack[i].call /\ i \in DOMAIN stack
      BY <1>2, <1>4
    <3>2. CASE c \in ToSet(stack[i].hooks)
      BY <3>1, <3>2, KnownKept DEF HooksOK
    <3>3. CASE c \notin ToSet(stack[i].hooks)
      <4>1. i = n /\ c = Current
        BY <1>4, <1>7, <3>3
      <4> QED
        BY <1>2, <1>9, <3>1, <4>1
    <3> QED
      BY <3>2, <3>3
  <2> QED
    BY <1>1, <2>1, KnownKept DEF HooksOK, HooksKnown
<1> QED
  BY <1>8, <1>10 DEF HooksOK

\* A call that fails drops its hooks.
LEMMA FailHooks == ASSUME IInv, HooksOK, Fail, Grown, db \subseteq db' PROVE HooksOK'
<1>1. /\ stack # << >> /\ stack' = Front(stack) /\ UNCHANGED <<queue, fired, lost>>
  BY DEF Fail, hookVars
<1>2. /\ \A i \in DOMAIN stack' : i \in DOMAIN stack /\ stack'[i] = stack[i]
      /\ stack' # << >> => stack'[1].call = stack[1].call
  BY <1>1, FrontOfStack, FirstStays, Running
<1>3. HooksApart'
  BY <1>1, <1>2 DEF HooksOK, HooksApart
<1>4. HooksKnown'
  <2>1. ASSUME NEW i \in DOMAIN stack', NEW c \in ToSet(stack'[i].hooks)
        PROVE  /\ c \in DOMAIN calls' /\ calls'[c].asked /\ calls'[c].outer = stack'[1].call
               /\ c = stack'[i].call \/ calls'[c].status = "done"
    <3>1. stack' # << >>
      BY <1>1
    <3> QED
      BY <1>2, <3>1, KnownKept DEF HooksOK
  <2> QED
    BY <1>1, <2>1, KnownKept DEF HooksOK, HooksKnown
<1> QED
  BY <1>3, <1>4 DEF HooksOK

\* A call that returns hands its hooks on.
LEMMA ReturnHooks == ASSUME IInv, HooksOK, Return, Grown, db \subseteq db' PROVE HooksOK'
<1> DEFINE k == Len(stack) - 1
<1>1. /\ stack # << >> /\ calls' = [calls EXCEPT ![Current].status = "done"]
      /\ UNCHANGED <<queue, fired, lost>>
  BY DEF Return, InBody, hookVars
<1>2. /\ k \in DOMAIN stack /\ 1 \in 1..k /\ DOMAIN stack' = 1..k
      /\ stack'[1].call = stack[1].call
      /\ \A i \in 1..k : stack'[i].call = stack[i].call
      /\ \A i \in 1..k \ {k} : stack'[i].hooks = stack[i].hooks
      /\ stack'[k].hooks = stack[k].hooks \o stack[k + 1].hooks
  BY ReturnsTo
<1>3. /\ k + 1 = Len(stack) /\ k \in 1..k /\ k + 1 # k
      /\ \A i \in 1..k : i \in DOMAIN stack /\ i # k + 1
      /\ k + 1 \in DOMAIN stack /\ Current = stack[k + 1].call
  <2>1. /\ Len(stack) \in Nat \ {0} /\ DOMAIN stack = 1..Len(stack)
        /\ Current = stack[Len(stack)].call /\ 1 \in 1..k
    BY <1>1, <1>2, Running
  <2>2. k + 1 = Len(stack) /\ k \in Nat
    BY <2>1
  <2> HIDE DEF k
  <2>3. /\ k \in 1..k /\ k + 1 # k /\ k + 1 \in 1..(k + 1)
        /\ \A i \in 1..k : i \in 1..(k + 1) /\ i # k + 1
    BY <2>1, <2>2
  <2> QED
    BY <2>1, <2>2, <2>3
<1> HIDE DEF k
<1>4. /\ stack[k].hooks \in Seq(Nat) /\ stack[k + 1].hooks \in Seq(Nat)
      /\ IsInjective(stack[k].hooks) /\ IsInjective(stack[k + 1].hooks)
      /\ ToSet(stack[k].hooks) \cap ToSet(stack[k + 1].hooks) = {}
  BY <1>2, <1>3, HooksOfFrame DEF HooksOK, HooksApart
<1>5. /\ IsInjective(stack'[k].hooks)
      /\ ToSet(stack'[k].hooks) = ToSet(stack[k].hooks) \cup ToSet(stack[k + 1].hooks)
  BY <1>2, <1>4, OneAfterTheOther
<1>6. HooksApart'
  <2>1. ASSUME NEW i \in DOMAIN stack'
        PROVE  /\ IsInjective(stack'[i].hooks)
               /\ ToSet(stack'[i].hooks) \cap (ToSet(queue) \cup ToSet(fired)) = {}
               /\ \A j \in DOMAIN stack' \ {i} :
                    ToSet(stack'[i].hooks) \cap ToSet(stack'[j].hooks) = {}
    <3>1. /\ i \in DOMAIN stack /\ IsInjective(stack[i].hooks)
          /\ ToSet(stack[i].hooks) \cap (ToSet(queue) \cup ToSet(fired)) = {}
          /\ ToSet(stack[k + 1].hooks) \cap (ToSet(queue) \cup ToSet(fired)) = {}
      BY <1>2, <1>3 DEF HooksOK, HooksApart
    <3>2. /\ IsInjective(stack'[i].hooks)
          /\ ToSet(stack'[i].hooks) \cap (ToSet(queue) \cup ToSet(fired)) = {}
      BY <1>2, <1>5, <3>1
    <3>3. ASSUME NEW j \in DOMAIN stack' \ {i}
          PROVE  ToSet(stack'[i].hooks) \cap ToSet(stack'[j].hooks) = {}
      <4>1. j \in DOMAIN stack /\ j # k + 1 /\ i # k + 1
        BY <1>2, <1>3
      <4>2. /\ ToSet(stack[i].hooks) \cap ToSet(stack[j].hooks) = {}
            /\ ToSet(stack[i].hooks) \cap ToSet(stack[k + 1].hooks) = {}
            /\ ToSet(stack[j].hooks) \cap ToSet(stack[k + 1].hooks) = {}
        BY <1>3, <3>1, <4>1 DEF HooksOK, HooksApart
      <4> QED
        BY <1>2, <1>5, <3>3, <4>2
    <3> QED
      BY <3>2, <3>3
  <2> QED
    BY <1>1, <2>1 DEF HooksOK, HooksApart
<1>7. calls'[Current].status = "done"
  BY <1>1, CallEnded
<1>8. HooksKnown'
  <2>1. ASSUME NEW i \in DOMAIN stack', NEW c \in ToSet(stack'[i].hooks)
        PROVE  /\ c \in DOMAIN calls' /\ calls'[c].asked /\ calls'[c].outer = stack'[1].call
               /\ c = stack'[i].call \/ calls'[c].status = "done"
    <3>1. stack'[i].call = stack[i].call /\ i \in DOMAIN stack
      BY <1>2, <1>3
    <3>2. CASE c \in ToSet(stack[i].hooks)
      BY <1>2, <3>1, <3>2, KnownKept DEF HooksOK
    <3>3. CASE c \notin ToSet(stack[i].hooks)
      <4>1. c \in ToSet(stack[k + 1].hooks)
        BY <1>2, <1>5, <3>3
      <4> QED
        BY <1>2, <1>3, <1>7, <4>1, KnownKept DEF HooksOK
    <3> QED
      BY <3>2, <3>3
  <2> QED
    BY <1>1, <2>1, KnownKept DEF HooksOK, HooksKnown
<1> QED
  BY <1>6, <1>8 DEF HooksOK

\* The outermost call commits: its hooks are of calls that are done, and their rows
\* are there, or a database error took them and the commit with them.
LEMMA CommitHooks ==
  ASSUME IInv, IInv', RowsKnown, HooksOK, Commit, Grown, db \subseteq db'
  PROVE  HooksOK'
<1>1. /\ stack # << >> /\ Len(stack) = 1 /\ calls' = [calls EXCEPT ![Current].status = "done"]
      /\ stack' = << >> /\ queue' = stack[1].hooks \o queue /\ UNCHANGED <<fired, lost>>
  BY DEF Commit, InBody
<1>2. /\ 1 \in DOMAIN stack /\ Current = stack[1].call /\ calls'[Current].status = "done"
      /\ \A c \in DOMAIN calls : calls'[c].wrote = calls[c].wrote
  BY <1>1, Running, CallEnded
<1>3. /\ stack[1].hooks \in Seq(Nat) /\ IsInjective(stack[1].hooks)
      /\ queue \in Seq(Nat) /\ IsInjective(queue)
      /\ ToSet(stack[1].hooks) \cap ToSet(queue) = {}
      /\ ToSet(stack[1].hooks) \cap ToSet(fired) = {}
      /\ ToSet(queue) \cap ToSet(fired) = {}
      /\ fired \in Seq(Nat) /\ IsInjective(fired)
  BY <1>2, HooksOfFrame DEF HooksOK, HooksApart
<1>4. /\ queue' \in Seq(Nat) /\ IsInjective(queue')
      /\ ToSet(queue') = ToSet(stack[1].hooks) \cup ToSet(queue)
  BY <1>1, <1>3, OneAfterTheOther
<1>5. DOMAIN stack' = {}
  BY <1>1
<1>6. HooksApart'
  BY <1>1, <1>3, <1>4, <1>5 DEF HooksApart
<1>7. ASSUME NEW c \in ToSet(stack[1].hooks)
      PROVE  c \in DOMAIN calls' /\ calls'[c].asked /\ Settled(c)'
  <2>1. /\ c \in DOMAIN calls' /\ calls'[c].asked /\ calls'[c].outer = stack[1].call
        /\ calls'[c].status = "done"
    BY <1>2, KnownKept DEF HooksOK
  <2>2. ASSUME calls'[c].wrote PROVE c \in db' \/ calls'[calls'[c].outer].struck
    <3>1. c \in DOMAIN calls /\ calls[c].outer = stack[1].call /\ calls[c].wrote
      BY <1>2, <2>2 DEF HooksOK, HooksKnown
    <3>2. c \in session.added \cup session.flushed \/ calls[stack[1].call].struck
      BY <1>1, <3>1 DEF RowsKnown
    <3>3. calls[stack[1].call].struck => calls'[stack[1].call].struck
      BY <1>1, Running DEF Grown
    <3>4. session.state = "ok" => session.added \cup session.flushed \subseteq db'
      BY DEF Commit
    <3>5. session.state # "ok" => calls[stack[1].call].struck
      BY DEF RowsKnown
    <3> QED
      BY <2>1, <3>2, <3>3, <3>4, <3>5
  <2> QED
    BY <2>1, <2>2 DEF Settled
<1>8. HooksKnown'
  BY <1>1, <1>4, <1>5, <1>7, KnownKept DEF HooksOK, HooksKnown
<1> QED
  BY <1>6, <1>8 DEF HooksOK

LEMMA RunHooks == ASSUME IInv, HooksOK, RunHook, Grown, db \subseteq db' PROVE HooksOK'
<1>1. /\ queue # << >> /\ stack' = stack /\ stack = << >> /\ lost' = lost
      /\ fired' = Append(fired, Head(queue)) /\ queue' = Tail(queue)
  BY DEF RunHook
<1>2. /\ queue \in Seq(Nat) /\ IsInjective(queue) /\ fired \in Seq(Nat) /\ IsInjective(fired)
      /\ ToSet(queue) \cap ToSet(fired) = {}
  BY DEF HooksOK, HooksApart
<1>3. /\ Head(queue) \in ToSet(queue) /\ Head(queue) \in Nat
      /\ queue' \in Seq(Nat) /\ IsInjective(queue')
      /\ ToSet(queue') = ToSet(queue) \ {Head(queue)}
  BY <1>1, <1>2, FirstTaken
<1>4. /\ fired' \in Seq(Nat) /\ IsInjective(fired')
      /\ ToSet(fired') = ToSet(fired) \cup {Head(queue)}
  BY <1>1, <1>2, <1>3, OneMore
<1>5. DOMAIN stack' = {}
  BY <1>1
<1>6. ToSet(queue') \cap ToSet(fired') = {}
  BY <1>2, <1>3, <1>4
<1>7. HooksApart'
  BY <1>3, <1>4, <1>5, <1>6 DEF HooksApart
<1>8. ToSet(queue') \cup ToSet(fired') = ToSet(queue) \cup ToSet(fired)
  BY <1>3, <1>4
<1>9. HooksKnown'
  BY <1>1, <1>5, <1>8, KnownKept DEF HooksOK, HooksKnown
<1> QED
  BY <1>7, <1>9 DEF HooksOK

LEMMA CrashHooks == ASSUME IInv, HooksOK, Crash, Grown, db \subseteq db' PROVE HooksOK'
<1>1. /\ stack' = << >> /\ queue' = << >> /\ fired' = fired /\ lost' = lost \cup ToSet(queue)
  BY DEF Crash
<1>2. DOMAIN stack' = {} /\ ToSet(queue') = {} /\ IsInjective(queue') /\ queue' \in Seq(Nat)
  BY <1>1, NoneLeft
<1>3. HooksApart'
  BY <1>1, <1>2 DEF HooksOK, HooksApart
<1>4. HooksKnown'
  BY <1>1, <1>2, KnownKept DEF HooksOK, HooksKnown
<1> QED
  BY <1>3, <1>4 DEF HooksOK

LEMMA StepKnowsHooks ==
  ASSUME IInv, IInv', RowsKnown, HooksOK, [Next]_vars PROVE HooksOK'
<1>1. Grown /\ db \subseteq db'
  BY StepGrows
<1>2. CASE UNCHANGED <<stack, queue, fired, lost>>
  BY <1>1, <1>2, HooksStay
<1> QED
  BY <1>1, <1>2, EnterHooks, RegisterHooks, FailHooks, ReturnHooks, CommitHooks, RunHooks, CrashHooks
     DEF Next, Continue, vars, hookVars, Add, RegisterOutside, Flush, FlushFails, QueryFails, Raise,
     Refused, Catch

-----------------------------------------------------------------------------
\* Where every row and every hook is, in every reachable state.
THEOREM RowsAndHooks == Spec => [](RowsKnown /\ HooksOK)
<1>1. Init => RowsKnown /\ HooksOK
  <2> SUFFICES ASSUME Init PROVE RowsKnown /\ HooksOK
    OBVIOUS
  <2>1. RowsKnown
    BY NestedTxAssumption DEF Init, RowsKnown, Clean
  <2>2. HooksApart
    BY NoneLeft DEF Init, HooksApart
  <2>3. HooksKnown
    BY NoneLeft DEF Init, HooksKnown
  <2> QED
    BY <2>1, <2>2, <2>3 DEF HooksOK
<1>2. IInv /\ IInv' /\ RowsKnown /\ HooksOK /\ [Next]_vars => (RowsKnown /\ HooksOK)'
  BY StepKnowsRows, StepKnowsHooks
<1> QED
  BY <1>1, <1>2, Invariance, PTL DEF Spec

\* The state of tx(), its session and its hooks is what db.py makes of them.
THEOREM TypeCorrect == Spec => []TypeOK
<1>1. IInv /\ RowsKnown /\ HooksOK => TypeOK
  <2> SUFFICES ASSUME IInv, RowsKnown, HooksOK PROVE TypeOK
    OBVIOUS
  <2>1. calls \in Seq([outer : Hooks, wrote : BOOLEAN, asked : BOOLEAN, struck : BOOLEAN,
                       status : {"running", "done", "failed"}])
    <3> DEFINE R == [outer : Hooks, wrote : BOOLEAN, asked : BOOLEAN, struck : BOOLEAN,
                     status : {"running", "done", "failed"}]
    <3>1. calls \in Seq(Call) /\ DOMAIN calls = 1..Len(calls) /\ Len(calls) \in Nat
          /\ Len(calls) <= MaxCalls /\ MaxCalls \in Nat
      BY NestedTxAssumption DEF IInv, CallsOK, RowsKnown
    <3>2. ASSUME NEW c \in DOMAIN calls PROVE calls[c] \in R
      <4>1. calls[c] \in Call /\ calls[c].outer \in Hooks
        BY <3>1 DEF IInv, CallsOK, Hooks
      <4> QED
        BY <4>1 DEF Call
    <3> HIDE DEF R
    <3>3. calls \in Seq(R)
      BY <3>1, <3>2
    <3> QED
      BY <3>3 DEF R
  <2>2. /\ raising \in {"no", "body", "caller"}
        /\ session.state \in {"ok", "aborted", "inactive"}
    BY DEF IInv, SessionOK, Session, RowsKnown
  <2>3. session.added \cup session.flushed \cup db \subseteq {c \in DOMAIN calls : calls[c].wrote}
    BY DEF RowsKnown
  <2>4. ToSet(queue) \cup ToSet(fired) \cup lost \subseteq {c \in DOMAIN calls : calls[c].asked}
    BY DEF HooksOK, HooksKnown
  <2>5. \A i \in DOMAIN stack : calls[stack[i].call].status = "running"
    BY DEF IInv, StackOK
  <2>6. stack = << >> => session = Clean
    <3> SUFFICES ASSUME stack = << >> PROVE session = Clean
      OBVIOUS
    <3>1. session \in Session /\ session.state = "ok" /\ session.added = {} /\ session.flushed = {}
      BY DEF IInv, SessionOK, RowsKnown
    <3> QED
      BY <3>1 DEF Session, Clean
  <2> QED
    BY <2>1, <2>2, <2>3, <2>4, <2>5, <2>6 DEF TypeOK
<1> QED
  BY <1>1, Invariance, RowsAndHooks, PTL

\* A hook runs once, for a call that returned, and its row is committed unless a
\* failed query was caught on the way (_drain_post_commit_hooks).
THEOREM HooksSpeakTrue == Spec => []HookHasItsRow
<1>1. HooksOK => HookHasItsRow
  BY DEF HooksOK, HooksApart, HooksKnown, Settled, HookHasItsRow
<1> QED
  BY <1>1, RowsAndHooks, PTL
=============================================================================
