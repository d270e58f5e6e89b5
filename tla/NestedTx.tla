------------------------------ MODULE NestedTx ------------------------------
(***************************************************************************)
(* tx() of app/core/db.py as one thread lives it: calls within calls, of   *)
(* which only the outermost commits, errors that a caller catches around a *)
(* nested call, and the hooks that wait for the commit.  Each call adds at *)
(* most one row and registers at most one hook; both bear its number.  No  *)
(* code inside a call ends the transaction of the session itself.          *)
(***************************************************************************)
EXTENDS Integers, FiniteSets, SequencesExt

CONSTANTS MaxCalls, MaxDepth    \* bounds of the model

ASSUME NestedTxAssumption == {MaxCalls, MaxDepth} \subseteq Nat \ {0}

VARIABLES
  calls,    \* every call of tx() so far, in order
  stack,    \* _TxContext of the calls that run, outermost first, with their hooks
  raising,  \* an exception is on its way: in the body of the last call, or to its caller
  session,  \* rows added and rows flushed; whether its transaction still works
  db,       \* calls whose row is committed
  queue,    \* hooks that _drain_post_commit_hooks has still to run
  hooking,  \* a hook runs
  fired,    \* hooks run so far
  lost,     \* hooks a dead process took with it
  stray     \* the first call after a hook was registered outside every call, 0 without one

vars == <<calls, stack, raising, session, db, queue, hooking, fired, lost, stray>>
hookVars == <<queue, hooking, fired, lost, stray>>

-----------------------------------------------------------------------------
Clean == [state |-> "ok", added |-> {}, flushed |-> {}]

Current == Last(stack).call
InBody == stack # << >> /\ raising = "no"

\* A database error: the transaction is over, whoever catches the exception.
Struck(c) == [calls EXCEPT ![calls[c].outer].struck = TRUE]

Init ==
  /\ calls = << >> /\ stack = << >> /\ raising = "no"
  /\ session = Clean /\ db = {}
  /\ queue = << >> /\ hooking = FALSE /\ fired = << >> /\ lost = {}
  /\ stray = 0

\* tx() is called: by a request, by the body of a call, or by a hook.
Enter ==
  /\ raising = "no"
  /\ Len(calls) < MaxCalls /\ Len(stack) < MaxDepth
  /\ stack = << >> => queue = << >> \/ hooking
  /\ LET new == Len(calls) + 1
     IN /\ calls' = Append(calls, [outer |-> IF stack = << >> THEN new ELSE stack[1].call,
                                   wrote |-> FALSE, asked |-> FALSE, status |-> "running",
                                   struck |-> FALSE])
        /\ stack' = Append(stack, [call |-> new, hooks |-> << >>])
  /\ UNCHANGED <<raising, session, db, hookVars>>

\* db.session.add in the body.
Add ==
  /\ InBody /\ ~ calls[Current].wrote
  /\ calls' = [calls EXCEPT ![Current].wrote = TRUE]
  /\ session' = [session EXCEPT !.added = @ \cup {Current}]
  /\ UNCHANGED <<stack, raising, db, hookVars>>

\* tx_on_commit in the body, and outside every call.
Register ==
  /\ InBody /\ ~ calls[Current].asked
  /\ calls' = [calls EXCEPT ![Current].asked = TRUE]
  /\ stack' = [stack EXCEPT ![Len(stack)].hooks = Append(@, Current)]
  /\ UNCHANGED <<raising, session, db, hookVars>>

RegisterOutside ==
  /\ stack = << >> /\ raising = "no" /\ stray = 0
  /\ stray' = Len(calls) + 1
  /\ UNCHANGED <<calls, stack, raising, session, db, queue, hooking, fired, lost>>

\* A query flushes what was added; the insert may be refused, and the session then
\* refuses everything until it is rolled back.
Flush ==
  /\ InBody /\ session.state = "ok" /\ session.added # {}
  /\ session' = [session EXCEPT !.flushed = @ \cup session.added, !.added = {}]
  /\ UNCHANGED <<calls, stack, raising, db, hookVars>>

FlushFails ==
  /\ InBody /\ session.state # "inactive" /\ session.added # {}
  /\ session' = [Clean EXCEPT !.state = "inactive"]
  /\ calls' = Struck(Current)
  /\ raising' = "body"
  /\ UNCHANGED <<stack, db, hookVars>>

\* A query fails, by a statement timeout for one: PostgreSQL aborts the
\* transaction, and the session does not know.
QueryFails ==
  /\ InBody /\ session.state = "ok"
  /\ session' = [session EXCEPT !.state = "aborted"]
  /\ calls' = Struck(Current)
  /\ raising' = "body"
  /\ UNCHANGED <<stack, db, hookVars>>

\* Any statement after a database error, that of the savepoint included.
Refused ==
  /\ InBody /\ session.state # "ok"
  /\ raising' = "body"
  /\ UNCHANGED <<calls, stack, session, db, hookVars>>

\* TxError, or any error of Python.
Raise ==
  /\ InBody
  /\ raising' = "body"
  /\ UNCHANGED <<calls, stack, session, db, hookVars>>

\* Mutant: the branch for TxError forgets the rollback.
FailWithoutRollBack ==
  /\ raising # "no" /\ stack # << >>
  /\ calls' = [calls EXCEPT ![Current].status = "failed"]
  /\ stack' = Front(stack)
  /\ raising' = "caller"
  /\ UNCHANGED <<session, db, hookVars>>

\* Mutant: the hooks of a call that failed go to its caller.
FailKeepsHooks ==
  /\ raising # "no" /\ stack # << >>
  /\ session' = IF Len(stack) = 1 THEN Clean ELSE session
  /\ calls' = [calls EXCEPT ![Current].status = "failed"]
  /\ stack' = IF Len(stack) = 1 THEN << >>
              ELSE [Front(stack) EXCEPT ![Len(stack) - 1].hooks = @ \o Last(stack).hooks]
  /\ raising' = "caller"
  /\ UNCHANGED <<db, hookVars>>

\* Mutant: a nested call that fails rolls the session back, as the outermost does.
FailAndRollBack ==
  /\ raising # "no" /\ stack # << >>
  /\ session' = Clean
  /\ calls' = [calls EXCEPT ![Current].status = "failed"]
  /\ stack' = Front(stack)
  /\ raising' = "caller"
  /\ UNCHANGED <<db, hookVars>>

\* The except branches: only the outermost call rolls back, its hooks are dropped,
\* and the exception goes on to the caller.
Fail ==
  /\ raising # "no" /\ stack # << >>
  /\ session' = IF Len(stack) = 1 THEN Clean ELSE session
  /\ calls' = [calls EXCEPT ![Current].status = "failed"]
  /\ stack' = Front(stack)
  /\ raising' = "caller"
  /\ UNCHANGED <<db, hookVars>>

\* The caller catches what a call raised: a body, a route, or the loop over hooks.
Catch ==
  /\ raising = "caller"
  /\ raising' = "no"
  /\ UNCHANGED <<calls, stack, session, db, hookVars>>

\* A nested call ends: the savepoint made after its work flushes it, and its hooks
\* go to the caller.
Return ==
  /\ InBody /\ Len(stack) > 1
  /\ session.state = "ok"
  /\ session' = [session EXCEPT !.flushed = @ \cup session.added, !.added = {}]
  /\ calls' = [calls EXCEPT ![Current].status = "done"]
  /\ stack' = [Front(stack) EXCEPT ![Len(stack) - 1].hooks = @ \o Last(stack).hooks]
  /\ UNCHANGED <<raising, db, hookVars>>

\* The outermost call commits; its hooks run next, before those a hook's own call
\* interrupted.  To COMMIT in an aborted transaction PostgreSQL answers with a
\* rollback and no error, if nothing is left to flush.
Commit ==
  /\ InBody /\ Len(stack) = 1
  /\ \/ /\ session.state = "ok"
        /\ db' = db \cup session.added \cup session.flushed
     \/ /\ session.state = "aborted" /\ session.added = {}
        /\ UNCHANGED db
  /\ session' = Clean
  /\ calls' = [calls EXCEPT ![Current].status = "done"]
  /\ queue' = stack[1].hooks \o queue
  /\ hooking' = (hooking /\ stack[1].hooks = << >>)
  /\ stack' = << >>
  /\ UNCHANGED <<raising, fired, lost, stray>>

\* Mutant: the loop ends with the first hook that fails.
RunHookOrStop ==
  /\ stack = << >> /\ raising = "no" /\ queue # << >>
  /\ fired' = Append(fired, Head(queue))
  /\ queue' \in {Tail(queue), << >>}
  /\ hooking' = TRUE
  /\ UNCHANGED <<calls, stack, raising, session, db, lost, stray>>

RunHook ==
  /\ stack = << >> /\ raising = "no" /\ queue # << >>
  /\ fired' = Append(fired, Head(queue))
  /\ queue' = Tail(queue)
  /\ hooking' = TRUE
  /\ UNCHANGED <<calls, stack, raising, session, db, lost, stray>>

\* The worker is killed: what was not committed and what was not run are gone.
Crash ==
  /\ calls' = [c \in DOMAIN calls |->
                 IF calls[c].status = "running" THEN [calls[c] EXCEPT !.status = "failed"]
                 ELSE calls[c]]
  /\ stack' = << >> /\ raising' = "no" /\ session' = Clean
  /\ lost' = lost \cup ToSet(queue)
  /\ queue' = << >> /\ hooking' = FALSE /\ stray' = 0
  /\ UNCHANGED <<db, fired>>

Continue == Refused \/ Fail \/ Catch \/ Return \/ Commit \/ RunHook

Next ==
  \/ Enter \/ Add \/ Register \/ RegisterOutside \/ Flush
  \/ FlushFails \/ QueryFails \/ Raise
  \/ Continue \/ Crash

Spec == Init /\ [][Next]_vars

\* A body comes to its end, and tx() and the loop over hooks go on.
FairSpec == Spec /\ WF_vars(Continue)

-----------------------------------------------------------------------------
Hooks == 1..MaxCalls

TypeOK ==
  /\ calls \in Seq([outer : Hooks, wrote : BOOLEAN, asked : BOOLEAN, struck : BOOLEAN,
                    status : {"running", "done", "failed"}])
  /\ raising \in {"no", "body", "caller"}
  /\ session.state \in {"ok", "aborted", "inactive"}
  /\ session.added \cup session.flushed \cup db \subseteq {c \in DOMAIN calls : calls[c].wrote}
  /\ ToSet(queue) \cup ToSet(fired) \cup lost \subseteq {c \in DOMAIN calls : calls[c].asked}
  /\ \A i \in DOMAIN stack : calls[stack[i].call].status = "running"
  /\ stack = << >> => session = Clean

\* Nothing is half written by a database error or an outermost call that fails:
\* whichever exceptions were caught on the way, no row of the transaction stays.
AllOrNothing ==
  \A c \in db : calls[calls[c].outer].status = "done" /\ ~ calls[calls[c].outer].struck

\* A hook that runs speaks of what is there: its call did not fail, runs once, and
\* its row is committed - unless a failed query was caught in between.
HookHasItsRow ==
  /\ IsInjective(fired)
  /\ \A c \in ToSet(fired) :
       /\ calls[c].status = "done"
       /\ calls[c].wrote => c \in db \/ calls[calls[c].outer].struck

\* A hook whose transaction committed runs at last, after any hooks that fail, unless
\* the process dies first.
Due(c) == c \in ToSet(queue)
HooksRun == \A c \in Hooks : Due(c) ~> c \in ToSet(fired) \cup lost

\* A call that failed leaves no row, caught or not.
FailedCallLeavesNothing == \A c \in db : calls[c].status # "failed"

\* A hook registered outside every call runs with the next commit.
StrayRuns ==
  stray # 0 => \A c \in DOMAIN calls : c >= stray => calls[calls[c].outer].status # "done"
=============================================================================
