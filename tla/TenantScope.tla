---------------------------- MODULE TenantScope ----------------------------
(***************************************************************************)
(* The context PostgreSQL's row-level policies judge a statement by        *)
(* (app/core/rls.py, app/core/tenancy.py, the webhook scope of             *)
(* app/services/whatsapp.py).  It lives in settings of a transaction; a    *)
(* request runs many transactions on connections of a shared pool, and an  *)
(* after_begin listener pins the context anew in each.  A scope raises the *)
(* context of its thread to the platform's for a while.                    *)
(***************************************************************************)
EXTENDS Naturals, Sequences, FiniteSets

CONSTANTS
  Threads, Connections,
  Users,       \* who asks: "anonymous" has no account
  Schools,
  TenantOf,    \* a user's school, "platform" for a super_admin, "none" for no school
  MaxDepth     \* bound of the model: nested scopes

ASSUME TenantAssumption ==
  /\ "anonymous" \in Users /\ "nobody" \notin Users
  /\ TenantOf \in [Users -> Schools \cup {"platform", "none"}]
  /\ TenantOf["anonymous"] = "none"
  /\ Cardinality(Connections) >= Cardinality(Threads)
  /\ MaxDepth \in Nat

VARIABLES
  pool,    \* app.current_user_id left on each connection for its next transaction
  txn,     \* the open transaction of each thread: connection, context, what a commit leaves
  user,    \* whose request each thread serves
  pinned,  \* g._rls_request_gucs: the context to pin, once the request has one
  scopes   \* open scopes of each thread, innermost last

vars == <<pool, txn, user, pinned, scopes>>

-----------------------------------------------------------------------------
Unset == [actor |-> "unset", tenant |-> "unset"]
NoTxn == [open |-> FALSE]
NoPin == [set |-> FALSE]

Context(u) == [actor |-> u, tenant |-> TenantOf[u]]
Elevated(ctx) == [ctx EXCEPT !.tenant = "platform"]
Inside(t, kind) == \E i \in DOMAIN scopes[t] : scopes[t][i] = kind
Raised(stack) == \E i \in DOMAIN stack : stack[i] # "webhook"   \* the depth is not 0

Free(t) == {c \in Connections : \A s \in Threads \ {t} : txn[s].open => txn[s].conn # c}

\* Mutant: the listener knows the scopes only, as it did before requests were pinned.
ScopeOnlyPin(t, ctx) == IF scopes[t] # << >> THEN Elevated(ctx) ELSE ctx

\* Mutant: a scope is set once, when it opens.
RequestOnlyPin(t, ctx) == IF pinned[t].set THEN pinned[t].ctx ELSE ctx

\* _repin_platform_scope, then the listener of the webhook scope.
Pin(t, ctx) ==
  IF Raised(scopes[t]) THEN Elevated(ctx)
  ELSE LET own == IF pinned[t].set THEN pinned[t].ctx ELSE ctx
       IN IF Inside(t, "webhook") THEN Elevated(own) ELSE own

\* A new transaction on connection c: what the connection keeps, then the listeners.
Fresh(t, c) ==
  [open |-> TRUE, conn |-> c, leaves |-> pool[c], ctx |-> Pin(t, [Unset EXCEPT !.actor = pool[c]])]

-----------------------------------------------------------------------------
Init ==
  /\ pool = [c \in Connections |-> "unset"]
  /\ txn = [t \in Threads |-> NoTxn]
  /\ user = [t \in Threads |-> "nobody"]
  /\ pinned = [t \in Threads |-> NoPin]
  /\ scopes = [t \in Threads |-> << >>]

Arrive(t) ==
  /\ user[t] = "nobody"
  /\ \E u \in Users : user' = [user EXCEPT ![t] = u]
  /\ UNCHANGED <<pool, txn, pinned, scopes>>

\* The first statement after an end of transaction takes a connection of the pool.
Begin(t) ==
  /\ user[t] # "nobody"
  /\ ~ txn[t].open
  /\ \E c \in Free(t) : txn' = [txn EXCEPT ![t] = Fresh(t, c)]
  /\ UNCHANGED <<pool, user, pinned, scopes>>

\* Mutant: the snapshot holds the school only.
SetTenantSchoolOnly(t) ==
  /\ user[t] # "nobody" /\ ~ pinned[t].set
  /\ txn[t].open
  /\ pinned' = [pinned EXCEPT ![t] = [set |-> TRUE, ctx |-> [tenant |-> TenantOf[user[t]]]]]
  /\ txn' = [txn EXCEPT ![t].ctx = Context(user[t]), ![t].leaves = user[t]]
  /\ UNCHANGED <<pool, user, scopes>>

\* set_tenant_for_request: app.current_user_id is set for the connection, then all
\* five settings for the transaction, and the snapshot is kept.
SetTenant(t) ==
  /\ user[t] # "nobody" /\ ~ pinned[t].set
  /\ txn[t].open
  /\ pinned' = [pinned EXCEPT ![t] = [set |-> TRUE, ctx |-> Context(user[t])]]
  /\ txn' = [txn EXCEPT ![t].ctx = Context(user[t]), ![t].leaves = user[t]]
  /\ UNCHANGED <<pool, user, scopes>>

\* The outermost tx() commits: what was set for the connection stays on it.  The
\* reads of an access check commit nothing.
Commit(t) ==
  /\ pinned[t].set /\ txn[t].open
  /\ ~ Inside(t, "access")
  /\ pool' = [pool EXCEPT ![txn[t].conn] = txn[t].leaves]
  /\ txn' = [txn EXCEPT ![t] = NoTxn]
  /\ UNCHANGED <<user, pinned, scopes>>

\* tx() rolls back, and every setting of the transaction with it.
RollBack(t) ==
  /\ pinned[t].set /\ txn[t].open
  /\ txn' = [txn EXCEPT ![t] = NoTxn]
  /\ UNCHANGED <<pool, user, pinned, scopes>>

\* platform_scope and access_read_scope nest; the webhook scope of a signed
\* message is the only one of its anonymous request.
Enter(t) ==
  /\ pinned[t].set
  /\ \E kind \in {"platform", "access", "webhook"} :
       /\ kind = "webhook" => user[t] = "anonymous" /\ scopes[t] = << >>
       /\ kind # "webhook" => ~ Inside(t, "webhook")
       /\ Len(scopes[t]) < MaxDepth
       /\ scopes' = [scopes EXCEPT ![t] = Append(@, kind)]
  /\ txn' = IF txn[t].open THEN [txn EXCEPT ![t].ctx = Elevated(@)] ELSE txn
  /\ UNCHANGED <<pool, user, pinned>>

Outer(t) == SubSeq(scopes[t], 1, Len(scopes[t]) - 1)
Innermost(t) == scopes[t][Len(scopes[t])]

\* Leaving an access check or a webhook scope rolls the transaction back.
ExitRead(t) ==
  /\ scopes[t] # << >> /\ Innermost(t) \in {"access", "webhook"}
  /\ scopes' = [scopes EXCEPT ![t] = Outer(t)]
  /\ txn' = [txn EXCEPT ![t] = NoTxn]
  /\ UNCHANGED <<pool, user, pinned>>

\* Leaving the outermost platform_scope rolls back and restores the request's
\* context in a new transaction; an inner one only counts down.
ExitPlatform(t) ==
  /\ scopes[t] # << >> /\ Innermost(t) = "platform"
  /\ scopes' = [scopes EXCEPT ![t] = Outer(t)]
  /\ IF Raised(Outer(t))
     THEN UNCHANGED txn
     ELSE \E c \in Free(t) :
            txn' = [txn EXCEPT ![t] = [Fresh(t, c) EXCEPT !.ctx = pinned[t].ctx]]
  /\ UNCHANGED <<pool, user, pinned>>

\* Teardown: the session is removed and the snapshot goes with the request.
Finish(t) ==
  /\ pinned[t].set
  /\ scopes[t] = << >>
  /\ txn' = [txn EXCEPT ![t] = NoTxn]
  /\ user' = [user EXCEPT ![t] = "nobody"]
  /\ pinned' = [pinned EXCEPT ![t] = NoPin]
  /\ UNCHANGED <<pool, scopes>>

Next ==
  \E t \in Threads :
    \/ Arrive(t) \/ Begin(t) \/ SetTenant(t) \/ Commit(t) \/ RollBack(t)
    \/ Enter(t) \/ ExitRead(t) \/ ExitPlatform(t) \/ Finish(t)

Spec == Init /\ [][Next]_vars

-----------------------------------------------------------------------------
Actors == Users \cup {"unset"}
Contexts == [actor : Actors, tenant : Schools \cup {"platform", "none", "unset"}]

TypeOK ==
  /\ pool \in [Connections -> Actors]
  /\ txn \in [Threads -> {NoTxn} \cup
       [open : {TRUE}, conn : Connections, leaves : Actors, ctx : Contexts]]
  /\ user \in [Threads -> Users \cup {"nobody"}]
  /\ pinned \in [Threads -> {NoPin} \cup [set : {TRUE}, ctx : Contexts]]
  /\ scopes \in [Threads -> Seq({"platform", "access", "webhook"})]

\* Outside every scope a request's statement is judged by that request's user and
\* school, whichever commits, rollbacks, scopes and other requests' connections
\* came before it: never by more, never by nothing.
OwnContext ==
  \A t \in Threads :
    pinned[t].set /\ txn[t].open /\ scopes[t] = << >> => txn[t].ctx = Context(user[t])

\* Inside a scope every statement is the platform's, in the transaction the scope
\* found and in all that begin within it.
ElevatedInScope ==
  \A t \in Threads :
    txn[t].open /\ scopes[t] # << >> => txn[t].ctx.tenant = "platform"

\* No statement runs as the user of another request.
ActsAsItself ==
  \A t \in Threads : txn[t].open => txn[t].ctx.actor \in {user[t], "unset"}
=============================================================================
