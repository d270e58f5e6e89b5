------------------------- MODULE TenantScopeProofs -------------------------
(***************************************************************************)
(* The safety properties of TenantScope, for any users, schools, threads,  *)
(* connections and nesting.  They follow from one inductive invariant: the *)
(* snapshot of a request is its own context (PinnedIsOwn), scopes open     *)
(* only once it is taken (ScopesArePinned), and a webhook scope is alone   *)
(* (WebhookIsAlone), so that leaving a scope for no other leaves none.     *)
(***************************************************************************)
EXTENDS TenantScope, TLAPS

PinnedIsOwn ==
  \A t \in Threads : pinned[t].set =>
    /\ user[t] \in Users
    /\ pinned[t].ctx = Context(user[t])

ScopesArePinned == \A t \in Threads : scopes[t] # << >> => pinned[t].set

WebhookIsAlone ==
  \A t \in Threads : Inside(t, "webhook") => scopes[t] = <<"webhook">>

IInv ==
  /\ TypeOK
  /\ PinnedIsOwn
  /\ ScopesArePinned
  /\ WebhookIsAlone
  /\ OwnContext
  /\ ElevatedInScope

Kinds == {"platform", "access", "webhook"}
OpenTxn == [open : {TRUE}, conn : Connections, leaves : Actors, ctx : Contexts]

-----------------------------------------------------------------------------
LEMMA Closed == NoTxn.open = FALSE /\ NoPin.set = FALSE
BY DEF NoTxn, NoPin

\* A user's context and a raised one are contexts, and a raised one is the platform's.
LEMMA ContextTyped == ASSUME NEW u \in Users PROVE Context(u) \in Contexts
BY TenantAssumption DEF Context, Contexts, Actors

LEMMA ElevatedTyped ==
  ASSUME NEW ctx \in Contexts
  PROVE  /\ Elevated(ctx) \in Contexts
         /\ Elevated(ctx).tenant = "platform"
BY DEF Elevated, Contexts

\* What the listeners pin is a context.
LEMMA PinTyped ==
  ASSUME IInv, NEW t \in Threads, NEW ctx \in Contexts
  PROVE  Pin(t, ctx) \in Contexts
<1>1. pinned[t].set => pinned[t].ctx \in Contexts
  BY ContextTyped DEF IInv, PinnedIsOwn
<1> QED
  BY <1>1, ElevatedTyped DEF Pin

\* In a scope they pin the platform, and outside the snapshot.
LEMMA PinIsRight ==
  ASSUME IInv, NEW t \in Threads, NEW ctx \in Contexts
  PROVE  /\ scopes[t] # << >> => Pin(t, ctx).tenant = "platform"
         /\ scopes[t] = << >> /\ pinned[t].set => Pin(t, ctx) = Context(user[t])
<1>1. pinned[t].set => pinned[t].ctx = Context(user[t]) /\ pinned[t].ctx \in Contexts
  BY ContextTyped DEF IInv, PinnedIsOwn
<1>2. ASSUME scopes[t] # << >>  PROVE Raised(scopes[t]) \/ Inside(t, "webhook")
  <2>1. scopes[t] \in Seq(Kinds)
    BY DEF IInv, TypeOK, Kinds
  <2>2. 1 \in DOMAIN scopes[t]
    BY <1>2, <2>1
  <2> QED
    BY <2>2 DEF Raised, Inside
<1>3. ASSUME scopes[t] = << >>  PROVE ~ Raised(scopes[t]) /\ ~ Inside(t, "webhook")
  BY <1>3 DEF Raised, Inside
<1> QED
  BY <1>1, <1>2, <1>3, ElevatedTyped DEF Pin

\* A new transaction is well typed, and begins in the right context.
LEMMA FreshTyped ==
  ASSUME IInv, NEW t \in Threads, NEW c \in Connections
  PROVE  /\ Fresh(t, c) \in OpenTxn
         /\ scopes[t] # << >> => Fresh(t, c).ctx.tenant = "platform"
         /\ scopes[t] = << >> /\ pinned[t].set => Fresh(t, c).ctx = Context(user[t])
<1>1. pool[c] \in Actors
  BY DEF IInv, TypeOK
<1>2. [Unset EXCEPT !.actor = pool[c]] \in Contexts
  BY <1>1 DEF Unset, Contexts
<1> QED
  BY <1>1, <1>2, PinTyped, PinIsRight DEF Fresh, OpenTxn

\* The scopes that are left when the innermost is closed.
LEMMA OuterScopes ==
  ASSUME IInv, NEW t \in Threads, scopes[t] # << >>
  PROVE  /\ Outer(t) \in Seq(Kinds)
         /\ Raised(Outer(t)) => Outer(t) # << >>
         /\ \A i \in DOMAIN Outer(t) : Outer(t)[i] # "webhook"
         /\ Outer(t) # << >> => Raised(Outer(t))
<1>1. scopes[t] \in Seq(Kinds) /\ Len(scopes[t]) \in Nat \ {0}
  BY DEF IInv, TypeOK, Kinds
<1>2. /\ Outer(t) \in Seq(Kinds)
      /\ Len(Outer(t)) = Len(scopes[t]) - 1
      /\ \A i \in DOMAIN Outer(t) : i \in DOMAIN scopes[t] /\ Outer(t)[i] = scopes[t][i]
  BY <1>1 DEF Outer
<1>3. ASSUME NEW i \in DOMAIN Outer(t), Outer(t)[i] = "webhook"  PROVE FALSE
  <2>1. scopes[t] = <<"webhook">>
    BY <1>2, <1>3 DEF IInv, WebhookIsAlone, Inside
  <2>2. Len(Outer(t)) = 0
    BY <1>2, <2>1
  <2> QED
    BY <1>2, <1>3, <2>2
<1>4. Outer(t) # << >> => 1 \in DOMAIN Outer(t)
  BY <1>2
<1> QED
  BY <1>2, <1>3, <1>4 DEF Raised

\* A transaction whose context is set anew is still one.
LEMMA SetContext ==
  ASSUME NEW r \in OpenTxn, NEW ctx \in Contexts
  PROVE  /\ [r EXCEPT !.ctx = ctx] \in OpenTxn
         /\ [r EXCEPT !.ctx = ctx].ctx = ctx
BY DEF OpenTxn

LEMMA SetContextAndLeaves ==
  ASSUME NEW r \in OpenTxn, NEW ctx \in Contexts, NEW a \in Actors
  PROVE  /\ [r EXCEPT !.ctx = ctx, !.leaves = a] \in OpenTxn
         /\ [r EXCEPT !.ctx = ctx, !.leaves = a].ctx = ctx
BY DEF OpenTxn

LEMMA TxnTyped ==
  ASSUME IInv, NEW t \in Threads
  PROVE  /\ txn[t].open => txn[t] \in OpenTxn
         /\ \A r \in OpenTxn \cup {NoTxn} :
              [txn EXCEPT ![t] = r] \in [Threads -> {NoTxn} \cup OpenTxn]
BY Closed DEF IInv, TypeOK, OpenTxn

\* A step that changes one thread only keeps the invariant, if it does for that thread.
LEMMA OneThread ==
  ASSUME IInv, TypeOK', NEW t \in Threads,
         \A s \in Threads \ {t} : /\ txn'[s] = txn[s] /\ user'[s] = user[s]
                                  /\ pinned'[s] = pinned[s] /\ scopes'[s] = scopes[s],
         pinned'[t].set => user'[t] \in Users /\ pinned'[t].ctx = Context(user'[t]),
         scopes'[t] # << >> => pinned'[t].set,
         ASSUME NEW i \in DOMAIN scopes'[t], scopes'[t][i] = "webhook"
         PROVE  scopes'[t] = <<"webhook">>,
         pinned'[t].set /\ txn'[t].open /\ scopes'[t] = << >> => txn'[t].ctx = Context(user'[t]),
         txn'[t].open /\ scopes'[t] # << >> => txn'[t].ctx.tenant = "platform"
  PROVE  IInv'
<1>1. PinnedIsOwn' /\ ScopesArePinned'
  BY DEF IInv, PinnedIsOwn, ScopesArePinned, Context
<1>2. WebhookIsAlone'
  BY DEF IInv, WebhookIsAlone, Inside
<1>3. OwnContext'
  BY DEF IInv, OwnContext, Context
<1>4. ElevatedInScope'
  BY DEF IInv, ElevatedInScope
<1> QED
  BY <1>1, <1>2, <1>3, <1>4 DEF IInv

-----------------------------------------------------------------------------
LEMMA InitInvariant == ASSUME Init PROVE IInv
BY Closed
   DEF Init, IInv, TypeOK, PinnedIsOwn, ScopesArePinned, WebhookIsAlone, OwnContext,
       ElevatedInScope, Inside, Actors

LEMMA ArriveKeeps == ASSUME IInv, NEW t \in Threads, Arrive(t) PROVE IInv'
<1> USE DEF IInv, Arrive
<1>1. TypeOK'
  BY DEF TypeOK
<1>2. ~ pinned[t].set
  BY TenantAssumption DEF PinnedIsOwn
<1>3. /\ user' = [user EXCEPT ![t] = user'[t]]
      /\ \A s \in Threads \ {t} : user'[s] = user[s]
  BY DEF TypeOK
<1>4. PinnedIsOwn' /\ OwnContext'
  BY <1>2, <1>3 DEF PinnedIsOwn, OwnContext, Context
<1> QED
  BY <1>1, <1>4 DEF ScopesArePinned, WebhookIsAlone, Inside, ElevatedInScope

LEMMA BeginKeeps == ASSUME IInv, NEW t \in Threads, Begin(t) PROVE IInv'
<1>1. PICK c \in Free(t) : txn' = [txn EXCEPT ![t] = Fresh(t, c)]
  BY DEF Begin
<1>2. /\ Fresh(t, c) \in OpenTxn
      /\ scopes[t] # << >> => Fresh(t, c).ctx.tenant = "platform"
      /\ scopes[t] = << >> /\ pinned[t].set => Fresh(t, c).ctx = Context(user[t])
  BY FreshTyped DEF Free
<1>3. /\ txn'[t] = Fresh(t, c)
      /\ \A s \in Threads \ {t} : txn'[s] = txn[s]
      /\ UNCHANGED <<pool, user, pinned, scopes>>
  BY <1>1 DEF IInv, TypeOK, Begin
<1>4. txn' \in [Threads -> {NoTxn} \cup OpenTxn]
  BY <1>1, <1>2, TxnTyped
<1>5. TypeOK'
  BY <1>3, <1>4 DEF IInv, TypeOK, OpenTxn
<1> QED
  BY <1>2, <1>3, <1>5, OneThread DEF IInv, PinnedIsOwn, ScopesArePinned, WebhookIsAlone, Inside

LEMMA SetTenantKeeps == ASSUME IInv, NEW t \in Threads, SetTenant(t) PROVE IInv'
<1>1. user[t] \in Users /\ Context(user[t]) \in Contexts
  BY ContextTyped DEF IInv, TypeOK, SetTenant
<1> DEFINE r == [txn[t] EXCEPT !.ctx = Context(user[t]), !.leaves = user[t]]
<1>2. txn' = [txn EXCEPT ![t] = r]
  BY DEF SetTenant
<1>3. r \in OpenTxn /\ r.ctx = Context(user[t])
  <2>1. txn[t] \in OpenTxn
    BY TxnTyped DEF SetTenant
  <2>2. user[t] \in Actors
    BY <1>1 DEF Actors
  <2> QED
    BY <1>1, <2>1, <2>2, SetContextAndLeaves
<1> HIDE DEF r
<1>4. txn' \in [Threads -> {NoTxn} \cup OpenTxn]
  BY <1>2, <1>3, TxnTyped
<1>5. /\ txn'[t] = r
      /\ pinned'[t] = [set |-> TRUE, ctx |-> Context(user[t])]
      /\ \A s \in Threads \ {t} : txn'[s] = txn[s] /\ pinned'[s] = pinned[s]
      /\ UNCHANGED <<pool, user, scopes>>
  BY <1>2 DEF IInv, TypeOK, SetTenant
<1>6. pinned' \in [Threads -> {NoPin} \cup [set : {TRUE}, ctx : Contexts]]
  BY <1>1 DEF IInv, TypeOK, SetTenant
<1>7. TypeOK'
  BY <1>4, <1>5, <1>6 DEF IInv, TypeOK, OpenTxn
<1>8. scopes'[t] = << >>
  BY <1>5 DEF IInv, ScopesArePinned, SetTenant
<1>9. pinned'[t].ctx = Context(user'[t]) /\ user'[t] \in Users
  BY <1>1, <1>5
<1>10. txn'[t].ctx = Context(user'[t])
  BY <1>3, <1>5
<1>11. \A i \in DOMAIN scopes'[t] : FALSE
  BY <1>8
<1> QED
  BY <1>5, <1>7, <1>8, <1>9, <1>10, <1>11, OneThread

\* The end of a transaction leaves nothing to judge by.
LEMMA NoTxnKeeps ==
  ASSUME IInv, NEW t \in Threads,
         txn' = [txn EXCEPT ![t] = NoTxn], pool' \in [Connections -> Actors],
         UNCHANGED <<user, pinned, scopes>>
  PROVE  IInv'
<1>1. /\ ~ txn'[t].open
      /\ \A s \in Threads \ {t} : txn'[s] = txn[s]
  BY Closed DEF IInv, TypeOK
<1>2. TypeOK'
  BY DEF IInv, TypeOK
<1> QED
  BY <1>1, <1>2, OneThread DEF IInv, PinnedIsOwn, ScopesArePinned, WebhookIsAlone, Inside

LEMMA CommitKeeps == ASSUME IInv, NEW t \in Threads, Commit(t) PROVE IInv'
<1>1. txn[t].leaves \in Actors
  BY Closed DEF IInv, TypeOK, Commit
<1>2. pool' \in [Connections -> Actors]
  BY <1>1 DEF IInv, TypeOK, Commit
<1> QED
  BY <1>2, NoTxnKeeps DEF Commit

LEMMA RollBackKeeps == ASSUME IInv, NEW t \in Threads, RollBack(t) PROVE IInv'
BY NoTxnKeeps DEF RollBack, IInv, TypeOK

LEMMA EnterKeeps == ASSUME IInv, NEW t \in Threads, Enter(t) PROVE IInv'
<1>1. PICK kind \in Kinds :
        /\ kind = "webhook" => scopes[t] = << >>
        /\ kind # "webhook" => ~ Inside(t, "webhook")
        /\ scopes' = [scopes EXCEPT ![t] = Append(scopes[t], kind)]
  BY DEF Enter, Kinds
<1>2. scopes[t] \in Seq(Kinds)
  BY DEF IInv, TypeOK, Kinds
<1>3. /\ scopes'[t] = Append(scopes[t], kind)
      /\ scopes'[t] # << >>
      /\ \A s \in Threads \ {t} : scopes'[s] = scopes[s]
      /\ scopes' \in [Threads -> Seq(Kinds)]
  <2>1. Append(scopes[t], kind) \in Seq(Kinds) /\ Append(scopes[t], kind) # << >>
    BY <1>2
  <2>2. scopes \in [Threads -> Seq(Kinds)]
    BY DEF IInv, TypeOK, Kinds
  <2> HIDE DEF Kinds
  <2> QED
    BY <1>1, <2>1, <2>2
<1> DEFINE r == IF txn[t].open THEN [txn[t] EXCEPT !.ctx = Elevated(txn[t].ctx)] ELSE txn[t]
<1>4. txn' = [txn EXCEPT ![t] = r]
  BY DEF Enter, IInv, TypeOK
<1>5. /\ r \in OpenTxn \cup {NoTxn}
      /\ r.open => r.ctx.tenant = "platform"
  <2>1. CASE txn[t].open
    <3>1. txn[t] \in OpenTxn /\ txn[t].ctx \in Contexts
      BY <2>1, TxnTyped DEF OpenTxn
    <3> QED
      BY <2>1, <3>1, ElevatedTyped, SetContext
  <2>2. CASE ~ txn[t].open
    BY <2>2 DEF IInv, TypeOK, OpenTxn
  <2> QED
    BY <2>1, <2>2
<1> HIDE DEF r
<1>6. /\ txn'[t] = r
      /\ \A s \in Threads \ {t} : txn'[s] = txn[s]
      /\ txn' \in [Threads -> {NoTxn} \cup OpenTxn]
  BY <1>4, <1>5, TxnTyped DEF IInv, TypeOK
<1>7. pinned[t].set /\ UNCHANGED <<pool, user, pinned>>
  BY DEF Enter
<1>8. TypeOK'
  BY <1>3, <1>6, <1>7 DEF IInv, TypeOK, Kinds, OpenTxn
<1>9. ASSUME NEW i \in DOMAIN scopes'[t], scopes'[t][i] = "webhook"
      PROVE  scopes'[t] = <<"webhook">>
  <2>1. CASE kind = "webhook"
    <3>1. scopes[t] = << >>
      BY <1>1, <2>1
    <3> QED
      BY <1>3, <2>1, <3>1
  <2>2. CASE kind # "webhook"
    BY <1>1, <1>2, <1>3, <1>9, <2>2 DEF Inside
  <2> QED
    BY <2>1, <2>2
<1> QED
  BY <1>3, <1>5, <1>6, <1>7, <1>8, <1>9, OneThread DEF IInv, PinnedIsOwn

LEMMA ExitReadKeeps == ASSUME IInv, NEW t \in Threads, ExitRead(t) PROVE IInv'
<1>1. /\ Outer(t) \in Seq(Kinds)
      /\ \A i \in DOMAIN Outer(t) : Outer(t)[i] # "webhook"
  BY OuterScopes DEF ExitRead
<1>2. /\ scopes'[t] = Outer(t)
      /\ ~ txn'[t].open
      /\ \A s \in Threads \ {t} : scopes'[s] = scopes[s] /\ txn'[s] = txn[s]
      /\ UNCHANGED <<pool, user, pinned>>
  BY Closed DEF ExitRead, IInv, TypeOK
<1>3. TypeOK'
  BY <1>1 DEF ExitRead, IInv, TypeOK, Kinds
<1>4. pinned'[t].set
  BY <1>2 DEF ExitRead, IInv, ScopesArePinned
<1> QED
  BY <1>1, <1>2, <1>3, <1>4, OneThread DEF IInv, PinnedIsOwn

LEMMA ExitPlatformKeeps == ASSUME IInv, NEW t \in Threads, ExitPlatform(t) PROVE IInv'
<1>1. /\ Outer(t) \in Seq(Kinds)
      /\ Raised(Outer(t)) => Outer(t) # << >>
      /\ \A i \in DOMAIN Outer(t) : Outer(t)[i] # "webhook"
      /\ Outer(t) # << >> => Raised(Outer(t))
  BY OuterScopes DEF ExitPlatform
<1>2. /\ scopes'[t] = Outer(t)
      /\ scopes' \in [Threads -> Seq(Kinds)]
      /\ \A s \in Threads \ {t} : scopes'[s] = scopes[s]
      /\ UNCHANGED <<pool, user, pinned>>
      /\ scopes[t] # << >>
  BY <1>1 DEF ExitPlatform, IInv, TypeOK, Kinds
<1>3. pinned[t].set /\ user[t] \in Users /\ pinned[t].ctx = Context(user[t])
  BY <1>2 DEF IInv, ScopesArePinned, PinnedIsOwn
<1>4. CASE Raised(Outer(t))
  <2>1. txn' = txn
    BY <1>4 DEF ExitPlatform
  <2>2. TypeOK'
    BY <1>2, <2>1 DEF IInv, TypeOK, Kinds
  <2> QED
    BY <1>1, <1>2, <1>3, <1>4, <2>1, <2>2, OneThread DEF IInv, ElevatedInScope
<1>5. CASE ~ Raised(Outer(t))
  <2>1. PICK c \in Free(t) :
          txn' = [txn EXCEPT ![t] = [Fresh(t, c) EXCEPT !.ctx = pinned[t].ctx]]
    BY <1>5 DEF ExitPlatform
  <2> DEFINE r == [Fresh(t, c) EXCEPT !.ctx = pinned[t].ctx]
  <2>2. r \in OpenTxn /\ r.ctx = Context(user[t])
    <3>1. Fresh(t, c) \in OpenTxn
      BY FreshTyped DEF Free
    <3> QED
      BY <1>3, <3>1, ContextTyped, SetContext
  <2> HIDE DEF r
  <2>3. /\ txn'[t] = r
        /\ \A s \in Threads \ {t} : txn'[s] = txn[s]
        /\ txn' \in [Threads -> {NoTxn} \cup OpenTxn]
    BY <2>1, <2>2, TxnTyped DEF IInv, TypeOK, r
  <2>4. TypeOK'
    BY <1>2, <2>3 DEF IInv, TypeOK, Kinds, OpenTxn
  <2> QED
    BY <1>1, <1>2, <1>3, <1>5, <2>2, <2>3, <2>4, OneThread
<1> QED
  BY <1>4, <1>5

LEMMA FinishKeeps == ASSUME IInv, NEW t \in Threads, Finish(t) PROVE IInv'
<1>1. /\ ~ txn'[t].open /\ ~ pinned'[t].set /\ scopes'[t] = << >>
      /\ \A s \in Threads \ {t} : /\ txn'[s] = txn[s] /\ user'[s] = user[s]
                                  /\ pinned'[s] = pinned[s] /\ scopes'[s] = scopes[s]
  BY Closed DEF Finish, IInv, TypeOK
<1>2. TypeOK'
  BY DEF Finish, IInv, TypeOK
<1>3. \A i \in DOMAIN scopes'[t] : FALSE
  BY <1>1
<1> QED
  BY <1>1, <1>2, <1>3, OneThread

-----------------------------------------------------------------------------
\* The invariant holds in every reachable state of app/core/rls.py's machine.
THEOREM Invariance == Spec => []IInv
<1>1. Init => IInv
  BY InitInvariant
<1>2. IInv /\ [Next]_vars => IInv'
  <2> SUFFICES ASSUME IInv, [Next]_vars PROVE IInv'
    OBVIOUS
  <2>1. ASSUME NEW t \in Threads,
               \/ Arrive(t) \/ Begin(t) \/ SetTenant(t) \/ Commit(t) \/ RollBack(t)
               \/ Enter(t) \/ ExitRead(t) \/ ExitPlatform(t) \/ Finish(t)
        PROVE  IInv'
    BY <2>1, ArriveKeeps, BeginKeeps, SetTenantKeeps, CommitKeeps, RollBackKeeps,
       EnterKeeps, ExitReadKeeps, ExitPlatformKeeps, FinishKeeps
  <2>2. CASE UNCHANGED vars
    BY <2>2 DEF vars, IInv, TypeOK, PinnedIsOwn, ScopesArePinned, WebhookIsAlone,
                OwnContext, ElevatedInScope, Inside, Context
  <2> QED
    BY <2>1, <2>2 DEF Next
<1> QED
  BY <1>1, <1>2, PTL DEF Spec

\* The state keeps its types: a connection holds a user or nothing, a snapshot all
\* five settings.
THEOREM TypeCorrect == Spec => []TypeOK
BY Invariance, PTL DEF IInv

\* Outside every scope each statement of a request is judged by its own user and
\* school (the after_begin listener with the snapshot of set_tenant_for_request).
THEOREM OwnContextAlways == Spec => []OwnContext
BY Invariance, PTL DEF IInv

\* Inside platform_scope, access_read_scope and the webhook scope each statement is
\* the platform's, however often the code inside commits or rolls back.
THEOREM ElevatedAlways == Spec => []ElevatedInScope
BY Invariance, PTL DEF IInv
=============================================================================
