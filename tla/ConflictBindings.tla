-------------------------- MODULE ConflictBindings --------------------------
(* The ownership bindings of interactive conflict sessions kept by the       *)
(* facade (InteractiveVersions in version_facade.rs, ConflictSessionBindings *)
(* in facade.rs).  A session id carries no tenant; the facade binds it to    *)
(* the tenant that began or loaded it, refuses everyone else, and bounds the *)
(* bindings by a TTL and by MAX_CONFLICT_SESSION_BINDINGS.                   *)
(*                                                                           *)
(* The version store's sessions are external: begin creates one in the       *)
(* caller's scope, continue and abort end it.  A call of the store is one    *)
(* step; the checks before it and the bookkeeping after it are separate      *)
(* steps that other tasks interleave with.                                   *)
EXTENDS Absent, Integers, Sequences, FiniteSets

CONSTANTS
  Tasks,         \* concurrent callers of InteractiveVersions
  Tenants,
  Sessions,      \* ids of conflict sessions; bounds how many are begun
  MaxBindings    \* MAX_CONFLICT_SESSION_BINDINGS

ASSUME BindingsAssumption ==
  /\ NULL \notin Tenants \cup Sessions \cup Tasks
  /\ MaxBindings \in Nat \ {0}

VARIABLES
  scope,      \* scope[s]: tenant of s's scope in the store, NULL if s never began
  live,       \* sessions that the store still holds
  owner,      \* tenants: owner[s], NULL when s is not bound
  expired,    \* bound sessions whose TTL has passed
  order,      \* insertion_order
  mutex,      \* the task inside bind, NULL when the lock is free
  task        \* task[t]: what t is doing

bindVars == <<scope, live, owner, expired, order, mutex, task>>

Bound == {s \in Sessions : owner[s] # NULL}

Free == [step |-> "free", tenant |-> NULL, session |-> NULL]

BindingsTypeOK ==
  /\ scope \in [Sessions -> Tenants \cup {NULL}]
  /\ live \subseteq {s \in Sessions : scope[s] # NULL}
  /\ owner \in [Sessions -> Tenants \cup {NULL}]
  /\ expired \subseteq Bound
  /\ mutex \in Tasks \cup {NULL}
  /\ task \in [Tasks -> [step : {"free", "bind", "evict", "use", "forget"},
                         tenant : Tenants \cup {NULL}, session : Sessions \cup {NULL}]]

BindingsInit ==
  /\ scope = [s \in Sessions |-> NULL]
  /\ live = {}
  /\ owner = [s \in Sessions |-> NULL]
  /\ expired = {}
  /\ order = <<>>
  /\ mutex = NULL
  /\ task = [t \in Tasks |-> Free]

Doing(step, n, s) == [step |-> step, tenant |-> n, session |-> s]

-----------------------------------------------------------------------------

\* begin_cherry_pick, begin_rebase: the store creates the session in a scope
\* of the caller's tenant.  When the call is cut off by the deadline or its
\* audit record is refused, the session exists and is not bound.
BeginConflict(t, n, s, ok) ==
  /\ task[t].step = "free"
  /\ scope[s] = NULL
  /\ scope' = [scope EXCEPT ![s] = n]
  /\ live' = live \cup {s}
  /\ task' = [task EXCEPT ![t] = IF ok THEN Doing("bind", n, s) ELSE Free]
  /\ UNCHANGED <<owner, expired, order, mutex>>

\* load_conflict_session: no ownership check before the store is asked.
Load(t, n, s) ==
  /\ task[t].step = "free"
  /\ s \in live
  /\ task' = [task EXCEPT ![t] = Doing("bind", n, s)]
  /\ UNCHANGED <<scope, live, owner, expired, order, mutex>>

\* Fault: bind does not validate the session's scope.
MayBindAnyone(n, s) == TRUE

\* bind: validate the session's scope.
MayBind(n, s) == scope[s] = n

Keep(seq, S) == SelectSeq(seq, LAMBDA x : x \in S)

\* bind, up to its eviction loop: the id is queued if it is not bound, expired
\* bindings are dropped, the queue keeps what is bound, and only then is the
\* id bound.
Bind(t) ==
  LET n == task[t].tenant  s == task[t].session  kept == Bound \ expired IN
  /\ task[t].step = "bind"
  /\ mutex = NULL
  /\ IF MayBind(n, s)
     THEN /\ order' = Keep(IF s \in Bound THEN order ELSE Append(order, s), kept)
          /\ owner' = [x \in Sessions |-> IF x = s THEN n
                                          ELSE IF x \in kept THEN owner[x] ELSE NULL]
          /\ expired' = {}
          /\ mutex' = t
          /\ task' = [task EXCEPT ![t].step = "evict"]
     ELSE /\ task' = [task EXCEPT ![t] = Free]
          /\ UNCHANGED <<owner, expired, order, mutex>>
  /\ UNCHANGED <<scope, live>>

\* tenants.len() > MAX_CONFLICT_SESSION_BINDINGS.
TooMany == Cardinality(Bound) > MaxBindings

\* bind's loop, one turn: while too many are bound, pop the oldest id and drop
\* its binding.  With an empty queue the turn changes nothing.
Evict(t) ==
  /\ task[t].step = "evict"
  /\ TooMany
  /\ IF order = <<>> THEN UNCHANGED <<owner, expired, order>>
     ELSE /\ owner' = [owner EXCEPT ![Head(order)] = NULL]
          /\ expired' = expired \ {Head(order)}
          /\ order' = Tail(order)
  /\ UNCHANGED <<scope, live, mutex, task>>

\* bind returns and releases the lock.
FinishBind(t) ==
  /\ task[t].step = "evict"
  /\ ~TooMany
  /\ mutex' = NULL
  /\ task' = [task EXCEPT ![t] = Free]
  /\ UNCHANGED <<scope, live, owner, expired, order>>

\* owns, the check of continue_conflict_session, its _by_id form and abort; a
\* call that fails it returns TenantViolation and changes nothing.
Owns(t, n, s) ==
  /\ task[t].step = "free"
  /\ mutex = NULL
  /\ owner[s] = n /\ s \notin expired
  /\ task' = [task EXCEPT ![t] = Doing("use", n, s)]
  /\ UNCHANGED <<scope, live, owner, expired, order, mutex>>

\* The store continues or aborts the session, or refuses; the binding is
\* forgotten only when the whole call, its audit record included, succeeded.
Use(t, ended, ok) ==
  /\ task[t].step = "use"
  /\ ok => ended
  /\ ended => task[t].session \in live
  /\ live' = IF ended THEN live \ {task[t].session} ELSE live
  /\ task' = [task EXCEPT ![t] = IF ok THEN [@ EXCEPT !.step = "forget"] ELSE Free]
  /\ UNCHANGED <<scope, owner, expired, order, mutex>>

\* forget: the binding goes, the queue keeps the id.
Forget(t) ==
  /\ task[t].step = "forget"
  /\ mutex = NULL
  /\ owner' = [owner EXCEPT ![task[t].session] = NULL]
  /\ expired' = expired \ {task[t].session}
  /\ task' = [task EXCEPT ![t] = Free]
  /\ UNCHANGED <<scope, live, order, mutex>>

\* conflict_session_ttl passes for s.
ExpireBinding(s) ==
  /\ s \in Bound \ expired
  /\ expired' = expired \cup {s}
  /\ UNCHANGED <<scope, live, owner, order, mutex, task>>

TaskStep(t) ==
  \/ Bind(t) \/ Evict(t) \/ FinishBind(t) \/ Forget(t)
  \/ \E ended, ok \in BOOLEAN : Use(t, ended, ok)

BindingsNext ==
  \/ \E t \in Tasks :
       \/ TaskStep(t)
       \/ \E n \in Tenants, s \in Sessions :
            \/ \E ok \in BOOLEAN : BeginConflict(t, n, s, ok)
            \/ Load(t, n, s)
            \/ Owns(t, n, s)
  \/ \E s \in Sessions : ExpireBinding(s)

BindingsSpec == BindingsInit /\ [][BindingsNext]_bindVars

\* The lock is handed on and the store answers.
BindingsFairness == \A t \in Tasks : SF_bindVars(TaskStep(t))

-----------------------------------------------------------------------------
(* Properties.                                                               *)

\* A session is continued or aborted only for the tenant in whose scope it was
\* begun, whoever loaded it in between and whatever expired or was evicted.
OwnerOnly ==
  BindingsTypeOK /\ \A t \in Tasks :
    task[t].step \in {"use", "forget"} => scope[task[t].session] = task[t].tenant

\* bind returns: its eviction loop ends (README: the bindings are bounded,
\* 有界、带 TTL 的租户所有权绑定).
BindReturns ==
  \A t \in Tasks : task[t].step = "bind" ~> task[t].step = "free"

=============================================================================
