------------------------------- MODULE Facade -------------------------------
(* The application facade ContextDb (src/src/facade.rs, version_facade.rs).  *)
(* Every operation is a short script of steps: the policy gate, a lifecycle  *)
(* step, the call of a port, the audit record.  Calls of ports run inside    *)
(* `timed`, which admits the request (load accepting, fetch_add in_flight,   *)
(* load accepting again), bounds the call by the deadline and the            *)
(* cancellation token, and drops the admission when it returns.  shutdown    *)
(* stops admission, waits until in_flight is 0 and stops the runtime guards. *)
(*                                                                           *)
(* Every atomic access is one step.  `accepting.store(false, Release)`       *)
(* followed by `in_flight.load(Acquire)` may be reordered by the processor's *)
(* store buffer, which empties at any time and at the latest when the task   *)
(* takes a lock.                                                             *)
EXTENDS Absent, Integers, FiniteSets

CONSTANTS
  Requests,      \* tasks that call the facade
  Closers,       \* tasks that call shutdown
  Ops,           \* the operations that requests call, a subset of AllOps
  NumGuards,     \* parts.runtime_guards.len()
  Lifecycle,     \* whether parts.lifecycle is configured
  MaxRequests,   \* bound: operations started in a behaviour
  MaxShutdowns   \* bound: calls of shutdown in a behaviour

\* browse: list, find, grep, tree, scan.  mutate: delete, rename, batch_write.
\* record: scan_by_type, retrieve, every operation of Versions and
\* InteractiveVersions.  llm: llm_complete_json, llm_embed.  complete:
\* llm_complete.  execute: execute_tool, execute_skill.  gateway: federate,
\* wasm_install, wasm_invoke.  register: wasm_register_tenant.
AllOps == {"read", "write", "browse", "mutate", "record", "llm", "complete",
           "execute", "gateway", "register"}

Outcomes == {"ok", "err", "cancelled", "timeout", "refused"}

ASSUME FacadeAssumption ==
  /\ IsFiniteSet(Requests)
  /\ NULL \notin Closers \cup AllOps \cup Outcomes
  /\ Ops \subseteq AllOps
  /\ NumGuards \in Nat
  /\ Lifecycle \in BOOLEAN
  /\ MaxRequests \in Nat /\ MaxShutdowns \in Nat

VARIABLES
  accepting,   \* Inner.accepting, as other processors see it
  inFlight,    \* Inner.in_flight
  at,          \* at[r]: where r is inside `timed`
  req,         \* req[r]: the operation r executes
  started,     \* number of operations started so far
  pc,          \* pc[c]: where c is inside shutdown
  pending,     \* pending[c]: c's store of accepting is still in its buffer
  ordered,     \* ordered[c]: c's last load of in_flight came after its store
  guard,       \* guard[g]: how often guard g was stopped successfully
  turn,        \* turn[c]: the guard that c stops next
  result,      \* Inner.shutdown_result
  lock,        \* holder of Inner.shutdown_lock
  shutdowns    \* number of calls of shutdown so far

admission == <<accepting, inFlight>>
closing == <<pc, pending, ordered, guard, turn, result, lock, shutdowns>>
facadeVars == <<accepting, inFlight, at, req, started, pc, pending, ordered,
                guard, turn, result, lock, shutdowns>>

-----------------------------------------------------------------------------
(* Operations.                                                               *)

Gated == {"llm", "complete", "execute", "gateway"}   \* gate.preflight
DenialAudited == {"llm", "complete", "execute"}      \* a denial is audited
Checked == {"execute", "gateway"}                    \* gate.postflight
Unadmitted == {"complete", "register"}               \* call outside `timed`
Unaudited == {"browse", "mutate"}                    \* end with the call
Durable == {"write", "mutate", "record"}             \* may change the store

Idle ==
  [op |-> NULL, step |-> "idle", out |-> NULL, good |-> FALSE, begun |-> FALSE,
   committed |-> FALSE, cut |-> FALSE, unrouted |-> FALSE, audit |-> FALSE,
   reply |-> NULL]

\* good: the Result being returned is Ok.  begun, committed, cut and audit are
\* history variables: the port was called, the store changed, the call was
\* cancelled or timed out, the audit sink was called.
Request ==
  [op : AllOps \cup {NULL},
   step : {"idle", "gate", "restore", "call", "route", "post", "audit", "done"},
   out : Outcomes \cup {NULL},
   good : BOOLEAN, begun : BOOLEAN, committed : BOOLEAN, cut : BOOLEAN,
   unrouted : BOOLEAN, audit : BOOLEAN,
   reply : {NULL, "ok", "error", "committed"}]

FirstStep(op) ==
  CASE op \in Gated -> "gate"
    [] op = "read" /\ Lifecycle -> "restore"
    [] OTHER -> "call"

Reply(q, reply) == [q EXCEPT !.step = "done", !.reply = reply]

Enter(q, step) == [q EXCEPT !.step = step]

\* The operation's end once its Result is known.
Conclude(q) ==
  IF q.op \in Unaudited THEN Reply(q, IF q.good THEN "ok" ELSE "error")
  ELSE Enter(q, "audit")

\* Fault: only successful calls are audited.
AfterCallAuditOk(q) ==
  LET s == [q EXCEPT !.good = (q.out = "ok")] IN
  CASE s.good /\ s.op = "write" /\ Lifecycle -> Enter(s, "route")
    [] s.good /\ s.op \in Checked -> Enter(s, "post")
    [] ~s.good -> Reply(s, "error")
    [] OTHER -> Conclude(s)

\* After the port's call.  `execute` returns a failed call with `?`, and so
\* does llm_complete when the call timed out.
AfterCall(q) ==
  LET s == [q EXCEPT !.good = (q.out = "ok")] IN
  CASE s.good /\ s.op = "write" /\ Lifecycle -> Enter(s, "route")
    [] s.good /\ s.op \in Checked -> Enter(s, "post")
    [] ~s.good /\ s.op = "execute" -> Reply(s, "error")
    [] s.out = "timeout" /\ s.op = "complete" -> Reply(s, "error")
    [] OTHER -> Conclude(s)

\* After a lifecycle step: a failed restore ends the read, a failed route is
\* audited and reported as CommittedWithPostCommitFailure.
AfterRestore(q) == IF q.out = "ok" THEN Enter(q, "call") ELSE Reply(q, "error")

\* Fault: the failure of the route replaces the result of the write.
AfterRouteForgets(q) == IF q.out = "ok" THEN Conclude(q) ELSE Reply(q, "error")

AfterRoute(q) ==
  IF q.out = "ok" THEN Conclude(q)
  ELSE Enter([q EXCEPT !.unrouted = TRUE], "audit")

Advance(q) ==
  CASE q.step = "restore" -> AfterRestore(q)
    [] q.step = "call" -> AfterCall(q)
    [] q.step = "route" -> AfterRoute(q)

\* What the operation returns once the audit sink has answered.
AuditReply(q, recorded) ==
  CASE q.unrouted -> "committed"
    [] ~q.unrouted /\ ~recorded -> IF q.op = "write" /\ q.good THEN "committed" ELSE "error"
    [] OTHER -> IF q.good THEN "ok" ELSE "error"

Holding(a) == a \in {"recheck", "running", "sub"}

FacadeTypeOK ==
  /\ accepting \in BOOLEAN
  /\ inFlight \in Nat
  /\ at \in [Requests -> {"out", "add", "recheck", "running", "sub", "notify"}]
  /\ req \in [Requests -> Request]
  /\ started \in 0 .. MaxRequests
  /\ pc \in [Closers -> {"idle", "load", "listen", "waiting", "lock", "check",
                         "stop", "ok", "failed"}]
  /\ pending \in [Closers -> BOOLEAN]
  /\ ordered \in [Closers -> BOOLEAN]
  /\ guard \in [1 .. NumGuards -> Nat]
  /\ turn \in [Closers -> 1 .. NumGuards + 1]
  /\ result \in {NULL, "ok", "err"}
  /\ lock \in Closers \cup {NULL}
  /\ shutdowns \in 0 .. MaxShutdowns

FacadeInit ==
  /\ accepting = TRUE
  /\ inFlight = 0
  /\ at = [r \in Requests |-> "out"]
  /\ req = [r \in Requests |-> Idle]
  /\ started = 0
  /\ pc = [c \in Closers |-> "idle"]
  /\ pending = [c \in Closers |-> FALSE]
  /\ ordered = [c \in Closers |-> FALSE]
  /\ guard = [g \in 1 .. NumGuards |-> 0]
  /\ turn = [c \in Closers |-> 1]
  /\ result = NULL
  /\ lock = NULL
  /\ shutdowns = 0

-----------------------------------------------------------------------------
(* A request.                                                                *)

InCall(r) == req[r].step \in {"restore", "call", "route"}

\* The operation is called and its checks of tenant, size and deadline pass;
\* when they do not it returns an error and nothing happens.
Begin(r, op) ==
  /\ req[r].step \in {"idle", "done"}
  /\ started < MaxRequests
  /\ started' = started + 1
  /\ req' = [req EXCEPT ![r] = [Idle EXCEPT !.op = op, !.step = FirstStep(op)]]
  /\ UNCHANGED <<admission, at, closing>>

\* gate.preflight: it allows, denies or fails.
Gate(r, verdict) ==
  /\ req[r].step = "gate"
  /\ req' = [req EXCEPT ![r] =
       CASE verdict = "allow" -> Enter(@, "call")
         [] verdict = "deny" /\ @.op \in DenialAudited -> Enter(@, "audit")
         [] OTHER -> Reply(@, "error")]
  /\ UNCHANGED <<admission, at, started, closing>>

\* admit: the first load of accepting.
Admit(r) ==
  /\ InCall(r) /\ req[r].op \notin Unadmitted
  /\ at[r] = "out"
  /\ IF accepting
     THEN at' = [at EXCEPT ![r] = "add"] /\ UNCHANGED req
     ELSE /\ req' = [req EXCEPT ![r] = Advance([@ EXCEPT !.out = "refused"])]
          /\ UNCHANGED at
  /\ UNCHANGED <<admission, started, closing>>

\* admit: in_flight.fetch_add.
AddInFlight(r) ==
  /\ at[r] = "add"
  /\ inFlight' = inFlight + 1
  /\ at' = [at EXCEPT ![r] = "recheck"]
  /\ UNCHANGED <<accepting, req, started, closing>>

\* Fault: admit does not load accepting again.
RecheckNever(r) ==
  /\ at[r] = "recheck"
  /\ at' = [at EXCEPT ![r] = "running"]
  /\ UNCHANGED <<admission, req, started, closing>>

\* Fault: the refusal subtracts, and so does the drop of the guard.
RecheckSubtracts(r) ==
  /\ at[r] = "recheck"
  /\ IF accepting
     THEN /\ at' = [at EXCEPT ![r] = "running"]
          /\ req' = [req EXCEPT ![r].begun = @ \/ req[r].step = "call"]
          /\ UNCHANGED inFlight
     ELSE /\ at' = [at EXCEPT ![r] = "sub"]
          /\ req' = [req EXCEPT ![r].out = "refused"]
          /\ inFlight' = inFlight - 1
  /\ UNCHANGED <<accepting, started, closing>>

\* admit: the second load of accepting.
Recheck(r) ==
  /\ at[r] = "recheck"
  /\ IF accepting
     THEN /\ at' = [at EXCEPT ![r] = "running"]
          /\ req' = [req EXCEPT ![r].begun = @ \/ req[r].step = "call"]
     ELSE /\ at' = [at EXCEPT ![r] = "sub"]
          /\ req' = [req EXCEPT ![r].out = "refused"]
  /\ UNCHANGED <<admission, started, closing>>

\* The effect of the port's call on the store: none when it fails, unknown when
\* its future is dropped by the cancellation or by the timeout.
Effects(q, out) ==
  IF q.step # "call" \/ q.op \notin Durable THEN {FALSE}
  ELSE CASE out = "ok" -> {TRUE}
         [] out = "err" -> {FALSE}
         [] OTHER -> BOOLEAN

Answered(q, out, effect) ==
  [q EXCEPT !.out = out, !.committed = @ \/ effect,
            !.cut = @ \/ (q.step = "call" /\ out \in {"cancelled", "timeout"})]

\* timed: the select! of cancellation, timeout and the port's future.
Return(r, out, effect) ==
  /\ at[r] = "running"
  /\ effect \in Effects(req[r], out)
  /\ req' = [req EXCEPT ![r] = Answered(@, out, effect)]
  /\ at' = [at EXCEPT ![r] = "sub"]
  /\ UNCHANGED <<admission, started, closing>>

\* Drop of InFlightGuard: fetch_sub, and notify_waiters if it was the last.
SubInFlight(r) ==
  /\ at[r] = "sub"
  /\ inFlight' = inFlight - 1
  /\ IF inFlight = 1
     THEN at' = [at EXCEPT ![r] = "notify"] /\ UNCHANGED req
     ELSE /\ at' = [at EXCEPT ![r] = "out"]
          /\ req' = [req EXCEPT ![r] = Advance(@)]
  /\ UNCHANGED <<accepting, started, closing>>

\* drained.notify_waiters(): only the closers that already wait are woken.
NotifyWaiters(r) ==
  /\ at[r] = "notify"
  /\ pc' = [c \in Closers |-> IF pc[c] = "waiting" THEN "load" ELSE pc[c]]
  /\ at' = [at EXCEPT ![r] = "out"]
  /\ req' = [req EXCEPT ![r] = Advance(@)]
  /\ UNCHANGED <<admission, started, pending, ordered, guard, turn, result, lock, shutdowns>>

\* llm_complete and wasm_register_tenant call their port without admission;
\* the call itself is the step between "call" with begun set and its answer.
CallUnadmitted(r) ==
  /\ req[r].step = "call" /\ req[r].op \in Unadmitted /\ ~req[r].begun
  /\ req' = [req EXCEPT ![r].begun = TRUE]
  /\ UNCHANGED <<admission, at, started, closing>>

ReturnUnadmitted(r, out) ==
  /\ req[r].step = "call" /\ req[r].op \in Unadmitted /\ req[r].begun
  /\ req[r].op = "register" => out \in {"ok", "err"}
  /\ req' = [req EXCEPT ![r] = AfterCall(Answered(@, out, FALSE))]
  /\ UNCHANGED <<admission, at, started, closing>>

\* gate.postflight.
Postflight(r, allowed) ==
  /\ req[r].step = "post"
  /\ req' = [req EXCEPT ![r] = Conclude([@ EXCEPT !.good = allowed])]
  /\ UNCHANGED <<admission, at, started, closing>>

\* audit: the sink records the event or refuses it.
Audit(r, recorded) ==
  /\ req[r].step = "audit"
  /\ req' = [req EXCEPT ![r] =
       Reply([@ EXCEPT !.audit = TRUE], AuditReply(@, recorded))]
  /\ UNCHANGED <<admission, at, started, closing>>

-----------------------------------------------------------------------------
(* shutdown.                                                                 *)

\* accepting.store(false, Release).
Shutdown(c) ==
  /\ pc[c] \in {"idle", "ok", "failed"}
  /\ shutdowns < MaxShutdowns
  /\ shutdowns' = shutdowns + 1
  /\ pc' = [pc EXCEPT ![c] = "load"]
  /\ pending' = [pending EXCEPT ![c] = TRUE]
  /\ UNCHANGED <<admission, at, req, started, ordered, guard, turn, result, lock>>

\* The store leaves the store buffer.
Flush(c) ==
  /\ pending[c]
  /\ accepting' = FALSE
  /\ pending' = [pending EXCEPT ![c] = FALSE]
  /\ UNCHANGED <<inFlight, at, req, started, pc, ordered, guard, turn, result, lock, shutdowns>>

\* while in_flight.load(Acquire) != 0.
LoadInFlight(c) ==
  /\ pc[c] = "load"
  /\ pc' = [pc EXCEPT ![c] = IF inFlight = 0 THEN "lock" ELSE "listen"]
  /\ ordered' = [ordered EXCEPT ![c] = ~pending[c]]
  /\ UNCHANGED <<admission, at, req, started, pending, guard, turn, result, lock, shutdowns>>

\* drained.notified(): c now waits for the next notify_waiters.  Taking the
\* lock of Notify empties the store buffer.
Listen(c) ==
  /\ pc[c] = "listen" /\ ~pending[c]
  /\ pc' = [pc EXCEPT ![c] = "waiting"]
  /\ UNCHANGED <<admission, at, req, started, pending, ordered, guard, turn, result, lock, shutdowns>>

\* shutdown_lock.lock().await, which also empties the store buffer.
Lock(c) ==
  /\ pc[c] = "lock" /\ lock = NULL /\ ~pending[c]
  /\ lock' = c
  /\ pc' = [pc EXCEPT ![c] = "check"]
  /\ UNCHANGED <<admission, at, req, started, pending, ordered, guard, turn, result, shutdowns>>

\* An earlier shutdown succeeded: nothing is left to stop.
CheckResult(c) ==
  /\ pc[c] = "check"
  /\ IF result = "ok"
     THEN pc' = [pc EXCEPT ![c] = "ok"] /\ lock' = NULL /\ UNCHANGED turn
     ELSE /\ pc' = [pc EXCEPT ![c] = "stop"] /\ turn' = [turn EXCEPT ![c] = 1]
          /\ UNCHANGED lock
  /\ UNCHANGED <<admission, at, req, started, pending, ordered, guard, result, shutdowns>>

\* Fault: a guard that fails is skipped.
StopGuardSkips(c, stopped) ==
  /\ pc[c] = "stop" /\ turn[c] <= NumGuards
  /\ guard' = IF stopped THEN [guard EXCEPT ![turn[c]] = @ + 1] ELSE guard
  /\ turn' = [turn EXCEPT ![c] = @ + 1]
  /\ UNCHANGED <<admission, at, req, started, pc, result, lock, pending, ordered, shutdowns>>

\* guard.shutdown().await for the next guard.
StopGuard(c, stopped) ==
  /\ pc[c] = "stop" /\ turn[c] <= NumGuards
  /\ IF stopped
     THEN /\ guard' = [guard EXCEPT ![turn[c]] = @ + 1]
          /\ turn' = [turn EXCEPT ![c] = @ + 1]
          /\ UNCHANGED <<pc, result, lock>>
     ELSE /\ result' = "err" /\ pc' = [pc EXCEPT ![c] = "failed"] /\ lock' = NULL
          /\ UNCHANGED <<guard, turn>>
  /\ UNCHANGED <<admission, at, req, started, pending, ordered, shutdowns>>

\* Every guard has stopped.
FinishShutdown(c) ==
  /\ pc[c] = "stop" /\ turn[c] > NumGuards
  /\ result' = "ok"
  /\ pc' = [pc EXCEPT ![c] = "ok"]
  /\ lock' = NULL
  /\ UNCHANGED <<admission, at, req, started, pending, ordered, guard, turn, shutdowns>>

-----------------------------------------------------------------------------

RequestStep(r) ==
  \/ \E verdict \in {"allow", "deny", "fail"} : Gate(r, verdict)
  \/ \E b \in BOOLEAN : Postflight(r, b) \/ Audit(r, b)
  \/ Admit(r) \/ AddInFlight(r) \/ Recheck(r)
  \/ \E out \in Outcomes \ {"refused"}, b \in BOOLEAN : Return(r, out, b)
  \/ SubInFlight(r) \/ NotifyWaiters(r)
  \/ CallUnadmitted(r)
  \/ \E out \in Outcomes \ {"refused"} : ReturnUnadmitted(r, out)

CloserStep(c) ==
  \/ LoadInFlight(c) \/ Listen(c) \/ Lock(c) \/ CheckResult(c) \/ FinishShutdown(c)
  \/ \E b \in BOOLEAN : StopGuard(c, b)

FacadeNext ==
  \/ \E r \in Requests : RequestStep(r) \/ \E op \in Ops : Begin(r, op)
  \/ \E c \in Closers : CloserStep(c) \/ Shutdown(c) \/ Flush(c)

\* Ports answer or are cut off by the timeout, store buffers drain, and the
\* runtime schedules every task that can run.
FacadeFairness ==
  /\ \A r \in Requests : WF_facadeVars(RequestStep(r))
  /\ \A c \in Closers : WF_facadeVars(CloserStep(c)) /\ WF_facadeVars(Flush(c))

FacadeSpec == FacadeInit /\ [][FacadeNext]_facadeVars /\ FacadeFairness

-----------------------------------------------------------------------------
(* Properties.                                                               *)

\* c has seen in_flight = 0 with its store in place, and goes on to stop the
\* guards or has done so.
Drained(c) == ordered[c] /\ pc[c] \in {"lock", "check", "stop", "ok", "failed"}

\* Once a shutdown has drained the facade no admitted call runs: the guards
\* (outbox worker, event bridge) are never stopped under a running port call.
\* A load that overtakes the store is excepted: Release and Acquire do not
\* order a store before a later load.
QuietAtStop ==
  \A c \in Closers, r \in Requests : Drained(c) => at[r] # "running"

\* A shutdown that returned Ok has stopped every guard, whoever else was
\* shutting down and whichever guard failed before.
ShutdownHonest ==
  (\E c \in Closers : pc[c] = "ok") =>
    result = "ok" /\ \A g \in 1 .. NumGuards : guard[g] >= 1

\* shutdown returns: the last request to leave wakes it (README: shutdown waits
\* until the operations in flight have ended, 等待在途操作结束).
ShutdownReturns ==
  \A c \in Closers : pc[c] = "load" ~> pc[c] \in {"ok", "failed"}

\* A write that changed the store and was not cut off says so: its reply is Ok
\* or CommittedWithPostCommitFailure, although the lifecycle step, the audit
\* sink or a shutdown in between may fail it.
HonestReply ==
  \A r \in Requests :
    LET q == req[r] IN
    q.op = "write" /\ q.step = "done" /\ q.committed /\ ~q.cut
      => q.reply \in {"ok", "committed"}

\* An audited operation whose port was called leaves an audit record, whichever
\* of its steps failed.  `execute` and llm_complete leave early (AfterCall).
EveryCallAudited ==
  \A r \in Requests :
    req[r].step = "done" /\ req[r].begun
      => req[r].audit \/ req[r].op \in Unaudited \cup {"execute", "complete"}

=============================================================================
