---------------------------- MODULE FacadeProofs ----------------------------
(* What callers may rely on in the facade, for any number of requests,       *)
(* closers, guards, tenants, sessions and bindings: no admitted call runs    *)
(* once the shutdown has drained them, replies are honest, audited calls are *)
(* audited, and a conflict session is used for its own tenant only.          *)
EXTENDS Facade, ConflictBindings, FiniteSetTheorems, TLAPS

-----------------------------------------------------------------------------
(* Admission.  in_flight counts the requests that hold an admission, a       *)
(* closer past its store finds accepting FALSE for good, and so a request    *)
(* that is added after in_flight was 0 is refused by its second load.  The   *)
(* argument needs the store of accepting to be visible before in_flight is   *)
(* loaded, which is what ordered records.                                    *)
Admitted == {r \in Requests : Holding(at[r])}

\* c's store into accepting is visible.
Stored(c) == ordered[c] \/ (pc[c] # "idle" /\ ~pending[c])

\* The part of the state that admission and draining depend on.
AdmissionTypeOK ==
  /\ accepting \in BOOLEAN
  /\ inFlight \in Nat
  /\ at \in [Requests -> {"out", "add", "recheck", "running", "sub", "notify"}]
  /\ pc \in [Closers -> {"idle", "load", "listen", "waiting", "lock", "check",
                         "stop", "ok", "failed"}]
  /\ pending \in [Closers -> BOOLEAN]
  /\ ordered \in [Closers -> BOOLEAN]

\* in_flight counts the admissions.
Counted == inFlight = Cardinality(Admitted)

\* A shutdown whose store is visible has stopped admission.
Stopped == \A c \in Closers : Stored(c) => ~accepting

AdmissionInv == AdmissionTypeOK /\ Counted /\ Stopped /\ QuietAtStop

-----------------------------------------------------------------------------

\* The admissions are finitely many.
LEMMA AdmittedFinite == IsFiniteSet(Admitted)
BY FacadeAssumption, FS_Subset DEF Admitted

\* A request that was not admitted adds one to the admissions.
LEMMA AdmittedGrows ==
  ASSUME AdmissionTypeOK, Counted, NEW r \in Requests, ~Holding(at[r]),
         NEW a, Holding(a), at' = [at EXCEPT ![r] = a], inFlight' = inFlight + 1
  PROVE  Counted'
<1>1. Admitted' = Admitted \cup {r}
  BY DEF Admitted, AdmissionTypeOK
<1>2. r \notin Admitted
  BY DEF Admitted
<1>3. Cardinality(Admitted \cup {r}) = Cardinality(Admitted) + 1
  BY <1>2, AdmittedFinite, FS_AddElement
<1> QED
  BY <1>1, <1>3 DEF Counted

\* A request that leaves takes one away.
LEMMA AdmittedShrinks ==
  ASSUME AdmissionTypeOK, Counted, NEW r \in Requests, Holding(at[r]),
         NEW a, ~Holding(a), at' = [at EXCEPT ![r] = a], inFlight' = inFlight - 1
  PROVE  Counted' /\ inFlight' \in Nat
<1>1. Admitted' = Admitted \ {r}
  BY DEF Admitted, AdmissionTypeOK
<1>2. r \in Admitted
  BY DEF Admitted
<1>3. Cardinality(Admitted \ {r}) = Cardinality(Admitted) - 1
  BY <1>2, AdmittedFinite, FS_RemoveElement
<1>4. Cardinality(Admitted \ {r}) \in Nat
  BY AdmittedFinite, FS_Subset, FS_CardinalityType, Admitted \ {r} \subseteq Admitted
<1> QED
  BY <1>1, <1>3, <1>4 DEF Counted

\* A step that keeps in_flight and who holds an admission keeps the count.
LEMMA AdmittedStays ==
  ASSUME AdmissionTypeOK, Counted, inFlight' = inFlight,
         \A r \in Requests : Holding(at'[r]) <=> Holding(at[r])
  PROVE  Counted'
BY DEF Counted, Admitted

\* When in_flight is 0 no call runs.
LEMMA NoneRunning ==
  ASSUME Counted, inFlight = 0, NEW r \in Requests
  PROVE  at[r] # "running"
<1>1. Admitted = {}
  BY AdmittedFinite, FS_EmptySet DEF Counted
<1> QED
  BY <1>1 DEF Admitted, Holding

-----------------------------------------------------------------------------

LEMMA InitAdmission == FacadeInit => AdmissionInv
<1> SUFFICES ASSUME FacadeInit PROVE AdmissionInv
  OBVIOUS
<1>1. Admitted = {}
  BY DEF FacadeInit, Admitted, Holding
<1>2. Cardinality(Admitted) = 0
  BY <1>1, FS_EmptySet
<1> QED
  BY <1>2 DEF FacadeInit, AdmissionInv, AdmissionTypeOK, Counted, Stopped, Stored,
              QuietAtStop, Drained

\* A request's own steps.
LEMMA RequestAdmission ==
  ASSUME AdmissionInv, NEW r \in Requests, RequestStep(r)
  PROVE  AdmissionInv'
<1> USE DEF AdmissionInv
<1>1. CASE UNCHANGED <<accepting, inFlight, at, pc, pending, ordered>>
  BY <1>1, AdmittedStays DEF AdmissionTypeOK, Stopped, Stored, QuietAtStop, Drained
<1>2. CASE Admit(r)
  <2>1. AdmissionTypeOK' /\ Stopped' /\ QuietAtStop'
    BY <1>2 DEF Admit, admission, closing, AdmissionTypeOK, Stopped, Stored, QuietAtStop, Drained
  <2>2. \A s \in Requests : Holding(at'[s]) <=> Holding(at[s])
    BY <1>2 DEF Admit, AdmissionTypeOK, Holding
  <2> QED
    BY <1>2, <2>1, <2>2, AdmittedStays DEF Admit, admission
<1>3. CASE AddInFlight(r)
  <2>1. AdmissionTypeOK' /\ Stopped' /\ QuietAtStop'
    BY <1>3 DEF AddInFlight, closing, AdmissionTypeOK, Stopped, Stored, QuietAtStop, Drained
  <2>2. ~Holding(at[r]) /\ Holding("recheck")
    BY <1>3 DEF AddInFlight, Holding
  <2> QED
    BY <1>3, <2>1, <2>2, AdmittedGrows DEF AddInFlight
<1>4. CASE Recheck(r)
  <2>1. AdmissionTypeOK' /\ Stopped'
    BY <1>4 DEF Recheck, admission, closing, AdmissionTypeOK, Stopped, Stored
  <2>2. QuietAtStop'
    <3>1. \A c \in Closers : Drained(c) => ~accepting
      BY DEF Stopped, Stored, Drained
    <3> QED
      BY <1>4, <3>1 DEF Recheck, admission, closing, AdmissionTypeOK, QuietAtStop, Drained
  <2>3. \A s \in Requests : Holding(at'[s]) <=> Holding(at[s])
    BY <1>4 DEF Recheck, AdmissionTypeOK, Holding
  <2> QED
    BY <1>4, <2>1, <2>2, <2>3, AdmittedStays DEF Recheck, admission
<1>5. ASSUME NEW out, NEW b, Return(r, out, b) PROVE AdmissionInv'
  <2>1. AdmissionTypeOK' /\ Stopped' /\ QuietAtStop'
    BY <1>5 DEF Return, admission, closing, AdmissionTypeOK, Stopped, Stored, QuietAtStop, Drained
  <2>2. \A s \in Requests : Holding(at'[s]) <=> Holding(at[s])
    BY <1>5 DEF Return, AdmissionTypeOK, Holding
  <2> QED
    BY <1>5, <2>1, <2>2, AdmittedStays DEF Return, admission
<1>6. CASE SubInFlight(r)
  <2>1. PICK a \in {"notify", "out"} : at' = [at EXCEPT ![r] = a]
    BY <1>6 DEF SubInFlight
  <2>2. Holding(at[r]) /\ ~Holding(a)
    BY <1>6 DEF SubInFlight, Holding
  <2>3. Counted' /\ inFlight' \in Nat
    BY <1>6, <2>1, <2>2, AdmittedShrinks DEF SubInFlight
  <2>4. AdmissionTypeOK' /\ Stopped' /\ QuietAtStop'
    BY <1>6, <2>1, <2>3 DEF SubInFlight, closing, AdmissionTypeOK, Stopped, Stored, QuietAtStop, Drained
  <2> QED
    BY <2>3, <2>4
<1>7. CASE NotifyWaiters(r)
  <2>1. AdmissionTypeOK' /\ Stopped' /\ QuietAtStop'
    BY <1>7 DEF NotifyWaiters, admission, AdmissionTypeOK, Stopped, Stored, QuietAtStop, Drained
  <2>2. \A s \in Requests : Holding(at'[s]) <=> Holding(at[s])
    BY <1>7 DEF NotifyWaiters, AdmissionTypeOK, Holding
  <2> QED
    BY <1>7, <2>1, <2>2, AdmittedStays DEF NotifyWaiters, admission
<1>8. ASSUME NEW b, Gate(r, b) \/ Postflight(r, b) \/ Audit(r, b) PROVE AdmissionInv'
  BY <1>1, <1>8 DEF Gate, Postflight, Audit, admission, closing
<1>9. ASSUME NEW out, CallUnadmitted(r) \/ ReturnUnadmitted(r, out) PROVE AdmissionInv'
  BY <1>1, <1>9 DEF CallUnadmitted, ReturnUnadmitted, admission, closing
<1> QED
  BY <1>2, <1>3, <1>4, <1>5, <1>6, <1>7, <1>8, <1>9 DEF RequestStep

\* A closer's steps after its store.
LEMMA CloserAdmission ==
  ASSUME AdmissionInv, NEW c \in Closers, CloserStep(c)
  PROVE  AdmissionInv'
<1> USE DEF AdmissionInv
<1>1. UNCHANGED <<accepting, inFlight, at>>
  BY DEF CloserStep, LoadInFlight, Listen, Lock, CheckResult, FinishShutdown, StopGuard, admission
<1>2. Counted'
  BY <1>1, AdmittedStays
<1>3. CASE LoadInFlight(c)
  <2>1. AdmissionTypeOK' /\ Stopped'
    BY <1>1, <1>3 DEF LoadInFlight, AdmissionTypeOK, Stopped, Stored
  <2>2. QuietAtStop'
    <3>1. CASE inFlight = 0
      BY <1>1, <3>1, NoneRunning DEF QuietAtStop
    <3>2. CASE inFlight # 0
      BY <1>1, <1>3, <3>2 DEF LoadInFlight, AdmissionTypeOK, QuietAtStop, Drained
    <3> QED
      BY <3>1, <3>2
  <2> QED
    BY <1>2, <2>1, <2>2
<1>4. CASE Listen(c) \/ Lock(c) \/ CheckResult(c) \/ FinishShutdown(c)
           \/ \E b \in BOOLEAN : StopGuard(c, b)
  <2>1. AdmissionTypeOK' /\ Stopped'
    BY <1>1, <1>4 DEF Listen, Lock, CheckResult, FinishShutdown, StopGuard,
                      AdmissionTypeOK, Stopped, Stored
  <2>2. \A k \in Closers : Drained(k)' => Drained(k)
    BY <1>4 DEF Listen, Lock, CheckResult, FinishShutdown, StopGuard, AdmissionTypeOK, Drained
  <2> QED
    BY <1>1, <1>2, <2>1, <2>2 DEF QuietAtStop
<1> QED
  BY <1>3, <1>4 DEF CloserStep

\* Every step keeps the invariant.
LEMMA NextAdmission ==
  ASSUME AdmissionInv, [FacadeNext]_facadeVars
  PROVE  AdmissionInv'
<1> USE DEF AdmissionInv, AdmissionTypeOK, Stopped, Stored, QuietAtStop, Drained
<1>1. ASSUME NEW r \in Requests, NEW op, Begin(r, op) PROVE AdmissionInv'
  BY <1>1, AdmittedStays DEF Begin, admission, closing
<1>2. ASSUME NEW c \in Closers, Shutdown(c) PROVE AdmissionInv'
  <2>1. Counted'
    BY <1>2, AdmittedStays DEF Shutdown, admission
  <2> QED
    BY <1>2, <2>1 DEF Shutdown, admission
<1>3. ASSUME NEW c \in Closers, Flush(c) PROVE AdmissionInv'
  <2>1. Counted'
    BY <1>3, AdmittedStays DEF Flush
  <2> QED
    BY <1>3, <2>1 DEF Flush
<1>4. CASE UNCHANGED facadeVars
  BY <1>4, AdmittedStays DEF facadeVars
<1> QED
  BY <1>1, <1>2, <1>3, <1>4, RequestAdmission, CloserAdmission DEF FacadeNext

\* shutdown (facade.rs) never stops a guard under a running admitted call: the
\* two loads of admit and the wait for in_flight = 0 suffice, provided the
\* store of accepting is visible before in_flight is loaded.
THEOREM DrainedIsQuiet == FacadeSpec => []QuietAtStop
<1>1. FacadeInit => AdmissionInv
  BY InitAdmission
<1>2. AdmissionInv /\ [FacadeNext]_facadeVars => AdmissionInv'
  BY NextAdmission
<1>3. AdmissionInv => QuietAtStop
  BY DEF AdmissionInv
<1> QED
  BY <1>1, <1>2, <1>3, PTL DEF FacadeSpec

-----------------------------------------------------------------------------
(* What a request reports.  How far a request has come says whether its port *)
(* was called, and a write that was not cut off carries its success from the *)
(* answer of the port to its reply.                                          *)

Positions == {"out", "add", "recheck", "running", "sub", "notify"}

\* A request q that is at a: only calls of ports are admitted, and what is done
\* was audited if its port was called.
Accounted(q, a) ==
  /\ a # "out" => q.step \in {"restore", "call", "route"} /\ q.op \notin Unadmitted
  /\ q.step \in {"idle", "gate", "restore"} => ~q.begun
  /\ q.step = "done" /\ q.begun => q.audit \/ q.op \in Unaudited \cup {"execute", "complete"}

\* Where a write keeps the success of its port call.
Carried(q) ==
  /\ q.step = "call" => q.out = "ok"
  /\ q.step = "route" => q.good
  /\ q.step = "audit" => q.good \/ q.unrouted
  /\ q.step = "done" => q.reply \in {"ok", "committed"}

Candid(q, a) ==
  q.op = "write" =>
    /\ q.step \in {"call", "route", "audit", "done"}
    /\ q.step = "call" /\ a \notin {"sub", "notify"} => ~q.committed
    /\ q.committed /\ ~q.cut => Carried(q)

RequestInv ==
  /\ req \in [Requests -> Request]
  /\ at \in [Requests -> Positions]
  /\ \A r \in Requests : Accounted(req[r], at[r]) /\ Candid(req[r], at[r])

\* A step that moves one request keeps the invariant of the others.
LEMMA OneRequest ==
  ASSUME RequestInv, NEW r \in Requests, NEW q \in Request, NEW a \in Positions,
         Accounted(q, a), Candid(q, a),
         req' = [req EXCEPT ![r] = q], at' = [at EXCEPT ![r] = a]
  PROVE  RequestInv'
<1>1. req' \in [Requests -> Request] /\ at' \in [Requests -> Positions]
  BY DEF RequestInv
<1>2. \A s \in Requests : req'[s] = (IF s = r THEN q ELSE req[s]) /\ at'[s] = (IF s = r THEN a ELSE at[s])
  BY DEF RequestInv
<1>3. ASSUME NEW s \in Requests PROVE Accounted(req'[s], at'[s]) /\ Candid(req'[s], at'[s])
  <2>1. CASE s = r
    BY <1>2, <2>1
  <2>2. CASE s # r
    BY <1>2, <2>2 DEF RequestInv
  <2> QED
    BY <2>1, <2>2
<1> QED
  BY <1>1, <1>3 DEF RequestInv

\* The end of an operation.
LEMMA ConcludeSound ==
  ASSUME NEW q \in Request, q.step \in {"call", "route", "post"},
         q.op = "write" /\ q.committed /\ ~q.cut => q.good
  PROVE  Conclude(q) \in Request /\ Accounted(Conclude(q), "out") /\ Candid(Conclude(q), "out")
BY DEF Conclude, Reply, Enter, Request, Accounted, Candid, Carried, Unaudited

\* The answer of the port decides where the operation goes on.
LEMMA AfterCallSound ==
  ASSUME NEW q \in Request, q.step = "call",
         q.op = "write" /\ q.committed /\ ~q.cut => q.out = "ok"
  PROVE  AfterCall(q) \in Request /\ Accounted(AfterCall(q), "out") /\ Candid(AfterCall(q), "out")
<1> DEFINE s == [q EXCEPT !.good = (q.out = "ok")]
<1>1. s \in Request /\ s.step = "call" /\ s.op = q.op /\ s.out = q.out
      /\ (s.op = "write" /\ s.committed /\ ~s.cut => s.good)
  BY DEF Request
<1>2. AfterCall(q) =
        CASE s.good /\ s.op = "write" /\ Lifecycle -> Enter(s, "route")
          [] s.good /\ s.op \in Checked -> Enter(s, "post")
          [] ~s.good /\ s.op = "execute" -> Reply(s, "error")
          [] s.out = "timeout" /\ s.op = "complete" -> Reply(s, "error")
          [] OTHER -> Conclude(s)
  BY DEF AfterCall
<1> HIDE DEF s
<1>3. Conclude(s) \in Request /\ Accounted(Conclude(s), "out") /\ Candid(Conclude(s), "out")
  BY <1>1, ConcludeSound
<1>4. CASE s.good /\ s.op = "write" /\ Lifecycle
  <2>1. AfterCall(q) = Enter(s, "route")
    BY <1>2, <1>4 DEF Checked
  <2> QED
    BY <1>1, <1>4, <2>1 DEF Enter, Request, Accounted, Candid, Carried
<1>5. CASE s.good /\ s.op \in Checked
  <2>1. AfterCall(q) = Enter(s, "post")
    BY <1>2, <1>5 DEF Checked
  <2> QED
    BY <1>1, <1>5, <2>1 DEF Enter, Request, Accounted, Candid, Checked
<1>6. CASE \/ ~s.good /\ s.op = "execute"
           \/ s.out = "timeout" /\ s.op = "complete"
  <2>1. AfterCall(q) = Reply(s, "error")
    BY <1>2, <1>6 DEF Checked
  <2> QED
    BY <1>1, <1>6, <2>1 DEF Reply, Request, Accounted, Candid
<1>7. CASE /\ ~(s.good /\ s.op = "write" /\ Lifecycle) /\ ~(s.good /\ s.op \in Checked)
           /\ ~(~s.good /\ s.op = "execute") /\ ~(s.out = "timeout" /\ s.op = "complete")
  <2>1. AfterCall(q) = Conclude(s)
    BY <1>2, <1>7
  <2> QED
    BY <1>3, <2>1
<1> QED
  BY <1>4, <1>5, <1>6, <1>7

\* What follows a call of a port, once its admission is given back.
LEMMA AdvanceSound ==
  ASSUME NEW q \in Request, Accounted(q, "sub"), Candid(q, "sub")
  PROVE  Advance(q) \in Request /\ Accounted(Advance(q), "out") /\ Candid(Advance(q), "out")
<1>1. q.step \in {"restore", "call", "route"}
  BY DEF Accounted
<1>2. CASE q.step = "restore"
  <2>1. Advance(q) = AfterRestore(q)
    BY <1>2 DEF Advance
  <2>2. q.op # "write" /\ ~q.begun
    BY <1>2 DEF Accounted, Candid
  <2>3. CASE q.out = "ok"
    <3>1. Advance(q) = Enter(q, "call")
      BY <2>1, <2>3 DEF AfterRestore
    <3> QED
      BY <2>2, <3>1 DEF Enter, Request, Accounted, Candid
  <2>4. CASE q.out # "ok"
    <3>1. Advance(q) = Reply(q, "error")
      BY <2>1, <2>4 DEF AfterRestore
    <3> QED
      BY <2>2, <3>1 DEF Reply, Request, Accounted, Candid
  <2> QED
    BY <2>3, <2>4
<1>3. CASE q.step = "call"
  <2>1. Advance(q) = AfterCall(q)
    BY <1>3 DEF Advance
  <2>2. q.op = "write" /\ q.committed /\ ~q.cut => q.out = "ok"
    BY <1>3 DEF Candid, Carried
  <2> QED
    BY <1>3, <2>1, <2>2, AfterCallSound
<1>4. CASE q.step = "route"
  <2>1. Advance(q) = AfterRoute(q)
    BY <1>4 DEF Advance
  <2>2. q.op = "write" /\ q.committed /\ ~q.cut => q.good
    BY <1>4 DEF Candid, Carried
  <2>3. CASE q.out = "ok"
    BY <1>4, <2>1, <2>2, <2>3, ConcludeSound DEF AfterRoute
  <2>4. CASE q.out # "ok"
    <3> DEFINE u == [q EXCEPT !.unrouted = TRUE, !.step = "audit"]
    <3>1. Advance(q) = u
      BY <2>1, <2>4 DEF AfterRoute, Enter, Request
    <3>2. u \in Request /\ u.step = "audit" /\ u.unrouted
      BY DEF Request
    <3> QED
      BY <3>1, <3>2 DEF Accounted, Candid, Carried
  <2> QED
    BY <2>3, <2>4
<1> QED
  BY <1>1, <1>2, <1>3, <1>4

LEMMA InitRequests == FacadeInit => RequestInv
<1> SUFFICES ASSUME FacadeInit PROVE RequestInv
  OBVIOUS
<1>1. Idle \in Request /\ Accounted(Idle, "out") /\ Candid(Idle, "out")
  BY FacadeAssumption DEF Idle, Request, Accounted, Candid, AllOps
<1>2. \A r \in Requests : req[r] = Idle /\ at[r] = "out"
  BY DEF FacadeInit
<1>3. req \in [Requests -> Request] /\ at \in [Requests -> Positions]
  BY <1>1 DEF FacadeInit, Positions
<1> QED
  BY <1>1, <1>2, <1>3 DEF RequestInv

\* A request's steps outside `timed`.
LEMMA OutsideTimed ==
  ASSUME RequestInv, NEW r \in Requests, UNCHANGED at,
         \/ \E verdict \in {"allow", "deny", "fail"} : Gate(r, verdict)
         \/ \E b \in BOOLEAN : Postflight(r, b) \/ Audit(r, b)
         \/ CallUnadmitted(r)
         \/ \E out \in Outcomes \ {"refused"} : ReturnUnadmitted(r, out)
  PROVE  RequestInv'
<1> DEFINE q == req[r]
<1>1. q \in Request /\ at[r] \in Positions /\ Accounted(q, at[r]) /\ Candid(q, at[r])
      /\ at' = [at EXCEPT ![r] = at[r]]
  BY DEF RequestInv
<1>2. at[r] = "out"
  BY <1>1 DEF Accounted, Gate, Postflight, Audit, CallUnadmitted, ReturnUnadmitted
<1>3. ASSUME NEW n \in Request, Accounted(n, "out"), Candid(n, "out"), req' = [req EXCEPT ![r] = n]
      PROVE  RequestInv'
  BY <1>1, <1>2, <1>3, OneRequest DEF Positions
<1>4. ASSUME NEW verdict \in {"allow", "deny", "fail"}, Gate(r, verdict) PROVE RequestInv'
  <2>1. q.step = "gate" /\ ~q.begun /\ q.op # "write"
    BY <1>1, <1>4 DEF Gate, Accounted, Candid
  <2>2. PICK n \in {Enter(q, "call"), Enter(q, "audit"), Reply(q, "error")} : req' = [req EXCEPT ![r] = n]
    BY <1>4 DEF Gate
  <2>3. n \in Request /\ Accounted(n, "out") /\ Candid(n, "out")
    BY <1>1, <2>1, <2>2 DEF Enter, Reply, Request, Accounted, Candid
  <2> QED
    BY <1>3, <2>2, <2>3
<1>5. ASSUME NEW b \in BOOLEAN, Postflight(r, b) PROVE RequestInv'
  <2> DEFINE p == [q EXCEPT !.good = b]
  <2>1. p \in Request /\ p.step = "post" /\ p.op # "write"
    BY <1>1, <1>5 DEF Postflight, Request, Candid
  <2>2. req' = [req EXCEPT ![r] = Conclude(p)]
    BY <1>5 DEF Postflight
  <2> HIDE DEF p
  <2>3. Conclude(p) \in Request /\ Accounted(Conclude(p), "out") /\ Candid(Conclude(p), "out")
    BY <2>1, ConcludeSound
  <2> QED
    BY <1>3, <2>2, <2>3
<1>6. ASSUME NEW b \in BOOLEAN, Audit(r, b) PROVE RequestInv'
  <2> DEFINE reply == AuditReply(q, b)
             n == Reply([q EXCEPT !.audit = TRUE], reply)
  <2>1. q.step = "audit" /\ req' = [req EXCEPT ![r] = n]
    BY <1>6 DEF Audit
  <2>2. reply \in {"ok", "error", "committed"}
    BY DEF AuditReply
  <2>3. q.op = "write" /\ q.committed /\ ~q.cut => reply \in {"ok", "committed"}
    BY <1>1, <2>1 DEF AuditReply, Candid, Carried
  <2> HIDE DEF reply
  <2>4. n \in Request /\ n.op = q.op /\ n.step = "done" /\ n.audit /\ n.reply = reply
        /\ n.committed = q.committed /\ n.cut = q.cut
    BY <1>1, <2>2 DEF Reply, Request
  <2>5. Accounted(n, "out") /\ Candid(n, "out")
    BY <2>3, <2>4 DEF Accounted, Candid, Carried
  <2> QED
    BY <1>3, <2>1, <2>4, <2>5
<1>7. CASE CallUnadmitted(r)
  <2> DEFINE n == [q EXCEPT !.begun = TRUE]
  <2>1. q.step = "call" /\ q.op # "write" /\ req' = [req EXCEPT ![r] = n]
    BY <1>7 DEF CallUnadmitted, Unadmitted
  <2>2. n \in Request /\ Accounted(n, "out") /\ Candid(n, "out")
    BY <1>1, <2>1 DEF Request, Accounted, Candid
  <2> QED
    BY <1>3, <2>1, <2>2
<1>8. ASSUME NEW out \in Outcomes \ {"refused"}, ReturnUnadmitted(r, out) PROVE RequestInv'
  <2> DEFINE p == Answered(q, out, FALSE)
  <2>1. q.step = "call" /\ q.op \in Unadmitted /\ req' = [req EXCEPT ![r] = AfterCall(p)]
    BY <1>8 DEF ReturnUnadmitted
  <2>2. p \in Request /\ p.step = "call" /\ p.op # "write"
    BY <1>1, <2>1 DEF Answered, Request, Unadmitted
  <2> HIDE DEF p
  <2>3. AfterCall(p) \in Request /\ Accounted(AfterCall(p), "out") /\ Candid(AfterCall(p), "out")
    BY <2>2, AfterCallSound
  <2> QED
    BY <1>3, <2>1, <2>3
<1> QED
  BY <1>4, <1>5, <1>6, <1>7, <1>8

\* A request's steps inside `timed`.
LEMMA InsideTimed ==
  ASSUME RequestInv, NEW r \in Requests,
         \/ Admit(r) \/ AddInFlight(r) \/ Recheck(r) \/ SubInFlight(r) \/ NotifyWaiters(r)
         \/ \E out \in Outcomes \ {"refused"}, b \in BOOLEAN : Return(r, out, b)
  PROVE  RequestInv'
<1> DEFINE q == req[r]
           refused == [q EXCEPT !.out = "refused"]
<1>1. /\ q \in Request /\ at[r] \in Positions /\ Accounted(q, at[r]) /\ Candid(q, at[r])
      /\ at = [at EXCEPT ![r] = at[r]] /\ req = [req EXCEPT ![r] = q]
  BY DEF RequestInv
<1>2. ASSUME NEW a \in Positions, a # "out", NEW n \in Request, Accounted(n, a), Candid(n, a),
             req' = [req EXCEPT ![r] = n], at' = [at EXCEPT ![r] = a]
      PROVE  RequestInv'
  BY <1>2, OneRequest
<1>3. ASSUME NEW n \in Request, Accounted(n, "sub"), Candid(n, "sub"),
             req' = [req EXCEPT ![r] = Advance(n)], at' = [at EXCEPT ![r] = "out"]
      PROVE  RequestInv'
  BY <1>3, AdvanceSound, OneRequest DEF Positions
<1>4. InCall(r) /\ q.op \notin Unadmitted /\ at[r] \notin {"sub", "notify"}
      => refused \in Request /\ Accounted(refused, "sub") /\ Candid(refused, "sub")
  BY <1>1 DEF InCall, Request, Outcomes, Accounted, Candid, Carried
<1>5. CASE Admit(r)
  <2>1. InCall(r) /\ q.op \notin Unadmitted /\ at[r] = "out"
    BY <1>5 DEF Admit
  <2>2. CASE accepting
    <3>1. at' = [at EXCEPT ![r] = "add"] /\ req' = req
      BY <1>5, <2>2 DEF Admit
    <3>2. Accounted(q, "add") /\ Candid(q, "add")
      BY <1>1, <2>1 DEF InCall, Accounted, Candid
    <3> QED
      BY <1>1, <1>2, <3>1, <3>2 DEF Positions
  <2>3. CASE ~accepting
    <3>1. at' = at /\ req' = [req EXCEPT ![r] = Advance(refused)]
      BY <1>5, <2>3 DEF Admit
    <3>2. at' = [at EXCEPT ![r] = "out"]
      BY <1>1, <2>1, <3>1
    <3> HIDE DEF refused
    <3> QED
      BY <1>3, <1>4, <2>1, <3>1, <3>2
  <2> QED
    BY <2>2, <2>3
<1>6. CASE AddInFlight(r)
  <2>1. at[r] = "add" /\ at' = [at EXCEPT ![r] = "recheck"] /\ req' = req
    BY <1>6 DEF AddInFlight
  <2>2. Accounted(q, "recheck") /\ Candid(q, "recheck")
    BY <1>1, <2>1 DEF Accounted, Candid
  <2> QED
    BY <1>1, <1>2, <2>1, <2>2 DEF Positions
<1>7. CASE Recheck(r)
  <2>1. at[r] = "recheck" /\ InCall(r) /\ q.op \notin Unadmitted
    BY <1>1, <1>7 DEF Recheck, Accounted, InCall
  <2>2. CASE accepting
    <3> DEFINE n == [q EXCEPT !.begun = @ \/ q.step = "call"]
    <3>1. at' = [at EXCEPT ![r] = "running"] /\ req' = [req EXCEPT ![r] = n]
      BY <1>7, <2>2 DEF Recheck
    <3>2. n \in Request /\ n.op = q.op /\ n.step = q.step /\ n.committed = q.committed /\ n.cut = q.cut
          /\ n.out = q.out /\ n.good = q.good /\ n.unrouted = q.unrouted /\ n.reply = q.reply
          /\ (n.begun => q.begun \/ q.step = "call")
      BY <1>1 DEF Request
    <3> HIDE DEF n
    <3>3. Accounted(n, "running") /\ Candid(n, "running")
      BY <1>1, <2>1, <3>2 DEF Accounted, Candid, Carried
    <3> QED
      BY <1>2, <3>1, <3>2, <3>3 DEF Positions
  <2>3. CASE ~accepting
    <3>1. at' = [at EXCEPT ![r] = "sub"] /\ req' = [req EXCEPT ![r] = refused]
      BY <1>7, <2>3 DEF Recheck
    <3> HIDE DEF refused
    <3> QED
      BY <1>2, <1>4, <2>1, <3>1 DEF Positions
  <2> QED
    BY <2>2, <2>3
<1>8. ASSUME NEW out \in Outcomes \ {"refused"}, NEW b \in BOOLEAN, Return(r, out, b) PROVE RequestInv'
  <2> DEFINE n == Answered(q, out, b)
  <2>1. /\ at[r] = "running" /\ at' = [at EXCEPT ![r] = "sub"] /\ req' = [req EXCEPT ![r] = n]
        /\ b \in Effects(q, out)
    BY <1>8 DEF Return
  <2>2. /\ n \in Request /\ n.op = q.op /\ n.step = q.step /\ n.out = out /\ n.good = q.good
        /\ n.unrouted = q.unrouted /\ n.reply = q.reply /\ n.begun = q.begun /\ n.audit = q.audit
        /\ (n.committed <=> q.committed \/ b)
        /\ (n.cut <=> q.cut \/ (q.step = "call" /\ out \in {"cancelled", "timeout"}))
    BY <1>1 DEF Answered, Request
  <2> HIDE DEF n
  <2>3. Accounted(n, "sub")
    BY <1>1, <2>1, <2>2 DEF Accounted
  <2>4. Candid(n, "sub")
    <3> SUFFICES ASSUME n.op = "write", n.committed, ~n.cut PROVE Carried(n)
      BY <1>1, <2>1, <2>2 DEF Candid
    <3>1. q.step \in {"call", "route"} /\ q.op = "write" /\ ~q.cut
      BY <1>1, <2>1, <2>2 DEF Accounted, Candid
    <3>2. CASE q.step = "call"
      <4>1. b /\ out \notin {"cancelled", "timeout"}
        BY <1>1, <2>1, <2>2, <3>1, <3>2 DEF Candid
      <4>2. out # "err"
        BY <2>1, <3>1, <3>2, <4>1 DEF Effects, Durable
      <4> QED
        BY <2>2, <3>2, <4>1, <4>2 DEF Outcomes, Carried
    <3>3. CASE q.step = "route"
      <4>1. ~b
        BY <2>1, <3>3 DEF Effects
      <4> QED
        BY <1>1, <2>2, <3>1, <3>3, <4>1 DEF Candid, Carried
    <3> QED
      BY <3>1, <3>2, <3>3
  <2> QED
    BY <1>2, <2>1, <2>2, <2>3, <2>4 DEF Positions
<1>9. CASE SubInFlight(r) \/ NotifyWaiters(r)
  <2>1. at[r] \in {"sub", "notify"}
    BY <1>9 DEF SubInFlight, NotifyWaiters
  <2>2. \A a \in {"sub", "notify"} : Accounted(q, a) /\ Candid(q, a)
    BY <1>1, <2>1 DEF Accounted, Candid
  <2>3. \/ at' = [at EXCEPT ![r] = "notify"] /\ req' = req
        \/ at' = [at EXCEPT ![r] = "out"] /\ req' = [req EXCEPT ![r] = Advance(q)]
    BY <1>9 DEF SubInFlight, NotifyWaiters
  <2>4. CASE at' = [at EXCEPT ![r] = "notify"] /\ req' = req
    BY <1>1, <1>2, <2>2, <2>4 DEF Positions
  <2>5. CASE at' = [at EXCEPT ![r] = "out"] /\ req' = [req EXCEPT ![r] = Advance(q)]
    BY <1>1, <1>3, <2>2, <2>5
  <2> QED
    BY <2>3, <2>4, <2>5
<1> QED
  BY <1>5, <1>6, <1>7, <1>8, <1>9

\* Every step keeps what the requests report.
LEMMA NextRequests ==
  ASSUME RequestInv, [FacadeNext]_facadeVars
  PROVE  RequestInv'
<1>1. ASSUME UNCHANGED <<req, at>> PROVE RequestInv'
  BY <1>1 DEF RequestInv
<1>2. ASSUME NEW r \in Requests, RequestStep(r) PROVE RequestInv'
  <2>1. CASE UNCHANGED at /\ ~Admit(r)
    BY <1>2, <2>1, OutsideTimed, InsideTimed DEF RequestStep
  <2>2. CASE ~UNCHANGED at \/ Admit(r)
    <3>1. ASSUME NEW v, Gate(r, v) \/ Postflight(r, v) \/ Audit(r, v) \/ ReturnUnadmitted(r, v) \/ CallUnadmitted(r)
          PROVE  UNCHANGED at
      BY <3>1 DEF Gate, Postflight, Audit, ReturnUnadmitted, CallUnadmitted
    <3> QED
      BY <1>2, <2>2, <3>1, InsideTimed DEF RequestStep
  <2> QED
    BY <2>1, <2>2
<1>3. ASSUME NEW r \in Requests, NEW op \in Ops, Begin(r, op) PROVE RequestInv'
  <2> DEFINE n == [Idle EXCEPT !.op = op, !.step = FirstStep(op)]
  <2>1. req' = [req EXCEPT ![r] = n] /\ at[r] = "out" /\ at' = [at EXCEPT ![r] = "out"]
    BY <1>3 DEF Begin, RequestInv, Accounted
  <2>2. FirstStep(op) \in {"gate", "restore", "call"} /\ (op = "write" => FirstStep(op) = "call")
    BY DEF FirstStep, Gated
  <2>3. n \in Request /\ n.op = op /\ n.step = FirstStep(op) /\ ~n.begun /\ ~n.committed
    BY <2>2, FacadeAssumption DEF Idle, Request
  <2> HIDE DEF n
  <2>4. Accounted(n, "out") /\ Candid(n, "out")
    BY <2>2, <2>3 DEF Accounted, Candid
  <2> QED
    BY <2>1, <2>3, <2>4, OneRequest DEF Positions
<1>4. ASSUME NEW c \in Closers, CloserStep(c) \/ Shutdown(c) \/ Flush(c) PROVE RequestInv'
  BY <1>1, <1>4 DEF CloserStep, LoadInFlight, Listen, Lock, CheckResult, FinishShutdown, StopGuard, Shutdown, Flush
<1>5. CASE UNCHANGED facadeVars
  BY <1>1, <1>5 DEF facadeVars
<1> QED
  BY <1>2, <1>3, <1>4, <1>5 DEF FacadeNext

-----------------------------------------------------------------------------
(* What a shutdown reports.  The lock admits one closer at a time to the     *)
(* guards, and the result stays Ok once every guard has been stopped.        *)

AllStopped == \A g \in 1 .. NumGuards : guard[g] >= 1

ClosingTypeOK ==
  /\ started \in 0 .. MaxRequests
  /\ guard \in [1 .. NumGuards -> Nat]
  /\ turn \in [Closers -> 1 .. NumGuards + 1]
  /\ result \in {NULL, "ok", "err"}
  /\ lock \in Closers \cup {NULL}
  /\ shutdowns \in 0 .. MaxShutdowns

ClosingInv ==
  /\ ClosingTypeOK
  /\ \A c \in Closers :
       /\ pc[c] \in {"check", "stop"} => lock = c
       /\ pc[c] = "stop" => result # "ok" /\ \A g \in 1 .. turn[c] - 1 : guard[g] >= 1
       /\ pc[c] = "ok" => result = "ok"
  /\ result = "ok" => AllStopped

LEMMA InitClosing == FacadeInit => ClosingInv
BY FacadeAssumption DEF FacadeInit, ClosingInv, ClosingTypeOK, Outcomes, AllStopped

\* Every step keeps what the closers report.
LEMMA NextClosing ==
  ASSUME AdmissionTypeOK, ClosingInv, [FacadeNext]_facadeVars
  PROVE  ClosingInv'
<1> USE FacadeAssumption DEF AdmissionTypeOK, ClosingInv, ClosingTypeOK, AllStopped
<1>1. ASSUME UNCHANGED <<guard, turn, result, lock>>, started' \in 0 .. MaxRequests, shutdowns' \in 0 .. MaxShutdowns,
             \A c \in Closers : pc'[c] = pc[c] \/ pc'[c] \notin {"check", "stop", "ok"}
      PROVE  ClosingInv'
  BY <1>1
<1>2. ASSUME NEW r \in Requests, RequestStep(r) PROVE ClosingInv'
  BY <1>1, <1>2 DEF RequestStep, Gate, Postflight, Audit, Admit, AddInFlight, Recheck, Return, SubInFlight,
                    NotifyWaiters, CallUnadmitted, ReturnUnadmitted, closing
<1>3. ASSUME NEW r \in Requests, NEW op \in Ops, Begin(r, op) PROVE ClosingInv'
  BY <1>1, <1>3 DEF Begin, closing
<1>4. ASSUME NEW c \in Closers, CloserStep(c) PROVE ClosingInv'
  <2>1. CASE LoadInFlight(c) \/ Listen(c)
    BY <1>1, <2>1 DEF LoadInFlight, Listen
  <2>2. CASE Lock(c)
    BY <2>2 DEF Lock
  <2>3. CASE CheckResult(c)
    BY <2>3 DEF CheckResult
  <2>4. CASE FinishShutdown(c)
    BY <2>4 DEF FinishShutdown
  <2>5. ASSUME NEW b \in BOOLEAN, StopGuard(c, b) PROVE ClosingInv'
    <3>1. CASE b
      <4>1. /\ pc[c] = "stop" /\ turn[c] \in 1 .. NumGuards /\ result # "ok"
            /\ guard' = [guard EXCEPT ![turn[c]] = @ + 1] /\ turn' = [turn EXCEPT ![c] = @ + 1]
            /\ UNCHANGED <<pc, result, lock, started, shutdowns>>
        BY <2>5, <3>1 DEF StopGuard
      <4>2. ClosingTypeOK'
        BY <4>1
      <4>3. \A g \in 1 .. NumGuards : guard[g] >= 1 \/ g = turn[c] => guard'[g] >= 1
        BY <4>1
      <4>4. \A k \in Closers : pc[k] = "stop" => k = c
        BY <4>1
      <4>5. \A g \in 1 .. turn'[c] - 1 : guard'[g] >= 1
        BY <4>1, <4>3
      <4> QED
        BY <4>1, <4>2, <4>4, <4>5
    <3>2. CASE ~b
      BY <2>5, <3>2 DEF StopGuard
    <3> QED
      BY <3>1, <3>2
  <2> QED
    BY <1>4, <2>1, <2>2, <2>3, <2>4, <2>5 DEF CloserStep
<1>5. ASSUME NEW c \in Closers, Shutdown(c) \/ Flush(c) PROVE ClosingInv'
  <2>1. CASE Shutdown(c)
    <3>1. UNCHANGED <<guard, turn, result, lock, started>> /\ shutdowns' \in 0 .. MaxShutdowns
      BY <2>1 DEF Shutdown
    <3>2. \A k \in Closers : pc'[k] = pc[k] \/ pc'[k] = "load"
      BY <2>1 DEF Shutdown
    <3> QED
      BY <1>1, <3>1, <3>2
  <2>2. CASE Flush(c)
    BY <1>1, <2>2 DEF Flush
  <2> QED
    BY <1>5, <2>1, <2>2
<1>6. CASE UNCHANGED facadeVars
  BY <1>1, <1>6 DEF facadeVars
<1> QED
  BY <1>2, <1>3, <1>4, <1>5, <1>6 DEF FacadeNext

-----------------------------------------------------------------------------

FacadeInv == AdmissionInv /\ RequestInv /\ ClosingInv

LEMMA FacadeInvariant == FacadeSpec => []FacadeInv
<1>1. FacadeInit => FacadeInv
  BY InitAdmission, InitRequests, InitClosing DEF FacadeInv
<1>2. FacadeInv /\ [FacadeNext]_facadeVars => FacadeInv'
  BY NextAdmission, NextRequests, NextClosing DEF FacadeInv, AdmissionInv
<1> QED
  BY <1>1, <1>2, PTL DEF FacadeSpec

\* Every variable of the facade (facade.rs) keeps to its type: in particular
\* in_flight, an unsigned counter, is never subtracted from at 0.
THEOREM FacadeTypeCorrect == FacadeSpec => []FacadeTypeOK
<1>1. FacadeInv => FacadeTypeOK
  BY DEF FacadeInv, AdmissionInv, AdmissionTypeOK, RequestInv, ClosingInv, ClosingTypeOK, FacadeTypeOK
<1> QED
  BY <1>1, FacadeInvariant, PTL

\* shutdown returns Ok only after every runtime guard has been stopped, whoever
\* stopped them and whichever call failed before.
THEOREM ShutdownIsHonest == FacadeSpec => []ShutdownHonest
<1>1. FacadeInv => ShutdownHonest
  BY DEF FacadeInv, ClosingInv, AllStopped, ShutdownHonest
<1> QED
  BY <1>1, FacadeInvariant, PTL

\* write answers Ok or CommittedWithPostCommitFailure when the store changed and
\* the call was not cut off, whatever failed after the commit.
THEOREM RepliesAreHonest == FacadeSpec => []HonestReply
<1>1. FacadeInv => HonestReply
  BY DEF FacadeInv, RequestInv, Candid, Carried, HonestReply
<1> QED
  BY <1>1, FacadeInvariant, PTL

\* A port that was called through an audited operation leaves an audit record,
\* whichever step of the operation failed.
THEOREM CallsAreAudited == FacadeSpec => []EveryCallAudited
<1>1. FacadeInv => EveryCallAudited
  BY DEF FacadeInv, RequestInv, Accounted, EveryCallAudited
<1> QED
  BY <1>1, FacadeInvariant, PTL

-----------------------------------------------------------------------------
(* Conflict sessions.  A session keeps the scope it was begun in; bind       *)
(* compares the caller with that scope and not with the binding, so whatever *)
(* the TTL, the eviction and other callers do to a binding between owns and  *)
(* the call of the store, it never names another tenant.                     *)

Doings == [step : {"free", "bind", "evict", "use", "forget"},
           tenant : Tenants \cup {NULL}, session : Sessions \cup {NULL}]

\* Whoever does something does it for a tenant and a session.
Named == \A t \in Tasks : task[t].step # "free" => task[t].tenant \in Tenants /\ task[t].session \in Sessions

\* A binding names the tenant of the session's scope.
OwnersTrue == \A s \in Sessions : owner[s] # NULL => owner[s] = scope[s]

BindingsInv == Named /\ OwnersTrue /\ OwnerOnly

LEMMA InitBindings == BindingsInit => BindingsInv
BY BindingsAssumption DEF BindingsInit, BindingsInv, Named, OwnersTrue, OwnerOnly, BindingsTypeOK, Free, Bound

\* t goes on to q; scopes stay as they are where they are known.
LEMMA TaskOwns ==
  ASSUME BindingsInv, NEW t \in Tasks, NEW q \in Doings, task' = [task EXCEPT ![t] = q],
         q.step # "free" => q.tenant \in Tenants /\ q.session \in Sessions,
         q.step \in {"use", "forget"} => scope'[q.session] = q.tenant,
         \A s \in Sessions : scope[s] # NULL => scope'[s] = scope[s]
  PROVE  /\ task' \in [Tasks -> Doings] /\ Named'
         /\ \A u \in Tasks : task'[u].step \in {"use", "forget"} => scope'[task'[u].session] = task'[u].tenant
<1>1. task \in [Tasks -> Doings]
  BY DEF BindingsInv, OwnerOnly, BindingsTypeOK, Doings
<1>2. \A u \in Tasks : task'[u] = IF u = t THEN q ELSE task[u]
  BY <1>1
<1>3. ASSUME NEW u \in Tasks, u # t, task[u].step \in {"use", "forget"}
      PROVE  scope'[task[u].session] = task[u].tenant
  BY <1>3, BindingsAssumption DEF BindingsInv, OwnerOnly, Named
<1> QED
  BY <1>1, <1>2, <1>3 DEF BindingsInv, Named

LEMMA DoingIs ==
  ASSUME NEW step \in {"bind", "evict", "use", "forget"}, NEW n \in Tenants, NEW s \in Sessions
  PROVE  /\ Doing(step, n, s) \in Doings /\ Doing(step, n, s).step = step
         /\ Doing(step, n, s).tenant = n /\ Doing(step, n, s).session = s
         /\ Free \in Doings /\ Free.step = "free"
BY DEF Doing, Doings, Free

LEMMA FreeIs == Free \in Doings /\ Free.step = "free"
BY DEF Doings, Free

\* The bindings stay.
LEMMA BindingsStay ==
  ASSUME BindingsInv, UNCHANGED <<owner, expired>>,
         \A s \in Sessions : scope[s] # NULL => scope'[s] = scope[s]
  PROVE  OwnersTrue' /\ owner' \in [Sessions -> Tenants \cup {NULL}] /\ expired' \subseteq Bound'
<1>1. owner \in [Sessions -> Tenants \cup {NULL}] /\ expired \subseteq Bound
  BY DEF BindingsInv, OwnerOnly, BindingsTypeOK
<1>2. ASSUME NEW s \in Sessions, owner[s] # NULL PROVE owner[s] = scope'[s]
  BY <1>2 DEF BindingsInv, OwnersTrue
<1> QED
  BY <1>1, <1>2 DEF OwnersTrue, Bound

-----------------------------------------------------------------------------

LEMMA CallStep ==
  ASSUME BindingsInv, NEW t \in Tasks, NEW n \in Tenants, NEW s \in Sessions,
         (\E ok \in BOOLEAN : BeginConflict(t, n, s, ok)) \/ Load(t, n, s) \/ Owns(t, n, s)
  PROVE  BindingsInv'
<1>a. BindingsTypeOK
  BY DEF BindingsInv, OwnerOnly
<1>1. CASE \E ok \in BOOLEAN : BeginConflict(t, n, s, ok)
  <2>1. PICK ok \in BOOLEAN : BeginConflict(t, n, s, ok)
    BY <1>1
  <2>2. /\ scope[s] = NULL /\ scope' = [scope EXCEPT ![s] = n] /\ live' = live \cup {s}
        /\ UNCHANGED <<owner, expired, mutex>>
        /\ task' = [task EXCEPT ![t] = Doing("bind", n, s)] \/ task' = [task EXCEPT ![t] = Free]
    BY <2>1 DEF BeginConflict
  <2>3. /\ scope' \in [Sessions -> Tenants \cup {NULL}]
        /\ \A x \in Sessions : scope'[x] = IF x = s THEN n ELSE scope[x]
    BY <1>a, <2>2 DEF BindingsTypeOK
  <2>4. \A x \in Sessions : scope[x] # NULL => scope'[x] = scope[x]
    BY <2>2, <2>3
  <2>5. live' \subseteq {x \in Sessions : scope'[x] # NULL}
    BY <1>a, <2>2, <2>3, BindingsAssumption DEF BindingsTypeOK
  <2>6. OwnersTrue' /\ owner' \in [Sessions -> Tenants \cup {NULL}] /\ expired' \subseteq Bound'
    BY <2>2, <2>4, BindingsStay
  <2>7. /\ task' \in [Tasks -> Doings] /\ Named'
        /\ \A u \in Tasks : task'[u].step \in {"use", "forget"} => scope'[task'[u].session] = task'[u].tenant
    <3>1. CASE task' = [task EXCEPT ![t] = Doing("bind", n, s)]
      <4>1. PICK q : q = Doing("bind", n, s)
        OBVIOUS
      <4>2. q \in Doings /\ q.step = "bind" /\ q.tenant = n /\ q.session = s
        BY <4>1, DoingIs
      <4>3. task' = [task EXCEPT ![t] = q]
        BY <3>1, <4>1
      <4> QED
        BY <2>4, <4>2, <4>3, TaskOwns
    <3>2. CASE task' = [task EXCEPT ![t] = Free]
      BY <2>4, <3>2, FreeIs, TaskOwns
    <3> QED
      BY <2>2, <3>1, <3>2
  <2> QED
    BY <1>a, <2>2, <2>3, <2>5, <2>6, <2>7 DEF BindingsInv, OwnerOnly, BindingsTypeOK, Doings
<1>2. CASE Load(t, n, s) \/ Owns(t, n, s)
  <2>1. UNCHANGED <<scope, live, owner, expired, mutex>>
    BY <1>2 DEF Load, Owns
  <2>2. \/ task' = [task EXCEPT ![t] = Doing("bind", n, s)]
        \/ task' = [task EXCEPT ![t] = Doing("use", n, s)] /\ scope[s] = n
    BY <1>2, BindingsAssumption DEF Load, Owns, BindingsInv, OwnersTrue
  <2>3. /\ task' \in [Tasks -> Doings] /\ Named'
        /\ \A u \in Tasks : task'[u].step \in {"use", "forget"} => scope'[task'[u].session] = task'[u].tenant
    <3>1. CASE task' = [task EXCEPT ![t] = Doing("bind", n, s)]
      <4>1. PICK q : q = Doing("bind", n, s)
        OBVIOUS
      <4>2. q \in Doings /\ q.step = "bind" /\ q.tenant = n /\ q.session = s
        BY <4>1, DoingIs
      <4>3. task' = [task EXCEPT ![t] = q]
        BY <3>1, <4>1
      <4> QED
        BY <2>1, <4>2, <4>3, TaskOwns
    <3>2. CASE task' = [task EXCEPT ![t] = Doing("use", n, s)] /\ scope[s] = n
      <4>1. PICK q : q = Doing("use", n, s)
        OBVIOUS
      <4>2. q \in Doings /\ q.step = "use" /\ q.tenant = n /\ q.session = s
        BY <4>1, DoingIs
      <4>3. task' = [task EXCEPT ![t] = q]
        BY <3>2, <4>1
      <4>4. scope'[q.session] = q.tenant /\ \A x \in Sessions : scope[x] # NULL => scope'[x] = scope[x]
        BY <2>1, <3>2, <4>2
      <4> QED
        BY <4>2, <4>3, <4>4, TaskOwns
    <3> QED
      BY <2>2, <3>1, <3>2
  <2>4. OwnersTrue' /\ owner' \in [Sessions -> Tenants \cup {NULL}] /\ expired' \subseteq Bound'
    BY <2>1, BindingsStay
  <2> QED
    BY <1>a, <2>1, <2>3, <2>4 DEF BindingsInv, OwnerOnly, BindingsTypeOK, Doings
<1> QED
  BY <1>1, <1>2

\* bind: the tenant that is bound is the one of the session's scope, and every
\* binding that stays is as it was.
LEMMA BindStep ==
  ASSUME BindingsInv, NEW t \in Tasks, Bind(t)
  PROVE  BindingsInv'
<1>a. BindingsTypeOK /\ task[t] \in Doings
  BY DEF BindingsInv, OwnerOnly, BindingsTypeOK, Doings
<1>1. PICK n \in Tenants, s \in Sessions : n = task[t].tenant /\ s = task[t].session
  BY DEF Bind, BindingsInv, Named
<1>2. scope' = scope /\ live' = live
  BY DEF Bind
<1>3. CASE MayBind(n, s)
  <2>1. /\ owner' = [x \in Sessions |-> IF x = s THEN n ELSE IF x \in Bound \ expired THEN owner[x] ELSE NULL]
        /\ expired' = {} /\ mutex' = t /\ task' = [task EXCEPT ![t].step = "evict"]
    BY <1>1, <1>3 DEF Bind
  <2>2. owner' \in [Sessions -> Tenants \cup {NULL}] /\ OwnersTrue'
    BY <1>a, <1>2, <1>3, <2>1 DEF BindingsTypeOK, BindingsInv, OwnersTrue, MayBind
  <2>3. PICK q : q = [task[t] EXCEPT !.step = "evict"]
    OBVIOUS
  <2>4. q \in Doings /\ q.step = "evict" /\ q.tenant = n /\ q.session = s
    BY <1>a, <1>1, <2>3 DEF Doings
  <2>5. /\ task' \in [Tasks -> Doings] /\ Named'
        /\ \A u \in Tasks : task'[u].step \in {"use", "forget"} => scope'[task'[u].session] = task'[u].tenant
    BY <1>2, <2>1, <2>3, <2>4, TaskOwns
  <2> QED
    BY <1>a, <1>2, <2>1, <2>2, <2>5 DEF BindingsInv, OwnerOnly, BindingsTypeOK, Doings
<1>4. CASE ~MayBind(n, s)
  <2>1. task' = [task EXCEPT ![t] = Free] /\ UNCHANGED <<owner, expired, mutex>>
    BY <1>1, <1>4 DEF Bind
  <2>2. /\ task' \in [Tasks -> Doings] /\ Named'
        /\ \A u \in Tasks : task'[u].step \in {"use", "forget"} => scope'[task'[u].session] = task'[u].tenant
    BY <1>2, <2>1, FreeIs, TaskOwns
  <2>3. OwnersTrue' /\ owner' \in [Sessions -> Tenants \cup {NULL}] /\ expired' \subseteq Bound'
    BY <1>2, <2>1, BindingsStay
  <2> QED
    BY <1>a, <1>2, <2>1, <2>2, <2>3 DEF BindingsInv, OwnerOnly, BindingsTypeOK, Doings
<1> QED
  BY <1>3, <1>4

\* The steps that take bindings away.
LEMMA DropStep ==
  ASSUME BindingsInv,
         (\E t \in Tasks : Evict(t) \/ FinishBind(t) \/ Forget(t)) \/ \E s \in Sessions : ExpireBinding(s)
  PROVE  BindingsInv'
<1>a. BindingsTypeOK
  BY DEF BindingsInv, OwnerOnly
<1>b. ASSUME NEW id, owner' = [owner EXCEPT ![id] = NULL], expired' = expired \ {id}, scope' = scope
      PROVE  OwnersTrue' /\ owner' \in [Sessions -> Tenants \cup {NULL}] /\ expired' \subseteq Bound'
  <2>1. owner' \in [Sessions -> Tenants \cup {NULL}]
    BY <1>a, <1>b DEF BindingsTypeOK
  <2>2. \A s \in Sessions : owner'[s] = IF s = id THEN NULL ELSE owner[s]
    BY <1>a, <1>b DEF BindingsTypeOK
  <2> QED
    BY <1>a, <1>b, <2>1, <2>2 DEF BindingsTypeOK, Bound, BindingsInv, OwnersTrue
<1>c. ASSUME NEW t \in Tasks, task' = [task EXCEPT ![t] = Free], scope' = scope
      PROVE  /\ task' \in [Tasks -> Doings] /\ Named'
             /\ \A u \in Tasks : task'[u].step \in {"use", "forget"} => scope'[task'[u].session] = task'[u].tenant
  BY <1>c, FreeIs, TaskOwns
<1>1. ASSUME NEW t \in Tasks, Evict(t) PROVE BindingsInv'
  <2>1. UNCHANGED <<scope, live, mutex, task>>
    BY <1>1 DEF Evict
  <2>2. OwnersTrue' /\ owner' \in [Sessions -> Tenants \cup {NULL}] /\ expired' \subseteq Bound'
    <3>1. CASE order = <<>>
      <4>1. UNCHANGED <<owner, expired>>
        BY <1>1, <3>1 DEF Evict
      <4> QED
        BY <2>1, <4>1, BindingsStay
    <3>2. CASE order # <<>>
      <4>1. owner' = [owner EXCEPT ![Head(order)] = NULL] /\ expired' = expired \ {Head(order)}
        BY <1>1, <3>2 DEF Evict
      <4> QED
        BY <1>b, <2>1, <4>1
    <3> QED
      BY <3>1, <3>2
  <2> QED
    BY <1>a, <2>1, <2>2 DEF BindingsInv, OwnerOnly, BindingsTypeOK, Named
<1>2. ASSUME NEW t \in Tasks, FinishBind(t) PROVE BindingsInv'
  <2>1. UNCHANGED <<scope, live, owner, expired>> /\ mutex' = NULL /\ task' = [task EXCEPT ![t] = Free]
    BY <1>2 DEF FinishBind
  <2>2. OwnersTrue' /\ owner' \in [Sessions -> Tenants \cup {NULL}] /\ expired' \subseteq Bound'
    BY <2>1, BindingsStay
  <2> QED
    BY <1>a, <1>c, <2>1, <2>2 DEF BindingsInv, OwnerOnly, BindingsTypeOK, Doings
<1>3. ASSUME NEW t \in Tasks, Forget(t) PROVE BindingsInv'
  <2>1. UNCHANGED <<scope, live, mutex>> /\ task' = [task EXCEPT ![t] = Free]
        /\ owner' = [owner EXCEPT ![task[t].session] = NULL] /\ expired' = expired \ {task[t].session}
    BY <1>3 DEF Forget
  <2>2. OwnersTrue' /\ owner' \in [Sessions -> Tenants \cup {NULL}] /\ expired' \subseteq Bound'
    BY <1>b, <2>1
  <2> QED
    BY <1>a, <1>c, <2>1, <2>2 DEF BindingsInv, OwnerOnly, BindingsTypeOK, Doings
<1>4. ASSUME NEW s \in Sessions, ExpireBinding(s) PROVE BindingsInv'
  <2>1. UNCHANGED <<scope, live, owner, mutex, task>> /\ expired' = expired \cup {s} /\ s \in Bound
    BY <1>4 DEF ExpireBinding
  <2>2. expired' \subseteq Bound'
    BY <1>a, <2>1 DEF BindingsTypeOK, Bound
  <2> QED
    BY <1>a, <2>1, <2>2 DEF BindingsInv, OwnerOnly, BindingsTypeOK, Named, OwnersTrue
<1> QED
  BY <1>1, <1>2, <1>3, <1>4

LEMMA UseStep ==
  ASSUME BindingsInv, NEW t \in Tasks, NEW ended \in BOOLEAN, NEW ok \in BOOLEAN, Use(t, ended, ok)
  PROVE  BindingsInv'
<1>a. BindingsTypeOK /\ task[t] \in Doings
  BY DEF BindingsInv, OwnerOnly, BindingsTypeOK, Doings
<1>1. UNCHANGED <<scope, owner, expired, mutex>> /\ live' \subseteq live /\ task[t].step = "use"
  BY DEF Use
<1>2. task' = [task EXCEPT ![t] = [@ EXCEPT !.step = "forget"]] \/ task' = [task EXCEPT ![t] = Free]
  BY DEF Use
<1>3. /\ task' \in [Tasks -> Doings] /\ Named'
      /\ \A u \in Tasks : task'[u].step \in {"use", "forget"} => scope'[task'[u].session] = task'[u].tenant
  <2>1. CASE task' = [task EXCEPT ![t] = [@ EXCEPT !.step = "forget"]]
    <3>1. PICK q : q = [task[t] EXCEPT !.step = "forget"]
      OBVIOUS
    <3>2. q \in Doings /\ q.step = "forget" /\ q.tenant = task[t].tenant /\ q.session = task[t].session
      BY <1>a, <3>1 DEF Doings
    <3>3. q.tenant \in Tenants /\ q.session \in Sessions /\ scope'[q.session] = q.tenant
      BY <1>1, <3>2 DEF BindingsInv, OwnerOnly, Named
    <3> QED
      BY <1>1, <2>1, <3>1, <3>2, <3>3, TaskOwns
  <2>2. CASE task' = [task EXCEPT ![t] = Free]
    BY <1>1, <2>2, FreeIs, TaskOwns
  <2> QED
    BY <1>2, <2>1, <2>2
<1>4. OwnersTrue' /\ owner' \in [Sessions -> Tenants \cup {NULL}] /\ expired' \subseteq Bound'
  BY <1>1, BindingsStay
<1> QED
  BY <1>a, <1>1, <1>3, <1>4 DEF BindingsInv, OwnerOnly, BindingsTypeOK, Doings

LEMMA NextBindings ==
  ASSUME BindingsInv, [BindingsNext]_bindVars
  PROVE  BindingsInv'
<1>1. CASE UNCHANGED bindVars
  BY <1>1 DEF bindVars, BindingsInv, Named, OwnersTrue, OwnerOnly, BindingsTypeOK, Bound
<1>2. CASE BindingsNext
  BY <1>2, CallStep, BindStep, DropStep, UseStep DEF BindingsNext, TaskStep
<1> QED
  BY <1>1, <1>2

\* A session is continued, aborted and forgotten only for the tenant in whose
\* scope it was begun: owns is checked and the store called later, and in between
\* the binding may have expired, gone, or been made again by another caller.
THEOREM OnlyOwnersUse == BindingsSpec => []OwnerOnly
<1>1. BindingsInv => OwnerOnly
  BY DEF BindingsInv
<1> QED
  BY <1>1, InitBindings, NextBindings, PTL DEF BindingsSpec

=============================================================================
