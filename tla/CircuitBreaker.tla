---------------------------- MODULE CircuitBreaker ----------------------------
(***************************************************************************)
(* The crash-window columns of the services table and the statements that  *)
(* read and write them: the reconciler's two-step update (steps 1 and 1a), *)
(* its auto-recovery (step 1b) and the reset endpoint. Whether a container *)
(* is found exited or unhealthy is the environment's choice here; module   *)
(* Reconciler decides it from the containers.                              *)
(***************************************************************************)
EXTENDS Naturals, FiniteSets, Sequences

CONSTANTS
  Services, TenantOf, None,
  Threshold,              \* 5 crashes
  Window,                 \* 600 seconds
  RetryBackoff(_),        \* circuitRetryBackoff
  MaxClock, MaxCrashes    \* bounds: last instant, crashes recorded per service

ASSUME BreakerAssumption ==
  /\ None \notin Nat /\ {Threshold, Window, MaxClock, MaxCrashes} \subseteq Nat
  /\ Window > 0
  /\ \A n \in 1 .. 3 : RetryBackoff(n) \in Nat

VARIABLES
  now,
  svc,     \* the columns of each row
  tick,    \* the reconciler's tick
  log      \* history: instants of the crashes recorded since the last reset

vars == <<now, svc, tick, log>>

Columns == [status: {"running", "crashed", "stopped"},
            window: Nat \cup {None},      \* crash_window_start
            count: Nat,                   \* crash_count
            open: BOOLEAN,                \* circuit_open
            retryAt: Nat \cup {None},     \* circuit_retry_at
            openCount: Nat]               \* circuit_open_count

Tick == [pc: {"idle", "exited", "unhealthy", "recover"},
         todo: SUBSET Services,           \* rows of runningServices to visit
         list: SUBSET Services,           \* runningServices
         hit: Services \cup {None}]       \* row between the two statements

IdleTick == [pc |-> "idle", todo |-> {}, list |-> {}, hit |-> None]

\* A new row, or one whose circuit an earlier release opened.
Init ==
  /\ now = 0
  /\ svc \in [Services ->
       {[status |-> "running", window |-> None, count |-> 0, open |-> FALSE,
         retryAt |-> None, openCount |-> 0]}
       \cup
       {[status |-> "crashed", window |-> None, count |-> 0, open |-> TRUE,
         retryAt |-> r, openCount |-> 1] : r \in {None, 1}}]
  /\ tick = IdleTick
  /\ log = [s \in Services |-> <<>>]

ClockTicks ==
  /\ now < MaxClock /\ now' = now + 1
  /\ UNCHANGED <<svc, tick, log>>

\* A deploy or a start writes 'running'. Start and Restart refuse an open
\* circuit, DeployImage does not look at it.
ServiceRuns(s) ==
  /\ svc[s].status # "running"
  /\ svc' = [svc EXCEPT ![s].status = "running"]
  /\ UNCHANGED <<now, tick, log>>

SelectRunning ==
  /\ tick.pc = "idle"
  /\ LET running == {s \in Services : svc[s].status = "running"} IN
     tick' = [pc |-> "exited", todo |-> running, list |-> running, hit |-> None]
  /\ UNCHANGED <<now, svc, log>>

\* Mutant of RecordCrash: the window is one instant too long.
RecordCrashLate(r, t) ==
  LET fresh == r.window = None \/ t - r.window > Window IN
  [r EXCEPT !.status = "crashed",
            !.window = IF fresh THEN t ELSE @,
            !.count = IF fresh THEN 1 ELSE @ + 1]

\* Step 1 of the update. SQLite evaluates both CASEs on the old row.
RecordCrash(r, t) ==
  LET fresh == r.window = None \/ t - r.window >= Window IN
  [r EXCEPT !.status = "crashed",
            !.window = IF fresh THEN t ELSE @,
            !.count = IF fresh THEN 1 ELSE @ + 1]

\* The row is found down (step 1) or unhealthy and stopped (step 1a).
CrashSeen(s) ==
  /\ tick.pc \in {"exited", "unhealthy"} /\ tick.hit = None /\ s \in tick.todo
  /\ Len(log[s]) < MaxCrashes
  /\ svc' = [svc EXCEPT ![s] = RecordCrash(@, now)]
  /\ log' = [log EXCEPT ![s] = Append(@, now)]
  /\ tick' = [tick EXCEPT !.hit = s]
  /\ UNCHANGED now

\* The row is found well, or an error skips it.
NothingSeen(s) ==
  /\ tick.pc \in {"exited", "unhealthy"} /\ tick.hit = None /\ s \in tick.todo
  /\ tick' = [tick EXCEPT !.todo = @ \ {s}]
  /\ UNCHANGED <<now, svc, log>>

\* Step 2 of the update has seven placeholders and is given eight arguments.
\* The driver binds the first seven in order: the sixth, the row's id, gets the
\* time, the seventh, its tenant, gets the id.
Arguments(s) ==
  <<now, now, now, now, now + RetryBackoff(1), now, s, TenantOf[s]>>

\* crash_count >= 5 and the window still open at t.
Trips(r, t) == /\ r.count >= Threshold /\ r.window # None
               /\ t - r.window < Window

Evaluate(r, a) ==
  [r EXCEPT
     !.open = Trips(r, a[1])
              \/ (@ /\ ~(r.window # None /\ a[2] - r.window >= Window)),
     !.retryAt = IF Trips(r, a[3]) THEN a[4] ELSE @,
     !.openCount = IF Trips(r, a[5]) THEN @ + 1 ELSE @]

EvaluateCircuit ==
  /\ tick.hit # None
  /\ LET a == Arguments(tick.hit) IN
     svc' = [s \in Services |->
               IF s = a[6] /\ TenantOf[s] = a[7] THEN Evaluate(svc[s], a) ELSE svc[s]]
  /\ tick' = [tick EXCEPT !.todo = @ \ {tick.hit}, !.hit = None]
  /\ UNCHANGED <<now, log>>

\* The unhealthy pass walks the list of the first pass again.
NextPass ==
  /\ tick.pc \in {"exited", "unhealthy"} /\ tick.hit = None /\ tick.todo = {}
  /\ tick' = IF tick.pc = "exited"
               THEN [tick EXCEPT !.pc = "unhealthy", !.todo = tick.list]
               ELSE [IdleTick EXCEPT !.pc = "recover"]
  /\ UNCHANGED <<now, svc, log>>

\* Mutant of Closed: crash_count is set to NULL.
ClosedNull(r, retry) == [r EXCEPT !.open = FALSE, !.count = None, !.window = None,
                                  !.retryAt = retry, !.status = "stopped"]

Closed(r, retry) == [r EXCEPT !.open = FALSE, !.count = 0, !.window = None,
                              !.retryAt = retry, !.status = "stopped"]

Due(s) == svc[s].open /\ svc[s].retryAt # None /\ svc[s].retryAt <= now

\* 1b.
AutoRecover ==
  /\ tick.pc = "recover"
  /\ svc' = [s \in Services |-> IF Due(s) THEN Closed(svc[s], None) ELSE svc[s]]
  /\ log' = [s \in Services |-> IF Due(s) THEN <<>> ELSE log[s]]
  /\ tick' = IdleTick
  /\ UNCHANGED now

\* ResetCircuitBreaker: circuit_retry_at stays.
ResetCircuitBreaker(s) ==
  /\ svc' = [svc EXCEPT ![s] = Closed(@, svc[s].retryAt)]
  /\ log' = [log EXCEPT ![s] = <<>>]
  /\ UNCHANGED <<now, tick>>

Next ==
  \/ ClockTicks \/ SelectRunning \/ EvaluateCircuit \/ NextPass \/ AutoRecover
  \/ \E s \in Services :
       ServiceRuns(s) \/ CrashSeen(s) \/ NothingSeen(s) \/ ResetCircuitBreaker(s)

Spec == Init /\ [][Next]_vars

----------------------------------------------------------------------------
TypeOK ==
  /\ now \in Nat
  /\ svc \in [Services -> Columns]
  /\ tick \in Tick
  /\ log \in [Services -> Seq(Nat)]

\* crash_count is the number of crashes recorded in the 600 seconds that begin
\* at crash_window_start, whatever resets, recoveries and new windows came
\* before: the counter agrees with the history it summarises.
CountIsCrashesInWindow ==
  \A s \in Services :
    svc[s].count =
      Cardinality({i \in DOMAIN log[s] :
                     /\ svc[s].window # None /\ svc[s].window <= log[s][i]
                     /\ log[s][i] < svc[s].window + Window})

\* README: "5 crashes in 10 minutes stops restarting". Once a tick is over, a
\* row that counted Threshold crashes in one window has its circuit open.
CrashLoopOpensCircuit ==
  tick.pc = "idle" => \A s \in Services : svc[s].count >= Threshold => svc[s].open
=============================================================================
