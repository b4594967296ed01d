------------------------------ MODULE Reconciler ------------------------------
(***************************************************************************)
(* internal/reconciler, the parts of reconcileOnce that act on services:   *)
(* steps 1 (crashes), 1a (unhealthy), 1b (circuit recovery), 2 (stale      *)
(* deploys). Step 3 acts on databases and step 4 only logs.                *)
(* The statement that should open the circuit (step 2 of the two-step      *)
(* update) binds the timestamp to its WHERE id and so changes no row: see  *)
(* module CircuitBreaker, which also holds the crash-window columns.       *)
(***************************************************************************)
EXTENDS PaasState

CONSTANT Reconciling      \* whether this instance runs the loop

VARIABLE rec

Pairs == Services \X Containers

ReconcilerPcs == {"idle", "rows", "check", "mark", "kill", "health", "stop",
                  "markUnhealthy", "drop", "recover", "recovering", "stale"}

ReconcilerState ==
  [pc: ReconcilerPcs,
   listed: SUBSET Containers,      \* containerSet
   todo: SUBSET Pairs,             \* runningServices still to check
   unwell: SUBSET Pairs,           \* runningServices still to health-check
   due: SUBSET Services,           \* toRecover
   svc: Services \cup {None}, box: Containers \cup {None}]

IdleReconciler == [pc |-> "idle", listed |-> {}, todo |-> {}, unwell |-> {},
                   due |-> {}, svc |-> None, box |-> None]

InPc(l) == rec.pc = l

Step(l) == rec' = [rec EXCEPT !.pc = l]

ListContainers ==
  /\ Reconciling /\ InPc("idle")
  /\ rec' = [IdleReconciler EXCEPT !.pc = "rows", !.listed = Existing]
  /\ UNCHANGED stateVars

\* SELECT ... WHERE status = 'running' AND container_id != ''
SelectRunning ==
  /\ InPc("rows")
  /\ LET running == {p \in Pairs : /\ row[p[1]].status = "running"
                                   /\ row[p[1]].container = p[2]}
     IN rec' = [rec EXCEPT !.pc = "check", !.todo = running, !.unwell = running]
  /\ UNCHANGED stateVars

\* Mutant of SeenDown: "no such container" is one more inspect error to skip.
SeenExited(c) == Exists(c) /\ box[c].st = "exited"

\* A container the list lacked must be definitively gone; one the list had
\* must be seen exited. Any other error skips the service.
SeenDown(c) == \/ c \notin rec.listed /\ ~Exists(c)
               \/ Exists(c) /\ box[c].st = "exited"

InspectNext ==
  /\ InPc("check")
  /\ \/ rec.todo = {} /\ Step("health") /\ UNCHANGED faults
     \/ \E p \in rec.todo :
          \/ /\ SeenDown(p[2])
             /\ rec' = [rec EXCEPT !.pc = "mark", !.todo = @ \ {p},
                                   !.svc = p[1], !.box = p[2]]
             /\ UNCHANGED faults
          \/ /\ ~SeenDown(p[2])
             /\ rec' = [rec EXCEPT !.todo = @ \ {p}] /\ UNCHANGED faults
          \/ Fault /\ rec' = [rec EXCEPT !.todo = @ \ {p}]
  /\ UNCHANGED <<now, tenant, row, box>>

\* UPDATE ... SET status = 'crashed' WHERE id = ? AND tenant_id = ?, then the
\* read of circuit_open. Neither looks at the status or the container_id again.
MarkCrashed ==
  /\ InPc("mark")
  /\ \/ /\ SetStatus(rec.svc, "crashed")
        /\ Step(IF HasRow(rec.svc) /\ row[rec.svc].circuitOpen THEN "kill" ELSE "check")
        /\ UNCHANGED faults
     \/ Fault /\ Step("check") /\ UNCHANGED row
  /\ UNCHANGED <<now, tenant, box>>

KillCrashed ==
  /\ InPc("kill")
  /\ StopAndRemove(rec.box)
  /\ Step("check")
  /\ UNCHANGED <<now, tenant, row>>

\* 1a: the same list again, inspected for health.
HealthNext ==
  /\ InPc("health")
  /\ \/ rec.unwell = {} /\ Step("recover") /\ UNCHANGED faults
     \/ \E p \in rec.unwell :
          LET sick == Exists(p[2]) /\ box[p[2]].unhealthy IN
          \/ /\ sick
             /\ rec' = [rec EXCEPT !.pc = "stop", !.unwell = @ \ {p},
                                   !.svc = p[1], !.box = p[2]]
             /\ UNCHANGED faults
          \/ ~sick /\ rec' = [rec EXCEPT !.unwell = @ \ {p}] /\ UNCHANGED faults
          \/ Fault /\ rec' = [rec EXCEPT !.unwell = @ \ {p}]
  /\ UNCHANGED <<now, tenant, row, box>>

StopUnhealthy ==
  /\ InPc("stop")
  /\ \/ Exists(rec.box) /\ StopBox(rec.box) /\ Step("markUnhealthy") /\ UNCHANGED faults
     \/ ~Exists(rec.box) /\ Step("health") /\ UNCHANGED <<box, faults>>
     \/ Fault /\ Step("health") /\ UNCHANGED box
  /\ UNCHANGED <<now, tenant, row>>

MarkUnhealthy ==
  /\ InPc("markUnhealthy")
  /\ \/ /\ SetStatus(rec.svc, "crashed")
        /\ Step(IF HasRow(rec.svc) /\ row[rec.svc].circuitOpen THEN "drop" ELSE "health")
        /\ UNCHANGED faults
     \/ Fault /\ Step("health") /\ UNCHANGED row
  /\ UNCHANGED <<now, tenant, box>>

DropUnhealthy ==
  /\ InPc("drop")
  /\ TryRemove(rec.box)
  /\ Step("health")
  /\ UNCHANGED <<now, tenant, row>>

\* Mutant of SelectRecoverable: only rows still marked crashed.
SelectCrashedRecoverable ==
  /\ InPc("recover")
  /\ rec' = [rec EXCEPT !.pc = "recovering", !.due =
       {s \in Services : /\ row[s].status = "crashed" /\ row[s].circuitOpen
                         /\ row[s].retryAt # None /\ row[s].retryAt <= now}]
  /\ UNCHANGED stateVars

\* 1b: circuits whose retry time has come.
SelectRecoverable ==
  /\ InPc("recover")
  /\ rec' = [rec EXCEPT !.pc = "recovering", !.due =
       {s \in Services : /\ HasRow(s) /\ row[s].circuitOpen
                         /\ row[s].retryAt # None /\ row[s].retryAt <= now}]
  /\ UNCHANGED stateVars

RecoverNext ==
  /\ InPc("recovering")
  /\ \/ rec.due = {} /\ Step("stale") /\ UNCHANGED <<row, faults>>
     \/ \E s \in rec.due :
          /\ rec' = [rec EXCEPT !.due = @ \ {s}]
          /\ \/ CloseCircuit(s, None) /\ UNCHANGED faults
             \/ Fault /\ UNCHANGED row
  /\ UNCHANGED <<now, tenant, box>>

\* Mutants of Stale: no cutoff; the comparison reversed.
StaleAnyAge(s) == row[s].status = "deploying"
StaleReversed(s) == row[s].status = "deploying" /\ row[s].updatedAt + StaleAfter > now

\* 2: deploys whose row has not been touched for StaleAfter.
Stale(s) == row[s].status = "deploying" /\ row[s].updatedAt + StaleAfter < now

FailStaleDeploys ==
  /\ InPc("stale")
  /\ \/ /\ row' = [s \in Services |->
                     IF Stale(s) THEN [row[s] EXCEPT !.status = "failed",
                                                     !.updatedAt = now]
                                 ELSE row[s]]
        /\ UNCHANGED faults
     \/ Fault /\ UNCHANGED row
  /\ Step("idle")
  /\ UNCHANGED <<now, tenant, box>>

\* The tick's two-minute context ends, or an error returns early.
TickAborts ==
  /\ ~InPc("idle") /\ Fault
  /\ rec' = IdleReconciler
  /\ UNCHANGED <<now, tenant, row, box>>

ReconcilerStep ==
  \/ ListContainers \/ SelectRunning \/ InspectNext \/ MarkCrashed \/ KillCrashed
  \/ HealthNext \/ StopUnhealthy \/ MarkUnhealthy \/ DropUnhealthy
  \/ SelectRecoverable \/ RecoverNext \/ FailStaleDeploys

ReconcilerNext == ReconcilerStep \/ TickAborts

ReconcilerInit == rec = IdleReconciler

ReconcilerTypeOK == rec \in ReconcilerState
=============================================================================
