-------------------------------- MODULE Builds --------------------------------
(***************************************************************************)
(* internal/builds and internal/builder: the life of a build from          *)
(* StartBuild through runBuild (clone, nixpacks, push) to DeployImage,     *)
(* with CancelBuild and the startup pass reconcileStaleBuilds. Logs and    *)
(* their followers are left out.                                           *)
(***************************************************************************)
EXTENDS Naturals, FiniteSets

CONSTANTS
  Ids, Tenants, None,
  Cancels,                              \* bound: CancelBuild requests in flight
  MaxQueuedBuilds, MaxConcurrentBuilds, \* buildQueue, buildSem
  MaxFaults, MaxRestarts,               \* bounds
  Disturbed                             \* bound: the builds of behaviours with failures,
                                        \* restarts or cancellations

ASSUME BuildsAssumption ==
  /\ None \notin Ids \cup Tenants /\ Disturbed \subseteq Ids
  /\ {MaxQueuedBuilds, MaxConcurrentBuilds, MaxFaults, MaxRestarts} \subseteq Nat

VARIABLES
  status,      \* builds.status
  owner,       \* builds.tenant_id
  run,         \* StartBuild and runBuild of each id
  tenants,     \* Builder.tenantBuilds
  cancel,      \* CancelBuild requests
  cancelled,   \* history: ids whose CancelBuild answered "cancelled"
  faults,      \* database errors still to come
  restarts     \* restarts of the process still to come

vars == <<status, owner, run, tenants, cancel, cancelled, faults, restarts>>

\* Clone, build and push each run in a systemd unit: "unit" while it is
\* tracked in procMap, "between" before it.
Phases == 1 .. 3

Building == {"sem", "between", "unit"}

Run == [pc: {"new", "enqueue", "start", "tenant", "failed", "built", "deploy",
             "done"} \cup Building,
        phase: Phases, killed: BOOLEAN]

NewRun == [pc |-> "new", phase |-> 1, killed |-> FALSE]

IdleCancel == [pc |-> "idle", id |-> None, unit |-> None]

TypeOK ==
  /\ status \in [Ids -> {"absent", "pending", "running", "succeeded", "failed"}]
  /\ run \in [Ids -> Run]
  /\ owner \in [Ids -> Tenants \cup {None}] /\ tenants \subseteq Tenants
  /\ cancel \in [Cancels -> [pc: {"idle", "read", "lookup", "stop", "update"},
                             id: Ids \cup {None}, unit: Phases \cup {None}]]
  /\ cancelled \subseteq Ids
  /\ faults \in Nat /\ restarts \in Nat

Init ==
  /\ status = [b \in Ids |-> "absent"]
  /\ owner = [b \in Ids |-> None]
  /\ run = [b \in Ids |-> NewRun]
  /\ tenants = {} /\ cancelled = {}
  /\ cancel = [k \in Cancels |-> IdleCancel]
  /\ faults = MaxFaults /\ restarts = MaxRestarts

----------------------------------------------------------------------------
At(b, l) == run[b].pc = l

Goto(b, l) == run' = [run EXCEPT ![b].pc = l]

SetStatus(b, st) == status' = [status EXCEPT ![b] = st]

\* UPDATE builds SET status = st WHERE id = b AND status = old
SetFrom(b, old, st) ==
  status' = IF status[b] = old THEN [status EXCEPT ![b] = st] ELSE status

Started == {b \in Ids : run[b].pc # "new"}

MayDisturb == Started \subseteq Disturbed

\* No failure, restart or cancellation so far.
Calm == /\ faults = MaxFaults /\ restarts = MaxRestarts /\ cancelled = {}
        /\ \A k \in Cancels : cancel[k] = IdleCancel

Fault == MayDisturb /\ faults > 0 /\ faults' = faults - 1

\* A write that may fail; the caller only logs the error.
TryWrite(write) ==
  \/ write /\ UNCHANGED faults
  \/ Fault /\ UNCHANGED status

Rest == UNCHANGED <<owner, cancel, cancelled, restarts>>

InQueue == {b \in Ids : run[b].pc \notin {"new", "enqueue", "done"}}

HasSlot == {b \in Ids : run[b].pc \in {"between", "unit"}}

\* StartBuild: validation, then the INSERT with a fresh id.
InsertBuild(b, t) ==
  /\ At(b, "new")
  /\ Calm \/ Started \cup {b} \subseteq Disturbed
  /\ SetStatus(b, "pending") /\ owner' = [owner EXCEPT ![b] = t]
  /\ Goto(b, "enqueue")
  /\ UNCHANGED <<tenants, cancel, cancelled, faults, restarts>>

\* The bounded queue: a full one fails the build at once.
EnqueueBuild(b) ==
  /\ At(b, "enqueue")
  /\ IF Cardinality(InQueue) < MaxQueuedBuilds
       THEN Goto(b, "start") /\ UNCHANGED <<status, faults>>
       ELSE TryWrite(SetStatus(b, "failed")) /\ Goto(b, "done")
  /\ Rest /\ UNCHANGED tenants

\* pending -> running; a build cancelled before stops here, and so does one
\* whose UPDATE fails.
StartRun(b) ==
  /\ At(b, "start")
  /\ \/ /\ SetFrom(b, "pending", "running") /\ UNCHANGED faults
        /\ Goto(b, IF status[b] = "pending" THEN "tenant" ELSE "done")
     \/ Fault /\ Goto(b, "done") /\ UNCHANGED status
  /\ Rest /\ UNCHANGED tenants

\* Mutant of AcquireTenant: the release is deferred before the check.
AcquireTenantDeferred(b) ==
  /\ At(b, "tenant")
  /\ IF owner[b] \in tenants
       THEN Goto(b, "failed") /\ tenants' = tenants \ {owner[b]}
       ELSE Goto(b, "sem") /\ tenants' = tenants \cup {owner[b]}
  /\ Rest /\ UNCHANGED <<status, faults>>

AcquireTenant(b) ==
  /\ At(b, "tenant")
  /\ IF owner[b] \in tenants
       THEN Goto(b, "failed") /\ UNCHANGED tenants
       ELSE Goto(b, "sem") /\ tenants' = tenants \cup {owner[b]}
  /\ Rest /\ UNCHANGED <<status, faults>>

\* Build returns: its deferred calls give back the slot and the tenant.
EndBuild(b, l) == Goto(b, l) /\ tenants' = tenants \ {owner[b]}

\* A free slot, or the twenty-minute context ends while waiting for one.
AcquireSlot(b) ==
  /\ At(b, "sem")
  /\ IF Cardinality(HasSlot) < MaxConcurrentBuilds
       THEN Goto(b, "between") /\ UNCHANGED tenants
       ELSE EndBuild(b, "failed")
  /\ Rest /\ UNCHANGED <<status, faults>>

\* The command is started and its unit tracked, or it cannot be started.
StartPhase(b) ==
  /\ At(b, "between")
  /\ \/ run' = [run EXCEPT ![b].pc = "unit", ![b].killed = FALSE] /\ UNCHANGED tenants
     \/ EndBuild(b, "failed")
  /\ Rest /\ UNCHANGED <<status, faults>>

\* The command ends, or its own timeout or a cancellation kills it.
EndPhase(b) ==
  /\ At(b, "unit")
  /\ \/ /\ ~run[b].killed /\ run[b].phase < 3 /\ UNCHANGED tenants
        /\ run' = [run EXCEPT ![b].pc = "between", ![b].phase = @ + 1]
     \/ ~run[b].killed /\ run[b].phase = 3 /\ EndBuild(b, "built")
     \/ EndBuild(b, "failed")
  /\ Rest /\ UNCHANGED <<status, faults>>

\* The final writes apply only to a build still running.
RecordFailure(b) ==
  /\ At(b, "failed")
  /\ TryWrite(SetFrom(b, "running", "failed"))
  /\ Goto(b, "done")
  /\ Rest /\ UNCHANGED tenants

\* Mutant of RecordSuccess: the UPDATE does not ask for a running build.
RecordSuccessAlways(b) ==
  /\ At(b, "built")
  /\ TryWrite(SetStatus(b, "succeeded"))
  /\ Goto(b, "deploy")
  /\ Rest /\ UNCHANGED tenants

\* The deploy follows whether or not the UPDATE found the build running.
RecordSuccess(b) ==
  /\ At(b, "built")
  /\ TryWrite(SetFrom(b, "running", "succeeded"))
  /\ Goto(b, "deploy")
  /\ Rest /\ UNCHANGED tenants

\* DeployImage with its ten-minute context: module ServiceManager.
Deploy(b) ==
  /\ At(b, "deploy")
  /\ Goto(b, "done")
  /\ Rest /\ UNCHANGED <<status, tenants, faults>>

RunStep(b) ==
  \/ EnqueueBuild(b) \/ StartRun(b) \/ AcquireTenant(b) \/ AcquireSlot(b)
  \/ StartPhase(b) \/ EndPhase(b) \/ RecordFailure(b) \/ RecordSuccess(b)
  \/ Deploy(b)

----------------------------------------------------------------------------
(* CancelBuild *)

In(k, l) == cancel[k].pc = l

Answer(k) == cancel' = [cancel EXCEPT ![k] = IdleCancel]

CancelArrives(k, b) ==
  /\ MayDisturb /\ In(k, "idle") /\ status[b] # "absent"
  /\ cancel' = [cancel EXCEPT ![k] = [pc |-> "read", id |-> b, unit |-> None]]
  /\ UNCHANGED <<status, owner, run, tenants, cancelled, faults, restarts>>

ReadBuild(k) ==
  /\ In(k, "read")
  /\ IF status[cancel[k].id] \in {"pending", "running"}
       THEN cancel' = [cancel EXCEPT ![k].pc = "lookup"] ELSE Answer(k)
  /\ UNCHANGED <<status, owner, run, tenants, cancelled, faults, restarts>>

\* procMap; a build that tracks no unit now is not stopped.
LookUpUnit(k) ==
  LET r == run[cancel[k].id] IN
  /\ In(k, "lookup")
  /\ cancel' = [cancel EXCEPT ![k].pc = "stop",
                              ![k].unit = IF r.pc = "unit" THEN r.phase ELSE None]
  /\ UNCHANGED <<status, owner, run, tenants, cancelled, faults, restarts>>

\* systemctl stop; a unit that has ended meanwhile is an error, only logged.
StopUnit(k) ==
  LET b == cancel[k].id IN
  /\ In(k, "stop")
  /\ run' = IF run[b].pc = "unit" /\ run[b].phase = cancel[k].unit
              THEN [run EXCEPT ![b].killed = TRUE] ELSE run
  /\ cancel' = [cancel EXCEPT ![k].pc = "update"]
  /\ UNCHANGED <<status, owner, tenants, cancelled, faults, restarts>>

\* Mutant of MarkCancelled: a status outside the vocabulary.
MarkAborted(k) ==
  /\ In(k, "update")
  /\ TryWrite(SetStatus(cancel[k].id, "cancelled"))
  /\ cancelled' = cancelled \cup {cancel[k].id}
  /\ Answer(k)
  /\ UNCHANGED <<owner, run, tenants, restarts>>

\* UPDATE builds SET status = 'failed' WHERE id = ?, error ignored.
MarkCancelled(k) ==
  /\ In(k, "update")
  /\ TryWrite(SetStatus(cancel[k].id, "failed"))
  /\ cancelled' = cancelled \cup {cancel[k].id}
  /\ Answer(k)
  /\ UNCHANGED <<owner, run, tenants, restarts>>

CancelStep(k) == ReadBuild(k) \/ LookUpUnit(k) \/ StopUnit(k) \/ MarkCancelled(k)

----------------------------------------------------------------------------
InProgress(b) == status[b] \in {"pending", "running"}

\* Mutant of ProcessRestarts: no reconcileStaleBuilds.
RestartWithoutReconcile ==
  /\ MayDisturb /\ restarts > 0 /\ restarts' = restarts - 1
  /\ run' = [b \in Ids |-> IF At(b, "new") THEN NewRun
                             ELSE [NewRun EXCEPT !.pc = "done"]]
  /\ tenants' = {}
  /\ cancel' = [k \in Cancels |-> IdleCancel]
  /\ UNCHANGED <<status, owner, cancelled, faults>>

\* The process dies; the next one starts with reconcileStaleBuilds.
ProcessRestarts ==
  /\ MayDisturb /\ restarts > 0 /\ restarts' = restarts - 1
  /\ run' = [b \in Ids |-> IF At(b, "new") THEN NewRun
                             ELSE [NewRun EXCEPT !.pc = "done"]]
  /\ tenants' = {}
  /\ cancel' = [k \in Cancels |-> IdleCancel]
  /\ TryWrite(status' = [b \in Ids |-> IF InProgress(b) THEN "failed" ELSE status[b]])
  /\ UNCHANGED <<owner, cancelled>>

Next ==
  \/ \E b \in Ids : RunStep(b) \/ \E t \in Tenants : InsertBuild(b, t)
  \/ \E k \in Cancels : CancelStep(k) \/ \E b \in Ids : CancelArrives(k, b)
  \/ ProcessRestarts

Spec == Init /\ [][Next]_vars

\* Every command of a build has a timeout, so runBuild always goes on.
FairSpec == Spec /\ \A b \in Ids : WF_vars(RunStep(b))

----------------------------------------------------------------------------
\* "Per-tenant concurrency: max 1 concurrent build per tenant", whatever
\* refusals, cancellations and failures come in between.
OneBuildPerTenant ==
  \A a, b \in Ids :
    run[a].pc \in Building /\ run[b].pc \in Building /\ owner[a] = owner[b]
      => a = b

\* A failed build, cancelled ones included, never counts as succeeded later,
\* although its goroutine may still be at work.
FailedIsFinal ==
  [][\A b \in Ids : status[b] = "failed" => status'[b] = "failed"]_vars

\* Without a database error no build stays pending or running, even if the
\* process is restarted under it.
BuildsSettle ==
  \A b \in Ids : InProgress(b) ~> (~InProgress(b) \/ faults < MaxFaults)

\* "CancelBuild cancels a running build": one it has answered "cancelled" for
\* is not deployed afterwards.
CancelledNotDeployed ==
  [][\A b \in Ids : ~At(b, "deploy") /\ run'[b].pc = "deploy" => b \notin cancelled]_vars
=============================================================================
