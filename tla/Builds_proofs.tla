---------------------------- MODULE Builds_proofs ----------------------------
(***************************************************************************)
(* Proofs about Builds, for every number of builds, tenants and            *)
(* CancelBuild requests and every size of the queue and the semaphore.     *)
(***************************************************************************)
EXTENDS Builds, TLAPS

----------------------------------------------------------------------------
(* The inductive invariant *)

\* An id is absent from the table exactly until its StartBuild has inserted
\* it, with the tenant who asked.
RowsMatchRuns ==
  \A b \in Ids : /\ status[b] = "absent" <=> run[b].pc = "new"
                 /\ run[b].pc # "new" => owner[b] \in Tenants

\* Builder.Build holds its tenant's entry of tenantBuilds while it runs.
BuildingHoldsTenant ==
  \A b \in Ids : run[b].pc \in Building => owner[b] \in tenants

\* A CancelBuild request in flight is about a build that has a row.
CancelsNameRows ==
  \A k \in Cancels : cancel[k].pc # "idle" =>
    cancel[k].id \in Ids /\ status[cancel[k].id] # "absent"

IndInv ==
  /\ TypeOK /\ RowsMatchRuns /\ BuildingHoldsTenant /\ OneBuildPerTenant
  /\ CancelsNameRows

----------------------------------------------------------------------------
(* What a statement and a move of runBuild keep *)

Status == {"absent", "pending", "running", "succeeded", "failed"}

\* No row appears or disappears, and a failed build stays failed.
StatusKept ==
  /\ status' \in [Ids -> Status]
  /\ \A b \in Ids : /\ status'[b] = "absent" <=> status[b] = "absent"
                    /\ status[b] = "failed" => status'[b] = "failed"

\* Build b goes to l; the other builds stay where they are.
Moves(b, l) ==
  /\ run' \in [Ids -> Run]
  /\ run'[b].pc = l
  /\ \A x \in Ids \ {b} : run'[x].pc = run[x].pc

Places == {"new", "enqueue", "start", "tenant", "failed", "built", "deploy",
           "done"} \cup Building

\* The four ways a step of runBuild may change tenantBuilds: it is outside
\* Builder.Build, it stays inside, it enters with the tenant's entry free, it
\* leaves and gives the entry back.
TenantKept(b, l) ==
  \/ run[b].pc \notin Building /\ l \notin Building /\ tenants' = tenants
  \/ run[b].pc \in Building /\ l \in Building /\ tenants' = tenants
  \/ /\ run[b].pc \notin Building /\ l \in Building
     /\ owner[b] \notin tenants /\ tenants' = tenants \cup {owner[b]}
  \/ /\ run[b].pc \in Building /\ l \notin Building
     /\ tenants' = tenants \ {owner[b]}

\* Goto moves one build.
LEMMA GotoMoves ==
  ASSUME TypeOK, NEW b \in Ids, NEW l \in Places, Goto(b, l)
  PROVE  Moves(b, l)
<1> DEFINE new == [run[b] EXCEPT !.pc = l]
<1>1. run[b] \in Run
  BY DEF TypeOK
<1>2. new \in Run /\ new.pc = l
  BY <1>1, Zenon DEF Run, Places
<1>3. run' = [run EXCEPT ![b] = new]
  BY DEF Goto
<1> HIDE DEF new
<1>4. QED
  BY <1>2, <1>3 DEF TypeOK, Moves

\* A write of 'failed' to a build that has a row, made or lost.
LEMMA FailKeeps ==
  ASSUME TypeOK, NEW b \in Ids, status[b] # "absent",
         TryWrite(SetStatus(b, "failed"))
  PROVE  StatusKept /\ faults' \in Nat
  BY DEF TypeOK, TryWrite, SetStatus, StatusKept, Status, Fault

\* A conditional write from a status that is neither absent nor failed.
LEMMA SetFromKeeps ==
  ASSUME TypeOK, NEW b \in Ids, NEW old \in {"pending", "running"},
         NEW st \in Status \ {"absent"}, SetFrom(b, old, st)
  PROVE  StatusKept
  BY DEF TypeOK, SetFrom, StatusKept, Status

\* A step of runBuild that keeps rows and tenantBuilds as above preserves the
\* invariant.
LEMMA MovePreserves ==
  ASSUME IndInv, NEW b \in Ids, NEW l \in Places, run[b].pc # "new", l # "new",
         Moves(b, l), StatusKept, TenantKept(b, l), faults' \in Nat, Rest
  PROVE  IndInv'
<1>1. owner[b] \in Tenants /\ owner' = owner /\ cancel' = cancel
  BY DEF IndInv, RowsMatchRuns, Rest
<1>2. TypeOK'
  BY <1>1 DEF IndInv, TypeOK, Rest, Moves, StatusKept, Status, TenantKept
<1>3. RowsMatchRuns'
  BY <1>1 DEF IndInv, RowsMatchRuns, Moves, StatusKept
<1>4. BuildingHoldsTenant'
  BY <1>1 DEF IndInv, BuildingHoldsTenant, OneBuildPerTenant, Moves, TenantKept
<1>5. OneBuildPerTenant'
  BY <1>1 DEF IndInv, BuildingHoldsTenant, OneBuildPerTenant, Moves, TenantKept
<1>6. CancelsNameRows'
  BY <1>1 DEF IndInv, CancelsNameRows, StatusKept
<1>7. QED
  BY <1>2, <1>3, <1>4, <1>5, <1>6 DEF IndInv

----------------------------------------------------------------------------
(* One lemma per step of StartBuild and runBuild *)

\* A build that has left "new" has a row.
LEMMA StartedHasRow ==
  ASSUME IndInv, NEW b \in Ids, run[b].pc # "new"
  PROVE  status[b] # "absent"
  BY DEF IndInv, RowsMatchRuns

\* A step that writes no status keeps them all.
LEMMA StatusUnchanged ==
  ASSUME TypeOK, status' = status
  PROVE  StatusKept
  BY DEF TypeOK, StatusKept, Status

\* EnqueueBuild: to the queue, or failed at once.
LEMMA EnqueueBuildStep ==
  ASSUME IndInv, NEW b \in Ids, EnqueueBuild(b)
  PROVE  IndInv' /\ StatusKept
<1>1. TypeOK /\ run[b].pc = "enqueue" /\ Rest /\ tenants' = tenants
  BY DEF IndInv, EnqueueBuild, At
<1>2. CASE Goto(b, "start") /\ UNCHANGED <<status, faults>>
  <2>1. Moves(b, "start") /\ StatusKept
    BY <1>1, <1>2, GotoMoves, StatusUnchanged DEF Places
  <2>2. QED
    BY <1>1, <1>2, <2>1, MovePreserves DEF Places, TenantKept, Building, TypeOK
<1>3. CASE TryWrite(SetStatus(b, "failed")) /\ Goto(b, "done")
  <2>1. StatusKept /\ faults' \in Nat
    BY <1>1, <1>3, StartedHasRow, FailKeeps
  <2>2. Moves(b, "done")
    BY <1>1, <1>3, GotoMoves DEF Places
  <2>3. QED
    BY <1>1, <2>1, <2>2, MovePreserves DEF Places, TenantKept, Building
<1>4. QED
  BY <1>2, <1>3 DEF EnqueueBuild

\* StartRun: pending becomes running, or the build stops here.
LEMMA StartRunStep ==
  ASSUME IndInv, NEW b \in Ids, StartRun(b)
  PROVE  IndInv' /\ StatusKept
<1>1. TypeOK /\ run[b].pc = "start" /\ Rest /\ tenants' = tenants
  BY DEF IndInv, StartRun, At
<1>2. StatusKept /\ faults' \in Nat
  BY <1>1, SetFromKeeps, StatusUnchanged DEF StartRun, Status, Fault, TypeOK
<1>3. PICK l \in {"tenant", "done"} : Goto(b, l)
  BY DEF StartRun
<1>4. Moves(b, l)
  BY <1>1, <1>3, GotoMoves DEF Places
<1>5. QED
  BY <1>1, <1>2, <1>4, MovePreserves DEF Places, TenantKept, Building

\* AcquireTenant: only a build that finds its tenant free enters.
LEMMA AcquireTenantStep ==
  ASSUME IndInv, NEW b \in Ids, AcquireTenant(b)
  PROVE  IndInv' /\ StatusKept
<1>1. TypeOK /\ run[b].pc = "tenant" /\ Rest /\ UNCHANGED <<status, faults>>
  BY DEF IndInv, AcquireTenant, At
<1>2. PICK l \in {"failed", "sem"} : Goto(b, l) /\ TenantKept(b, l)
  BY <1>1 DEF AcquireTenant, TenantKept, Building
<1>3. Moves(b, l) /\ StatusKept
  BY <1>1, <1>2, GotoMoves, StatusUnchanged DEF Places, Building
<1>4. QED
  BY <1>1, <1>2, <1>3, MovePreserves DEF Places, Building, TypeOK

\* AcquireSlot, and the two ends of Build while waiting.
LEMMA AcquireSlotStep ==
  ASSUME IndInv, NEW b \in Ids, AcquireSlot(b)
  PROVE  IndInv' /\ StatusKept
<1>1. TypeOK /\ run[b].pc = "sem" /\ Rest /\ UNCHANGED <<status, faults>>
  BY DEF IndInv, AcquireSlot, At
<1>2. PICK l \in {"failed", "between"} : Goto(b, l) /\ TenantKept(b, l)
  BY <1>1 DEF AcquireSlot, EndBuild, TenantKept, Building
<1>3. Moves(b, l) /\ StatusKept
  BY <1>1, <1>2, GotoMoves, StatusUnchanged DEF Places, Building
<1>4. QED
  BY <1>1, <1>2, <1>3, MovePreserves DEF Places, Building, TypeOK

\* StartPhase: the unit runs, or Build returns an error.
LEMMA StartPhaseStep ==
  ASSUME IndInv, NEW b \in Ids, StartPhase(b)
  PROVE  IndInv' /\ StatusKept
<1>1. TypeOK /\ run[b].pc = "between" /\ Rest /\ UNCHANGED <<status, faults>>
  BY DEF IndInv, StartPhase, At
<1>2. StatusKept
  BY <1>1, StatusUnchanged
<1>3. CASE run' = [run EXCEPT ![b].pc = "unit", ![b].killed = FALSE]
             /\ tenants' = tenants
  <2> DEFINE new == [run[b] EXCEPT !.pc = "unit", !.killed = FALSE]
  <2>1. run[b] \in Run
    BY <1>1 DEF TypeOK
  <2>2. new \in Run /\ new.pc = "unit"
    BY <2>1, Zenon DEF Run, Building
  <2>3. run' = [run EXCEPT ![b] = new]
    BY <1>3
  <2> HIDE DEF new
  <2>4. Moves(b, "unit")
    BY <1>1, <2>2, <2>3 DEF TypeOK, Moves
  <2>5. QED
    BY <1>1, <1>2, <1>3, <2>4, MovePreserves DEF Places, Building, TenantKept, TypeOK
<1>4. CASE EndBuild(b, "failed")
  <2>1. Moves(b, "failed")
    BY <1>1, <1>4, GotoMoves DEF EndBuild, Places
  <2>2. QED
    BY <1>1, <1>2, <1>4, <2>1, MovePreserves
       DEF EndBuild, Places, Building, TenantKept, TypeOK
<1>5. QED
  BY <1>3, <1>4 DEF StartPhase

\* EndPhase: the next phase, or Build returns.
LEMMA EndPhaseStep ==
  ASSUME IndInv, NEW b \in Ids, EndPhase(b)
  PROVE  IndInv' /\ StatusKept
<1>1. TypeOK /\ run[b].pc = "unit" /\ Rest /\ UNCHANGED <<status, faults>>
  BY DEF IndInv, EndPhase, At
<1>2. StatusKept
  BY <1>1, StatusUnchanged
<1>3. CASE /\ run[b].phase < 3 /\ tenants' = tenants
           /\ run' = [run EXCEPT ![b].pc = "between", ![b].phase = @ + 1]
  <2> DEFINE new == [run[b] EXCEPT !.pc = "between", !.phase = @ + 1]
  <2>1. run[b] \in Run
    BY <1>1 DEF TypeOK
  <2>2. run[b].phase + 1 \in Phases
    BY <1>3, <2>1 DEF Run, Phases
  <2>3. new \in Run /\ new.pc = "between"
    BY <2>1, <2>2, Zenon DEF Run, Building
  <2>4. run' = [run EXCEPT ![b] = new]
    BY <1>3
  <2> HIDE DEF new
  <2>5. Moves(b, "between")
    BY <1>1, <2>3, <2>4 DEF TypeOK, Moves
  <2>6. QED
    BY <1>1, <1>2, <1>3, <2>5, MovePreserves DEF Places, Building, TenantKept, TypeOK
<1>4. CASE \E l \in {"built", "failed"} : EndBuild(b, l)
  <2>1. PICK l \in {"built", "failed"} : EndBuild(b, l)
    BY <1>4
  <2>2. Moves(b, l)
    BY <1>1, <2>1, GotoMoves DEF EndBuild, Places
  <2>3. QED
    BY <1>1, <1>2, <2>1, <2>2, MovePreserves
       DEF EndBuild, Places, Building, TenantKept, TypeOK
<1>5. QED
  BY <1>3, <1>4 DEF EndPhase

\* The two final writes apply to a running build only.
LEMMA RecordStep ==
  ASSUME IndInv, NEW b \in Ids, RecordFailure(b) \/ RecordSuccess(b)
  PROVE  IndInv' /\ StatusKept
<1>1. TypeOK /\ run[b].pc \in {"failed", "built"} /\ Rest /\ tenants' = tenants
  BY DEF IndInv, RecordFailure, RecordSuccess, At
<1>2. PICK st \in {"failed", "succeeded"} : TryWrite(SetFrom(b, "running", st))
  BY DEF RecordFailure, RecordSuccess
<1>3. faults' \in Nat
  BY <1>1, <1>2 DEF TryWrite, Fault, TypeOK
<1>4. StatusKept
  BY <1>1, <1>2, SetFromKeeps, StatusUnchanged DEF TryWrite, Status
<1>5. PICK l \in {"done", "deploy"} : Goto(b, l)
  BY DEF RecordFailure, RecordSuccess
<1>6. Moves(b, l)
  BY <1>1, <1>5, GotoMoves DEF Places
<1>7. QED
  BY <1>1, <1>3, <1>4, <1>6, MovePreserves DEF Places, TenantKept, Building

\* The deploy leaves the build's row alone.
LEMMA DeployStep ==
  ASSUME IndInv, NEW b \in Ids, Deploy(b)
  PROVE  IndInv' /\ StatusKept
<1>1. /\ TypeOK /\ run[b].pc = "deploy" /\ Rest
      /\ UNCHANGED <<status, tenants, faults>> /\ Goto(b, "done")
  BY DEF IndInv, Deploy, At
<1>2. Moves(b, "done") /\ StatusKept
  BY <1>1, GotoMoves, StatusUnchanged DEF Places
<1>3. QED
  BY <1>1, <1>2, MovePreserves DEF Places, TenantKept, Building, TypeOK

\* So does every step of runBuild.
LEMMA RunStepKeeps ==
  ASSUME IndInv, NEW b \in Ids, RunStep(b)
  PROVE  IndInv' /\ StatusKept
  BY EnqueueBuildStep, StartRunStep, AcquireTenantStep, AcquireSlotStep,
     StartPhaseStep, EndPhaseStep, RecordStep, DeployStep DEF RunStep

----------------------------------------------------------------------------
(* The other actions *)

\* InsertBuild gives a fresh id its row; no failed build is overwritten.
LEMMA InsertBuildStep ==
  ASSUME IndInv, NEW b \in Ids, NEW t \in Tenants, InsertBuild(b, t)
  PROVE  /\ IndInv'
         /\ \A x \in Ids : status[x] = "failed" => status'[x] = "failed"
<1>1. /\ TypeOK /\ run[b].pc = "new" /\ status[b] = "absent"
      /\ UNCHANGED <<tenants, cancel, cancelled, faults, restarts>>
      /\ status' = [status EXCEPT ![b] = "pending"]
      /\ owner' = [owner EXCEPT ![b] = t] /\ Goto(b, "enqueue")
  BY DEF IndInv, RowsMatchRuns, InsertBuild, At, SetStatus
<1>2. Moves(b, "enqueue")
  BY <1>1, GotoMoves DEF Places
<1>3. TypeOK'
  BY <1>1, <1>2 DEF TypeOK, Moves
<1>4. RowsMatchRuns'
  BY <1>1, <1>2 DEF IndInv, RowsMatchRuns, Moves, TypeOK
<1>5. BuildingHoldsTenant' /\ OneBuildPerTenant'
  BY <1>1, <1>2 DEF IndInv, BuildingHoldsTenant, OneBuildPerTenant, Moves, TypeOK,
     Building
<1>6. CancelsNameRows'
  BY <1>1 DEF IndInv, CancelsNameRows, TypeOK
<1>7. QED
  BY <1>1, <1>3, <1>4, <1>5, <1>6 DEF IndInv, TypeOK

\* What the invariant says of builds survives a step that moves no build,
\* writes no owner and keeps the rows.
LEMMA RunsUntouched ==
  ASSUME IndInv, StatusKept, UNCHANGED <<owner, tenants>>,
         \A b \in Ids : run'[b].pc = run[b].pc
  PROVE  RowsMatchRuns' /\ BuildingHoldsTenant' /\ OneBuildPerTenant'
  BY DEF IndInv, StatusKept, RowsMatchRuns, BuildingHoldsTenant, OneBuildPerTenant

Cancel == [pc: {"idle", "read", "lookup", "stop", "update"},
           id: Ids \cup {None}, unit: Phases \cup {None}]

\* An answered request names nothing.
LEMMA AnswerKeeps ==
  ASSUME IndInv, NEW k \in Cancels, Answer(k), StatusKept
  PROVE  cancel' \in [Cancels -> Cancel] /\ CancelsNameRows'
<1>1. IdleCancel \in Cancel /\ IdleCancel.pc = "idle"
  BY DEF IdleCancel, Cancel
<1>2. QED
  BY <1>1 DEF IndInv, TypeOK, Answer, CancelsNameRows, StatusKept, Cancel

\* A request that goes on keeps the build it is about.
LEMMA RequestGoesOn ==
  ASSUME IndInv, NEW k \in Cancels, NEW new \in Cancel, In(k, "idle") = FALSE,
         new.id = cancel[k].id, cancel' = [cancel EXCEPT ![k] = new], StatusKept
  PROVE  cancel' \in [Cancels -> Cancel] /\ CancelsNameRows'
  BY DEF IndInv, TypeOK, CancelsNameRows, StatusKept, Cancel, In

\* CancelArrives: the row was found.
LEMMA CancelArrivesStep ==
  ASSUME IndInv, NEW k \in Cancels, NEW b \in Ids, CancelArrives(k, b)
  PROVE  IndInv' /\ StatusKept
<1> DEFINE new == [pc |-> "read", id |-> b, unit |-> None]
<1>1. /\ TypeOK /\ status[b] # "absent"
      /\ UNCHANGED <<status, owner, run, tenants, cancelled, faults, restarts>>
      /\ cancel' = [cancel EXCEPT ![k] = new]
  BY DEF IndInv, CancelArrives
<1>2. new \in Cancel /\ new.id = b
  BY DEF Cancel
<1> HIDE DEF new
<1>3. StatusKept
  BY <1>1, StatusUnchanged
<1>4. TypeOK' /\ CancelsNameRows'
  BY <1>1, <1>2 DEF IndInv, TypeOK, CancelsNameRows, Cancel
<1>5. QED
  BY <1>1, <1>3, <1>4, RunsUntouched DEF IndInv

\* ReadBuild and LookUpUnit change their request only.
LEMMA LookStep ==
  ASSUME IndInv, NEW k \in Cancels, ReadBuild(k) \/ LookUpUnit(k)
  PROVE  IndInv' /\ StatusKept
<1>1. /\ TypeOK /\ cancel[k] \in Cancel /\ In(k, "idle") = FALSE
      /\ UNCHANGED <<status, owner, run, tenants, cancelled, faults, restarts>>
  BY DEF IndInv, TypeOK, Cancel, ReadBuild, LookUpUnit, In
<1>2. StatusKept /\ cancel[k].id \in Ids
  BY <1>1, StatusUnchanged DEF IndInv, CancelsNameRows, In
<1>3. cancel' \in [Cancels -> Cancel] /\ CancelsNameRows'
  <2>1. CASE Answer(k)
    BY <1>2, <2>1, AnswerKeeps
  <2>2. CASE cancel' = [cancel EXCEPT ![k].pc = "lookup"]
    <3> DEFINE new == [cancel[k] EXCEPT !.pc = "lookup"]
    <3>1. new \in Cancel /\ new.id = cancel[k].id /\ cancel' = [cancel EXCEPT ![k] = new]
      BY <1>1, <2>2, Zenon DEF Cancel
    <3> HIDE DEF new
    <3>2. QED
      BY <1>1, <1>2, <3>1, RequestGoesOn
  <2>3. CASE LookUpUnit(k)
    <3> DEFINE r == run[cancel[k].id]
               u == IF r.pc = "unit" THEN r.phase ELSE None
               new == [cancel[k] EXCEPT !.pc = "stop", !.unit = u]
    <3>1. u \in Phases \cup {None}
      BY <1>1, <1>2 DEF TypeOK, Run
    <3>2. cancel' = [cancel EXCEPT ![k] = new]
      BY <2>3 DEF LookUpUnit
    <3> HIDE DEF u
    <3>3. new \in Cancel /\ new.id = cancel[k].id
      BY <1>1, <3>1, Zenon DEF Cancel
    <3> HIDE DEF new
    <3>4. QED
      BY <1>1, <1>2, <3>2, <3>3, RequestGoesOn
  <2>4. QED
    BY <2>1, <2>2, <2>3 DEF ReadBuild
<1>4. TypeOK'
  BY <1>1, <1>3 DEF TypeOK, Cancel
<1>5. QED
  BY <1>1, <1>2, <1>3, <1>4, RunsUntouched DEF IndInv

\* StopUnit may kill a command; no build moves.
LEMMA StopUnitStep ==
  ASSUME IndInv, NEW k \in Cancels, StopUnit(k)
  PROVE  IndInv' /\ StatusKept
<1> DEFINE b == cancel[k].id
<1>1. /\ TypeOK /\ cancel[k] \in Cancel /\ In(k, "idle") = FALSE
      /\ UNCHANGED <<status, owner, tenants, cancelled, faults, restarts>>
  BY DEF IndInv, TypeOK, Cancel, StopUnit, In
<1>2. StatusKept /\ b \in Ids
  BY <1>1, StatusUnchanged DEF IndInv, CancelsNameRows, In
<1>3. cancel' \in [Cancels -> Cancel] /\ CancelsNameRows'
  <2> DEFINE new == [cancel[k] EXCEPT !.pc = "update"]
  <2>1. new \in Cancel /\ new.id = cancel[k].id
    BY <1>1, Zenon DEF Cancel
  <2>2. cancel' = [cancel EXCEPT ![k] = new]
    BY DEF StopUnit
  <2> HIDE DEF new
  <2>3. QED
    BY <1>1, <1>2, <2>1, <2>2, RequestGoesOn
<1>4. run' \in [Ids -> Run] /\ \A x \in Ids : run'[x].pc = run[x].pc
  <2> DEFINE new == [run[b] EXCEPT !.killed = TRUE]
  <2>1. new \in Run /\ new.pc = run[b].pc
    <3>1. run[b] \in Run
      BY <1>1, <1>2 DEF TypeOK
    <3>2. QED
      BY <3>1, Zenon DEF Run
  <2>2. run' = run \/ run' = [run EXCEPT ![b] = new]
    BY DEF StopUnit
  <2> HIDE DEF new
  <2>3. QED
    BY <1>1, <1>2, <2>1, <2>2 DEF TypeOK
<1>5. TypeOK'
  BY <1>1, <1>3, <1>4 DEF TypeOK, Cancel
<1>6. QED
  BY <1>1, <1>2, <1>3, <1>4, <1>5, RunsUntouched DEF IndInv

\* MarkCancelled fails a build that has a row, or loses the write.
LEMMA MarkCancelledStep ==
  ASSUME IndInv, NEW k \in Cancels, MarkCancelled(k)
  PROVE  IndInv' /\ StatusKept
<1>1. /\ TypeOK /\ Answer(k) /\ TryWrite(SetStatus(cancel[k].id, "failed"))
      /\ cancelled' = cancelled \cup {cancel[k].id}
      /\ UNCHANGED <<owner, run, tenants, restarts>>
  BY DEF IndInv, MarkCancelled
<1>2. cancel[k].id \in Ids /\ status[cancel[k].id] # "absent"
  BY DEF IndInv, CancelsNameRows, MarkCancelled, In
<1>3. StatusKept /\ faults' \in Nat
  BY <1>1, <1>2, FailKeeps
<1>4. cancel' \in [Cancels -> Cancel] /\ CancelsNameRows'
  BY <1>1, <1>3, AnswerKeeps
<1>5. TypeOK'
  BY <1>1, <1>2, <1>3, <1>4 DEF TypeOK, Cancel, StatusKept, Status
<1>6. QED
  BY <1>1, <1>3, <1>4, <1>5, RunsUntouched DEF IndInv

\* After a restart no build is inside Builder.Build and no request is open.
LEMMA RestartStep ==
  ASSUME IndInv, ProcessRestarts
  PROVE  IndInv' /\ StatusKept
<1>1. /\ TypeOK /\ restarts' = restarts - 1 /\ restarts > 0
      /\ tenants' = {} /\ cancel' = [k \in Cancels |-> IdleCancel]
      /\ UNCHANGED <<owner, cancelled>>
  BY DEF IndInv, ProcessRestarts
<1>2. StatusKept /\ faults' \in Nat
  BY <1>1 DEF ProcessRestarts, TryWrite, Fault, InProgress, StatusKept, Status, TypeOK
<1>3. IdleCancel \in Cancel /\ IdleCancel.pc = "idle"
  BY DEF IdleCancel, Cancel
<1>4. /\ run' \in [Ids -> Run]
      /\ \A b \in Ids : run'[b].pc = IF run[b].pc = "new" THEN "new" ELSE "done"
  <2> DEFINE over == [NewRun EXCEPT !.pc = "done"]
  <2>1. NewRun \in Run /\ NewRun.pc = "new" /\ over \in Run /\ over.pc = "done"
    <3>1. NewRun \in Run /\ NewRun.pc = "new"
      BY DEF NewRun, Run, Phases
    <3>2. over \in Run /\ over.pc = "done"
      BY <3>1, Zenon DEF Run
    <3>3. QED
      BY <3>1, <3>2
  <2>2. run' = [b \in Ids |-> IF run[b].pc = "new" THEN NewRun ELSE over]
    BY DEF ProcessRestarts, At
  <2> HIDE DEF over
  <2>3. QED
    BY <2>1, <2>2
<1>5. TypeOK'
  BY <1>1, <1>2, <1>3, <1>4 DEF TypeOK, Cancel, StatusKept, Status
<1>6. RowsMatchRuns'
  BY <1>1, <1>2, <1>4 DEF IndInv, RowsMatchRuns, StatusKept
<1>7. BuildingHoldsTenant' /\ OneBuildPerTenant'
  BY <1>4 DEF BuildingHoldsTenant, OneBuildPerTenant, Building
<1>8. CancelsNameRows'
  BY <1>1, <1>3 DEF CancelsNameRows
<1>9. QED
  BY <1>2, <1>5, <1>6, <1>7, <1>8 DEF IndInv

----------------------------------------------------------------------------
(* The theorems *)

\* Every step keeps the invariant and never takes back a failure.
LEMMA NextKeeps ==
  ASSUME IndInv, [Next]_vars
  PROVE  /\ IndInv'
         /\ \A b \in Ids : status[b] = "failed" => status'[b] = "failed"
<1>1. CASE UNCHANGED vars
  <2>1. StatusKept
    BY <1>1, StatusUnchanged DEF vars, IndInv
  <2>2. TypeOK' /\ CancelsNameRows'
    BY <1>1 DEF vars, IndInv, TypeOK, CancelsNameRows
  <2>3. QED
    BY <1>1, <2>1, <2>2, RunsUntouched DEF vars, IndInv, StatusKept
<1>2. CASE Next
  BY <1>2, RunStepKeeps, InsertBuildStep, CancelArrivesStep, LookStep, StopUnitStep,
     MarkCancelledStep, RestartStep DEF Next, CancelStep, StatusKept
<1>3. QED
  BY <1>1, <1>2

\* The initial state satisfies the invariant.
LEMMA InitHolds == Init => IndInv
<1> SUFFICES ASSUME Init PROVE IndInv
  OBVIOUS
<1>1. NewRun \in Run /\ NewRun.pc = "new"
  BY DEF NewRun, Run, Phases
<1>2. IdleCancel \in Cancel /\ IdleCancel.pc = "idle"
  BY DEF IdleCancel, Cancel
<1>3. TypeOK
  BY <1>1, <1>2, BuildsAssumption DEF Init, TypeOK, Cancel
<1>4. QED
  BY <1>1, <1>2, <1>3 DEF Init, IndInv, RowsMatchRuns, BuildingHoldsTenant,
     OneBuildPerTenant, CancelsNameRows, Building

\* Rows, runs, tenantBuilds and cancel requests always fit together.
THEOREM BuildsInvariant == Spec => []IndInv
<1>1. IndInv /\ [Next]_vars => IndInv'
  BY NextKeeps
<1>2. QED
  BY <1>1, InitHolds, PTL DEF Spec

\* All variables of the build manager keep their types.
THEOREM BuildsTypeCorrect == Spec => []TypeOK
<1>1. IndInv => TypeOK
  BY DEF IndInv
<1>2. QED
  BY <1>1, BuildsInvariant, PTL

\* At most one build of a tenant is inside Builder.Build, whatever refusals,
\* errors, cancellations and restarts come in between.
THEOREM TenantsBuildOneAtATime == Spec => []OneBuildPerTenant
<1>1. IndInv => OneBuildPerTenant
  BY DEF IndInv
<1>2. QED
  BY <1>1, BuildsInvariant, PTL

\* No step of runBuild, StartBuild, CancelBuild or reconcileStaleBuilds
\* overwrites the status of a failed build.
THEOREM FailuresAreFinal == Spec => FailedIsFinal
<1>1. IndInv /\ [Next]_vars
        => [\A b \in Ids : status[b] = "failed" => status'[b] = "failed"]_vars
  BY NextKeeps
<1>2. QED
  BY <1>1, BuildsInvariant, PTL DEF Spec, FailedIsFinal

=============================================================================
