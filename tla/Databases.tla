------------------------------ MODULE Databases ------------------------------
(***************************************************************************)
(* internal/databases: provisioning (Create), Delete and the startup pass  *)
(* ReconcileStale, with the background loops that act on databases: step 3 *)
(* of the reconciler and the collector's database containers and volumes.  *)
(* An id is random and used by one Create, which makes one volume and one  *)
(* container: both are identified with the id.                             *)
(***************************************************************************)
EXTENDS Naturals, FiniteSets, FiniteSetsExt

CONSTANTS
  Dbs, TenantOf, None,
  Deleters,               \* bound: Delete requests in flight
  Ports,                  \* the port range of the database type
  MaxPortRetries, MaxDatabases,
  RequestTimeout,         \* the request context (30 s)
  MinResourceAge,         \* the collector's age gate (10 min)
  MaxClock, MaxFaults,    \* bounds
  Disturbed               \* bound: the databases of behaviours with delays or failures

ASSUME DatabasesAssumption ==
  /\ Ports \subseteq Nat /\ IsFiniteSet(Ports)
  /\ IsFiniteSet(Dbs) /\ None \notin Nat \cup Dbs
  /\ {MaxPortRetries, MaxDatabases, RequestTimeout, MinResourceAge} \subseteq Nat
  /\ {MaxClock, MaxFaults} \subseteq Nat /\ Disturbed \subseteq Dbs
  /\ RequestTimeout <= MinResourceAge

VARIABLES
  now, faults,
  row,      \* the databases table
  box, vol, \* Docker's containers and volumes
  create,   \* Create, one per id
  del,      \* Delete requests
  boot,     \* ReconcileStale
  rec, gc   \* the background loops

shared == <<now, faults, row, box, vol>>
vars == <<now, faults, row, box, vol, create, del, boot, rec, gc>>

Statuses == {"provisioning", "ready", "failed", "unavailable"}

\* "stopped": by a call, so that Docker does not restart it.
BoxStates == {"created", "running", "exited", "stopped"}

TypeOK ==
  /\ now \in Nat /\ faults \in Nat
  /\ row \in [Dbs -> [status: Statuses \cup {"absent", "deleted"},
                      port: Ports \cup {None},
                      container: BOOLEAN]]        \* container_id is not NULL
  /\ box \in [Dbs -> [st: BoxStates \cup {"none", "removed"}, createdAt: Nat]]
  /\ vol \in [Dbs -> BOOLEAN]
  /\ create \in [Dbs -> [pc: {"new", "count", "port", "insert", "volume", "run",
                              "start", "record", "wait", "ready", "fail",
                              "cleanBox", "cleanVol", "done"},
                         start: Nat, port: Ports \cup {None}, attempt: Nat,
                         then: {"done", "cleanBox", "cleanVol"}]]
  /\ del \in [Deleters -> [pc: {"idle", "read", "box", "vol", "row"},
                           db: Dbs \cup {None}]]
  /\ boot \in [pc: {"select", "box", "vol", "mark", "up"}, todo: SUBSET Dbs,
               db: Dbs \cup {None}]
  /\ rec \in [todo: SUBSET Dbs, db: Dbs \cup {None}, busy: BOOLEAN]
  /\ gc \in [pc: {"idle", "boxes", "removeBoxes", "vols", "removeVols"},
             todo: SUBSET Dbs, at: Nat, batch: SUBSET Dbs]

NewCreate == [pc |-> "new", start |-> 0, port |-> None, attempt |-> 0,
              then |-> "done"]
IdleDelete == [pc |-> "idle", db |-> None]
IdleBoot == [pc |-> "select", todo |-> {}, db |-> None]
IdleRec == [todo |-> {}, db |-> None, busy |-> FALSE]
IdleGc == [pc |-> "idle", todo |-> {}, at |-> 0, batch |-> {}]

Init ==
  /\ now = 0 /\ faults = MaxFaults
  /\ row = [d \in Dbs |-> [status |-> "absent", port |-> None, container |-> FALSE]]
  /\ box = [d \in Dbs |-> [st |-> "none", createdAt |-> 0]]
  /\ vol = [d \in Dbs |-> FALSE]
  /\ create = [d \in Dbs |-> NewCreate]
  /\ del = [k \in Deleters |-> IdleDelete]
  /\ boot = IdleBoot /\ rec = IdleRec /\ gc = IdleGc

Requested == {d \in Dbs : create[d].pc # "new"}

\* No time has passed and nothing has failed.
Calm == now = 0 /\ faults = MaxFaults

MayDisturb == Requested \subseteq Disturbed

Fault == MayDisturb /\ faults > 0 /\ faults' = faults - 1

----------------------------------------------------------------------------
(* The table and Docker *)

HasRow(d) == row[d].status \in Statuses

SetStatus(d, st) ==
  row' = IF HasRow(d) THEN [row EXCEPT ![d].status = st] ELSE row

\* The partial unique index on port leaves failed rows out.
Holds(d, p) == HasRow(d) /\ row[d].status # "failed" /\ row[d].port = p

Exists(d) == box[d].st \in BoxStates

\* A running container binds its host port.
Bound(p) == \E d \in Dbs : box[d].st = "running" /\ create[d].port = p

RemoveBox(d) == box' = [box EXCEPT ![d].st = "removed"]

\* StopContainer and RemoveContainer on a container known to exist, or on one
\* that is gone; a failure leaves it as it was or stopped.
DropBox(d) == IF Exists(d) THEN RemoveBox(d) ELSE UNCHANGED box
KeepBox(d) ==
  /\ Exists(d)
  /\ \/ UNCHANGED box
     \/ box[d].st \in {"running", "exited"} /\ box' = [box EXCEPT ![d].st = "stopped"]

\* Docker refuses to remove a volume a container uses.
DropVol(d) == vol' = [vol EXCEPT ![d] = @ /\ Exists(d)]

----------------------------------------------------------------------------
(* Create *)

Live(d) == now < create[d].start + RequestTimeout

At(d, l) == create[d].pc = l /\ boot.pc = "up"

Goto(d, l) == create' = [create EXCEPT ![d].pc = l]

\* updateStatus(failed), then the clean-up that starts at l.
FailThen(d, l) == create' = [create EXCEPT ![d].pc = "fail", ![d].then = l]

Others(d) == UNCHANGED <<now, del, boot, rec, gc>>

\* Validation and the disk check pass, or nothing happens.
Request(d) ==
  /\ At(d, "new")
  /\ Calm \/ Requested \cup {d} \subseteq Disturbed
  /\ create' = [create EXCEPT ![d].pc = "count", ![d].start = now]
  /\ Others(d) /\ UNCHANGED <<faults, row, box, vol>>

Counted(d) == {x \in Dbs : /\ TenantOf[x] = TenantOf[d]
                           /\ HasRow(x) /\ row[x].status # "failed"}

\* The quota transaction commits before the row is inserted.
CheckQuota(d) ==
  /\ At(d, "count")
  /\ Goto(d, IF Live(d) /\ Cardinality(Counted(d)) < MaxDatabases
               THEN "port" ELSE "done")
  /\ Others(d) /\ UNCHANGED <<faults, row, box, vol>>

\* Mutant of FreePorts: only what the host has bound counts.
UnboundPorts == {p \in Ports : ~Bound(p)}

FreePorts == {p \in Ports : ~Bound(p) /\ \A d \in Dbs : ~Holds(d, p)}

FindFreePort(d) ==
  /\ At(d, "port")
  /\ IF FreePorts = {}
       THEN Goto(d, "done")
       ELSE create' = [create EXCEPT ![d].pc = "insert", ![d].port = Min(FreePorts)]
  /\ Others(d) /\ UNCHANGED <<faults, row, box, vol>>

Insert(d) ==
  LET p == create[d].port
      taken == \E x \in Dbs : Holds(x, p)
      spent == create[d].attempt + 1 = MaxPortRetries
  IN /\ At(d, "insert")
     /\ \/ /\ Live(d) /\ ~taken
           /\ row' = [row EXCEPT ![d].status = "provisioning", ![d].port = p]
           /\ Goto(d, "volume") /\ UNCHANGED faults
        \/ /\ Live(d) /\ taken
           /\ create' = [create EXCEPT ![d].pc = IF spent THEN "done" ELSE "port",
                                       ![d].attempt = @ + 1]
           /\ UNCHANGED <<row, faults>>
        \/ ~Live(d) /\ Goto(d, "done") /\ UNCHANGED <<row, faults>>
        \/ Fault /\ Goto(d, "done") /\ UNCHANGED row
     /\ Others(d) /\ UNCHANGED <<box, vol>>

CreateVolume(d) ==
  /\ At(d, "volume")
  /\ \/ Live(d) /\ vol' = [vol EXCEPT ![d] = TRUE] /\ Goto(d, "run") /\ UNCHANGED faults
     \/ ~Live(d) /\ FailThen(d, "done") /\ UNCHANGED <<vol, faults>>
     \/ Fault /\ FailThen(d, "done") /\ UNCHANGED vol
  /\ Others(d) /\ UNCHANGED <<row, box>>

\* RunDatabase's ContainerCreate.
CreateContainer(d) ==
  /\ At(d, "run")
  /\ \/ /\ Live(d) /\ box' = [box EXCEPT ![d] = [st |-> "created", createdAt |-> now]]
        /\ Goto(d, "start") /\ UNCHANGED faults
     \/ ~Live(d) /\ FailThen(d, "cleanVol") /\ UNCHANGED <<box, faults>>
     \/ Fault /\ FailThen(d, "cleanVol") /\ UNCHANGED box
  /\ Others(d) /\ UNCHANGED <<row, vol>>

\* ContainerStart; on an error the container is removed with the same context.
StartContainer(d) ==
  /\ At(d, "start")
  /\ \/ /\ Live(d) /\ UNCHANGED faults
        /\ IF Exists(d) /\ ~Bound(create[d].port)
             THEN box' = [box EXCEPT ![d].st = "running"] /\ Goto(d, "record")
             ELSE DropBox(d) /\ FailThen(d, "cleanVol")
     \/ ~Live(d) /\ FailThen(d, "cleanVol") /\ UNCHANGED <<box, faults>>
     \/ Fault /\ (DropBox(d) \/ KeepBox(d)) /\ FailThen(d, "cleanVol")
  /\ Others(d) /\ UNCHANGED <<row, vol>>

\* UPDATE databases SET container_id = ?; an error or no row: clean up.
RecordContainer(d) ==
  /\ At(d, "record")
  /\ \/ /\ UNCHANGED faults
        /\ IF Live(d) /\ HasRow(d)
             THEN row' = [row EXCEPT ![d].container = TRUE] /\ Goto(d, "wait")
             ELSE UNCHANGED row /\ Goto(d, "cleanBox")
     \/ Fault /\ Goto(d, "cleanBox") /\ UNCHANGED row
  /\ Others(d) /\ UNCHANGED <<box, vol>>

\* Something answers on the port, or nothing does for 30 seconds.
WaitHealthy(d) ==
  /\ At(d, "wait")
  /\ \/ Bound(create[d].port) /\ Goto(d, "ready") /\ UNCHANGED faults
     \/ ~Bound(create[d].port) /\ FailThen(d, "cleanBox") /\ UNCHANGED faults
     \/ Fault /\ FailThen(d, "cleanBox")
  /\ Others(d) /\ UNCHANGED <<row, box, vol>>

\* updateStatus uses a fresh context; it reports whether a row was changed.
MarkReady(d) ==
  /\ At(d, "ready")
  /\ \/ /\ SetStatus(d, "ready") /\ UNCHANGED faults
        /\ Goto(d, IF HasRow(d) THEN "done" ELSE "cleanBox")
     \/ Fault /\ Goto(d, "cleanBox") /\ UNCHANGED row
  /\ Others(d) /\ UNCHANGED <<box, vol>>

MarkFailed(d) ==
  /\ At(d, "fail")
  /\ \/ SetStatus(d, "failed") /\ UNCHANGED faults
     \/ Fault /\ UNCHANGED row
  /\ Goto(d, create[d].then)
  /\ Others(d) /\ UNCHANGED <<box, vol>>

\* The clean-ups use the request's context and ignore every error.
CleanContainer(d) ==
  /\ At(d, "cleanBox")
  /\ \/ Live(d) /\ DropBox(d) /\ UNCHANGED faults
     \/ ~Live(d) /\ UNCHANGED <<box, faults>>
     \/ Fault /\ KeepBox(d)
  /\ Goto(d, "cleanVol")
  /\ Others(d) /\ UNCHANGED <<row, vol>>

CleanVolume(d) ==
  /\ At(d, "cleanVol")
  /\ \/ Live(d) /\ DropVol(d) /\ UNCHANGED faults
     \/ ~Live(d) /\ UNCHANGED <<vol, faults>>
     \/ Fault /\ UNCHANGED vol
  /\ Goto(d, "done")
  /\ Others(d) /\ UNCHANGED <<row, box>>

CreateStep(d) ==
  \/ Request(d) \/ CheckQuota(d) \/ FindFreePort(d) \/ Insert(d)
  \/ CreateVolume(d) \/ CreateContainer(d) \/ StartContainer(d)
  \/ RecordContainer(d) \/ WaitHealthy(d) \/ MarkReady(d) \/ MarkFailed(d)
  \/ CleanContainer(d) \/ CleanVolume(d)

----------------------------------------------------------------------------
(* Delete *)

Answer(k) == del' = [del EXCEPT ![k] = IdleDelete]

ToStep(k, l) == del' = [del EXCEPT ![k].pc = l]

In(k, l) == del[k].pc = l /\ boot.pc = "up"

DeleteArrives(k, d) ==
  /\ In(k, "idle") /\ row[d].status # "absent"
  /\ del' = [del EXCEPT ![k] = [pc |-> "read", db |-> d]]
  /\ UNCHANGED <<shared, create, boot, rec, gc>>

\* Mutant of Readable: a NULL container_id reads as "".
ReadableNull(d) == HasRow(d)

\* Get scans container_id into a string: a NULL is an error.
Readable(d) == HasRow(d) /\ row[d].container

ReadDatabase(k) ==
  /\ In(k, "read")
  /\ IF Readable(del[k].db) THEN ToStep(k, "box") ELSE Answer(k)
  /\ UNCHANGED <<shared, create, boot, rec, gc>>

\* "No such container" counts as removed.
DeleteContainer(k) ==
  /\ In(k, "box")
  /\ \/ DropBox(del[k].db) /\ ToStep(k, "vol") /\ UNCHANGED faults
     \/ Fault /\ KeepBox(del[k].db) /\ Answer(k)
  /\ UNCHANGED <<now, row, vol, create, boot, rec, gc>>

\* "No such volume" counts as removed; a volume in use is an error.
DeleteVolume(k) ==
  LET d == del[k].db IN
  /\ In(k, "vol")
  /\ \/ /\ UNCHANGED faults
        /\ IF vol[d] /\ Exists(d) THEN Answer(k) /\ UNCHANGED vol
                                ELSE DropVol(d) /\ ToStep(k, "row")
     \/ Fault /\ Answer(k) /\ UNCHANGED vol
  /\ UNCHANGED <<now, row, box, create, boot, rec, gc>>

DeleteRow(k) ==
  LET d == del[k].db IN
  /\ In(k, "row")
  /\ \/ /\ row' = IF HasRow(d) THEN [row EXCEPT ![d].status = "deleted",
                                                ![d].container = FALSE] ELSE row
        /\ UNCHANGED faults
     \/ Fault /\ UNCHANGED row
  /\ Answer(k)
  /\ UNCHANGED <<now, box, vol, create, boot, rec, gc>>

DeleteStep(k) ==
  ReadDatabase(k) \/ DeleteContainer(k) \/ DeleteVolume(k) \/ DeleteRow(k)

----------------------------------------------------------------------------
(* ReconcileStale, before the server listens *)

\* Mutant of SelectStale: takes every database that has not failed.
SelectUnfailed ==
  /\ boot.pc = "select"
  /\ boot' = [boot EXCEPT !.pc = "mark", !.todo =
       {d \in Dbs : row[d].status # "failed" /\ Readable(d)}]
  /\ UNCHANGED <<shared, create, del, rec, gc>>

\* Rows whose NULL container_id cannot be scanned are skipped: a Create cut off
\* before it recorded its container stays provisioning. A failed query ends the
\* pass.
SelectStale ==
  /\ boot.pc = "select"
  /\ \/ /\ boot' = [boot EXCEPT !.pc = "mark", !.todo =
             {d \in Dbs : row[d].status = "provisioning" /\ Readable(d)}]
        /\ UNCHANGED faults
     \/ Fault /\ boot' = [boot EXCEPT !.pc = "up"]
  /\ UNCHANGED <<now, row, box, vol, create, del, rec, gc>>

NextStale ==
  /\ boot.pc = "mark" /\ boot.db = None
  /\ \/ boot.todo = {} /\ boot' = [boot EXCEPT !.pc = "up"]
     \/ \E d \in boot.todo :
          boot' = [pc |-> "box", todo |-> boot.todo \ {d}, db |-> d]
  /\ UNCHANGED <<shared, create, del, rec, gc>>

DropStaleBox ==
  /\ boot.pc = "box"
  /\ \/ DropBox(boot.db) /\ UNCHANGED faults
     \/ Fault /\ KeepBox(boot.db)
  /\ boot' = [boot EXCEPT !.pc = "vol"]
  /\ UNCHANGED <<now, row, vol, create, del, rec, gc>>

DropStaleVol ==
  /\ boot.pc = "vol"
  /\ \/ DropVol(boot.db) /\ UNCHANGED faults
     \/ Fault /\ UNCHANGED vol
  /\ boot' = [boot EXCEPT !.pc = "mark"]
  /\ UNCHANGED <<now, row, box, create, del, rec, gc>>

MarkStale ==
  /\ boot.pc = "mark" /\ boot.db # None
  /\ \/ SetStatus(boot.db, "failed") /\ UNCHANGED faults
     \/ Fault /\ UNCHANGED row
  /\ boot' = [boot EXCEPT !.db = None]
  /\ UNCHANGED <<now, box, vol, create, del, rec, gc>>

ReconcileStale ==
  SelectStale \/ NextStale \/ DropStaleBox \/ DropStaleVol \/ MarkStale

----------------------------------------------------------------------------
(* Step 3 of the reconciler *)

\* Mutant of SelectReady: looks at databases still provisioning.
SelectProvisioning ==
  /\ boot.pc = "up" /\ ~rec.busy
  /\ rec' = [IdleRec EXCEPT !.busy = TRUE, !.todo =
       {d \in Dbs : row[d].status = "provisioning" /\ row[d].container}]
  /\ UNCHANGED <<shared, create, del, boot, gc>>

SelectReady ==
  /\ boot.pc = "up" /\ ~rec.busy
  /\ rec' = [IdleRec EXCEPT !.busy = TRUE, !.todo =
       {d \in Dbs : row[d].status = "ready" /\ row[d].container}]
  /\ UNCHANGED <<shared, create, del, boot, gc>>

\* Database containers lack the ah.tenant label, so each one is inspected.
InspectReady ==
  /\ rec.busy /\ rec.db = None
  /\ \/ rec.todo = {} /\ rec' = IdleRec /\ UNCHANGED faults
     \/ \E d \in rec.todo :
          \/ /\ rec' = [rec EXCEPT !.todo = @ \ {d},
                                   !.db = IF Exists(d) THEN None ELSE d]
             /\ UNCHANGED faults
          \/ Fault /\ rec' = [rec EXCEPT !.todo = @ \ {d}]
  /\ UNCHANGED <<now, row, box, vol, create, del, boot, gc>>

\* Mutant of MarkUnavailable: a status outside the vocabulary.
MarkCrashed ==
  /\ rec.db # None
  /\ SetStatus(rec.db, "crashed")
  /\ rec' = [rec EXCEPT !.db = None]
  /\ UNCHANGED <<now, faults, box, vol, create, del, boot, gc>>

MarkUnavailable ==
  /\ rec.db # None
  /\ \/ SetStatus(rec.db, "unavailable") /\ UNCHANGED faults
     \/ Fault /\ UNCHANGED row
  /\ rec' = [rec EXCEPT !.db = None]
  /\ UNCHANGED <<now, box, vol, create, del, boot, gc>>

RecStep == SelectReady \/ InspectReady \/ MarkUnavailable

----------------------------------------------------------------------------
(* The collector: containers first, then volumes *)

Referenced(d) == HasRow(d) /\ row[d].container

ListBoxes ==
  /\ boot.pc = "up" /\ gc.pc = "idle"
  /\ gc' = [pc |-> "boxes", todo |-> {d \in Dbs : Exists(d)}, at |-> now, batch |-> {}]
  /\ UNCHANGED <<shared, create, del, boot, rec>>

\* Mutant of OldEnough: no age gate.
AnyAge(d, at) == box[d].createdAt <= at

OldEnough(d, at) == box[d].createdAt + MinResourceAge <= at

\* Mutant of CheckBox: looks for the database, not for its container_id.
CheckRowExists ==
  /\ gc.pc = "boxes"
  /\ \/ gc.todo = {} /\ gc' = [gc EXCEPT !.pc = "removeBoxes"]
     \/ \E d \in gc.todo :
          gc' = [gc EXCEPT !.todo = @ \ {d}, !.batch =
            IF Exists(d) /\ OldEnough(d, gc.at) /\ ~HasRow(d)
              THEN @ \cup {d} ELSE @]
  /\ UNCHANGED <<shared, create, del, boot, rec>>

\* A failed inspection or count skips the container.
CheckBox ==
  /\ gc.pc = "boxes"
  /\ \/ gc.todo = {} /\ gc' = [gc EXCEPT !.pc = "removeBoxes"] /\ UNCHANGED faults
     \/ \E d \in gc.todo :
          \/ /\ gc' = [gc EXCEPT !.todo = @ \ {d}, !.batch =
                  IF Exists(d) /\ OldEnough(d, gc.at) /\ ~Referenced(d)
                    THEN @ \cup {d} ELSE @]
             /\ UNCHANGED faults
          \/ Fault /\ gc' = [gc EXCEPT !.todo = @ \ {d}]
  /\ UNCHANGED <<now, row, box, vol, create, del, boot, rec>>

RemoveOrphans ==
  /\ gc.pc = "removeBoxes"
  /\ \/ /\ gc.batch = {} /\ UNCHANGED <<box, faults>>
        /\ gc' = [gc EXCEPT !.pc = "vols", !.todo = {d \in Dbs : vol[d]}]
     \/ \E d \in gc.batch :
          /\ \/ DropBox(d) /\ UNCHANGED faults
             \/ Fault /\ KeepBox(d)
          /\ gc' = [gc EXCEPT !.batch = @ \ {d}]
  /\ UNCHANGED <<now, row, vol, create, del, boot, rec>>

\* No age gate: the row precedes its volume.
CheckVolume ==
  /\ gc.pc = "vols"
  /\ \/ gc.todo = {} /\ gc' = [gc EXCEPT !.pc = "removeVols"] /\ UNCHANGED faults
     \/ \E d \in gc.todo :
          \/ /\ gc' = [gc EXCEPT !.todo = @ \ {d},
                                 !.batch = IF HasRow(d) THEN @ ELSE @ \cup {d}]
             /\ UNCHANGED faults
          \/ Fault /\ gc' = [gc EXCEPT !.todo = @ \ {d}]
  /\ UNCHANGED <<now, row, box, vol, create, del, boot, rec>>

RemoveVolumes ==
  /\ gc.pc = "removeVols"
  /\ \/ gc.batch = {} /\ gc' = IdleGc /\ UNCHANGED <<vol, faults>>
     \/ \E d \in gc.batch :
          /\ \/ DropVol(d) /\ UNCHANGED faults
             \/ Fault /\ UNCHANGED vol
          /\ gc' = [gc EXCEPT !.batch = @ \ {d}]
  /\ UNCHANGED <<now, row, box, create, del, boot, rec>>

GcStep == ListBoxes \/ CheckBox \/ RemoveOrphans \/ CheckVolume \/ RemoveVolumes

----------------------------------------------------------------------------
(* The environment *)

Tick ==
  /\ MayDisturb /\ now < MaxClock /\ now' = now + 1
  /\ UNCHANGED <<faults, row, box, vol, create, del, boot, rec, gc>>

BoxExits(d) ==
  /\ box[d].st = "running" /\ Fault
  /\ box' = [box EXCEPT ![d].st = "exited"]
  /\ UNCHANGED <<now, row, vol, create, del, boot, rec, gc>>

BoxRestarts(d) ==
  /\ box[d].st = "exited" /\ ~Bound(create[d].port)
  /\ box' = [box EXCEPT ![d].st = "running"]
  /\ UNCHANGED <<now, faults, row, vol, create, del, boot, rec, gc>>

\* Goroutines and requests are lost; main() runs ReconcileStale again.
ProcessRestarts ==
  /\ boot.pc = "up" /\ Fault
  /\ create' = [d \in Dbs |-> IF create[d].pc = "new" THEN create[d]
                                ELSE [create[d] EXCEPT !.pc = "done"]]
  /\ del' = [k \in Deleters |-> IdleDelete]
  /\ boot' = IdleBoot /\ rec' = IdleRec /\ gc' = IdleGc
  /\ UNCHANGED <<now, row, box, vol>>

Next ==
  \/ \E d \in Dbs : CreateStep(d) \/ BoxExits(d) \/ BoxRestarts(d)
  \/ \E k \in Deleters : DeleteStep(k) \/ \E d \in Dbs : DeleteArrives(k, d)
  \/ ReconcileStale \/ RecStep \/ GcStep \/ Tick \/ ProcessRestarts

Spec == Init /\ [][Next]_vars

\* Time, Docker's restarts, startup and the two loops; no request is assumed
\* to be sent or to finish.
FairSpec ==
  /\ Spec /\ WF_vars(Tick) /\ WF_vars(ReconcileStale)
  /\ WF_vars(RecStep) /\ WF_vars(GcStep)
  /\ \A d \in Dbs : WF_vars(BoxRestarts(d))

----------------------------------------------------------------------------
(* Safety *)

\* Delete removes the record only after the container and the volume: whatever
\* Create is still doing, nothing of a deleted database is left or comes back.
DeletedIsClean ==
  \A d \in Dbs : row[d].status = "deleted" => ~Exists(d) /\ ~vol[d]

\* The data of a ready database is removed by its Delete request only, never by
\* a Create's clean-up, the startup pass or the collector.
ReadyVolumeKept ==
  [][\A d \in Dbs :
       row[d].status = "ready" /\ vol[d] /\ ~vol'[d]
         => \E k \in Deleters : del[k] = [pc |-> "vol", db |-> d]]_vars

\* The collector's batch of containers holds none that a row names or that a
\* Create may still record.
CollectedBoxIsGarbage ==
  gc.pc = "removeBoxes" =>
    \A d \in gc.batch :
      ~Referenced(d) /\ ~(create[d].pc \in {"start", "record"} /\ Live(d))

Rivals(d) == {e \in Dbs \ {d} : row[e].status # "absent"}

\* While nothing fails and nobody gives up waiting, Creates racing for ports all
\* succeed: a Create that found a port ends ready, unless it was deleted or as
\* many others got their rows in as it has attempts or the range has ports.
RacingCreatesSucceed ==
  Calm /\ (\A k \in Deleters : del[k].pc = "idle") =>
    \A d \in Dbs : create[d].pc = "done" /\ create[d].port # None
                     => \/ row[d].status \in {"ready", "deleted"}
                        \/ MaxPortRetries <= Cardinality(Rivals(d))
                        \/ Cardinality(Ports) <= Cardinality(Rivals(d))

----------------------------------------------------------------------------
(* Liveness, under FairSpec *)

\* A ready database whose container is gone does not stay ready.
LostDatabaseDetected ==
  \A d \in Dbs : (row[d].status = "ready" /\ ~Exists(d)) ~> (row[d].status # "ready")

\* A container that no row names is removed once it is old enough.
LostContainerCollected ==
  \A d \in Dbs :
    (Exists(d) /\ ~Referenced(d) /\ OldEnough(d, now)) ~> (~Exists(d) \/ Referenced(d))
=============================================================================
