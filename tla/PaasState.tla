------------------------------ MODULE PaasState ------------------------------
(***************************************************************************)
(* The state every control-plane process shares: the SQLite tables         *)
(* (services, tenants), the Docker engine's containers, and the clock.     *)
(* The operators below are the SQL statements and the Docker calls the     *)
(* processes are built from; each is one atomic effect.                    *)
(***************************************************************************)
EXTENDS Naturals, FiniteSets

CONSTANTS
  Tenants, Services, Containers,  \* identifiers (random ids: never reused)
  TenantOf,                       \* services.tenant_id
  None,                           \* '' or NULL
  DeployTimeout,                  \* lifetime of a deploy context (10 min)
  StaleAfter,                     \* reconciler step 2 (10 min)
  MinResourceAge,                 \* the collector's age gate (10 min)
  MaxServices,                    \* tenant_quotas.max_services
  MaxClock,                       \* bound: the last instant of the model
  LastStart,                      \* bound: the last instant requests and deploys start
  MaxFaults                       \* bound: environment failures of a behaviour

ASSUME ConstantsAssumption ==
  /\ TenantOf \in [Services -> Tenants]
  /\ None \notin Containers /\ None \notin Services /\ None \notin Nat
  /\ {DeployTimeout, StaleAfter, MinResourceAge, MaxServices} \subseteq Nat
  /\ {MaxClock, LastStart, MaxFaults} \subseteq Nat

\* The three ten-minute constants are written in three files; what the
\* processes rely on is only this order between them.
ASSUME TimingAssumption ==
  /\ DeployTimeout <= MinResourceAge
  /\ DeployTimeout <= StaleAfter

VARIABLES
  now,       \* time.Now(), one clock for the process, SQLite and Docker
  tenant,    \* tenants.status = 'active'
  row,       \* the services table
  box,       \* the Docker engine's containers
  faults     \* environment failures still to come

stateVars == <<now, tenant, row, box, faults>>

----------------------------------------------------------------------------
(* The services table. "absent": no row yet; "deleted": the row is gone.   *)

Statuses == {"created", "deploying", "running", "stopped", "failed", "crashed"}

Row == [status: Statuses \cup {"absent", "deleted"},
        container: Containers \cup {None},
        updatedAt: Nat,
        circuitOpen: BOOLEAN,
        retryAt: Nat \cup {None}]

BlankRow == [status |-> "absent", container |-> None, updatedAt |-> 0,
             circuitOpen |-> FALSE, retryAt |-> None]

HasRow(s) == row[s].status \in Statuses

\* SELECT COUNT(*) FROM services WHERE container_id = ?
Referenced(c) == \E s \in Services : HasRow(s) /\ row[s].container = c

\* Mutant of SetStatus: the row is put back if it is gone.
SetStatusUpsert(s, st) ==
  row' = [row EXCEPT ![s].status = st, ![s].updatedAt = now]

\* UPDATE services SET status = ?, updated_at = ? WHERE id = ?
SetStatus(s, st) ==
  row' = IF HasRow(s) THEN [row EXCEPT ![s].status = st, ![s].updatedAt = now]
                      ELSE row

\* Mutant of SetRunning: container_id is forgotten.
SetRunningOnly(s, c) == SetStatus(s, "running")

\* UPDATE services SET status = 'running', container_id = ?, updated_at = ?
SetRunning(s, c) ==
  row' = [row EXCEPT ![s].status = "running", ![s].container = c,
                     ![s].updatedAt = now]

\* UPDATE services SET image = ?, updated_at = ?
TouchRow(s) ==
  row' = IF HasRow(s) THEN [row EXCEPT ![s].updatedAt = now] ELSE row

\* UPDATE services SET circuit_open = 0, status = 'stopped', ... circuit_retry_at
\* is cleared by the reconciler and kept by the reset endpoint.
CloseCircuit(s, retry) ==
  row' = IF HasRow(s)
           THEN [row EXCEPT ![s].status = "stopped", ![s].updatedAt = now,
                            ![s].circuitOpen = FALSE, ![s].retryAt = retry]
           ELSE row

\* INSERT INTO services (..., 'created', container_id = '')
InsertRow(s) ==
  row' = [row EXCEPT ![s] = [BlankRow EXCEPT !.status = "created",
                                             !.updatedAt = now]]

\* DELETE FROM services WHERE id = ?
DeleteRow(s) ==
  row' = IF HasRow(s) THEN [row EXCEPT ![s] = [BlankRow EXCEPT !.status = "deleted"]]
                      ELSE row

----------------------------------------------------------------------------
(* The Docker engine (external). A container carries the name and labels   *)
(* of its service, and restarts by itself unless it was stopped by a call. *)

BoxStates == {"created", "running", "exited"}

Box == [svc: Services \cup {None},
        st: BoxStates \cup {"unused", "removed"},
        manual: BOOLEAN,          \* stopped by an API call
        unhealthy: BOOLEAN,       \* State.Health.Status = "unhealthy"
        createdAt: Nat]

BlankBox == [svc |-> None, st |-> "unused", manual |-> FALSE,
             unhealthy |-> FALSE, createdAt |-> 0]

Exists(c) == c \in Containers /\ box[c].st \in BoxStates

Existing == {c \in Containers : box[c].st \in BoxStates}

\* Mutant of Named: a name with a random suffix never conflicts.
NamedApart(s) == {}

\* The container holding the name ah-<tenant>-<service>.
Named(s) == {c \in Existing : box[c].svc = s}

\* Stopping a container that is not running succeeds and changes nothing else.
StopBox(c) ==
  box' = [box EXCEPT ![c].manual = TRUE,
                     ![c].st = IF @ = "running" THEN "exited" ELSE @]

StartBox(c) ==
  box' = [box EXCEPT ![c].st = "running", ![c].manual = FALSE,
                     ![c].unhealthy = FALSE]

RemoveBox(c) == box' = [box EXCEPT ![c].st = "removed"]

\* ContainerCreate: refused when the name is taken.
CreateBox(c, s) ==
  /\ box[c].st = "unused"
  /\ box' = [box EXCEPT ![c] = [BlankBox EXCEPT !.svc = s, !.st = "created",
                                                !.createdAt = now]]

\* One environment failure: a Docker or SQLite error, a crash of a container,
\* a cancelled request, a restart of the control plane.
Fault == faults > 0 /\ faults' = faults - 1

\* StopContainer then RemoveContainer, both errors ignored: the container is
\* gone, or a failure left it running or stopped. Removal is forced, so the
\* stop is only visible when the removal fails.
StopAndRemove(c) ==
  \/ ~Exists(c) /\ UNCHANGED <<box, faults>>
  \/ Exists(c) /\ RemoveBox(c) /\ UNCHANGED faults
  \/ Exists(c) /\ Fault /\ (StopBox(c) \/ UNCHANGED box)

\* RemoveContainer alone, its error ignored.
TryRemove(c) ==
  \/ ~Exists(c) /\ UNCHANGED <<box, faults>>
  \/ Exists(c) /\ RemoveBox(c) /\ UNCHANGED faults
  \/ Exists(c) /\ Fault /\ UNCHANGED box

----------------------------------------------------------------------------
(* The environment's own steps. *)

Tick ==
  /\ now < MaxClock
  /\ now' = now + 1
  /\ UNCHANGED <<tenant, row, box, faults>>

\* The process in a container ends; the container is seen as exited.
BoxExits(c) ==
  /\ box[c].st = "running"
  /\ Fault
  /\ box' = [box EXCEPT ![c].st = "exited"]
  /\ UNCHANGED <<now, tenant, row>>

\* RestartPolicy unless-stopped.
BoxRestarts(c) ==
  /\ box[c].st = "exited" /\ ~box[c].manual
  /\ StartBox(c)
  /\ UNCHANGED <<now, tenant, row, faults>>

HealthCheckFails(c) ==
  /\ box[c].st = "running" /\ ~box[c].unhealthy
  /\ Fault
  /\ box' = [box EXCEPT ![c].unhealthy = TRUE]
  /\ UNCHANGED <<now, tenant, row>>

Environment ==
  \/ Tick
  \/ \E c \in Containers : BoxExits(c) \/ BoxRestarts(c) \/ HealthCheckFails(c)

----------------------------------------------------------------------------
\* A row whose circuit an earlier release opened: its container was removed,
\* container_id kept; circuit_retry_at is NULL, or an operator set it.
LegacyRow(c, retry) ==
  [status |-> "crashed", container |-> c, updatedAt |-> 0,
   circuitOpen |-> TRUE, retryAt |-> retry]

StateInit ==
  /\ now = 0
  /\ tenant = [t \in Tenants |-> TRUE]
  /\ faults = MaxFaults
  /\ \/ /\ row = [s \in Services |-> BlankRow]
        /\ box = [c \in Containers |-> BlankBox]
     \/ \E s \in Services, c \in Containers, retry \in {None, 0} :
          /\ row = [[x \in Services |-> BlankRow] EXCEPT ![s] = LegacyRow(c, retry)]
          /\ box = [[x \in Containers |-> BlankBox]
                       EXCEPT ![c] = [BlankBox EXCEPT !.svc = s, !.st = "removed"]]

StateTypeOK ==
  /\ now \in Nat
  /\ tenant \in [Tenants -> BOOLEAN]
  /\ row \in [Services -> Row]
  /\ box \in [Containers -> Box]
  /\ faults \in Nat
=============================================================================
