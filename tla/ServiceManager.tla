---------------------------- MODULE ServiceManager ----------------------------
(***************************************************************************)
(* internal/services: the deploy goroutines (Deploy, DeployImage) and the  *)
(* request handlers that act on a service. A process step is one SQL       *)
(* statement or one Docker call; between two of them everybody else runs.  *)
(***************************************************************************)
EXTENDS PaasState

CONSTANTS
  Workers,               \* bound: deploys in flight
  Clients,               \* bound: requests in flight
  Ops,                   \* the requests this instance sends
  MaxQueuedDeploys, MaxConcurrentDeploys

ASSUME OpsAssumption ==
  Ops \subseteq {"Create", "Stop", "Start", "Restart", "Delete", "Reset",
                 "Suspend", "Build"}

VARIABLES worker, client

managerVars == <<worker, client>>

----------------------------------------------------------------------------
(* Deploy goroutines *)

WorkerPcs == {"idle", "check", "queue", "sem", "read", "mark", "pull", "reread",
              "clean", "net", "image", "create", "start", "commit", "undo",
              "rejected", "failing"}

\* mark is history: whether this deploy's 'deploying' reached the table.
Worker == [pc: WorkerPcs, kind: {"Deploy", "DeployImage"},
           svc: Services \cup {None}, start: Nat, box: Containers \cup {None},
           mark: {"none", "written"}]

IdleWorker == [pc |-> "idle", kind |-> "Deploy", svc |-> None, start |-> 0,
               box |-> None, mark |-> "none"]

\* context.WithTimeout(10 min): every SQL statement and Docker call of the
\* deploy fails from the deadline on.
Live(w) == now < worker[w].start + DeployTimeout

At(w, l) == worker[w].pc = l /\ Live(w)

Goto(w, l) == worker' = [worker EXCEPT ![w].pc = l]

Finish(w) == worker' = [worker EXCEPT ![w] = IdleWorker]

\* DeployImage returns its early errors to the build and leaves the row alone.
GiveUp(w, l) == IF worker[w].kind = "Deploy" THEN Goto(w, l) ELSE Finish(w)

Spawn(w, kind, s) ==
  worker' = [worker EXCEPT ![w] = [pc |-> "check", kind |-> kind, svc |-> s,
                                   start |-> now, box |-> None,
                                   mark |-> "none"]]

\* deployQueue and deploySem belong to a Manager: Deploy runs in the API
\* server's, DeployImage in the one main() builds for the build manager.
OutsideQueue == {"idle", "check", "queue", "rejected"}
Queued(k)  == {w \in Workers : worker[w].kind = k /\ worker[w].pc \notin OutsideQueue}
Deploying(k) == {w \in Queued(k) : worker[w].pc # "sem"}

\* builds.runBuild hands a finished image over to DeployImage.
DeployBuilt(w, s) ==
  /\ "Build" \in Ops /\ now <= LastStart
  /\ worker[w].pc = "idle"
  /\ row[s].status # "absent"
  /\ Spawn(w, "DeployImage", s)
  /\ UNCHANGED <<stateVars, client>>

CheckTenantActive(w) ==
  /\ At(w, "check")
  /\ \/ tenant[TenantOf[worker[w].svc]] /\ Goto(w, "queue") /\ UNCHANGED faults
     \/ ~tenant[TenantOf[worker[w].svc]] /\ GiveUp(w, "rejected") /\ UNCHANGED faults
     \/ Fault /\ GiveUp(w, "rejected")
  /\ UNCHANGED <<now, tenant, row, box, client>>

EnterQueue(w) ==
  /\ At(w, "queue")
  /\ IF Cardinality(Queued(worker[w].kind)) < MaxQueuedDeploys
       THEN Goto(w, "sem") ELSE GiveUp(w, "rejected")
  /\ UNCHANGED <<stateVars, client>>

AcquireSlot(w) ==
  /\ At(w, "sem")
  /\ Cardinality(Deploying(worker[w].kind)) < MaxConcurrentDeploys
  /\ Goto(w, "read")
  /\ UNCHANGED <<stateVars, client>>

\* getOwned, the circuit check (Deploy only) and the disk check. Deploy follows
\* its own INSERT, so it never finds an open circuit.
LoadService(w) ==
  LET s == worker[w].svc
      deploy == worker[w].kind = "Deploy"
  IN /\ At(w, "read")
     /\ \/ ~HasRow(s) /\ Finish(w) /\ UNCHANGED faults
        \/ /\ HasRow(s)
           /\ worker' = [worker EXCEPT
                ![w].pc = IF deploy /\ row[s].circuitOpen THEN "failing" ELSE "mark",
                ![w].box = IF deploy THEN None ELSE row[s].container]
           /\ UNCHANGED faults
        \/ Fault /\ (GiveUp(w, "failing") \/ Finish(w))
     /\ UNCHANGED <<now, tenant, row, box, client>>

\* updateStatusScoped only logs an error of its UPDATE; the deploy goes on.
MarkDeploying(w) ==
  LET next == IF worker[w].kind = "Deploy" THEN "pull" ELSE "clean" IN
  /\ At(w, "mark")
  /\ \/ /\ SetStatus(worker[w].svc, "deploying")
        /\ worker' = [worker EXCEPT ![w].pc = next, ![w].mark = "written"]
        /\ UNCHANGED faults
     \/ Fault /\ Goto(w, next) /\ UNCHANGED row
  /\ UNCHANGED <<now, tenant, box, client>>

\* EnsureNetwork and PullImage.
PullImage(w) ==
  /\ At(w, "pull")
  /\ \/ Goto(w, "reread") /\ UNCHANGED faults
     \/ Goto(w, "failing") /\ Fault
  /\ UNCHANGED <<now, tenant, row, box, client>>

\* The second getOwned, after the slow pull.
ReloadService(w) ==
  /\ At(w, "reread")
  /\ \/ /\ HasRow(worker[w].svc)
        /\ worker' = [worker EXCEPT ![w].pc = "clean",
                                    ![w].box = row[worker[w].svc].container]
        /\ UNCHANGED faults
     \/ ~HasRow(worker[w].svc) /\ Finish(w) /\ UNCHANGED faults
     \/ Fault /\ Finish(w)
  /\ UNCHANGED <<now, tenant, row, box, client>>

\* Stop and remove the container the row named.
CleanOld(w) ==
  /\ At(w, "clean")
  /\ StopAndRemove(worker[w].box)
  /\ worker' = [worker EXCEPT ![w].box = None,
                  ![w].pc = IF worker[w].kind = "Deploy" THEN "create" ELSE "net"]
  /\ UNCHANGED <<now, tenant, row, client>>

SetupNetwork(w) ==
  /\ At(w, "net")
  /\ \/ Goto(w, "image") /\ UNCHANGED faults
     \/ Goto(w, "failing") /\ Fault
  /\ UNCHANGED <<now, tenant, row, box, client>>

UpdateImage(w) ==
  /\ At(w, "image")
  /\ \/ TouchRow(worker[w].svc) /\ Goto(w, "create") /\ UNCHANGED faults
     \/ Fault /\ Finish(w) /\ UNCHANGED row
  /\ UNCHANGED <<now, tenant, box, client>>

\* getEnvVars, then RunContainer's ContainerCreate.
CreateContainer(w) ==
  LET s == worker[w].svc IN
  /\ At(w, "create")
  /\ \/ /\ Named(s) = {}
        /\ \E c \in Containers :
             /\ CreateBox(c, s)
             /\ worker' = [worker EXCEPT ![w].pc = "start", ![w].box = c]
        /\ UNCHANGED faults
     \/ Named(s) # {} /\ Goto(w, "failing") /\ UNCHANGED <<box, faults>>
     \/ Fault /\ Goto(w, "failing") /\ UNCHANGED box
  /\ UNCHANGED <<now, tenant, row, client>>

\* RunContainer's ContainerStart; on an error it removes what it created.
StartContainer(w) ==
  LET c == worker[w].box IN
  /\ At(w, "start")
  /\ \/ Exists(c) /\ StartBox(c) /\ Goto(w, "commit") /\ UNCHANGED faults
     \/ ~Exists(c) /\ Goto(w, "failing") /\ UNCHANGED <<box, faults>>
     \/ /\ Exists(c) /\ Fault /\ Goto(w, "failing")
        /\ RemoveBox(c) \/ UNCHANGED box
  /\ UNCHANGED <<now, tenant, row, client>>

CommitDeploy(w) ==
  LET s == worker[w].svc IN
  /\ At(w, "commit")
  /\ \/ HasRow(s) /\ SetRunning(s, worker[w].box) /\ Finish(w) /\ UNCHANGED faults
     \/ ~HasRow(s) /\ Goto(w, "undo") /\ UNCHANGED <<row, faults>>
     \/ Fault /\ Goto(w, "undo") /\ UNCHANGED row
  /\ UNCHANGED <<now, tenant, box, client>>

UndoDeploy(w) ==
  /\ At(w, "undo")
  /\ StopAndRemove(worker[w].box)
  /\ Finish(w)
  /\ UNCHANGED <<now, tenant, row, client>>

\* Mutant of RecordFailure: a status outside the vocabulary.
RecordError(w) ==
  /\ At(w, "rejected") \/ At(w, "failing")
  /\ SetStatus(worker[w].svc, "error")
  /\ Finish(w)
  /\ UNCHANGED <<now, tenant, box, faults, client>>

RecordFailure(w) ==
  /\ At(w, "rejected") \/ At(w, "failing")
  /\ \/ SetStatus(worker[w].svc, "failed") /\ UNCHANGED faults
     \/ Fault /\ UNCHANGED row
  /\ Finish(w)
  /\ UNCHANGED <<now, tenant, box, client>>

\* Past the deadline whatever is left of the deploy fails without effect.
DeployExpires(w) ==
  /\ worker[w].pc # "idle" /\ ~Live(w)
  /\ Finish(w)
  /\ UNCHANGED <<stateVars, client>>

WorkerStep(w) ==
  \/ CheckTenantActive(w) \/ EnterQueue(w) \/ AcquireSlot(w) \/ LoadService(w)
  \/ MarkDeploying(w) \/ PullImage(w) \/ ReloadService(w) \/ CleanOld(w)
  \/ SetupNetwork(w) \/ UpdateImage(w) \/ CreateContainer(w)
  \/ StartContainer(w) \/ CommitDeploy(w) \/ UndoDeploy(w)
  \/ RecordFailure(w) \/ DeployExpires(w)

----------------------------------------------------------------------------
(* Request handlers *)

ClientPcs == {"idle", "check", "count", "insert", "read", "stop", "start",
              "write", "remove", "byname", "delete", "reset", "suspend",
              "labels", "purge", "rows", "settle"}

Client == [pc: ClientPcs, op: Ops \cup {"none"}, svc: Services \cup {None},
           box: Containers \cup {None},
           st: Statuses,                                   \* status to write
           boxes: SUBSET Containers,                       \* suspension only
           rows: SUBSET (Services \X (Containers \cup {None}))]

IdleClient == [pc |-> "idle", op |-> "none", svc |-> None, box |-> None,
               st |-> "stopped", boxes |-> {}, rows |-> {}]

On(k, l) == client[k].pc = l

Proceed(k, l) == client' = [client EXCEPT ![k].pc = l]

Reply(k) == client' = [client EXCEPT ![k] = IdleClient]

\* A request passes the auth middleware, so its tenant is active; ids of new
\* services are random.
Arrive(k, op, s) ==
  /\ On(k, "idle") /\ now <= LastStart
  /\ tenant[TenantOf[s]]
  /\ IF op = "Create"
       THEN /\ row[s].status = "absent"
            /\ \A j \in Clients : client[j].op = "Create" => client[j].svc # s
       ELSE row[s].status # "absent"
  /\ client' = [client EXCEPT ![k] =
       [IdleClient EXCEPT !.op = op, !.svc = s,
          !.pc = CASE op \in {"Create", "Start"} -> "check"
                   [] op = "Suspend" -> "suspend"
                   [] OTHER -> "read"]]
  /\ UNCHANGED <<stateVars, worker>>

HandlerChecksTenant(k) ==
  /\ On(k, "check")
  /\ IF tenant[TenantOf[client[k].svc]]
       THEN Proceed(k, IF client[k].op = "Create" THEN "count" ELSE "read")
       ELSE Reply(k)
  /\ UNCHANGED <<stateVars, worker>>

RowsOf(t) == {s \in Services : TenantOf[s] = t /\ HasRow(s)}

CountServices(k) ==
  /\ On(k, "count")
  /\ IF Cardinality(RowsOf(TenantOf[client[k].svc])) < MaxServices
       THEN Proceed(k, "insert") ELSE Reply(k)
  /\ UNCHANGED <<stateVars, worker>>

\* The INSERT transaction with its fresh id; the handler then starts the
\* deploy goroutine.
InsertService(k) ==
  /\ On(k, "insert") /\ now <= LastStart
  /\ row[client[k].svc].status = "absent"
  /\ InsertRow(client[k].svc)
  /\ \E w \in Workers : worker[w].pc = "idle" /\ Spawn(w, "Deploy", client[k].svc)
  /\ Reply(k)
  /\ UNCHANGED <<now, tenant, box, faults>>

\* getOwned and the handler's early returns.
ReadService(k) ==
  LET s == client[k].svc
      op == client[k].op
      refused == \/ ~HasRow(s)
                 \/ op \in {"Start", "Restart"} /\ row[s].circuitOpen
                 \/ op \in {"Stop", "Start", "Restart"} /\ row[s].container = None
  IN /\ On(k, "read")
     /\ \/ refused /\ Reply(k)
        \/ /\ ~refused
           /\ client' = [client EXCEPT ![k].box = row[s].container, ![k].pc =
                CASE op = "Start" -> "start"
                  [] op = "Delete" -> "remove"
                  [] op = "Reset" /\ row[s].container = None -> "reset"
                  [] OTHER -> "stop"]
     /\ UNCHANGED <<stateVars, worker>>

AfterStop(op) == CASE op = "Stop" -> "write"
                   [] op = "Restart" -> "start"
                   [] OTHER -> "remove"

\* StopContainer. Reset accepts a container that is gone, and after any other
\* error one that an inspect shows not running.
StopCall(k) ==
  LET c == client[k].box
      op == client[k].op
  IN /\ On(k, "stop")
     /\ \/ /\ Exists(c) /\ StopBox(c)
           /\ Proceed(k, AfterStop(op)) /\ UNCHANGED faults
        \/ /\ ~Exists(c) /\ UNCHANGED <<box, faults>>
           /\ IF op = "Reset" THEN Proceed(k, "remove") ELSE Reply(k)
        \/ /\ Exists(c) /\ Fault /\ UNCHANGED box
           /\ IF op = "Reset" /\ box[c].st # "running"
                THEN Proceed(k, "remove") ELSE Reply(k)
     /\ UNCHANGED <<now, tenant, row, worker>>

StartCall(k) ==
  /\ On(k, "start")
  /\ \/ /\ Exists(client[k].box) /\ StartBox(client[k].box)
        /\ client' = [client EXCEPT ![k].pc = "write", ![k].st = "running"]
     \/ ~Exists(client[k].box) /\ Reply(k) /\ UNCHANGED box
  /\ UNCHANGED <<now, tenant, row, faults, worker>>

\* updateStatus: WHERE id = ? only; an error is logged.
WriteStatus(k) ==
  /\ On(k, "write")
  /\ \/ SetStatus(client[k].svc, client[k].st) /\ UNCHANGED faults
     \/ Fault /\ UNCHANGED row
  /\ IF client[k].op = "Suspend" THEN Proceed(k, "settle") ELSE Reply(k)
  /\ UNCHANGED <<now, tenant, box, worker>>

\* Delete stops and removes; Reset, already past its stop, only removes.
RemoveCall(k) ==
  LET c == client[k].box IN
  /\ On(k, "remove")
  /\ \/ client[k].op = "Delete" /\ StopAndRemove(c) /\ Proceed(k, "byname")
     \/ client[k].op = "Reset" /\ TryRemove(c) /\ Proceed(k, "reset")
  /\ UNCHANGED <<now, tenant, row, worker>>

RemoveByName(k) ==
  /\ On(k, "byname")
  /\ \/ Named(client[k].svc) = {} /\ UNCHANGED <<box, faults>>
     \/ \E c \in Named(client[k].svc) : StopAndRemove(c)
  /\ Proceed(k, "delete")
  /\ UNCHANGED <<now, tenant, row, worker>>

DeleteService(k) ==
  /\ On(k, "delete")
  /\ DeleteRow(client[k].svc)
  /\ Reply(k)
  /\ UNCHANGED <<now, tenant, box, faults, worker>>

ResetCircuitBreaker(k) ==
  /\ On(k, "reset")
  /\ CloseCircuit(client[k].svc, row[client[k].svc].retryAt)
  /\ Reply(k)
  /\ UNCHANGED <<now, tenant, box, faults, worker>>

\* DELETE /v1/tenant: the transaction, then StopAllForTenant.
SuspendTenant(k) ==
  /\ On(k, "suspend")
  /\ tenant' = [tenant EXCEPT ![TenantOf[client[k].svc]] = FALSE]
  /\ Proceed(k, "labels")
  /\ UNCHANGED <<now, row, box, faults, worker>>

ListLabelled(k) ==
  LET t == TenantOf[client[k].svc] IN
  /\ On(k, "labels")
  /\ \/ /\ client' = [client EXCEPT ![k].pc = "purge", ![k].boxes =
             {c \in Existing : TenantOf[box[c].svc] = t}]
        /\ UNCHANGED faults
     \/ Fault /\ Proceed(k, "rows")
  /\ UNCHANGED <<now, tenant, row, box, worker>>

PurgeLabelled(k) ==
  /\ On(k, "purge")
  /\ \/ client[k].boxes = {} /\ Proceed(k, "rows") /\ UNCHANGED <<box, faults>>
     \/ \E c \in client[k].boxes :
          /\ StopAndRemove(c)
          /\ client' = [client EXCEPT ![k].boxes = @ \ {c}]
  /\ UNCHANGED <<now, tenant, row, worker>>

ListRows(k) ==
  /\ On(k, "rows")
  /\ client' = [client EXCEPT ![k].pc = "settle", ![k].rows =
       {<<s, row[s].container>> : s \in RowsOf(TenantOf[client[k].svc])}]
  /\ UNCHANGED <<stateVars, worker>>

\* One row: stop, remove; 'stopped' is written only if both succeed.
SettleRow(k) ==
  /\ On(k, "settle")
  /\ \/ client[k].rows = {} /\ Reply(k) /\ UNCHANGED <<box, faults>>
     \/ \E p \in client[k].rows :
          \E st \in {"stopped", "failed"} :
            /\ client' = [client EXCEPT ![k].pc = "write", ![k].svc = p[1],
                                        ![k].st = st, ![k].rows = @ \ {p}]
            /\ \/ p[2] = None /\ st = "stopped" /\ UNCHANGED <<box, faults>>
               \/ Exists(p[2]) /\ RemoveBox(p[2]) /\ st = "stopped" /\ UNCHANGED faults
               \/ /\ p[2] # None /\ ~Exists(p[2]) /\ st = "failed"
                  /\ UNCHANGED <<box, faults>>
               \/ /\ Exists(p[2]) /\ Fault /\ st = "failed"
                  /\ StopBox(p[2]) \/ RemoveBox(p[2]) \/ UNCHANGED box
  /\ UNCHANGED <<now, tenant, row, worker>>

\* The request context ends (30 s, or the caller left): every later statement
\* and Docker call of the handler fails.
RequestCancelled(k) ==
  /\ ~On(k, "idle") /\ Fault
  /\ Reply(k)
  /\ UNCHANGED <<now, tenant, row, box, worker>>

ClientStep(k) ==
  \/ HandlerChecksTenant(k) \/ CountServices(k) \/ InsertService(k)
  \/ ReadService(k) \/ StopCall(k) \/ StartCall(k) \/ WriteStatus(k)
  \/ RemoveCall(k) \/ RemoveByName(k) \/ DeleteService(k)
  \/ ResetCircuitBreaker(k) \/ SuspendTenant(k) \/ ListLabelled(k)
  \/ PurgeLabelled(k) \/ ListRows(k) \/ SettleRow(k) \/ RequestCancelled(k)

----------------------------------------------------------------------------
ManagerInit ==
  /\ worker = [w \in Workers |-> IdleWorker]
  /\ client = [k \in Clients |-> IdleClient]

ManagerNext ==
  \/ \E w \in Workers, s \in Services : DeployBuilt(w, s)
  \/ \E w \in Workers : WorkerStep(w)
  \/ \E k \in Clients, op \in Ops \ {"Build"}, s \in Services : Arrive(k, op, s)
  \/ \E k \in Clients : ClientStep(k)

ManagerTypeOK ==
  /\ worker \in [Workers -> Worker]
  /\ client \in [Clients -> Client]
=============================================================================
