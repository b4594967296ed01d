--------------------------- MODULE Platform_proofs ---------------------------
(***************************************************************************)
(* Proofs about Platform, for every number of tenants, services,           *)
(* containers, deploys and requests, and every choice of the three         *)
(* timeouts that satisfies TimingAssumption.                               *)
(***************************************************************************)
EXTENDS Platform, TLAPS

----------------------------------------------------------------------------
(* What the SQL statements and the Docker calls keep. *)

\* Rows keep their type; a row that exists afterwards either existed before
\* with the same container, or is new and names none; no row goes back to
\* "absent"; updated_at is kept or is the current time.
RowsKept ==
  /\ row' \in [Services -> Row]
  /\ \A s \in Services :
       /\ row[s].status # "absent" => row'[s].status # "absent"
       /\ HasRow(s)' =>
            /\ HasRow(s) => row'[s].container = row[s].container
            /\ ~HasRow(s) => row[s].status = "absent"
            /\ ~HasRow(s) => row'[s].container = None
            /\ row'[s].updatedAt = now
                 \/ (HasRow(s) /\ row'[s].updatedAt = row[s].updatedAt)

\* No statement but the two that write 'running' makes a row running.
NoNewRunning ==
  \A s \in Services : row'[s].status = "running" => row[s].status = "running"

\* Containers keep their type; one that was ever created keeps its creation
\* time and its id is not used again.
BoxesKept ==
  /\ box' \in [Containers -> Box]
  /\ \A c \in Containers : box[c].st # "unused" =>
       box'[c].st # "unused" /\ box'[c].createdAt = box[c].createdAt

\* A status update keeps the rows.
LEMMA SetStatusKeeps ==
  ASSUME StateTypeOK, NEW s \in Services, NEW st \in Statuses, SetStatus(s, st)
  PROVE  /\ RowsKept
         /\ st # "running" => NoNewRunning
         /\ \A x \in Services : x # s => row'[x] = row[x]
         /\ row'[s].status = "running" => HasRow(s)
  BY ZenonT(30) DEF StateTypeOK, SetStatus, RowsKept, NoNewRunning, HasRow, Row, Statuses

\* So do the image update, the circuit reset, the insert and the delete.
LEMMA TouchRowKeeps ==
  ASSUME StateTypeOK, NEW s \in Services, TouchRow(s)
  PROVE  RowsKept /\ NoNewRunning
  BY DEF StateTypeOK, TouchRow, RowsKept, NoNewRunning, HasRow, Row, Statuses

\* Closing a circuit (reset endpoint, reconciler step 1b) keeps the rows.
LEMMA CloseCircuitKeeps ==
  ASSUME StateTypeOK, NEW s \in Services, NEW r \in Nat \cup {None},
         CloseCircuit(s, r)
  PROVE  RowsKept /\ NoNewRunning
<1> DEFINE new == [row[s] EXCEPT !.status = "stopped", !.updatedAt = now,
                                 !.circuitOpen = FALSE, !.retryAt = r]
<1>1. row[s] \in Row /\ now \in Nat
  BY DEF StateTypeOK
<1>2. new \in Row
  BY <1>1, Zenon DEF Row, Statuses
<1>3. /\ new.status = "stopped" /\ new.updatedAt = now
      /\ new.container = row[s].container
  BY <1>1 DEF Row
<1>4. row' = IF HasRow(s) THEN [row EXCEPT ![s] = new] ELSE row
  BY DEF CloseCircuit
<1> HIDE DEF new
<1>5. row' \in [Services -> Row]
  BY <1>2, <1>4 DEF StateTypeOK
<1>6. QED
  BY <1>3, <1>4, <1>5 DEF StateTypeOK, RowsKept, NoNewRunning, HasRow, Statuses

\* The INSERT of a service keeps the other rows and makes none running.
LEMMA InsertRowKeeps ==
  ASSUME StateTypeOK, NEW s \in Services, row[s].status = "absent", InsertRow(s)
  PROVE  RowsKept /\ NoNewRunning
  BY DEF StateTypeOK, InsertRow, RowsKept, NoNewRunning, HasRow, Row, Statuses,
         BlankRow

\* The DELETE of a service keeps the other rows and makes none running.
LEMMA DeleteRowKeeps ==
  ASSUME StateTypeOK, NEW s \in Services, DeleteRow(s)
  PROVE  RowsKept /\ NoNewRunning
  BY DEF StateTypeOK, DeleteRow, RowsKept, NoNewRunning, HasRow, Row, Statuses,
         BlankRow

\* A step that leaves the table alone keeps it.
LEMMA SameRowsKeep ==
  ASSUME StateTypeOK, UNCHANGED row
  PROVE  RowsKept /\ NoNewRunning
  BY DEF StateTypeOK, RowsKept, NoNewRunning, HasRow

\* Every Docker call keeps the containers.
LEMMA StopBoxKeeps ==
  ASSUME StateTypeOK, NEW c \in Containers, StopBox(c)
  PROVE  BoxesKept
  BY ZenonT(30) DEF StateTypeOK, StopBox, BoxesKept, Box, BoxStates

\* Starting a container keeps ids and creation times.
LEMMA StartBoxKeeps ==
  ASSUME StateTypeOK, NEW c \in Containers, StartBox(c)
  PROVE  BoxesKept
<1> DEFINE new == [box[c] EXCEPT !.st = "running", !.manual = FALSE,
                                 !.unhealthy = FALSE]
<1>1. box[c] \in Box
  BY DEF StateTypeOK
<1>2. new \in Box
  BY <1>1, Zenon DEF Box, BoxStates
<1>3. new.st = "running" /\ new.createdAt = box[c].createdAt
  BY <1>1 DEF Box
<1>4. box' = [box EXCEPT ![c] = new]
  BY DEF StartBox
<1> HIDE DEF new
<1>5. QED
  BY <1>2, <1>3, <1>4 DEF StateTypeOK, BoxesKept

\* Removing a container keeps ids and creation times.
LEMMA RemoveBoxKeeps ==
  ASSUME StateTypeOK, NEW c \in Containers, RemoveBox(c)
  PROVE  BoxesKept
  BY DEF StateTypeOK, RemoveBox, BoxesKept, Box, BoxStates

\* ContainerCreate uses a fresh id and dates it now.
LEMMA CreateBoxKeeps ==
  ASSUME StateTypeOK, NEW c \in Containers, NEW s \in Services, CreateBox(c, s)
  PROVE  /\ BoxesKept
         /\ box'[c].st # "unused" /\ box'[c].createdAt = now
  BY DEF StateTypeOK, CreateBox, BoxesKept, Box, BoxStates, BlankBox

\* A step that makes no Docker call keeps the containers.
LEMMA SameBoxesKeep ==
  ASSUME StateTypeOK, UNCHANGED box
  PROVE  BoxesKept
  BY DEF StateTypeOK, BoxesKept

\* Stop and remove, with its failures, keeps ids and creation times.
LEMMA StopAndRemoveKeeps ==
  ASSUME StateTypeOK, NEW c, StopAndRemove(c)
  PROVE  BoxesKept /\ faults' \in Nat
<1>1. CASE ~Exists(c) /\ UNCHANGED <<box, faults>>
  BY <1>1, SameBoxesKeep DEF StateTypeOK
<1>2. CASE Exists(c) /\ RemoveBox(c) /\ UNCHANGED faults
  BY <1>2, RemoveBoxKeeps DEF StateTypeOK, Exists
<1>3. CASE Exists(c) /\ Fault /\ (StopBox(c) \/ UNCHANGED box)
  <2>1. BoxesKept
    BY <1>3, StopBoxKeeps, SameBoxesKeep DEF Exists
  <2>2. faults' \in Nat
    BY <1>3 DEF Fault, StateTypeOK
  <2>3. QED
    BY <2>1, <2>2
<1>4. QED
  BY <1>1, <1>2, <1>3 DEF StopAndRemove

\* So does a removal whose error is ignored.
LEMMA TryRemoveKeeps ==
  ASSUME StateTypeOK, NEW c, TryRemove(c)
  PROVE  BoxesKept /\ faults' \in Nat
<1>1. CASE ~Exists(c) /\ UNCHANGED <<box, faults>>
  BY <1>1, SameBoxesKeep DEF StateTypeOK
<1>2. CASE Exists(c) /\ RemoveBox(c) /\ UNCHANGED faults
  BY <1>2, RemoveBoxKeeps DEF StateTypeOK, Exists
<1>3. CASE Exists(c) /\ Fault /\ UNCHANGED box
  BY <1>3, SameBoxesKeep DEF Fault, StateTypeOK
<1>4. QED
  BY <1>1, <1>2, <1>3 DEF TryRemove

----------------------------------------------------------------------------
(* The inductive invariant. *)

\* A deploy started no later than now. The container it created is at most as
\* old as the deploy; the row it marked 'deploying' was touched after it began.
WorkerOK(w) ==
  /\ worker[w].pc # "idle" => worker[w].svc \in Services /\ worker[w].start <= now
  /\ worker[w].pc \in {"start", "commit", "undo"} =>
       /\ worker[w].box \in Containers
       /\ box[worker[w].box].st # "unused"
       /\ worker[w].start <= box[worker[w].box].createdAt
  /\ worker[w].mark = "written" =>
       /\ worker[w].pc # "idle"
       /\ HasRow(worker[w].svc) => worker[w].start <= row[worker[w].svc].updatedAt

\* A handler past the "service has no container" check acts on a service that
\* was inserted before, and names a container for as long as its row exists.
ClientOK(k) ==
  /\ client[k].pc # "idle" => client[k].svc \in Services
  /\ client[k].pc = "start" => client[k].op \in {"Start", "Restart"}
  /\ client[k].pc \in {"suspend", "labels", "purge", "rows", "settle"} =>
       client[k].op = "Suspend"
  /\ client[k].st = "running" =>
       client[k].pc = "write" /\ client[k].op \in {"Start", "Restart"}
  /\ (client[k].pc \in {"stop", "start", "write"}
        /\ client[k].op \in {"Stop", "Start", "Restart"}) =>
       /\ row[client[k].svc].status # "absent"
       /\ HasRow(client[k].svc) => row[client[k].svc].container # None

ReconcilerOK ==
  rec.pc \in {"mark", "kill", "stop", "markUnhealthy", "drop"} => rec.svc \in Services

\* The batch the collector decided on: unreferenced, and past the age gate.
CollectorOK ==
  /\ gc.at <= now
  /\ \A c \in gc.orphaned :
       /\ ~Referenced(c)
       /\ box[c].st # "unused"
       /\ box[c].createdAt + MinResourceAge <= now

IInv ==
  /\ TypeOK
  /\ \A w \in Workers : WorkerOK(w)
  /\ \A k \in Clients : ClientOK(k)
  /\ ReconcilerOK
  /\ CollectorOK
  /\ RunningHasContainer

----------------------------------------------------------------------------
(* What every step keeps, and why that keeps the processes it leaves alone. *)

Kept ==
  /\ now' = now /\ faults' \in Nat
  /\ tenant' \in [Tenants -> BOOLEAN]
  /\ RowsKept /\ BoxesKept

\* A step that keeps the shared state keeps its type.
LEMMA KeptType ==
  ASSUME StateTypeOK, Kept
  PROVE  StateTypeOK'
  BY DEF StateTypeOK, Kept, RowsKept, BoxesKept

\* A deploy that does not move keeps its part of the invariant.
LEMMA WorkerKept ==
  ASSUME StateTypeOK, Kept, NEW w \in Workers, WorkerOK(w),
         worker[w] \in Worker, worker'[w] = worker[w]
  PROVE  WorkerOK(w)'
<1>1. CASE worker[w].pc = "idle"
  BY <1>1 DEF WorkerOK
<1>2. CASE worker[w].pc # "idle"
  <2>1. worker[w].svc \in Services /\ worker[w].start <= now
    BY <1>2 DEF WorkerOK
  <2>2. worker[w].start \in Nat
    BY DEF Worker
  <2>3. worker[w].pc \in {"start", "commit", "undo"} =>
          /\ worker[w].box \in Containers
          /\ box'[worker[w].box].st # "unused"
          /\ worker[w].start <= box'[worker[w].box].createdAt
    BY DEF WorkerOK, Kept, BoxesKept
  <2>4. worker[w].mark = "written" /\ HasRow(worker[w].svc)' =>
          worker[w].start <= row'[worker[w].svc].updatedAt
    BY <2>1, <2>2 DEF WorkerOK, Kept, RowsKept, StateTypeOK
  <2>5. QED
    BY <1>2, <2>1, <2>3, <2>4 DEF WorkerOK, Kept, HasRow
<1>3. QED
  BY <1>1, <1>2

\* A request that does not move keeps its part of the invariant.
LEMMA ClientKept ==
  ASSUME StateTypeOK, Kept, NEW k \in Clients, ClientOK(k),
         client'[k] = client[k]
  PROVE  ClientOK(k)'
  BY DEF ClientOK, Kept, RowsKept, HasRow

\* The collector's batch stays garbage: no row gets a container but by a commit.
LEMMA CollectorKept ==
  ASSUME StateTypeOK, CollectorTypeOK, Kept, CollectorOK,
         gc'.at \in Nat, gc'.at <= now, gc'.orphaned \subseteq gc.orphaned
  PROVE  CollectorOK'
<1>1. ASSUME NEW c \in gc.orphaned
      PROVE  ~Referenced(c)'
  <2>1. c \in Containers /\ c # None
    BY ConstantsAssumption DEF CollectorTypeOK, CollectorState
  <2>2. QED
    BY <2>1 DEF CollectorOK, Referenced, Kept, RowsKept
<1>2. gc.orphaned \subseteq Containers
  BY DEF CollectorTypeOK, CollectorState
<1>3. QED
  BY <1>1, <1>2 DEF CollectorOK, Kept, BoxesKept

\* A running row keeps its container.
LEMMA RunningKept ==
  ASSUME StateTypeOK, RowsKept, NoNewRunning, RunningHasContainer
  PROVE  RunningHasContainer'
  BY DEF RowsKept, NoNewRunning, RunningHasContainer, HasRow, Statuses

\* A step of one deploy, request, or loop keeps the invariant if it keeps its
\* own part of it.
WorkerMoves(w) ==
  /\ worker' \in [Workers -> Worker]
  /\ \A v \in Workers : v # w => worker'[v] = worker[v]
  /\ WorkerOK(w)'

ClientMoves(k) ==
  /\ client' \in [Clients -> Client]
  /\ \A j \in Clients : j # k => client'[j] = client[j]
  /\ ClientOK(k)'

\* The deploys a step does not move keep their part of the invariant.
LEMMA WorkersStay ==
  ASSUME IInv, Kept, NEW S \in SUBSET Workers,
         \A v \in S : worker'[v] = worker[v]
  PROVE  \A v \in S : WorkerOK(v)'
<1> SUFFICES ASSUME NEW v \in S PROVE WorkerOK(v)'
  OBVIOUS
<1>1. worker[v] \in Worker /\ WorkerOK(v) /\ StateTypeOK
  BY DEF IInv, TypeOK, ManagerTypeOK
<1>2. QED
  BY <1>1, WorkerKept

\* The requests a step does not move keep their part of the invariant.
LEMMA ClientsStay ==
  ASSUME IInv, Kept, NEW S \in SUBSET Clients,
         \A j \in S : client'[j] = client[j]
  PROVE  \A j \in S : ClientOK(j)'
<1> SUFFICES ASSUME NEW j \in S PROVE ClientOK(j)'
  OBVIOUS
<1>1. ClientOK(j) /\ StateTypeOK
  BY DEF IInv, TypeOK
<1>2. QED
  BY <1>1, ClientKept

\* A step of one deploy keeps the invariant if it keeps the shared state and
\* its own part.
LEMMA WorkerStepCloses ==
  ASSUME IInv, Kept, NoNewRunning, NEW w \in Workers, WorkerMoves(w),
         UNCHANGED <<client, rec, gc>>
  PROVE  IInv'
<1>1. TypeOK'
  BY KeptType DEF IInv, TypeOK, ManagerTypeOK, ReconcilerTypeOK, CollectorTypeOK,
                  WorkerMoves
<1>2. \A v \in Workers : WorkerOK(v)'
  <2>1. \A v \in Workers \ {w} : WorkerOK(v)'
    BY WorkersStay DEF WorkerMoves
  <2>2. QED
    BY <2>1 DEF WorkerMoves
<1>3. \A k \in Clients : ClientOK(k)'
  BY ClientsStay
<1>4. ReconcilerOK'
  BY DEF IInv, ReconcilerOK
<1>5. CollectorOK'
  BY CollectorKept DEF IInv, TypeOK, CollectorOK, CollectorTypeOK, CollectorState
<1>6. RunningHasContainer'
  BY RunningKept DEF IInv, TypeOK, Kept
<1>7. QED
  BY <1>1, <1>2, <1>3, <1>4, <1>5, <1>6 DEF IInv

\* A step of one request keeps the invariant if it keeps the shared state, its
\* own part and the containers of running rows.
LEMMA ClientStepCloses ==
  ASSUME IInv, Kept, RunningHasContainer', NEW k \in Clients, ClientMoves(k),
         UNCHANGED <<worker, rec, gc>>
  PROVE  IInv'
<1>1. TypeOK'
  BY KeptType DEF IInv, TypeOK, ManagerTypeOK, ReconcilerTypeOK, CollectorTypeOK,
                  ClientMoves
<1>2. \A v \in Workers : WorkerOK(v)'
  BY WorkersStay
<1>3. \A j \in Clients : ClientOK(j)'
  <2>1. \A j \in Clients \ {k} : ClientOK(j)'
    BY ClientsStay DEF ClientMoves
  <2>2. QED
    BY <2>1 DEF ClientMoves
<1>4. ReconcilerOK'
  BY DEF IInv, ReconcilerOK
<1>5. CollectorOK'
  BY CollectorKept DEF IInv, TypeOK, CollectorOK, CollectorTypeOK, CollectorState
<1>6. QED
  BY <1>1, <1>2, <1>3, <1>4, <1>5 DEF IInv

\* A step of the reconciler keeps the invariant if it keeps the shared state
\* and makes no row running.
LEMMA ReconcilerStepCloses ==
  ASSUME IInv, Kept, NoNewRunning, rec' \in ReconcilerState, ReconcilerOK',
         UNCHANGED <<worker, client, gc>>
  PROVE  IInv'
<1>1. TypeOK'
  BY KeptType DEF IInv, TypeOK, ManagerTypeOK, ReconcilerTypeOK, CollectorTypeOK
<1>2. \A v \in Workers : WorkerOK(v)'
  BY WorkersStay
<1>3. \A j \in Clients : ClientOK(j)'
  BY ClientsStay
<1>4. CollectorOK'
  BY CollectorKept DEF IInv, TypeOK, CollectorOK, CollectorTypeOK, CollectorState
<1>5. RunningHasContainer'
  BY RunningKept DEF IInv, TypeOK, Kept
<1>6. QED
  BY <1>1, <1>2, <1>3, <1>4, <1>5 DEF IInv

\* A step of the collector keeps the invariant if it keeps the shared state
\* and its own part.
LEMMA CollectorStepCloses ==
  ASSUME IInv, Kept, NoNewRunning, gc' \in CollectorState, CollectorOK',
         UNCHANGED <<worker, client, rec>>
  PROVE  IInv'
<1>1. TypeOK'
  BY KeptType DEF IInv, TypeOK, ManagerTypeOK, ReconcilerTypeOK, CollectorTypeOK
<1>2. \A v \in Workers : WorkerOK(v)'
  BY WorkersStay
<1>3. \A j \in Clients : ClientOK(j)'
  BY ClientsStay
<1>4. ReconcilerOK'
  BY DEF IInv, ReconcilerOK
<1>5. RunningHasContainer'
  BY RunningKept DEF IInv, TypeOK, Kept
<1>6. QED
  BY <1>1, <1>2, <1>3, <1>4, <1>5 DEF IInv

----------------------------------------------------------------------------
(* Steps of a deploy *)

\* A failure leaves the failure budget a natural number.
LEMMA FaultType ==
  ASSUME StateTypeOK, Fault
  PROVE  faults' \in Nat
  BY DEF StateTypeOK, Fault

\* A step that only moves a process keeps the shared state.
LEMMA StillKeeps ==
  ASSUME StateTypeOK, UNCHANGED <<now, tenant, row, box>>, faults' \in Nat
  PROVE  Kept /\ NoNewRunning
  BY SameRowsKeep, SameBoxesKeep DEF Kept, StateTypeOK

\* Moving a deploy on keeps its part, unless it enters the steps that hold a
\* created container.
LEMMA GotoMoves ==
  ASSUME IInv, Kept, NEW w \in Workers, NEW l \in WorkerPcs \ {"idle"}, Goto(w, l),
         worker[w].pc # "idle",
         l \in {"start", "commit", "undo"} =>
            worker[w].pc \in {"start", "commit", "undo"}
  PROVE  WorkerMoves(w)
<1>1. /\ worker \in [Workers -> Worker] /\ WorkerOK(w) /\ StateTypeOK
      /\ worker[w] \in Worker
  BY DEF IInv, TypeOK, ManagerTypeOK
<1>2. /\ worker' \in [Workers -> Worker]
      /\ \A v \in Workers : v # w => worker'[v] = worker[v]
      /\ worker'[w].pc = l /\ worker'[w].svc = worker[w].svc
      /\ worker'[w].start = worker[w].start /\ worker'[w].box = worker[w].box
      /\ worker'[w].mark = worker[w].mark
  BY <1>1 DEF Goto, Worker
<1>3. worker[w].svc \in Services /\ worker[w].start <= now /\ worker[w].start \in Nat
  BY <1>1 DEF WorkerOK, Worker
<1>4. worker[w].pc \in {"start", "commit", "undo"} =>
        /\ worker[w].box \in Containers
        /\ box'[worker[w].box].st # "unused"
        /\ worker[w].start <= box'[worker[w].box].createdAt
  BY <1>1 DEF WorkerOK, Kept, BoxesKept
<1>5. worker[w].mark = "written" /\ row'[worker[w].svc].status \in Statuses =>
        worker[w].start <= row'[worker[w].svc].updatedAt
  BY <1>1, <1>2, <1>3 DEF WorkerOK, Kept, RowsKept, StateTypeOK, HasRow
<1>6. WorkerOK(w)'
  BY <1>2, <1>3, <1>4, <1>5 DEF WorkerOK, Kept, HasRow
<1>7. QED
  BY <1>2, <1>6 DEF WorkerMoves

\* A finished deploy is idle and holds nothing.
LEMMA FinishMoves ==
  ASSUME IInv, NEW w \in Workers, Finish(w)
  PROVE  WorkerMoves(w)
<1>1. worker \in [Workers -> Worker]
  BY DEF IInv, TypeOK, ManagerTypeOK
<1>2. IdleWorker \in Worker /\ IdleWorker.pc = "idle" /\ IdleWorker.mark # "written"
  BY DEF IdleWorker, Worker, WorkerPcs
<1>3. /\ worker' \in [Workers -> Worker] /\ worker'[w] = IdleWorker
      /\ \A v \in Workers : v # w => worker'[v] = worker[v]
  BY <1>1, <1>2 DEF Finish
<1>4. WorkerOK(w)'
  BY <1>2, <1>3 DEF WorkerOK
<1>5. QED
  BY <1>3, <1>4 DEF WorkerMoves

\* Giving up is moving to a failure label (Deploy) or finishing (DeployImage).
LEMMA GiveUpMoves ==
  ASSUME IInv, Kept, NEW w \in Workers, NEW l \in {"rejected", "failing"},
         GiveUp(w, l), worker[w].pc # "idle"
  PROVE  WorkerMoves(w)
<1>1. l \in WorkerPcs /\ l \notin {"start", "commit", "undo"}
  BY DEF WorkerPcs
<1>2. QED
  BY <1>1, GotoMoves, FinishMoves DEF GiveUp

\* checkTenantActive of a deploy keeps the invariant.
LEMMA CheckTenantActiveOK ==
  ASSUME IInv, NEW w \in Workers, CheckTenantActive(w), UNCHANGED <<rec, gc>>
  PROVE  IInv'
<1>1. StateTypeOK /\ worker[w].pc = "check"
  BY DEF IInv, TypeOK, CheckTenantActive, At
<1>2. faults' \in Nat
  BY <1>1, FaultType DEF CheckTenantActive, StateTypeOK
<1>3. Kept /\ NoNewRunning
  BY <1>1, <1>2, StillKeeps DEF CheckTenantActive
<1>4. WorkerMoves(w)
  <2>1. CASE Goto(w, "queue")
    BY <1>1, <1>3, <2>1, GotoMoves DEF WorkerPcs
  <2>2. CASE GiveUp(w, "rejected")
    BY <1>1, <1>3, <2>2, GiveUpMoves
  <2>3. QED
    BY <2>1, <2>2 DEF CheckTenantActive
<1>5. QED
  BY <1>3, <1>4, WorkerStepCloses DEF CheckTenantActive

\* Entering deployQueue keeps the invariant.
LEMMA EnterQueueOK ==
  ASSUME IInv, NEW w \in Workers, EnterQueue(w), UNCHANGED <<rec, gc>>
  PROVE  IInv'
<1>1. StateTypeOK /\ worker[w].pc = "queue"
  BY DEF IInv, TypeOK, EnterQueue, At
<1>2. Kept /\ NoNewRunning
  BY <1>1, StillKeeps DEF EnterQueue, stateVars, StateTypeOK
<1>3. WorkerMoves(w)
  <2>1. CASE Goto(w, "sem")
    BY <1>1, <1>2, <2>1, GotoMoves DEF WorkerPcs
  <2>2. CASE GiveUp(w, "rejected")
    BY <1>1, <1>2, <2>2, GiveUpMoves
  <2>3. QED
    BY <2>1, <2>2 DEF EnterQueue
<1>4. QED
  BY <1>2, <1>3, WorkerStepCloses DEF EnterQueue

\* Acquiring deploySem keeps the invariant.
LEMMA AcquireSlotOK ==
  ASSUME IInv, NEW w \in Workers, AcquireSlot(w), UNCHANGED <<rec, gc>>
  PROVE  IInv'
<1>1. StateTypeOK /\ worker[w].pc = "sem"
  BY DEF IInv, TypeOK, AcquireSlot, At
<1>2. Kept /\ NoNewRunning
  BY <1>1, StillKeeps DEF AcquireSlot, stateVars, StateTypeOK
<1>3. WorkerMoves(w)
  BY <1>1, <1>2, GotoMoves DEF AcquireSlot, WorkerPcs
<1>4. QED
  BY <1>2, <1>3, WorkerStepCloses DEF AcquireSlot

\* A deploy that reads or forgets a container id before it creates one.
LEMMA AimMoves ==
  ASSUME IInv, Kept, NEW w \in Workers,
         NEW l \in WorkerPcs \ {"idle", "start", "commit", "undo"},
         NEW c \in Containers \cup {None},
         worker' = [worker EXCEPT ![w].pc = l, ![w].box = c],
         worker[w].pc # "idle"
  PROVE  WorkerMoves(w)
<1>1. /\ worker \in [Workers -> Worker] /\ WorkerOK(w) /\ StateTypeOK
      /\ worker[w] \in Worker
  BY DEF IInv, TypeOK, ManagerTypeOK
<1>2. /\ worker' \in [Workers -> Worker]
      /\ \A v \in Workers : v # w => worker'[v] = worker[v]
      /\ worker'[w].pc = l /\ worker'[w].svc = worker[w].svc
      /\ worker'[w].start = worker[w].start /\ worker'[w].mark = worker[w].mark
  BY <1>1 DEF Worker
<1>3. worker[w].svc \in Services /\ worker[w].start <= now /\ worker[w].start \in Nat
  BY <1>1 DEF WorkerOK, Worker
<1>4. worker[w].mark = "written" /\ row'[worker[w].svc].status \in Statuses =>
        worker[w].start <= row'[worker[w].svc].updatedAt
  BY <1>1, <1>3 DEF WorkerOK, Kept, RowsKept, StateTypeOK, HasRow
<1>5. WorkerOK(w)'
  BY <1>2, <1>3, <1>4 DEF WorkerOK, Kept, HasRow
<1>6. QED
  BY <1>2, <1>5 DEF WorkerMoves

\* getOwned, the circuit check and the disk check keep the invariant.
LEMMA LoadServiceOK ==
  ASSUME IInv, NEW w \in Workers, LoadService(w), UNCHANGED <<rec, gc>>
  PROVE  IInv'
<1> DEFINE s == worker[w].svc
           deploy == worker[w].kind = "Deploy"
           l == IF deploy /\ row[s].circuitOpen THEN "failing" ELSE "mark"
           c == IF deploy THEN None ELSE row[s].container
<1>1. /\ StateTypeOK /\ worker[w].pc = "read" /\ s \in Services
      /\ row[s].container \in Containers \cup {None}
  BY DEF IInv, TypeOK, LoadService, At, WorkerOK, StateTypeOK, Row
<1>2. faults' \in Nat
  BY <1>1, FaultType DEF LoadService, StateTypeOK
<1>3. Kept /\ NoNewRunning
  BY <1>1, <1>2, StillKeeps DEF LoadService
<1>4. WorkerMoves(w)
  <2>1. CASE Finish(w)
    BY <2>1, FinishMoves
  <2>2. CASE GiveUp(w, "failing")
    BY <1>1, <1>3, <2>2, GiveUpMoves
  <2>3. CASE worker' = [worker EXCEPT ![w].pc = l, ![w].box = c]
    <3>1. /\ l \in WorkerPcs \ {"idle", "start", "commit", "undo"}
          /\ c \in Containers \cup {None}
      BY <1>1 DEF WorkerPcs
    <3> HIDE DEF l, c
    <3>2. QED
      BY <1>1, <1>3, <2>3, <3>1, AimMoves
  <2>4. QED
    BY <2>1, <2>2, <2>3 DEF LoadService
<1>5. QED
  BY <1>3, <1>4, WorkerStepCloses DEF LoadService

\* The row is touched now, after the deploy began.
LEMMA MarkDeployingOK ==
  ASSUME IInv, NEW w \in Workers, MarkDeploying(w), UNCHANGED <<rec, gc>>
  PROVE  IInv'
<1> DEFINE s == worker[w].svc
           l == IF worker[w].kind = "Deploy" THEN "pull" ELSE "clean"
<1>1. /\ StateTypeOK /\ worker[w].pc = "mark" /\ s \in Services
      /\ worker[w] \in Worker /\ worker \in [Workers -> Worker]
      /\ worker[w].start <= now /\ l \in WorkerPcs /\ l \in {"pull", "clean"}
  BY DEF IInv, TypeOK, ManagerTypeOK, MarkDeploying, At, WorkerOK, WorkerPcs
<1>2. CASE Fault /\ Goto(w, l) /\ UNCHANGED row
  <2>1. Kept /\ NoNewRunning
    BY <1>1, <1>2, FaultType, StillKeeps DEF MarkDeploying
  <2>2. WorkerMoves(w)
    BY <1>1, <1>2, <2>1, GotoMoves
  <2>3. QED
    BY <2>1, <2>2, WorkerStepCloses DEF MarkDeploying
<1>3. CASE /\ SetStatus(s, "deploying")
           /\ worker' = [worker EXCEPT ![w].pc = l, ![w].mark = "written"]
           /\ UNCHANGED faults
  <2>1. SetStatus(s, "deploying") /\ "deploying" \in Statuses /\ "deploying" # "running"
    BY <1>3 DEF Statuses
  <2>2. RowsKept /\ NoNewRunning
    BY <1>1, <2>1, SetStatusKeeps
  <2>3. Kept
    BY <1>1, <1>3, <2>2, SameBoxesKeep DEF Kept, MarkDeploying, StateTypeOK
  <2> HIDE DEF l
  <2>4. /\ worker' \in [Workers -> Worker]
        /\ \A v \in Workers : v # w => worker'[v] = worker[v]
        /\ worker'[w].pc = l /\ worker'[w].svc = s
        /\ worker'[w].start = worker[w].start
    BY <1>1, <1>3 DEF Worker
  <2>5. row'[s].status \in Statuses => row'[s].updatedAt = now
    BY <1>1, <2>1 DEF SetStatus, HasRow, StateTypeOK, Row
  <2>6. WorkerOK(w)'
    BY <1>1, <2>3, <2>4, <2>5 DEF WorkerOK, Kept, HasRow
  <2>7. QED
    BY <2>2, <2>3, <2>4, <2>6, WorkerStepCloses DEF MarkDeploying, WorkerMoves
<1>4. QED
  BY <1>2, <1>3 DEF MarkDeploying

\* EnsureNetwork and PullImage keep the invariant.
LEMMA PullImageOK ==
  ASSUME IInv, NEW w \in Workers, PullImage(w), UNCHANGED <<rec, gc>>
  PROVE  IInv'
<1>1. StateTypeOK /\ worker[w].pc = "pull"
  BY DEF IInv, TypeOK, PullImage, At
<1>2. faults' \in Nat
  BY <1>1, FaultType DEF PullImage, StateTypeOK
<1>3. Kept /\ NoNewRunning
  BY <1>1, <1>2, StillKeeps DEF PullImage
<1>4. WorkerMoves(w)
  <2>1. CASE Goto(w, "reread")
    BY <1>1, <1>3, <2>1, GotoMoves DEF WorkerPcs
  <2>2. CASE Goto(w, "failing")
    BY <1>1, <1>3, <2>2, GotoMoves DEF WorkerPcs
  <2>3. QED
    BY <2>1, <2>2 DEF PullImage
<1>5. QED
  BY <1>3, <1>4, WorkerStepCloses DEF PullImage

\* DeployImage's EnsureNetwork keeps the invariant.
LEMMA SetupNetworkOK ==
  ASSUME IInv, NEW w \in Workers, SetupNetwork(w), UNCHANGED <<rec, gc>>
  PROVE  IInv'
<1>1. StateTypeOK /\ worker[w].pc = "net"
  BY DEF IInv, TypeOK, SetupNetwork, At
<1>2. faults' \in Nat
  BY <1>1, FaultType DEF SetupNetwork, StateTypeOK
<1>3. Kept /\ NoNewRunning
  BY <1>1, <1>2, StillKeeps DEF SetupNetwork
<1>4. WorkerMoves(w)
  <2>1. CASE Goto(w, "image")
    BY <1>1, <1>3, <2>1, GotoMoves DEF WorkerPcs
  <2>2. CASE Goto(w, "failing")
    BY <1>1, <1>3, <2>2, GotoMoves DEF WorkerPcs
  <2>3. QED
    BY <2>1, <2>2 DEF SetupNetwork
<1>5. QED
  BY <1>3, <1>4, WorkerStepCloses DEF SetupNetwork

\* The second getOwned of Deploy keeps the invariant.
LEMMA ReloadServiceOK ==
  ASSUME IInv, NEW w \in Workers, ReloadService(w), UNCHANGED <<rec, gc>>
  PROVE  IInv'
<1>1. /\ StateTypeOK /\ worker[w].pc = "reread" /\ worker[w].svc \in Services
      /\ row[worker[w].svc].container \in Containers \cup {None}
  BY DEF IInv, TypeOK, ReloadService, At, WorkerOK, StateTypeOK, Row
<1>2. faults' \in Nat
  BY <1>1, FaultType DEF ReloadService, StateTypeOK
<1>3. Kept /\ NoNewRunning
  BY <1>1, <1>2, StillKeeps DEF ReloadService
<1>4. WorkerMoves(w)
  <2>1. CASE Finish(w)
    BY <2>1, FinishMoves
  <2>2. CASE worker' = [worker EXCEPT ![w].pc = "clean",
                                      ![w].box = row[worker[w].svc].container]
    BY <1>1, <1>3, <2>2, AimMoves DEF WorkerPcs
  <2>3. QED
    BY <2>1, <2>2 DEF ReloadService
<1>5. QED
  BY <1>3, <1>4, WorkerStepCloses DEF ReloadService

\* Removing the old container keeps the invariant.
LEMMA CleanOldOK ==
  ASSUME IInv, NEW w \in Workers, CleanOld(w), UNCHANGED <<rec, gc>>
  PROVE  IInv'
<1> DEFINE l == IF worker[w].kind = "Deploy" THEN "create" ELSE "net"
<1>1. /\ StateTypeOK /\ worker[w].pc = "clean"
      /\ worker \in [Workers -> Worker]
  BY DEF IInv, TypeOK, ManagerTypeOK, CleanOld, At
<1>2. BoxesKept /\ faults' \in Nat
  BY <1>1, StopAndRemoveKeeps DEF CleanOld
<1>3. Kept /\ NoNewRunning
  BY <1>1, <1>2, SameRowsKeep DEF CleanOld, Kept, StateTypeOK
<1>4. worker' = [worker EXCEPT ![w].pc = l, ![w].box = None]
  BY <1>1 DEF CleanOld, Worker
<1>5. WorkerMoves(w)
  BY <1>1, <1>3, <1>4, AimMoves DEF WorkerPcs
<1>6. QED
  BY <1>3, <1>5, WorkerStepCloses DEF CleanOld

\* DeployImage's UPDATE of the image keeps the invariant.
LEMMA UpdateImageOK ==
  ASSUME IInv, NEW w \in Workers, UpdateImage(w), UNCHANGED <<rec, gc>>
  PROVE  IInv'
<1>1. StateTypeOK /\ worker[w].pc = "image" /\ worker[w].svc \in Services
  BY DEF IInv, TypeOK, UpdateImage, At, WorkerOK
<1>2. faults' \in Nat
  BY <1>1, FaultType DEF UpdateImage, StateTypeOK
<1>3. RowsKept /\ NoNewRunning
  BY <1>1, TouchRowKeeps, SameRowsKeep DEF UpdateImage
<1>4. Kept
  BY <1>1, <1>2, <1>3, SameBoxesKeep DEF UpdateImage, Kept, StateTypeOK
<1>5. WorkerMoves(w)
  <2>1. CASE Finish(w)
    BY <2>1, FinishMoves
  <2>2. CASE Goto(w, "create")
    BY <1>1, <1>4, <2>2, GotoMoves DEF WorkerPcs
  <2>3. QED
    BY <2>1, <2>2 DEF UpdateImage
<1>6. QED
  BY <1>3, <1>4, <1>5, WorkerStepCloses DEF UpdateImage

\* The container is created now, after the deploy began.
LEMMA CreateContainerOK ==
  ASSUME IInv, NEW w \in Workers, CreateContainer(w), UNCHANGED <<rec, gc>>
  PROVE  IInv'
<1> DEFINE s == worker[w].svc
<1>1. /\ StateTypeOK /\ worker[w].pc = "create" /\ s \in Services
      /\ worker \in [Workers -> Worker] /\ worker[w] \in Worker
      /\ WorkerOK(w)
  BY DEF IInv, TypeOK, ManagerTypeOK, CreateContainer, At, WorkerOK
<1>2. CASE Goto(w, "failing") /\ UNCHANGED box
  <2>1. faults' \in Nat
    BY <1>1, FaultType DEF CreateContainer, StateTypeOK
  <2>2. Kept /\ NoNewRunning
    BY <1>1, <1>2, <2>1, StillKeeps DEF CreateContainer
  <2>3. WorkerMoves(w)
    BY <1>1, <1>2, <2>2, GotoMoves DEF WorkerPcs
  <2>4. QED
    BY <2>2, <2>3, WorkerStepCloses DEF CreateContainer
<1>3. ASSUME NEW c \in Containers, CreateBox(c, s), UNCHANGED faults,
             worker' = [worker EXCEPT ![w].pc = "start", ![w].box = c]
      PROVE  IInv'
  <2>1. BoxesKept /\ box'[c].st # "unused" /\ box'[c].createdAt = now
    BY <1>1, <1>3, CreateBoxKeeps
  <2>2. Kept /\ NoNewRunning
    BY <1>1, <1>3, <2>1, SameRowsKeep DEF CreateContainer, Kept, StateTypeOK
  <2>3. /\ worker' \in [Workers -> Worker]
        /\ \A v \in Workers : v # w => worker'[v] = worker[v]
        /\ worker'[w].pc = "start" /\ worker'[w].svc = s
        /\ worker'[w].start = worker[w].start /\ worker'[w].box = c
        /\ worker'[w].mark = worker[w].mark
    BY <1>1, <1>3 DEF Worker, WorkerPcs
  <2>4. worker[w].start <= now
    BY <1>1 DEF WorkerOK
  <2>5. worker[w].mark = "written" /\ row'[s].status \in Statuses =>
          worker[w].start <= row'[s].updatedAt
    BY <1>1 DEF WorkerOK, CreateContainer, HasRow
  <2>6. WorkerOK(w)'
    BY <1>1, <2>1, <2>2, <2>3, <2>4, <2>5 DEF WorkerOK, Kept, HasRow
  <2>7. QED
    BY <2>2, <2>3, <2>6, WorkerStepCloses DEF WorkerMoves, CreateContainer
<1>4. QED
  BY <1>2, <1>3 DEF CreateContainer

\* ContainerStart, and its clean-up on error, keep the invariant.
LEMMA StartContainerOK ==
  ASSUME IInv, NEW w \in Workers, StartContainer(w), UNCHANGED <<rec, gc>>
  PROVE  IInv'
<1>1. StateTypeOK /\ worker[w].pc = "start" /\ worker[w].box \in Containers
  BY DEF IInv, TypeOK, StartContainer, At, WorkerOK
<1>2. faults' \in Nat
  BY <1>1, FaultType DEF StartContainer, StateTypeOK
<1>3. BoxesKept
  BY <1>1, StartBoxKeeps, RemoveBoxKeeps, SameBoxesKeep DEF StartContainer
<1>4. Kept /\ NoNewRunning
  BY <1>1, <1>2, <1>3, SameRowsKeep DEF StartContainer, Kept, StateTypeOK
<1>5. WorkerMoves(w)
  <2>1. CASE Goto(w, "commit")
    BY <1>1, <1>4, <2>1, GotoMoves DEF WorkerPcs
  <2>2. CASE Goto(w, "failing")
    BY <1>1, <1>4, <2>2, GotoMoves DEF WorkerPcs
  <2>3. QED
    BY <2>1, <2>2 DEF StartContainer
<1>6. QED
  BY <1>4, <1>5, WorkerStepCloses DEF StartContainer

\* Removing the container of a deploy whose row is gone keeps the invariant.
LEMMA UndoDeployOK ==
  ASSUME IInv, NEW w \in Workers, UndoDeploy(w), UNCHANGED <<rec, gc>>
  PROVE  IInv'
<1>1. StateTypeOK
  BY DEF IInv, TypeOK
<1>2. BoxesKept /\ faults' \in Nat
  BY <1>1, StopAndRemoveKeeps DEF UndoDeploy
<1>3. Kept /\ NoNewRunning
  BY <1>1, <1>2, SameRowsKeep DEF UndoDeploy, Kept, StateTypeOK
<1>4. QED
  BY <1>3, FinishMoves, WorkerStepCloses DEF UndoDeploy

\* Writing 'failed' keeps the invariant.
LEMMA RecordFailureOK ==
  ASSUME IInv, NEW w \in Workers, RecordFailure(w), UNCHANGED <<rec, gc>>
  PROVE  IInv'
<1>1. StateTypeOK /\ worker[w].svc \in Services
  BY DEF IInv, TypeOK, RecordFailure, At, WorkerOK
<1>2. RowsKept /\ NoNewRunning
  BY <1>1, SetStatusKeeps, SameRowsKeep DEF RecordFailure, Statuses
<1>3. faults' \in Nat
  BY <1>1, FaultType DEF RecordFailure, StateTypeOK
<1>4. Kept
  BY <1>1, <1>2, <1>3, SameBoxesKeep DEF RecordFailure, Kept, StateTypeOK
<1>5. QED
  BY <1>2, <1>4, FinishMoves, WorkerStepCloses DEF RecordFailure

\* The end of a deploy's context keeps the invariant.
LEMMA DeployExpiresOK ==
  ASSUME IInv, NEW w \in Workers, DeployExpires(w), UNCHANGED <<rec, gc>>
  PROVE  IInv'
<1>1. StateTypeOK
  BY DEF IInv, TypeOK
<1>2. Kept /\ NoNewRunning
  BY <1>1, StillKeeps DEF DeployExpires, stateVars, StateTypeOK
<1>3. QED
  BY <1>2, FinishMoves, WorkerStepCloses DEF DeployExpires

\* The heart of the collector's safety: the container recorded is younger than
\* the deploy, whose context is alive, so it has not reached the age gate.
LEMMA CommitDeployOK ==
  ASSUME IInv, NEW w \in Workers, CommitDeploy(w), UNCHANGED <<rec, gc>>
  PROVE  IInv'
<1> DEFINE s == worker[w].svc
           c == worker[w].box
<1>1. /\ StateTypeOK /\ worker[w].pc = "commit" /\ s \in Services
      /\ worker \in [Workers -> Worker] /\ worker[w] \in Worker
      /\ c \in Containers /\ c # None /\ WorkerOK(w)
  BY ConstantsAssumption
     DEF IInv, TypeOK, ManagerTypeOK, CommitDeploy, At, WorkerOK
<1>2. CASE Goto(w, "undo") /\ UNCHANGED row
  <2>1. faults' \in Nat
    BY <1>1, FaultType DEF CommitDeploy, StateTypeOK
  <2>2. Kept /\ NoNewRunning
    BY <1>1, <1>2, <2>1, StillKeeps DEF CommitDeploy
  <2>3. WorkerMoves(w)
    BY <1>1, <1>2, <2>2, GotoMoves DEF WorkerPcs
  <2>4. QED
    BY <2>2, <2>3, WorkerStepCloses DEF CommitDeploy
<1>3. CASE HasRow(s) /\ SetRunning(s, c) /\ Finish(w) /\ UNCHANGED faults
  <2>1. /\ row' \in [Services -> Row]
        /\ \A x \in Services : x # s => row'[x] = row[x]
        /\ row'[s].status = "running" /\ row'[s].container = c
        /\ row'[s].updatedAt = now
    BY <1>1, <1>3 DEF SetRunning, StateTypeOK, Row, Statuses
  <2>2. /\ UNCHANGED <<now, tenant, box, faults, client>>
    BY <1>3 DEF CommitDeploy
  <2>3. WorkerMoves(w)
    BY <1>3, FinishMoves
  <2>4. TypeOK'
    BY <2>1, <2>2, <2>3 DEF IInv, TypeOK, StateTypeOK, ManagerTypeOK,
       ReconcilerTypeOK, CollectorTypeOK, WorkerMoves
  <2>5. \A v \in Workers : WorkerOK(v)'
    <3> SUFFICES ASSUME NEW v \in Workers, v # w PROVE WorkerOK(v)'
      BY <2>3 DEF WorkerMoves
    <3>1. worker'[v] = worker[v] /\ WorkerOK(v) /\ worker[v] \in Worker
      BY <1>1, <2>3 DEF WorkerMoves, IInv
    <3>2. CASE worker[v].pc = "idle"
      BY <3>1, <3>2 DEF WorkerOK
    <3>3. CASE worker[v].pc # "idle"
      BY <1>1, <2>1, <2>2, <3>1, <3>3 DEF WorkerOK, HasRow
    <3>4. QED
      BY <3>2, <3>3
  <2>6. \A k \in Clients : ClientOK(k)'
    <3> SUFFICES ASSUME NEW k \in Clients PROVE ClientOK(k)'
      OBVIOUS
    <3>1. ClientOK(k) /\ client' = client
      BY <2>2 DEF IInv
    <3>2. QED
      BY <1>1, <2>1, <3>1 DEF ClientOK, HasRow
  <2>7. c \notin gc.orphaned
    <3>1. now < worker[w].start + DeployTimeout
      BY DEF CommitDeploy, At, Live
    <3>2. worker[w].start <= box[c].createdAt
      BY <1>1 DEF WorkerOK
    <3>3. DeployTimeout <= MinResourceAge /\ DeployTimeout \in Nat /\ MinResourceAge \in Nat
      BY ConstantsAssumption, TimingAssumption
    <3>4. box[c].createdAt \in Nat /\ worker[w].start \in Nat /\ now \in Nat
      BY <1>1 DEF StateTypeOK, Box, Worker
    <3>5. ~(box[c].createdAt + MinResourceAge <= now)
      BY <3>1, <3>2, <3>3, <3>4
    <3>6. QED
      BY <3>5 DEF IInv, CollectorOK
  <2>8. CollectorOK'
    <3>1. ASSUME NEW d \in gc.orphaned PROVE ~Referenced(d)'
      BY <1>1, <2>1, <2>7 DEF IInv, CollectorOK, Referenced, HasRow
    <3>2. QED
      BY <2>2, <3>1 DEF IInv, CollectorOK
  <2>9. RunningHasContainer'
    BY <1>1, <2>1 DEF IInv, RunningHasContainer
  <2>10. ReconcilerOK'
    BY DEF IInv, ReconcilerOK
  <2>11. QED
    BY <2>4, <2>5, <2>6, <2>8, <2>9, <2>10 DEF IInv
<1>4. QED
  BY <1>2, <1>3 DEF CommitDeploy

\* Every step of a deploy keeps the invariant.
LEMMA WorkerStepOK ==
  ASSUME IInv, NEW w \in Workers, WorkerStep(w), UNCHANGED <<rec, gc>>
  PROVE  IInv'
  BY CheckTenantActiveOK, EnterQueueOK, AcquireSlotOK, LoadServiceOK,
     MarkDeployingOK, PullImageOK, ReloadServiceOK, CleanOldOK, SetupNetworkOK,
     UpdateImageOK, CreateContainerOK, StartContainerOK, CommitDeployOK,
     UndoDeployOK, RecordFailureOK, DeployExpiresOK
     DEF WorkerStep

\* A new deploy has done nothing yet.
LEMMA SpawnMoves ==
  ASSUME IInv, Kept, NEW w \in Workers, NEW kind \in {"Deploy", "DeployImage"},
         NEW s \in Services, Spawn(w, kind, s)
  PROVE  WorkerMoves(w)
<1> DEFINE new == [pc |-> "check", kind |-> kind, svc |-> s, start |-> now,
                   box |-> None, mark |-> "none"]
<1>1. worker \in [Workers -> Worker] /\ now \in Nat /\ now' = now
  BY DEF IInv, TypeOK, ManagerTypeOK, StateTypeOK, Kept
<1>2. /\ new \in Worker /\ new.pc = "check" /\ new.svc = s /\ new.start = now
      /\ new.mark # "written"
  BY <1>1 DEF Worker, WorkerPcs
<1>3. worker' = [worker EXCEPT ![w] = new]
  BY DEF Spawn
<1> HIDE DEF new
<1>4. /\ worker' \in [Workers -> Worker] /\ worker'[w] = new
      /\ \A v \in Workers : v # w => worker'[v] = worker[v]
  BY <1>1, <1>2, <1>3
<1>5. WorkerOK(w)'
  BY <1>1, <1>2, <1>4 DEF WorkerOK
<1>6. QED
  BY <1>4, <1>5 DEF WorkerMoves

\* runBuild's call of DeployImage keeps the invariant.
LEMMA DeployBuiltOK ==
  ASSUME IInv, NEW w \in Workers, NEW s \in Services, DeployBuilt(w, s),
         UNCHANGED <<rec, gc>>
  PROVE  IInv'
<1>1. StateTypeOK
  BY DEF IInv, TypeOK
<1>2. Kept /\ NoNewRunning
  BY <1>1, StillKeeps DEF DeployBuilt, stateVars, StateTypeOK
<1>3. WorkerMoves(w)
  BY <1>2, SpawnMoves DEF DeployBuilt
<1>4. QED
  BY <1>2, <1>3, WorkerStepCloses DEF DeployBuilt

----------------------------------------------------------------------------
(* Steps of a request *)

\* An idle request holds nothing.
LEMMA ReplyMoves ==
  ASSUME IInv, NEW k \in Clients, Reply(k)
  PROVE  ClientMoves(k)
<1>1. client \in [Clients -> Client]
  BY DEF IInv, TypeOK, ManagerTypeOK
<1>2. /\ IdleClient \in Client /\ IdleClient.pc = "idle"
      /\ IdleClient.st # "running"
  BY DEF IdleClient, Client, ClientPcs, Statuses
<1>3. client' = [client EXCEPT ![k] = IdleClient]
  BY DEF Reply
<1>4. /\ client' \in [Clients -> Client] /\ client'[k] = IdleClient
      /\ \A j \in Clients : j # k => client'[j] = client[j]
  BY <1>1, <1>2, <1>3
<1>5. ClientOK(k)'
  BY <1>2, <1>4 DEF ClientOK
<1>6. QED
  BY <1>4, <1>5 DEF ClientMoves

\* Moving on keeps the request's part of the invariant, unless it moves into
\* the steps guarded by the container check.
LEMMA ProceedMoves ==
  ASSUME IInv, Kept, NEW k \in Clients, NEW l \in ClientPcs, Proceed(k, l),
         client[k].pc # "idle", client[k].st # "running",
         l = "start" => client[k].op \in {"Start", "Restart"},
         l \in {"suspend", "labels", "purge", "rows", "settle"} =>
            client[k].op = "Suspend",
         l \in {"stop", "start", "write"} => client[k].pc = "stop"
  PROVE  ClientMoves(k)
<1>1. client \in [Clients -> Client] /\ ClientOK(k) /\ client[k] \in Client
  BY DEF IInv, TypeOK, ManagerTypeOK
<1>2. /\ client' \in [Clients -> Client]
      /\ \A j \in Clients : j # k => client'[j] = client[j]
      /\ client'[k].pc = l /\ client'[k].svc = client[k].svc
      /\ client'[k].op = client[k].op /\ client'[k].st = client[k].st
  BY <1>1 DEF Proceed, Client
<1>3. client[k].svc \in Services
  BY <1>1 DEF ClientOK
<1>4. ClientOK(k)'
  BY <1>1, <1>2, <1>3 DEF ClientOK, Kept, RowsKept, HasRow
<1>5. QED
  BY <1>2, <1>4 DEF ClientMoves

\* The arrival of a request keeps the invariant.
LEMMA ArriveOK ==
  ASSUME IInv, NEW k \in Clients, NEW op \in Ops \ {"Build"}, NEW s \in Services,
         Arrive(k, op, s), UNCHANGED <<rec, gc>>
  PROVE  IInv'
<1> DEFINE l == CASE op \in {"Create", "Start"} -> "check"
                  [] op = "Suspend" -> "suspend"
                  [] OTHER -> "read"
           new == [IdleClient EXCEPT !.op = op, !.svc = s, !.pc = l]
<1>1. StateTypeOK /\ client \in [Clients -> Client]
  BY DEF IInv, TypeOK, ManagerTypeOK
<1>2. Kept /\ NoNewRunning
  BY <1>1, StillKeeps DEF Arrive, stateVars, StateTypeOK
<1>3. l \in {"check", "suspend", "read"} /\ (l = "suspend" => op = "Suspend")
  OBVIOUS
<1> HIDE DEF l
<1>4. /\ new \in Client
      /\ new.pc = l /\ new.op = op /\ new.svc = s /\ new.st # "running"
  BY <1>3 DEF IdleClient, Client, ClientPcs, Statuses
<1>5. client' = [client EXCEPT ![k] = new]
  BY DEF Arrive, l
<1> HIDE DEF new
<1>6. /\ client' \in [Clients -> Client] /\ client'[k] = new
      /\ \A j \in Clients : j # k => client'[j] = client[j]
  BY <1>1, <1>4, <1>5
<1>7. ClientOK(k)'
  BY <1>3, <1>4, <1>6 DEF ClientOK
<1>8. RunningHasContainer'
  BY <1>1, <1>2, RunningKept DEF IInv, Kept
<1>9. QED
  BY <1>2, <1>6, <1>7, <1>8, ClientStepCloses DEF ClientMoves, Arrive

\* A step that only reads and then moves on or replies.
LEMMA ReadingStep ==
  ASSUME IInv, NEW k \in Clients, ClientMoves(k), faults' \in Nat,
         UNCHANGED <<now, tenant, row, box, worker, rec, gc>>
  PROVE  IInv'
<1>1. StateTypeOK
  BY DEF IInv, TypeOK
<1>2. Kept /\ NoNewRunning
  BY <1>1, StillKeeps
<1>3. RunningHasContainer'
  BY <1>1, <1>2, RunningKept DEF IInv, Kept
<1>4. QED
  BY <1>2, <1>3, ClientStepCloses

\* A step that acts on containers only.
LEMMA DockerStep ==
  ASSUME IInv, NEW k \in Clients, ClientMoves(k), BoxesKept, faults' \in Nat,
         UNCHANGED <<now, tenant, row, worker, rec, gc>>
  PROVE  IInv'
<1>1. StateTypeOK
  BY DEF IInv, TypeOK
<1>2. Kept /\ NoNewRunning
  BY <1>1, SameRowsKeep DEF Kept, StateTypeOK
<1>3. RunningHasContainer'
  BY <1>1, <1>2, RunningKept DEF IInv, Kept
<1>4. QED
  BY <1>2, <1>3, ClientStepCloses

\* A step that changes rows and makes none running.
LEMMA TableStep ==
  ASSUME IInv, NEW k \in Clients, ClientMoves(k), RowsKept, NoNewRunning,
         UNCHANGED <<now, tenant, box, faults, worker, rec, gc>>
  PROVE  IInv'
<1>1. StateTypeOK
  BY DEF IInv, TypeOK
<1>2. Kept
  BY <1>1, SameBoxesKeep DEF Kept, StateTypeOK
<1>3. RunningHasContainer'
  BY <1>1, RunningKept DEF IInv
<1>4. QED
  BY <1>2, <1>3, ClientStepCloses

\* Between steps no request but one about to write holds 'running'.
LEMMA NotWriting ==
  ASSUME IInv, NEW k \in Clients, client[k].pc # "write"
  PROVE  client[k].st # "running"
  BY DEF IInv, ClientOK

\* A step that changes no shared variable keeps the shared state.
LEMMA StillKept ==
  ASSUME IInv, faults' \in Nat, UNCHANGED <<now, tenant, row, box>>
  PROVE  Kept
  BY StillKeeps DEF IInv, TypeOK

\* checkTenantActive of a handler keeps the invariant.
LEMMA HandlerChecksTenantOK ==
  ASSUME IInv, NEW k \in Clients, HandlerChecksTenant(k), UNCHANGED <<rec, gc>>
  PROVE  IInv'
<1>1. /\ UNCHANGED <<now, tenant, row, box, faults, worker>> /\ faults' \in Nat
  BY DEF HandlerChecksTenant, stateVars, IInv, TypeOK, StateTypeOK
<1>2. client[k].pc = "check" /\ client[k].st # "running" /\ Kept
  BY <1>1, NotWriting, StillKept DEF HandlerChecksTenant, On
<1>3. ClientMoves(k)
  <2>1. CASE Reply(k)
    BY <2>1, ReplyMoves
  <2>2. CASE Proceed(k, "count")
    BY <1>2, <2>2, ProceedMoves DEF ClientPcs
  <2>3. CASE Proceed(k, "read")
    BY <1>2, <2>3, ProceedMoves DEF ClientPcs
  <2>4. QED
    BY <2>1, <2>2, <2>3 DEF HandlerChecksTenant
<1>4. QED
  BY <1>1, <1>3, ReadingStep

\* The quota count keeps the invariant.
LEMMA CountServicesOK ==
  ASSUME IInv, NEW k \in Clients, CountServices(k), UNCHANGED <<rec, gc>>
  PROVE  IInv'
<1>1. /\ UNCHANGED <<now, tenant, row, box, faults, worker>> /\ faults' \in Nat
  BY DEF CountServices, stateVars, IInv, TypeOK, StateTypeOK
<1>2. client[k].pc = "count" /\ client[k].st # "running" /\ Kept
  BY <1>1, NotWriting, StillKept DEF CountServices, On
<1>3. ClientMoves(k)
  <2>1. CASE Reply(k)
    BY <2>1, ReplyMoves
  <2>2. CASE Proceed(k, "insert")
    BY <1>2, <2>2, ProceedMoves DEF ClientPcs
  <2>3. QED
    BY <2>1, <2>2 DEF CountServices
<1>4. QED
  BY <1>1, <1>3, ReadingStep

\* The one step that moves a request and a deploy together.
LEMMA InsertServiceOK ==
  ASSUME IInv, NEW k \in Clients, InsertService(k), UNCHANGED <<rec, gc>>
  PROVE  IInv'
<1> DEFINE s == client[k].svc
<1>1. StateTypeOK /\ s \in Services
  BY DEF IInv, TypeOK, InsertService, On, ClientOK
<1>2. RowsKept /\ NoNewRunning
  BY <1>1, InsertRowKeeps DEF InsertService
<1>3. Kept
  BY <1>1, <1>2, SameBoxesKeep DEF InsertService, Kept, StateTypeOK
<1>4. PICK w \in Workers : Spawn(w, "Deploy", s)
  BY DEF InsertService
<1>5. WorkerMoves(w)
  BY <1>1, <1>3, <1>4, SpawnMoves
<1>6. ClientMoves(k)
  BY ReplyMoves DEF InsertService
<1>7. TypeOK'
  BY <1>1, <1>3, <1>5, <1>6, KeptType DEF IInv, TypeOK, ManagerTypeOK,
     ReconcilerTypeOK, CollectorTypeOK, WorkerMoves, ClientMoves
<1>8. \A v \in Workers : WorkerOK(v)'
  <2>1. \A v \in Workers \ {w} : WorkerOK(v)'
    BY <1>3, <1>5, WorkersStay DEF WorkerMoves
  <2>2. QED
    BY <1>5, <2>1 DEF WorkerMoves
<1>9. \A j \in Clients : ClientOK(j)'
  <2>1. \A j \in Clients \ {k} : ClientOK(j)'
    BY <1>3, <1>6, ClientsStay DEF ClientMoves
  <2>2. QED
    BY <1>6, <2>1 DEF ClientMoves
<1>10. CollectorOK' /\ ReconcilerOK'
  BY <1>3, CollectorKept
     DEF IInv, TypeOK, CollectorOK, CollectorTypeOK, CollectorState, ReconcilerOK
<1>11. RunningHasContainer'
  BY <1>1, <1>2, RunningKept DEF IInv
<1>12. QED
  BY <1>7, <1>8, <1>9, <1>10, <1>11 DEF IInv

\* getOwned of a handler keeps the invariant: the refusal of a service without
\* a container is what its later steps rely on.
LEMMA ReadServiceOK ==
  ASSUME IInv, NEW k \in Clients, ReadService(k), UNCHANGED <<rec, gc>>
  PROVE  IInv'
<1> DEFINE s == client[k].svc
           op == client[k].op
           l == CASE op = "Start" -> "start"
                  [] op = "Delete" -> "remove"
                  [] op = "Reset" /\ row[s].container = None -> "reset"
                  [] OTHER -> "stop"
<1>1. /\ UNCHANGED <<now, tenant, row, box, faults, worker>> /\ faults' \in Nat
  BY DEF ReadService, stateVars, IInv, TypeOK, StateTypeOK
<1>2. /\ client[k].pc = "read" /\ client[k].st # "running" /\ s \in Services
      /\ client \in [Clients -> Client] /\ client[k] \in Client
      /\ row[s].container \in Containers \cup {None}
  BY NotWriting DEF ReadService, On, IInv, TypeOK, ManagerTypeOK, ClientOK,
     StateTypeOK, Row
<1>3. ASSUME HasRow(s),
             op \in {"Stop", "Start", "Restart"} => row[s].container # None,
             client' = [client EXCEPT ![k].box = row[s].container, ![k].pc = l]
      PROVE  ClientMoves(k)
  <2>1. l \in {"start", "remove", "reset", "stop"} /\ (l = "start" => op = "Start")
    OBVIOUS
  <2> HIDE DEF l
  <2>2. /\ client' \in [Clients -> Client]
        /\ \A j \in Clients : j # k => client'[j] = client[j]
        /\ client'[k].pc = l /\ client'[k].svc = s
        /\ client'[k].op = op /\ client'[k].st = client[k].st
    BY <1>2, <1>3, <2>1 DEF Client, ClientPcs
  <2>3. ClientOK(k)'
    BY <1>1, <1>2, <1>3, <2>1, <2>2 DEF ClientOK, HasRow, Statuses
  <2>4. QED
    BY <2>2, <2>3 DEF ClientMoves
<1>4. ClientMoves(k)
  <2>1. CASE Reply(k)
    BY <2>1, ReplyMoves
  <2>2. QED
    BY <1>3, <2>1 DEF ReadService
<1>5. QED
  BY <1>1, <1>4, ReadingStep

\* StopContainer keeps the invariant.
LEMMA StopCallOK ==
  ASSUME IInv, NEW k \in Clients, StopCall(k), UNCHANGED <<rec, gc>>
  PROVE  IInv'
<1> DEFINE op == client[k].op
<1>1. StateTypeOK /\ client[k].pc = "stop" /\ client[k].st # "running"
  BY NotWriting DEF StopCall, On, IInv, TypeOK
<1>2. BoxesKept /\ faults' \in Nat
  <2>1. BoxesKept
    BY <1>1, StopBoxKeeps, SameBoxesKeep DEF StopCall, Exists
  <2>2. faults' \in Nat
    BY <1>1, FaultType DEF StopCall, StateTypeOK
  <2>3. QED
    BY <2>1, <2>2
<1>3. Kept
  BY <1>1, <1>2, SameRowsKeep DEF StopCall, Kept, StateTypeOK
<1>4. ClientMoves(k)
  <2>1. CASE Reply(k)
    BY <2>1, ReplyMoves
  <2>2. CASE Proceed(k, "remove")
    BY <1>1, <1>3, <2>2, ProceedMoves DEF ClientPcs
  <2>3. CASE Proceed(k, AfterStop(op))
    <3>1. /\ AfterStop(op) \in {"write", "start", "remove"}
          /\ AfterStop(op) = "start" => op = "Restart"
      BY DEF AfterStop
    <3>2. QED
      BY <1>1, <1>3, <2>3, <3>1, ProceedMoves DEF ClientPcs
  <2>4. QED
    BY <2>1, <2>2, <2>3 DEF StopCall
<1>5. QED
  BY <1>2, <1>4, DockerStep DEF StopCall

\* StartContainer keeps the invariant: the row about to be marked running
\* names a container.
LEMMA StartCallOK ==
  ASSUME IInv, NEW k \in Clients, StartCall(k), UNCHANGED <<rec, gc>>
  PROVE  IInv'
<1>1. /\ StateTypeOK /\ client[k].pc = "start" /\ ClientOK(k)
      /\ client \in [Clients -> Client] /\ client[k] \in Client
  BY DEF StartCall, On, IInv, TypeOK, ManagerTypeOK
<1>2. BoxesKept /\ faults' \in Nat
  BY <1>1, StartBoxKeeps, SameBoxesKeep DEF StartCall, Exists, StateTypeOK
<1>3. ClientMoves(k)
  <2>1. CASE Reply(k)
    BY <2>1, ReplyMoves
  <2>2. CASE client' = [client EXCEPT ![k].pc = "write", ![k].st = "running"]
    <3>1. /\ client' \in [Clients -> Client]
          /\ \A j \in Clients : j # k => client'[j] = client[j]
          /\ client'[k].pc = "write" /\ client'[k].svc = client[k].svc
          /\ client'[k].op = client[k].op
      BY <1>1, <2>2 DEF Client, ClientPcs, Statuses
    <3>2. ClientOK(k)'
      BY <1>1, <3>1 DEF ClientOK, StartCall, HasRow
    <3>3. QED
      BY <3>1, <3>2 DEF ClientMoves
  <2>3. QED
    BY <2>1, <2>2 DEF StartCall
<1>4. QED
  BY <1>2, <1>3, DockerStep DEF StartCall

\* A handler that writes 'running' saw a container in the row, and no step
\* since took it away without taking the row.
LEMMA WriteStatusOK ==
  ASSUME IInv, NEW k \in Clients, WriteStatus(k), UNCHANGED <<rec, gc>>
  PROVE  IInv'
<1> DEFINE s == client[k].svc
           st == client[k].st
<1>1. /\ StateTypeOK /\ client[k].pc = "write" /\ ClientOK(k)
      /\ s \in Services /\ st \in Statuses
  BY DEF WriteStatus, On, IInv, TypeOK, ManagerTypeOK, ClientOK, Client
<1>2. faults' \in Nat
  BY <1>1, FaultType DEF WriteStatus, StateTypeOK
<1>3. /\ RowsKept
      /\ \/ NoNewRunning
         \/ /\ st = "running"
            /\ \A x \in Services : x # s => row'[x] = row[x]
            /\ row'[s].status = "running" => HasRow(s)
  BY <1>1, SetStatusKeeps, SameRowsKeep DEF WriteStatus
<1>4. Kept
  BY <1>1, <1>2, <1>3, SameBoxesKeep DEF Kept, WriteStatus, StateTypeOK
<1>5. ClientMoves(k)
  <2>1. CASE Reply(k)
    BY <2>1, ReplyMoves
  <2>2. CASE client[k].op = "Suspend" /\ Proceed(k, "settle")
    <3>1. client[k].st # "running"
      BY <1>1, <2>2 DEF ClientOK
    <3>2. QED
      BY <1>1, <1>4, <2>2, <3>1, ProceedMoves DEF ClientPcs
  <2>3. QED
    BY <2>1, <2>2 DEF WriteStatus
<1>6. RunningHasContainer'
  <2>1. CASE NoNewRunning
    BY <1>1, <1>3, <2>1, RunningKept DEF IInv
  <2>2. CASE ~NoNewRunning
    <3>1. HasRow(s) => row[s].container # None
      BY <1>1, <1>3, <2>2 DEF ClientOK
    <3>2. row'[s].status = "running" => row'[s].container # None
      BY <1>1, <1>3, <2>2, <3>1 DEF RowsKept, HasRow, Statuses
    <3>3. QED
      BY <1>3, <2>2, <3>2 DEF IInv, RunningHasContainer
  <2>3. QED
    BY <2>1, <2>2
<1>7. QED
  BY <1>4, <1>5, <1>6, ClientStepCloses DEF WriteStatus

\* The removals of Delete and Reset keep the invariant.
LEMMA RemoveCallOK ==
  ASSUME IInv, NEW k \in Clients, RemoveCall(k), UNCHANGED <<rec, gc>>
  PROVE  IInv'
<1>1. StateTypeOK /\ client[k].pc = "remove" /\ client[k].st # "running"
  BY NotWriting DEF RemoveCall, On, IInv, TypeOK
<1>2. BoxesKept /\ faults' \in Nat
  BY <1>1, StopAndRemoveKeeps, TryRemoveKeeps DEF RemoveCall
<1>3. Kept
  BY <1>1, <1>2, SameRowsKeep DEF RemoveCall, Kept, StateTypeOK
<1>4. ClientMoves(k)
  <2>1. CASE Proceed(k, "byname")
    BY <1>1, <1>3, <2>1, ProceedMoves DEF ClientPcs
  <2>2. CASE Proceed(k, "reset")
    BY <1>1, <1>3, <2>2, ProceedMoves DEF ClientPcs
  <2>3. QED
    BY <2>1, <2>2 DEF RemoveCall
<1>5. QED
  BY <1>2, <1>4, DockerStep DEF RemoveCall

\* StopAndRemoveByName keeps the invariant.
LEMMA RemoveByNameOK ==
  ASSUME IInv, NEW k \in Clients, RemoveByName(k), UNCHANGED <<rec, gc>>
  PROVE  IInv'
<1>1. StateTypeOK /\ client[k].pc = "byname" /\ client[k].st # "running"
  BY NotWriting DEF RemoveByName, On, IInv, TypeOK
<1>2. BoxesKept /\ faults' \in Nat
  BY <1>1, StopAndRemoveKeeps, SameBoxesKeep DEF RemoveByName, StateTypeOK
<1>3. Kept
  BY <1>1, <1>2, SameRowsKeep DEF RemoveByName, Kept, StateTypeOK
<1>4. ClientMoves(k)
  BY <1>1, <1>3, ProceedMoves DEF ClientPcs, RemoveByName
<1>5. QED
  BY <1>2, <1>4, DockerStep DEF RemoveByName

\* DELETE FROM services keeps the invariant.
LEMMA DeleteServiceOK ==
  ASSUME IInv, NEW k \in Clients, DeleteService(k), UNCHANGED <<rec, gc>>
  PROVE  IInv'
<1>1. StateTypeOK /\ client[k].svc \in Services
  BY DEF DeleteService, On, IInv, TypeOK, ClientOK
<1>2. RowsKept /\ NoNewRunning
  BY <1>1, DeleteRowKeeps DEF DeleteService
<1>3. QED
  BY <1>2, ReplyMoves, TableStep DEF DeleteService

\* The reset's UPDATE keeps the invariant.
LEMMA ResetCircuitBreakerOK ==
  ASSUME IInv, NEW k \in Clients, ResetCircuitBreaker(k), UNCHANGED <<rec, gc>>
  PROVE  IInv'
<1>1. StateTypeOK /\ client[k].svc \in Services
  BY DEF ResetCircuitBreaker, On, IInv, TypeOK, ClientOK
<1>2. row[client[k].svc].retryAt \in Nat \cup {None}
  BY <1>1 DEF StateTypeOK, Row
<1>3. RowsKept /\ NoNewRunning
  BY <1>1, <1>2, CloseCircuitKeeps DEF ResetCircuitBreaker
<1>4. QED
  BY <1>3, ReplyMoves, TableStep DEF ResetCircuitBreaker

\* The suspension of a tenant keeps the invariant.
LEMMA SuspendTenantOK ==
  ASSUME IInv, NEW k \in Clients, SuspendTenant(k), UNCHANGED <<rec, gc>>
  PROVE  IInv'
<1>1. /\ StateTypeOK /\ client[k].pc = "suspend" /\ client[k].st # "running"
      /\ client[k].op = "Suspend"
  BY NotWriting DEF SuspendTenant, On, IInv, TypeOK, ClientOK
<1>2. tenant' \in [Tenants -> BOOLEAN]
  BY <1>1, Zenon DEF SuspendTenant, StateTypeOK
<1>3. RowsKept /\ NoNewRunning
  BY <1>1, SameRowsKeep DEF SuspendTenant
<1>4. Kept
  BY <1>1, <1>2, <1>3, SameBoxesKeep DEF SuspendTenant, Kept, StateTypeOK
<1>5. ClientMoves(k)
  BY <1>1, <1>4, ProceedMoves DEF ClientPcs, SuspendTenant
<1>6. RunningHasContainer'
  BY <1>1, <1>3, RunningKept DEF IInv
<1>7. QED
  BY <1>4, <1>5, <1>6, ClientStepCloses DEF SuspendTenant

\* The steps of a suspension never write 'running'.
LEMMA SuspensionMoves ==
  ASSUME IInv, NEW k \in Clients, NEW new \in Client,
         client' = [client EXCEPT ![k] = new],
         new.op = "Suspend", new.svc \in Services, new.st # "running",
         new.pc # "start"
  PROVE  ClientMoves(k)
<1>1. client \in [Clients -> Client]
  BY DEF IInv, TypeOK, ManagerTypeOK
<1>2. /\ client' \in [Clients -> Client] /\ client'[k] = new
      /\ \A j \in Clients : j # k => client'[j] = client[j]
  BY <1>1
<1>3. ClientOK(k)'
  BY <1>2 DEF ClientOK
<1>4. QED
  BY <1>2, <1>3 DEF ClientMoves

\* StopAllForTenant's list of labelled containers keeps the invariant.
LEMMA ListLabelledOK ==
  ASSUME IInv, NEW k \in Clients, ListLabelled(k), UNCHANGED <<rec, gc>>
  PROVE  IInv'
<1> DEFINE listed == {c \in Existing : TenantOf[box[c].svc] = TenantOf[client[k].svc]}
           new == [client[k] EXCEPT !.pc = "purge", !.boxes = listed]
<1>1. /\ StateTypeOK /\ client[k].pc = "labels" /\ client[k].st # "running"
      /\ client[k].op = "Suspend" /\ client[k].svc \in Services
      /\ client[k] \in Client
  BY NotWriting DEF ListLabelled, On, IInv, TypeOK, ManagerTypeOK, ClientOK
<1>2. faults' \in Nat
  BY <1>1, FaultType DEF ListLabelled, StateTypeOK
<1>3. Kept
  BY <1>2, StillKept DEF ListLabelled
<1>4. CASE Proceed(k, "rows")
  <2>1. ClientMoves(k)
    BY <1>1, <1>3, <1>4, ProceedMoves DEF ClientPcs
  <2>2. QED
    BY <1>2, <2>1, ReadingStep DEF ListLabelled
<1>5. CASE client' = [client EXCEPT ![k].pc = "purge", ![k].boxes = listed]
  <2>1. listed \in SUBSET Containers
    BY DEF Existing
  <2> HIDE DEF listed
  <2>2. /\ new \in Client /\ new.op = client[k].op /\ new.svc = client[k].svc
        /\ new.st = client[k].st /\ new.pc = "purge"
    BY <1>1, <2>1 DEF Client, ClientPcs
  <2>3. client' = [client EXCEPT ![k] = new]
    BY <1>5
  <2> HIDE DEF new
  <2>4. ClientMoves(k)
    BY <1>1, <2>2, <2>3, SuspensionMoves
  <2>5. QED
    BY <1>2, <2>4, ReadingStep DEF ListLabelled
<1>6. QED
  BY <1>4, <1>5 DEF ListLabelled

\* The removal of labelled containers keeps the invariant.
LEMMA PurgeLabelledOK ==
  ASSUME IInv, NEW k \in Clients, PurgeLabelled(k), UNCHANGED <<rec, gc>>
  PROVE  IInv'
<1>1. /\ StateTypeOK /\ client[k].pc = "purge" /\ client[k].st # "running"
      /\ client[k].op = "Suspend" /\ client[k].svc \in Services
      /\ client[k] \in Client
  BY NotWriting DEF PurgeLabelled, On, IInv, TypeOK, ManagerTypeOK, ClientOK
<1>2. BoxesKept /\ faults' \in Nat
  BY <1>1, StopAndRemoveKeeps, SameBoxesKeep DEF PurgeLabelled, StateTypeOK
<1>3. Kept
  BY <1>1, <1>2, SameRowsKeep DEF PurgeLabelled, Kept, StateTypeOK
<1>4. CASE Proceed(k, "rows")
  <2>1. ClientMoves(k)
    BY <1>1, <1>3, <1>4, ProceedMoves DEF ClientPcs
  <2>2. QED
    BY <1>2, <2>1, DockerStep DEF PurgeLabelled
<1>5. ASSUME NEW c, client' = [client EXCEPT ![k].boxes = @ \ {c}]
      PROVE  IInv'
  <2> DEFINE new == [client[k] EXCEPT !.boxes = client[k].boxes \ {c}]
  <2>1. /\ new \in Client /\ new.op = client[k].op /\ new.svc = client[k].svc
        /\ new.st = client[k].st /\ new.pc = "purge"
    BY <1>1 DEF Client, ClientPcs
  <2>2. client' = [client EXCEPT ![k] = new]
    BY <1>5
  <2> HIDE DEF new
  <2>3. ClientMoves(k)
    BY <1>1, <2>1, <2>2, SuspensionMoves
  <2>4. QED
    BY <1>2, <2>3, DockerStep DEF PurgeLabelled
<1>6. QED
  BY <1>4, <1>5 DEF PurgeLabelled

\* StopAllForTenant's list of rows keeps the invariant.
LEMMA ListRowsOK ==
  ASSUME IInv, NEW k \in Clients, ListRows(k), UNCHANGED <<rec, gc>>
  PROVE  IInv'
<1> DEFINE listed == {<<s, row[s].container>> : s \in RowsOf(TenantOf[client[k].svc])}
           new == [client[k] EXCEPT !.pc = "settle", !.rows = listed]
<1>1. /\ StateTypeOK /\ client[k].pc = "rows" /\ client[k].st # "running"
      /\ client[k].op = "Suspend" /\ client[k].svc \in Services
      /\ client[k] \in Client
  BY NotWriting DEF ListRows, On, IInv, TypeOK, ManagerTypeOK, ClientOK
<1>2. /\ UNCHANGED <<now, tenant, row, box, worker>> /\ faults' \in Nat
  BY <1>1 DEF ListRows, stateVars, StateTypeOK
<1>3. listed \in SUBSET (Services \X (Containers \cup {None}))
  BY <1>1 DEF RowsOf, StateTypeOK, Row
<1>4. client' = [client EXCEPT ![k] = new]
  BY DEF ListRows
<1> HIDE DEF listed
<1>5. /\ new \in Client /\ new.op = client[k].op /\ new.svc = client[k].svc
      /\ new.st = client[k].st /\ new.pc = "settle"
  BY <1>1, <1>3 DEF Client, ClientPcs
<1> HIDE DEF new
<1>6. ClientMoves(k)
  BY <1>1, <1>4, <1>5, SuspensionMoves
<1>7. QED
  BY <1>2, <1>6, ReadingStep

\* The clean-up of one row of a suspended tenant keeps the invariant.
LEMMA SettleRowOK ==
  ASSUME IInv, NEW k \in Clients, SettleRow(k), UNCHANGED <<rec, gc>>
  PROVE  IInv'
<1>1. /\ StateTypeOK /\ client[k].pc = "settle"
      /\ client[k].op = "Suspend" /\ client[k] \in Client
  BY DEF SettleRow, On, IInv, TypeOK, ManagerTypeOK, ClientOK
<1>2. BoxesKept
  BY <1>1, StopBoxKeeps, RemoveBoxKeeps, SameBoxesKeep DEF SettleRow, Exists
<1>3. faults' \in Nat
  BY <1>1, FaultType DEF SettleRow, StateTypeOK
<1>4. CASE Reply(k)
  BY <1>2, <1>3, <1>4, ReplyMoves, DockerStep DEF SettleRow
<1>5. ASSUME NEW p \in client[k].rows, NEW st \in {"stopped", "failed"},
             client' = [client EXCEPT ![k].pc = "write", ![k].svc = p[1],
                                      ![k].st = st, ![k].rows = @ \ {p}]
      PROVE  IInv'
  <2> DEFINE new == [client[k] EXCEPT !.pc = "write", !.svc = p[1], !.st = st,
                                      !.rows = client[k].rows \ {p}]
  <2>1. p[1] \in Services /\ st \in Statuses /\ st # "running"
    BY <1>1, <1>5 DEF Client, Statuses
  <2>2. /\ new \in Client /\ new.op = client[k].op /\ new.svc = p[1]
        /\ new.st = st /\ new.pc = "write"
    BY <1>1, <2>1 DEF Client, ClientPcs
  <2>3. client' = [client EXCEPT ![k] = new]
    BY <1>5
  <2> HIDE DEF new
  <2>4. ClientMoves(k)
    BY <1>1, <2>1, <2>2, <2>3, SuspensionMoves
  <2>5. QED
    BY <1>2, <1>3, <2>4, DockerStep DEF SettleRow
<1>6. QED
  BY <1>4, <1>5 DEF SettleRow

\* The end of a request's context keeps the invariant.
LEMMA RequestCancelledOK ==
  ASSUME IInv, NEW k \in Clients, RequestCancelled(k), UNCHANGED <<rec, gc>>
  PROVE  IInv'
  BY FaultType, ReplyMoves, ReadingStep DEF RequestCancelled, IInv, TypeOK

\* Every step of a request keeps the invariant.
LEMMA ClientStepOK ==
  ASSUME IInv, NEW k \in Clients, ClientStep(k), UNCHANGED <<rec, gc>>
  PROVE  IInv'
  BY HandlerChecksTenantOK, CountServicesOK, InsertServiceOK, ReadServiceOK,
     StopCallOK, StartCallOK, WriteStatusOK, RemoveCallOK, RemoveByNameOK,
     DeleteServiceOK, ResetCircuitBreakerOK, SuspendTenantOK, ListLabelledOK,
     PurgeLabelledOK, ListRowsOK, SettleRowOK, RequestCancelledOK
     DEF ClientStep

\* Every step of the service manager keeps the invariant.
LEMMA ManagerNextOK ==
  ASSUME IInv, ManagerNext, UNCHANGED <<rec, gc>>
  PROVE  IInv'
  BY DeployBuiltOK, WorkerStepOK, ArriveOK, ClientStepOK DEF ManagerNext

----------------------------------------------------------------------------
(* Steps of the reconciler *)

\* A tick that only moves on keeps its own part.
LEMMA StepMoves ==
  ASSUME IInv, NEW l \in ReconcilerPcs, Step(l),
         l \in {"mark", "kill", "stop", "markUnhealthy", "drop"} =>
           rec.pc \in {"mark", "kill", "stop", "markUnhealthy", "drop"}
  PROVE  rec' \in ReconcilerState /\ ReconcilerOK'
<1>1. rec \in ReconcilerState /\ ReconcilerOK
  BY DEF IInv, TypeOK, ReconcilerTypeOK
<1>2. rec' \in ReconcilerState /\ rec'.pc = l /\ rec'.svc = rec.svc
  BY <1>1 DEF Step, ReconcilerState
<1>3. QED
  BY <1>1, <1>2 DEF ReconcilerOK

\* So does one that reads, or acts on containers, or updates rows.
LEMMA TickReads ==
  ASSUME IInv, rec' \in ReconcilerState, ReconcilerOK', faults' \in Nat,
         UNCHANGED <<now, tenant, row, box, worker, client, gc>>
  PROVE  IInv'
  BY StillKeeps, ReconcilerStepCloses DEF IInv, TypeOK

\* A reconciler step that acts on containers only keeps the invariant.
LEMMA TickActs ==
  ASSUME IInv, rec' \in ReconcilerState, ReconcilerOK', faults' \in Nat, BoxesKept,
         UNCHANGED <<now, tenant, row, worker, client, gc>>
  PROVE  IInv'
<1>1. StateTypeOK
  BY DEF IInv, TypeOK
<1>2. Kept /\ NoNewRunning
  BY <1>1, SameRowsKeep DEF Kept, StateTypeOK
<1>3. QED
  BY <1>2, ReconcilerStepCloses

\* A reconciler step that writes rows and makes none running keeps it.
LEMMA TickWrites ==
  ASSUME IInv, rec' \in ReconcilerState, ReconcilerOK', faults' \in Nat,
         RowsKept, NoNewRunning,
         UNCHANGED <<now, tenant, box, worker, client, gc>>
  PROVE  IInv'
<1>1. StateTypeOK
  BY DEF IInv, TypeOK
<1>2. Kept
  BY <1>1, SameBoxesKeep DEF Kept, StateTypeOK
<1>3. QED
  BY <1>2, ReconcilerStepCloses

\* An idle reconciler satisfies its part of the invariant.
LEMMA IdleReconcilerOK ==
  ASSUME rec' = IdleReconciler
  PROVE  rec' \in ReconcilerState /\ ReconcilerOK'
  BY DEF IdleReconciler, ReconcilerState, ReconcilerPcs, ReconcilerOK

\* The reconciler's container list keeps the invariant.
LEMMA ListContainersOK ==
  ASSUME IInv, ListContainers, UNCHANGED <<worker, client, gc>>
  PROVE  IInv'
<1>1. Existing \in SUBSET Containers
  BY DEF Existing
<1>2. rec' \in ReconcilerState /\ ReconcilerOK'
  BY <1>1 DEF ListContainers, IdleReconciler, ReconcilerState, ReconcilerPcs,
              ReconcilerOK
<1>3. UNCHANGED <<now, tenant, row, box>> /\ faults' \in Nat
  BY DEF ListContainers, stateVars, IInv, TypeOK, StateTypeOK
<1>4. QED
  BY <1>2, <1>3, TickReads

\* The SELECT of running services keeps the invariant.
LEMMA SelectRunningOK ==
  ASSUME IInv, SelectRunning, UNCHANGED <<worker, client, gc>>
  PROVE  IInv'
<1> DEFINE running == {p \in Pairs : /\ row[p[1]].status = "running"
                                     /\ row[p[1]].container = p[2]}
<1>1. running \in SUBSET Pairs
  OBVIOUS
<1>2. rec' = [rec EXCEPT !.pc = "check", !.todo = running, !.unwell = running]
  BY DEF SelectRunning
<1> HIDE DEF running
<1>3. rec' \in ReconcilerState /\ ReconcilerOK'
  BY <1>1, <1>2 DEF IInv, TypeOK, ReconcilerTypeOK, ReconcilerState,
     ReconcilerPcs, ReconcilerOK
<1>4. UNCHANGED <<now, tenant, row, box>> /\ faults' \in Nat
  BY DEF SelectRunning, stateVars, IInv, TypeOK, StateTypeOK
<1>5. QED
  BY <1>3, <1>4, TickReads

\* Inspecting a container (step 1) keeps the invariant.
LEMMA InspectNextOK ==
  ASSUME IInv, InspectNext, UNCHANGED <<worker, client, gc>>
  PROVE  IInv'
<1>1. StateTypeOK /\ rec \in ReconcilerState /\ rec.pc = "check"
  BY DEF IInv, TypeOK, ReconcilerTypeOK, InspectNext, InPc
<1>2. faults' \in Nat
  BY <1>1, FaultType DEF InspectNext, StateTypeOK
<1>3. rec' \in ReconcilerState /\ ReconcilerOK'
  <2>1. CASE Step("health")
    BY <2>1, StepMoves DEF ReconcilerPcs
  <2>2. ASSUME NEW p \in rec.todo,
               rec' = [rec EXCEPT !.pc = "mark", !.todo = @ \ {p},
                                  !.svc = p[1], !.box = p[2]]
        PROVE  rec' \in ReconcilerState /\ ReconcilerOK'
    BY <1>1, <2>2 DEF ReconcilerState, ReconcilerPcs, ReconcilerOK, Pairs
  <2>3. ASSUME NEW p \in rec.todo, rec' = [rec EXCEPT !.todo = @ \ {p}]
        PROVE  rec' \in ReconcilerState /\ ReconcilerOK'
    BY <1>1, <2>3 DEF ReconcilerState, ReconcilerOK
  <2>4. QED
    BY <2>1, <2>2, <2>3 DEF InspectNext
<1>4. QED
  BY <1>2, <1>3, TickReads DEF InspectNext

\* Inspecting a container's health (step 1a) keeps the invariant.
LEMMA HealthNextOK ==
  ASSUME IInv, HealthNext, UNCHANGED <<worker, client, gc>>
  PROVE  IInv'
<1>1. StateTypeOK /\ rec \in ReconcilerState /\ rec.pc = "health"
  BY DEF IInv, TypeOK, ReconcilerTypeOK, HealthNext, InPc
<1>2. faults' \in Nat
  BY <1>1, FaultType DEF HealthNext, StateTypeOK
<1>3. rec' \in ReconcilerState /\ ReconcilerOK'
  <2>1. CASE Step("recover")
    BY <2>1, StepMoves DEF ReconcilerPcs
  <2>2. ASSUME NEW p \in rec.unwell,
               rec' = [rec EXCEPT !.pc = "stop", !.unwell = @ \ {p},
                                  !.svc = p[1], !.box = p[2]]
        PROVE  rec' \in ReconcilerState /\ ReconcilerOK'
    BY <1>1, <2>2 DEF ReconcilerState, ReconcilerPcs, ReconcilerOK, Pairs
  <2>3. ASSUME NEW p \in rec.unwell, rec' = [rec EXCEPT !.unwell = @ \ {p}]
        PROVE  rec' \in ReconcilerState /\ ReconcilerOK'
    BY <1>1, <2>3 DEF ReconcilerState, ReconcilerOK
  <2>4. QED
    BY <2>1, <2>2, <2>3 DEF HealthNext
<1>4. QED
  BY <1>2, <1>3, TickReads DEF HealthNext

\* Writing 'crashed' (step 1) keeps the invariant.
LEMMA MarkCrashedOK ==
  ASSUME IInv, MarkCrashed, UNCHANGED <<worker, client, gc>>
  PROVE  IInv'
<1>1. StateTypeOK /\ rec.pc = "mark" /\ rec.svc \in Services
  BY DEF IInv, TypeOK, MarkCrashed, InPc, ReconcilerOK
<1>2. faults' \in Nat
  BY <1>1, FaultType DEF MarkCrashed, StateTypeOK
<1>3. RowsKept /\ NoNewRunning
  BY <1>1, SetStatusKeeps, SameRowsKeep DEF MarkCrashed, Statuses
<1>4. rec' \in ReconcilerState /\ ReconcilerOK'
  BY <1>1, StepMoves DEF MarkCrashed, ReconcilerPcs
<1>5. QED
  BY <1>2, <1>3, <1>4, TickWrites DEF MarkCrashed

\* Writing 'crashed' (step 1a) keeps the invariant.
LEMMA MarkUnhealthyOK ==
  ASSUME IInv, MarkUnhealthy, UNCHANGED <<worker, client, gc>>
  PROVE  IInv'
<1>1. StateTypeOK /\ rec.pc = "markUnhealthy" /\ rec.svc \in Services
  BY DEF IInv, TypeOK, MarkUnhealthy, InPc, ReconcilerOK
<1>2. faults' \in Nat
  BY <1>1, FaultType DEF MarkUnhealthy, StateTypeOK
<1>3. RowsKept /\ NoNewRunning
  BY <1>1, SetStatusKeeps, SameRowsKeep DEF MarkUnhealthy, Statuses
<1>4. rec' \in ReconcilerState /\ ReconcilerOK'
  BY <1>1, StepMoves DEF MarkUnhealthy, ReconcilerPcs
<1>5. QED
  BY <1>2, <1>3, <1>4, TickWrites DEF MarkUnhealthy

\* Removing the container of an open circuit (step 1) keeps the invariant.
LEMMA KillCrashedOK ==
  ASSUME IInv, KillCrashed, UNCHANGED <<worker, client, gc>>
  PROVE  IInv'
<1>1. BoxesKept /\ faults' \in Nat
  BY StopAndRemoveKeeps DEF KillCrashed, IInv, TypeOK
<1>2. rec' \in ReconcilerState /\ ReconcilerOK'
  BY StepMoves DEF KillCrashed, ReconcilerPcs
<1>3. QED
  BY <1>1, <1>2, TickActs DEF KillCrashed

\* Removing the container of an open circuit (step 1a) keeps the invariant.
LEMMA DropUnhealthyOK ==
  ASSUME IInv, DropUnhealthy, UNCHANGED <<worker, client, gc>>
  PROVE  IInv'
<1>1. BoxesKept /\ faults' \in Nat
  BY TryRemoveKeeps DEF DropUnhealthy, IInv, TypeOK
<1>2. rec' \in ReconcilerState /\ ReconcilerOK'
  BY StepMoves DEF DropUnhealthy, ReconcilerPcs
<1>3. QED
  BY <1>1, <1>2, TickActs DEF DropUnhealthy

\* Stopping an unhealthy container keeps the invariant.
LEMMA StopUnhealthyOK ==
  ASSUME IInv, StopUnhealthy, UNCHANGED <<worker, client, gc>>
  PROVE  IInv'
<1>1. StateTypeOK /\ rec.pc = "stop"
  BY DEF IInv, TypeOK, StopUnhealthy, InPc
<1>2. faults' \in Nat
  BY <1>1, FaultType DEF StopUnhealthy, StateTypeOK
<1>3. BoxesKept
  BY <1>1, StopBoxKeeps, SameBoxesKeep DEF StopUnhealthy, Exists
<1>4. rec' \in ReconcilerState /\ ReconcilerOK'
  BY <1>1, StepMoves DEF StopUnhealthy, ReconcilerPcs
<1>5. QED
  BY <1>2, <1>3, <1>4, TickActs DEF StopUnhealthy

\* The SELECT of recoverable circuits keeps the invariant.
LEMMA SelectRecoverableOK ==
  ASSUME IInv, SelectRecoverable, UNCHANGED <<worker, client, gc>>
  PROVE  IInv'
<1>1. rec' \in ReconcilerState /\ ReconcilerOK'
  BY DEF SelectRecoverable, IInv, TypeOK, ReconcilerTypeOK, ReconcilerState,
     ReconcilerPcs, ReconcilerOK
<1>2. UNCHANGED <<now, tenant, row, box>> /\ faults' \in Nat
  BY DEF SelectRecoverable, stateVars, IInv, TypeOK, StateTypeOK
<1>3. QED
  BY <1>1, <1>2, TickReads

\* Closing a circuit (step 1b) keeps the invariant.
LEMMA RecoverNextOK ==
  ASSUME IInv, RecoverNext, UNCHANGED <<worker, client, gc>>
  PROVE  IInv'
<1>1. StateTypeOK /\ rec \in ReconcilerState /\ rec.pc = "recovering"
  BY DEF IInv, TypeOK, ReconcilerTypeOK, RecoverNext, InPc
<1>2. faults' \in Nat
  BY <1>1, FaultType DEF RecoverNext, StateTypeOK
<1>3. RowsKept /\ NoNewRunning
  BY <1>1, CloseCircuitKeeps, SameRowsKeep DEF RecoverNext, ReconcilerState
<1>4. rec' \in ReconcilerState /\ ReconcilerOK'
  <2>1. CASE Step("stale")
    BY <2>1, StepMoves DEF ReconcilerPcs
  <2>2. ASSUME NEW s \in rec.due, rec' = [rec EXCEPT !.due = @ \ {s}]
        PROVE  rec' \in ReconcilerState /\ ReconcilerOK'
    BY <1>1, <2>2 DEF ReconcilerState, ReconcilerOK
  <2>3. QED
    BY <2>1, <2>2 DEF RecoverNext
<1>5. QED
  BY <1>2, <1>3, <1>4, TickWrites DEF RecoverNext

\* Failing stale deploys (step 2) keeps the invariant.
LEMMA FailStaleDeploysOK ==
  ASSUME IInv, FailStaleDeploys, UNCHANGED <<worker, client, gc>>
  PROVE  IInv'
<1>1. StateTypeOK /\ rec.pc = "stale"
  BY DEF IInv, TypeOK, FailStaleDeploys, InPc
<1>2. faults' \in Nat
  BY <1>1, FaultType DEF FailStaleDeploys, StateTypeOK
<1>3. RowsKept /\ NoNewRunning
  <2>1. CASE UNCHANGED row
    BY <1>1, <2>1, SameRowsKeep
  <2>2. CASE row' = [s \in Services |->
                       IF Stale(s) THEN [row[s] EXCEPT !.status = "failed",
                                                       !.updatedAt = now]
                                   ELSE row[s]]
    BY <1>1, <2>2 DEF StateTypeOK, RowsKept, NoNewRunning, HasRow, Row, Statuses,
                      Stale
  <2>3. QED
    BY <2>1, <2>2 DEF FailStaleDeploys
<1>4. rec' \in ReconcilerState /\ ReconcilerOK'
  BY <1>1, StepMoves DEF FailStaleDeploys, ReconcilerPcs
<1>5. QED
  BY <1>2, <1>3, <1>4, TickWrites DEF FailStaleDeploys

\* An aborted tick keeps the invariant.
LEMMA TickAbortsOK ==
  ASSUME IInv, TickAborts, UNCHANGED <<worker, client, gc>>
  PROVE  IInv'
  BY FaultType, IdleReconcilerOK, TickReads DEF TickAborts, IInv, TypeOK

\* Every step of the reconciler keeps the invariant.
LEMMA ReconcilerNextOK ==
  ASSUME IInv, ReconcilerNext, UNCHANGED <<worker, client, gc>>
  PROVE  IInv'
  BY ListContainersOK, SelectRunningOK, InspectNextOK, MarkCrashedOK,
     KillCrashedOK, HealthNextOK, StopUnhealthyOK, MarkUnhealthyOK,
     DropUnhealthyOK, SelectRecoverableOK, RecoverNextOK, FailStaleDeploysOK,
     TickAbortsOK
     DEF ReconcilerNext, ReconcilerStep

----------------------------------------------------------------------------
(* Steps of the collector, the environment and the process *)

\* The collector's list keeps the invariant.
LEMMA ListServiceContainersOK ==
  ASSUME IInv, ListServiceContainers, UNCHANGED <<worker, client, rec>>
  PROVE  IInv'
<1>1. StateTypeOK /\ now \in Nat /\ Existing \in SUBSET Containers
  BY DEF IInv, TypeOK, StateTypeOK, Existing
<1>2. UNCHANGED <<now, tenant, row, box>> /\ faults' \in Nat
  BY DEF ListServiceContainers, stateVars, IInv, TypeOK, StateTypeOK
<1>3. Kept /\ NoNewRunning
  BY <1>1, <1>2, StillKeeps
<1>4. gc' \in CollectorState /\ gc'.at = now /\ gc'.orphaned = {}
  BY <1>1 DEF ListServiceContainers, IdleCollector, CollectorState
<1>5. CollectorOK'
  BY <1>1, <1>2, <1>4 DEF CollectorOK
<1>6. QED
  BY <1>3, <1>4, <1>5, CollectorStepCloses

\* A container joins the batch only past the age gate and unreferenced.
LEMMA CheckNextOK ==
  ASSUME IInv, CheckNext, UNCHANGED <<worker, client, rec>>
  PROVE  IInv'
<1>1. /\ StateTypeOK /\ gc \in CollectorState /\ CollectorOK
  BY DEF IInv, TypeOK, CollectorTypeOK
<1>2. faults' \in Nat
  BY <1>1, FaultType DEF CheckNext, StateTypeOK
<1>3. Kept /\ NoNewRunning
  BY <1>1, <1>2, StillKeeps DEF CheckNext
<1>4. UNCHANGED <<now, row, box>>
  BY DEF CheckNext
<1>5. ASSUME NEW c \in gc.boxes, Exists(c), OldEnough(c, gc.at), ~Referenced(c),
             gc' = [gc EXCEPT !.boxes = @ \ {c}, !.orphaned = @ \cup {c}]
      PROVE  gc' \in CollectorState /\ CollectorOK'
  <2>1. /\ gc' \in CollectorState /\ gc'.at = gc.at
        /\ gc'.orphaned = gc.orphaned \cup {c}
    BY <1>1, <1>5 DEF CollectorState
  <2>2. c \in Containers /\ box[c].st # "unused"
    BY <1>5 DEF Exists, BoxStates
  <2>3. box[c].createdAt + MinResourceAge <= now
    <3>1. gc.at \in Nat /\ now \in Nat /\ box[c].createdAt \in Nat
          /\ MinResourceAge \in Nat /\ gc.at <= now
      BY <1>1, <2>2, ConstantsAssumption
         DEF CollectorState, StateTypeOK, Box, CollectorOK
    <3>2. QED
      BY <1>5, <3>1 DEF OldEnough
  <2>4. \A d \in Containers : Referenced(d)' <=> Referenced(d)
    BY <1>4 DEF Referenced, HasRow
  <2>5. gc.orphaned \subseteq Containers
    BY <1>1 DEF CollectorState
  <2>6. CollectorOK'
    BY <1>1, <1>4, <1>5, <2>1, <2>2, <2>3, <2>4, <2>5 DEF CollectorOK
  <2>7. QED
    BY <2>1, <2>6
<1>6. ASSUME gc' \in CollectorState, gc'.at = gc.at, gc'.orphaned = gc.orphaned
      PROVE  gc' \in CollectorState /\ CollectorOK'
  BY <1>1, <1>3, <1>6, CollectorKept
     DEF CollectorTypeOK, CollectorState, CollectorOK
<1>7. gc' \in CollectorState /\ CollectorOK'
  <2>1. CASE gc' = [gc EXCEPT !.pc = "remove"]
    BY <1>1, <1>6, <2>1 DEF CollectorState
  <2>2. ASSUME NEW c \in gc.boxes, gc' = [gc EXCEPT !.boxes = @ \ {c}]
        PROVE  gc' \in CollectorState /\ CollectorOK'
    BY <1>1, <1>6, <2>2 DEF CollectorState
  <2>3. ASSUME NEW c \in gc.boxes,
               gc' = [gc EXCEPT !.boxes = @ \ {c}, !.orphaned =
                  IF Exists(c) /\ OldEnough(c, gc.at) /\ ~Referenced(c)
                    THEN @ \cup {c} ELSE @]
        PROVE  gc' \in CollectorState /\ CollectorOK'
    <3>1. CASE Exists(c) /\ OldEnough(c, gc.at) /\ ~Referenced(c)
      BY <1>5, <2>3, <3>1
    <3>2. CASE ~(Exists(c) /\ OldEnough(c, gc.at) /\ ~Referenced(c))
      BY <1>1, <1>6, <2>3, <3>2 DEF CollectorState
    <3>3. QED
      BY <3>1, <3>2
  <2>4. QED
    BY <2>1, <2>2, <2>3 DEF CheckNext
<1>8. QED
  BY <1>3, <1>7, CollectorStepCloses DEF CheckNext

\* An idle collector satisfies its part of the invariant.
LEMMA IdleCollectorOK ==
  ASSUME now' \in Nat, gc' = IdleCollector
  PROVE  gc' \in CollectorState /\ CollectorOK'
  BY DEF IdleCollector, CollectorState, CollectorOK

\* Removing a container of the batch keeps the invariant.
LEMMA RemoveNextOK ==
  ASSUME IInv, RemoveNext, UNCHANGED <<worker, client, rec>>
  PROVE  IInv'
<1>1. /\ StateTypeOK /\ gc \in CollectorState /\ CollectorOK
  BY DEF IInv, TypeOK, CollectorTypeOK
<1>2. BoxesKept /\ faults' \in Nat
  BY <1>1, StopAndRemoveKeeps, SameBoxesKeep DEF RemoveNext, StateTypeOK
<1>3. Kept /\ NoNewRunning
  BY <1>1, <1>2, SameRowsKeep DEF Kept, RemoveNext, StateTypeOK
<1>4. gc' \in CollectorState /\ CollectorOK'
  <2>1. CASE gc' = IdleCollector
    BY <1>1, <1>3, <2>1, IdleCollectorOK DEF StateTypeOK, Kept
  <2>2. ASSUME NEW c \in gc.orphaned, gc' = [gc EXCEPT !.orphaned = @ \ {c}]
        PROVE  gc' \in CollectorState /\ CollectorOK'
    <3>1. /\ gc' \in CollectorState /\ gc'.at = gc.at
          /\ gc'.orphaned \subseteq gc.orphaned
      BY <1>1, <2>2 DEF CollectorState
    <3>2. gc'.at \in Nat /\ gc'.at <= now
      BY <1>1, <3>1 DEF CollectorState, CollectorOK
    <3>3. QED
      BY <1>1, <1>3, <3>1, <3>2, CollectorKept DEF CollectorTypeOK
  <2>3. QED
    BY <2>1, <2>2 DEF RemoveNext
<1>5. QED
  BY <1>3, <1>4, CollectorStepCloses DEF RemoveNext

\* An aborted collection keeps the invariant.
LEMMA CollectAbortsOK ==
  ASSUME IInv, CollectAborts, UNCHANGED <<worker, client, rec>>
  PROVE  IInv'
<1>1. StateTypeOK
  BY DEF IInv, TypeOK
<1>2. faults' \in Nat
  BY <1>1, FaultType DEF CollectAborts
<1>3. Kept /\ NoNewRunning
  BY <1>1, <1>2, StillKeeps DEF CollectAborts
<1>4. gc' \in CollectorState /\ CollectorOK'
  BY <1>1, IdleCollectorOK DEF CollectAborts, StateTypeOK
<1>5. QED
  BY <1>3, <1>4, CollectorStepCloses DEF CollectAborts

\* Every step of the collector keeps the invariant.
LEMMA CollectorNextOK ==
  ASSUME IInv, CollectorNext, UNCHANGED <<worker, client, rec>>
  PROVE  IInv'
  BY ListServiceContainersOK, CheckNextOK, RemoveNextOK, CollectAbortsOK
     DEF CollectorNext, CollectorStep

\* Time only makes deploys and containers older.
LEMMA TickOK ==
  ASSUME IInv, Tick, UNCHANGED <<worker, client, rec, gc>>
  PROVE  IInv'
<1>1. /\ now \in Nat /\ now' = now + 1 /\ now' \in Nat
      /\ UNCHANGED <<tenant, row, box, faults>>
  BY DEF Tick, IInv, TypeOK, StateTypeOK
<1>2. TypeOK'
  BY <1>1 DEF IInv, TypeOK, StateTypeOK, ManagerTypeOK, ReconcilerTypeOK,
              CollectorTypeOK
<1>3. \A w \in Workers : WorkerOK(w)'
  <2> SUFFICES ASSUME NEW w \in Workers PROVE WorkerOK(w)'
    OBVIOUS
  <2>1. WorkerOK(w) /\ worker[w].start \in Nat
    BY DEF IInv, TypeOK, ManagerTypeOK, Worker
  <2>2. QED
    BY <1>1, <2>1 DEF WorkerOK, HasRow
<1>4. \A k \in Clients : ClientOK(k)'
  BY <1>1 DEF IInv, ClientOK, HasRow
<1>5. ReconcilerOK' /\ RunningHasContainer'
  BY <1>1 DEF IInv, ReconcilerOK, RunningHasContainer
<1>6. CollectorOK'
  <2>1. /\ CollectorOK /\ gc.at \in Nat /\ gc.orphaned \subseteq Containers
        /\ box \in [Containers -> Box] /\ MinResourceAge \in Nat
    BY ConstantsAssumption
       DEF IInv, TypeOK, CollectorTypeOK, CollectorState, StateTypeOK
  <2>2. gc'.at <= now'
    BY <1>1, <2>1 DEF CollectorOK
  <2>3. ASSUME NEW c \in gc.orphaned
        PROVE  /\ ~Referenced(c)' /\ box'[c].st # "unused"
               /\ box'[c].createdAt + MinResourceAge <= now'
    <3>1. box[c].createdAt \in Nat
      BY <2>1 DEF Box
    <3>2. QED
      BY <1>1, <2>1, <3>1 DEF CollectorOK, Referenced, HasRow
  <2>4. QED
    BY <2>2, <2>3 DEF CollectorOK
<1>7. QED
  BY <1>2, <1>3, <1>4, <1>5, <1>6 DEF IInv

\* A container that exits, restarts or turns unhealthy stays the same container.
LEMMA BoxAloneOK ==
  ASSUME IInv, NEW c \in Containers,
         BoxExits(c) \/ BoxRestarts(c) \/ HealthCheckFails(c),
         UNCHANGED <<worker, client, rec, gc>>
  PROVE  IInv'
<1>1. StateTypeOK
  BY DEF IInv, TypeOK
<1>2. faults' \in Nat
  BY <1>1, FaultType DEF BoxExits, BoxRestarts, HealthCheckFails, StateTypeOK
<1>3. BoxesKept
  <2>1. CASE BoxExits(c)
    BY <1>1, <2>1 DEF BoxExits, StateTypeOK, BoxesKept, Box, BoxStates
  <2>2. CASE BoxRestarts(c)
    BY <1>1, <2>2, StartBoxKeeps DEF BoxRestarts
  <2>3. CASE HealthCheckFails(c)
    <3> DEFINE new == [box[c] EXCEPT !.unhealthy = TRUE]
    <3>1. box[c] \in Box
      BY <1>1 DEF StateTypeOK
    <3>2. new \in Box
      BY <3>1, Zenon DEF Box
    <3>3. new.st = box[c].st /\ new.createdAt = box[c].createdAt
      BY <3>1 DEF Box
    <3>4. box' = [box EXCEPT ![c] = new]
      BY <2>3 DEF HealthCheckFails
    <3> HIDE DEF new
    <3>5. QED
      BY <1>1, <3>2, <3>3, <3>4 DEF StateTypeOK, BoxesKept
  <2>4. QED
    BY <2>1, <2>2, <2>3
<1>4. UNCHANGED <<now, tenant, row>>
  BY DEF BoxExits, BoxRestarts, HealthCheckFails
<1>5. rec' \in ReconcilerState /\ ReconcilerOK'
  BY DEF IInv, TypeOK, ReconcilerTypeOK, ReconcilerOK
<1>6. QED
  BY <1>2, <1>3, <1>4, <1>5, TickActs

\* The clock, exits, restarts and failing health checks keep the invariant.
LEMMA EnvironmentOK ==
  ASSUME IInv, Environment, UNCHANGED <<worker, client, rec, gc>>
  PROVE  IInv'
  BY TickOK, BoxAloneOK DEF Environment

\* A restart of the process forgets what only its memory held.
LEMMA ProcessRestartsOK ==
  ASSUME IInv, ProcessRestarts
  PROVE  IInv'
<1>1. /\ StateTypeOK /\ faults' \in Nat /\ UNCHANGED <<now, tenant, row, box>>
  BY FaultType DEF IInv, TypeOK, ProcessRestarts
<1>2. StateTypeOK'
  BY <1>1, StillKeeps, KeptType
<1>3. /\ IdleWorker \in Worker /\ IdleWorker.pc = "idle" /\ IdleWorker.mark # "written"
  BY DEF IdleWorker, Worker, WorkerPcs
<1>4. /\ IdleClient \in Client /\ IdleClient.pc = "idle" /\ IdleClient.st # "running"
  BY DEF IdleClient, Client, ClientPcs, Statuses
<1>5. ManagerTypeOK' /\ \A w \in Workers : worker'[w] = IdleWorker
  BY <1>3, <1>4 DEF ManagerTypeOK, ProcessRestarts
<1>6. \A w \in Workers : WorkerOK(w)'
  BY <1>3, <1>5 DEF WorkerOK
<1>7. \A k \in Clients : ClientOK(k)'
  BY <1>4 DEF ClientOK, ProcessRestarts
<1>8. ReconcilerTypeOK' /\ ReconcilerOK'
  BY IdleReconcilerOK DEF ProcessRestarts, ReconcilerTypeOK
<1>9. CollectorTypeOK' /\ CollectorOK'
  BY <1>2, IdleCollectorOK DEF ProcessRestarts, CollectorTypeOK, StateTypeOK
<1>10. RunningHasContainer'
  BY <1>1 DEF IInv, RunningHasContainer
<1>11. QED
  BY <1>2, <1>5, <1>6, <1>7, <1>8, <1>9, <1>10 DEF IInv, TypeOK

----------------------------------------------------------------------------
(* The theorems *)

\* The invariant holds initially.
LEMMA InitOK == Init => IInv
<1> SUFFICES ASSUME Init PROVE IInv
  OBVIOUS
<1>1. BlankRow \in Row /\ BlankRow.status = "absent"
  BY DEF BlankRow, Row
<1>2. BlankBox \in Box
  BY DEF BlankBox, Box
<1>3. row \in [Services -> Row] /\ box \in [Containers -> Box] /\ RunningHasContainer
  <2>1. CASE row = [s \in Services |-> BlankRow] /\ box = [c \in Containers |-> BlankBox]
    BY <1>1, <1>2, <2>1 DEF RunningHasContainer
  <2>2. ASSUME NEW s \in Services, NEW c \in Containers, NEW retry \in {None, 0},
               row = [[x \in Services |-> BlankRow] EXCEPT ![s] = LegacyRow(c, retry)],
               box = [[x \in Containers |-> BlankBox]
                        EXCEPT ![c] = [BlankBox EXCEPT !.svc = s, !.st = "removed"]]
        PROVE  row \in [Services -> Row] /\ box \in [Containers -> Box]
               /\ RunningHasContainer
    <3>1. LegacyRow(c, retry) \in Row /\ LegacyRow(c, retry).status = "crashed"
      BY <2>2 DEF LegacyRow, Row, Statuses
    <3>2. [BlankBox EXCEPT !.svc = s, !.st = "removed"] \in Box
      BY DEF BlankBox, Box
    <3>3. row \in [Services -> Row] /\ RunningHasContainer
      BY <1>1, <2>2, <3>1 DEF RunningHasContainer
    <3>4. box \in [Containers -> Box]
      BY <1>2, <2>2, <3>2
    <3>5. QED
      BY <3>3, <3>4
  <2>3. QED
    BY <2>1, <2>2 DEF Init, StateInit
<1>4. StateTypeOK
  BY <1>3, ConstantsAssumption DEF StateTypeOK, Init, StateInit
<1>5. IdleWorker \in Worker /\ IdleWorker.pc = "idle" /\ IdleWorker.mark # "written"
  BY DEF IdleWorker, Worker, WorkerPcs
<1>6. IdleClient \in Client /\ IdleClient.pc = "idle" /\ IdleClient.st # "running"
  BY DEF IdleClient, Client, ClientPcs, Statuses
<1>7. ManagerTypeOK
  BY <1>5, <1>6 DEF ManagerTypeOK, Init, ManagerInit
<1>8. \A w \in Workers : WorkerOK(w)
  BY <1>5 DEF WorkerOK, Init, ManagerInit
<1>9. \A k \in Clients : ClientOK(k)
  BY <1>6 DEF ClientOK, Init, ManagerInit
<1>10. ReconcilerTypeOK /\ ReconcilerOK
  BY DEF Init, ReconcilerInit, IdleReconciler, ReconcilerTypeOK, ReconcilerState,
         ReconcilerPcs, ReconcilerOK
<1>11. CollectorTypeOK /\ CollectorOK
  BY <1>4 DEF Init, CollectorInit, IdleCollector, CollectorTypeOK, CollectorState,
              CollectorOK, StateTypeOK
<1>12. QED
  BY <1>3, <1>4, <1>7, <1>8, <1>9, <1>10, <1>11 DEF IInv, TypeOK

\* Every step, and stuttering, keeps the invariant.
LEMMA NextOK == IInv /\ [Next]_vars => IInv'
<1> SUFFICES ASSUME IInv, [Next]_vars PROVE IInv'
  OBVIOUS
<1>1. CASE UNCHANGED vars
  <2>1. rec' \in ReconcilerState /\ ReconcilerOK' /\ faults' \in Nat
    BY <1>1 DEF vars, IInv, TypeOK, ReconcilerTypeOK, ReconcilerOK, StateTypeOK
  <2>2. QED
    BY <1>1, <2>1, TickReads DEF vars
<1>2. CASE Next
  BY <1>2, EnvironmentOK, ManagerNextOK, ReconcilerNextOK, CollectorNextOK,
     ProcessRestartsOK DEF Next
<1>3. QED
  BY <1>1, <1>2

\* The inductive invariant holds in every reachable state.
THEOREM InductiveInvariant == Spec => []IInv
  BY InitOK, NextOK, PTL DEF Spec

\* Every variable of the control plane keeps its type.
THEOREM TypeCorrect == Spec => []TypeOK
<1>1. IInv => TypeOK
  BY DEF IInv
<1>2. QED
  BY <1>1, InductiveInvariant, PTL

\* A service marked running names a container, in whatever order deploys,
\* starts, resets, deletes, the reconciler and restarts of the process come.
THEOREM RunningNamesContainer == Spec => []RunningHasContainer
<1>1. IInv => RunningHasContainer
  BY DEF IInv
<1>2. QED
  BY <1>1, InductiveInvariant, PTL

\* The batch collectOnce removes holds no container that a row names or that a
\* deploy may still record, as long as a deploy's context is not longer than
\* the collector's age gate.
THEOREM CollectorSafe == Spec => []CollectedIsGarbage
<1>1. IInv => CollectedIsGarbage
  <2> SUFFICES ASSUME IInv, NEW c \in gc.orphaned
               PROVE  ~Referenced(c) /\ \A w \in Workers : ~WillRecord(w, c)
    BY DEF CollectedIsGarbage
  <2>1. /\ c \in Containers /\ ~Referenced(c)
        /\ box[c].createdAt + MinResourceAge <= now
        /\ box[c].createdAt \in Nat /\ now \in Nat
    BY DEF IInv, TypeOK, CollectorTypeOK, CollectorState, CollectorOK, StateTypeOK, Box
  <2>2. ASSUME NEW w \in Workers, WillRecord(w, c)
        PROVE  FALSE
    <3>1. /\ worker[w].start <= box[c].createdAt /\ worker[w].start \in Nat
          /\ now < worker[w].start + DeployTimeout
      BY <2>2 DEF IInv, TypeOK, ManagerTypeOK, Worker, WorkerOK, WillRecord, Live
    <3>2. DeployTimeout <= MinResourceAge /\ DeployTimeout \in Nat
          /\ MinResourceAge \in Nat
      BY ConstantsAssumption, TimingAssumption
    <3>3. QED
      BY <2>1, <3>1, <3>2
  <2>3. QED
    BY <2>1, <2>2
<1>2. QED
  BY <1>1, InductiveInvariant, PTL

\* Step 2 of the reconciler never fails a deploy whose context is alive, as
\* long as that context is not longer than the staleness threshold.
THEOREM StaleDeploysAreDead == Spec => []StaleIsDead
<1>1. IInv => StaleIsDead
  <2> SUFFICES ASSUME IInv, NEW s \in Services, NEW w \in Workers, Stale(s),
                      worker[w].svc = s, worker[w].mark = "written", Live(w)
               PROVE  FALSE
    BY DEF StaleIsDead
  <2>1. /\ row[s].updatedAt \in Nat /\ now \in Nat
        /\ worker[w].start \in Nat
    BY DEF IInv, TypeOK, StateTypeOK, Row, ManagerTypeOK, Worker
  <2>2. worker[w].start <= row[s].updatedAt
    BY DEF IInv, WorkerOK, Stale, HasRow, Statuses
  <2>3. row[s].updatedAt + StaleAfter < now /\ now < worker[w].start + DeployTimeout
    BY DEF Stale, Live
  <2>4. DeployTimeout <= StaleAfter /\ DeployTimeout \in Nat /\ StaleAfter \in Nat
    BY ConstantsAssumption, TimingAssumption
  <2>5. QED
    BY <2>1, <2>2, <2>3, <2>4
<1>2. QED
  BY <1>1, InductiveInvariant, PTL

=============================================================================
