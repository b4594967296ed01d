-------------------------- MODULE Platform_splitbrain --------------------------
(***************************************************************************)
(* Racing deploys, deletes, resets, starts and stops never end in a        *)
(* split-brain while nothing fails, no deploy expires and the tenant is    *)
(* not suspended: NoSplitBrain, for any number of them.                    *)
(***************************************************************************)
EXTENDS Platform_refinement

----------------------------------------------------------------------------
(* The invariant. *)

\* A deploy that has created its container and not recorded it yet.
Building(w) == worker[w].pc \in {"start", "commit"}

\* The containers that were read from a row, and that somebody may still remove:
\* a deploy on its way to clean up, a request, the reconciler.
WorkOld(c) == \E w \in Workers : worker[w].pc \in {"mark", "clean"} /\ worker[w].box = c
ClientOld(c) ==
  \E k \in Clients : client[k].box = c \/ \E p \in client[k].rows : p[2] = c
RecOld(c) == rec.box = c \/ \E p \in rec.todo \cup rec.unwell : p[2] = c

Old(c) == Referenced(c) \/ WorkOld(c) \/ ClientOld(c) \/ RecOld(c)

\* A container that was created belongs to a service that was inserted.
Owned(c) ==
  box[c].st # "unused" =>
    box[c].svc \in Services /\ row[box[c].svc].status # "absent"

\* What was read from a row was created; nobody removes what is being built,
\* and nobody else builds it.
Apart ==
  /\ \A c \in Containers : Old(c) => box[c].st # "unused"
  /\ \A w \in Workers : Building(w) => ~Old(worker[w].box)
  /\ \A v, w \in Workers :
       Building(v) /\ Building(w) /\ worker[v].box = worker[w].box => v = w

\* A deploy undoes itself because its row is gone.
UndoGone(w) ==
  worker[w].pc = "undo" =>
    ~HasRow(worker[w].svc) /\ box[worker[w].box].svc = worker[w].svc

\* A suspension lists and purges after its transaction.
Suspended(k) ==
  /\ client[k].pc = "labels" => ~tenant[TenantOf[client[k].svc]]
  /\ \A c \in client[k].boxes :
       box[c].st # "unused" /\ ~tenant[TenantOf[box[c].svc]]

DeleteDue(s) == \E k \in Clients : client[k].pc = "delete" /\ client[k].svc = s

\* The service is gone, or about to be, or its tenant is.
Lost(s) == ~HasRow(s) \/ ~tenant[TenantOf[s]] \/ DeleteDue(s)

\* Otherwise what is being built for it exists, and what exists for it is recorded
\* or being built.
Whole(s) ==
  ~Lost(s) =>
    /\ \A w \in Workers : Building(w) /\ worker[w].svc = s => Exists(worker[w].box)
    /\ \A c \in Named(s) : row[s].container = c
                             \/ \E w \in Workers : Building(w) /\ worker[w].box = c

Sound ==
  /\ \A c \in Containers : Owned(c)
  /\ Apart
  /\ \A w \in Workers : UndoGone(w)
  /\ \A k \in Clients : Suspended(k)
  /\ \A s \in Services : Whole(s)

SInv == faults <= MaxFaults /\ (Undisturbed => Sound)

----------------------------------------------------------------------------
(* A step that nothing disturbs, and what it may do. *)

\* The step starts in a good state, and neither fails nor comes too late.
Smooth ==
  /\ IInv /\ RInv /\ Promise /\ Sound
  /\ now < DeployTimeout /\ faults' = faults

TenantsCalm == \A t \in Tenants : tenant'[t] => tenant[t]

\* No container is created or comes back, and labels stay.
BoxesCalm ==
  \A c \in Containers : /\ box'[c].st = "unused" <=> box[c].st = "unused"
                        /\ box'[c].svc = box[c].svc
                        /\ Exists(c)' => Exists(c)

\* What is removed was read from a row, or belongs to a service that is lost.
Spared ==
  \A c \in Containers, s \in Services :
    Exists(c) /\ ~Exists(c)' /\ box[c].svc = s => Old(c) \/ Lost(s)'

\* A deploy goes on building what it builds, unless the service is lost; what it
\* is to clean up it has read from a row.
WorkerCalm(w) ==
  /\ Building(w)' =>
       Building(w) /\ worker'[w].box = worker[w].box /\ worker'[w].svc = worker[w].svc
  /\ \A s \in Services :
       Building(w) /\ worker[w].svc = s => Building(w)' \/ Lost(s)'
  /\ worker'[w].pc = "undo" =>
       /\ worker'[w].svc = worker[w].svc /\ worker'[w].box = worker[w].box
       /\ worker[w].pc = "undo" \/ (worker[w].pc = "commit" /\ ~HasRow(worker[w].svc))
  /\ worker'[w].pc \in {"mark", "clean"} =>
       \/ worker'[w].box = None \/ Referenced(worker'[w].box)
       \/ worker[w].pc \in {"mark", "clean"} /\ worker'[w].box = worker[w].box

\* A request keeps what it has read; a deletion that is due is made.
ClientCalm(k) ==
  /\ \A s \in Services : client[k].pc = "delete" /\ client[k].svc = s =>
       (client'[k].pc = "delete" /\ client'[k].svc = s) \/ ~HasRow(s)'
  /\ client'[k].box \in {None, client[k].box} \/ Referenced(client'[k].box)
  /\ \A p \in client'[k].rows : p \in client[k].rows \/ p[2] = None \/ Referenced(p[2])
  /\ client'[k].pc = "labels" =>
       \/ client[k].pc = "labels" /\ client'[k].svc = client[k].svc
       \/ client'[k].svc \in Services /\ ~tenant'[TenantOf[client'[k].svc]]
  /\ \A c \in client'[k].boxes :
       c \in client[k].boxes \/ (Exists(c) /\ ~tenant[TenantOf[box[c].svc]])

\* So does a tick of the reconciler.
RecCalm ==
  /\ \/ rec'.box \in {None, rec.box}
     \/ \E p \in rec.todo \cup rec.unwell : rec'.box = p[2]
  /\ \A p \in rec'.todo \cup rec'.unwell : p \in rec.todo \cup rec.unwell \/ Referenced(p[2])

Calm ==
  /\ RowsKept /\ TenantsCalm /\ BoxesCalm /\ Spared
  /\ \A w \in Workers : WorkerCalm(w)
  /\ \A k \in Clients : ClientCalm(k)
  /\ RecCalm

\* A smooth step has no fault in it.
LEMMA NoFault ==
  ASSUME Smooth
  PROVE  ~Fault
  BY DEF Smooth, Fault, IInv, TypeOK, StateTypeOK

\* What is typed, for the steps below.
LEMMA SmoothTypes ==
  ASSUME Smooth
  PROVE  /\ StateTypeOK /\ worker \in [Workers -> Worker] /\ client \in [Clients -> Client]
         /\ rec \in ReconcilerState /\ gc \in CollectorState
         /\ None \notin Containers /\ None \notin Services
         /\ TenantOf \in [Services -> Tenants]
  BY ConstantsAssumption
     DEF Smooth, IInv, TypeOK, ManagerTypeOK, ReconcilerTypeOK, CollectorTypeOK

\* The statements but the commit of a deploy make no container referenced.
LEMMA ReferencedCalm ==
  ASSUME RowsKept, NEW c \in Containers, Referenced(c)', None \notin Containers
  PROVE  Referenced(c)
<1>1. PICK s \in Services : HasRow(s)' /\ row'[s].container = c
  BY DEF Referenced
<1>2. HasRow(s)
  BY <1>1 DEF RowsKept
<1>3. row[s].container = c
  BY <1>1, <1>2 DEF RowsKept
<1>4. QED
  BY <1>2, <1>3 DEF Referenced

\* A calm step reads containers from rows only.
LEMMA OldCalm ==
  ASSUME Smooth, Calm, NEW c \in Containers, Old(c)'
  PROVE  Old(c)
<1>1. None # c
  BY SmoothTypes
<1>2. CASE Referenced(c)'
  BY <1>2, ReferencedCalm, SmoothTypes DEF Old, Calm
<1>3. CASE WorkOld(c)'
  <2>1. PICK w \in Workers : worker'[w].pc \in {"mark", "clean"} /\ worker'[w].box = c
    BY <1>3 DEF WorkOld
  <2>2. WorkerCalm(w)
    BY DEF Calm
  <2>3. Referenced(c) \/ (worker[w].pc \in {"mark", "clean"} /\ worker[w].box = c)
    BY <1>1, <2>1, <2>2 DEF WorkerCalm
  <2>4. QED
    BY <2>3 DEF Old, WorkOld
<1>4. CASE ClientOld(c)'
  <2>1. PICK k \in Clients : client'[k].box = c \/ \E p \in client'[k].rows : p[2] = c
    BY <1>4 DEF ClientOld
  <2>2. ClientCalm(k)
    BY DEF Calm
  <2>3. CASE client'[k].box = c
    BY <1>1, <2>2, <2>3 DEF ClientCalm, Old, ClientOld
  <2>4. CASE \E p \in client'[k].rows : p[2] = c
    BY <1>1, <2>2, <2>4 DEF ClientCalm, Old, ClientOld
  <2>5. QED
    BY <2>1, <2>3, <2>4
<1>5. CASE RecOld(c)'
  <2>1. RecCalm
    BY DEF Calm
  <2>2. CASE rec'.box = c
    BY <1>1, <2>1, <2>2 DEF RecCalm, Old, RecOld
  <2>3. CASE \E p \in rec'.todo \cup rec'.unwell : p[2] = c
    BY <2>1, <2>3 DEF RecCalm, Old, RecOld
  <2>4. QED
    BY <1>5, <2>2, <2>3 DEF RecOld
<1>6. QED
  BY <1>2, <1>3, <1>4, <1>5 DEF Old

\* After a calm step every container still belongs to an inserted service.
LEMMA OwnedCalm ==
  ASSUME Smooth, Calm, NEW c \in Containers
  PROVE  Owned(c)'
<1>1. Owned(c) /\ BoxesCalm /\ RowsKept
  BY DEF Smooth, Sound, Calm
<1>2. QED
  BY <1>1 DEF Owned, BoxesCalm, RowsKept

\* What is being built and what was read stay apart.
LEMMA ApartCalm ==
  ASSUME Smooth, Calm
  PROVE  Apart'
<1>1. Apart /\ BoxesCalm /\ \A w \in Workers : WorkerCalm(w)
  BY DEF Smooth, Sound, Calm
<1>2. ASSUME NEW c \in Containers, Old(c)' PROVE box'[c].st # "unused"
  BY <1>1, <1>2, OldCalm DEF Apart, BoxesCalm
<1>3. ASSUME NEW w \in Workers, Building(w)' PROVE ~Old(worker[w].box)'
  <2>1. Building(w) /\ worker'[w].box = worker[w].box
    BY <1>1, <1>3 DEF WorkerCalm
  <2>2. worker[w].box \in Containers
    BY <2>1 DEF Smooth, IInv, WorkerOK, Building
  <2>3. PICK c \in Containers : c = worker[w].box /\ c = worker'[w].box
    BY <2>1, <2>2
  <2>4. ~Old(c)'
    BY <1>1, <2>1, <2>3, OldCalm DEF Apart
  <2>5. QED
    BY <2>3, <2>4
<1>4. ASSUME NEW v \in Workers, NEW w \in Workers, Building(v)', Building(w)',
             worker'[v].box = worker'[w].box
      PROVE  v = w
  BY <1>1, <1>4 DEF Apart, WorkerCalm
<1>5. QED
  BY <1>2, <1>3, <1>4 DEF Apart

\* A deploy still undoes itself only where its row is gone.
LEMMA UndoCalm ==
  ASSUME Smooth, Calm, NEW w \in Workers
  PROVE  UndoGone(w)'
<1>1. /\ UndoGone(w) /\ WorkerCalm(w) /\ RowsKept /\ BoxesCalm
      /\ Aimed(w) /\ WorkerOK(w)
  BY DEF Smooth, Sound, Calm, RInv, IInv
<1>2. SUFFICES ASSUME worker'[w].pc = "undo"
               PROVE  ~HasRow(worker[w].svc)' /\ box'[worker'[w].box].svc = worker'[w].svc
  BY DEF UndoGone
<1>3. /\ worker[w].pc \in {"commit", "undo"} /\ ~HasRow(worker[w].svc)
      /\ worker'[w].svc = worker[w].svc /\ worker'[w].box = worker[w].box
      /\ box[worker[w].box].svc = worker[w].svc
  BY <1>1, <1>2 DEF UndoGone, WorkerCalm, Aimed
<1>4. PICK s \in Services, c \in Containers : s = worker[w].svc /\ c = worker[w].box
  BY <1>1, <1>3 DEF WorkerOK
<1>5. ~HasRow(s)' /\ box'[c].svc = s
  BY <1>1, <1>3, <1>4 DEF RowsKept, Aimed, BoxesCalm
<1>6. QED
  BY <1>3, <1>4, <1>5

\* A suspension still works on a suspended tenant.
LEMMA SuspendedCalm ==
  ASSUME Smooth, Calm, NEW k \in Clients
  PROVE  Suspended(k)'
<1>1. /\ Suspended(k) /\ ClientCalm(k) /\ TenantsCalm /\ BoxesCalm
      /\ \A c \in Containers : Owned(c)
      /\ ClientOK(k)
  BY DEF Smooth, Sound, Calm, IInv
<1>2. ASSUME client'[k].pc = "labels" PROVE ~tenant'[TenantOf[client'[k].svc]]
  <2>1. CASE client[k].pc = "labels" /\ client'[k].svc = client[k].svc
    <3>1. client[k].svc \in Services /\ ~tenant[TenantOf[client[k].svc]]
      BY <1>1, <2>1 DEF Suspended, ClientOK
    <3>2. TenantOf[client[k].svc] \in Tenants
      BY <3>1, SmoothTypes
    <3>3. QED
      BY <1>1, <2>1, <3>1, <3>2 DEF TenantsCalm
  <2>2. QED
    BY <1>1, <1>2, <2>1 DEF ClientCalm
<1>3. ASSUME NEW c \in client'[k].boxes
      PROVE  box'[c].st # "unused" /\ ~tenant'[TenantOf[box'[c].svc]]
  <2>1. c \in Containers /\ box[c].st # "unused" /\ ~tenant[TenantOf[box[c].svc]]
    <3>1. client[k].boxes \subseteq Containers
      BY SmoothTypes DEF Client
    <3>2. QED
      BY <1>1, <3>1 DEF ClientCalm, Suspended, Exists, BoxStates
  <2>2. box[c].svc \in Services
    BY <1>1, <2>1 DEF Owned
  <2>3. TenantOf[box[c].svc] \in Tenants
    BY <2>2, SmoothTypes
  <2>4. QED
    BY <1>1, <2>1, <2>3 DEF TenantsCalm, BoxesCalm
<1>4. QED
  BY <1>2, <1>3 DEF Suspended

\* A service that is not lost after a calm step was not before, or is new.
LEMMA LostCalm ==
  ASSUME Smooth, Calm, NEW s \in Services, ~Lost(s)'
  PROVE  \/ ~Lost(s) /\ row'[s].container = row[s].container
         \/ row[s].status = "absent"
<1>1. HasRow(s)' /\ tenant'[TenantOf[s]] /\ ~DeleteDue(s)'
  BY DEF Lost
<1>2. tenant[TenantOf[s]]
  BY <1>1, SmoothTypes DEF Calm, TenantsCalm
<1>3. ~DeleteDue(s)
  <2> SUFFICES ASSUME NEW k \in Clients, client[k].pc = "delete", client[k].svc = s
               PROVE  FALSE
    BY DEF DeleteDue
  <2>1. (client'[k].pc = "delete" /\ client'[k].svc = s) \/ ~HasRow(s)'
    BY DEF Calm, ClientCalm
  <2>2. QED
    BY <1>1, <2>1 DEF DeleteDue
<1>4. QED
  BY <1>1, <1>2, <1>3 DEF Calm, RowsKept, Lost

\* What is being built exists, what exists is recorded or being built.
LEMMA WholeCalm ==
  ASSUME Smooth, Calm, NEW s \in Services
  PROVE  Whole(s)'
<1> SUFFICES ASSUME ~Lost(s)'
             PROVE  /\ \A w \in Workers : Building(w)' /\ worker'[w].svc = s =>
                         Exists(worker[w].box)'
                    /\ \A c \in Named(s)' : row'[s].container = c
                         \/ \E w \in Workers : Building(w)' /\ worker'[w].box = c
  BY DEF Whole
<1>1. /\ \A w \in Workers : Aimed(w) /\ WorkerOK(w) /\ WorkerCalm(w)
      /\ \A c \in Containers : Owned(c)
      /\ Whole(s) /\ Apart /\ BoxesCalm /\ Spared
  BY DEF Smooth, Sound, Calm, RInv, IInv
<1>2. CASE row[s].status = "absent"
  <2>1. \A w \in Workers : ~(Building(w)' /\ worker'[w].svc = s)
    BY <1>1, <1>2 DEF WorkerCalm, Building, Aimed
  <2>2. ASSUME NEW c \in Named(s)' PROVE FALSE
    <3>1. c \in Containers /\ box'[c].svc = s /\ Exists(c)'
      BY <2>2 DEF Named, Existing, Exists
    <3>2. box[c].svc = s /\ box[c].st # "unused"
      BY <1>1, <3>1 DEF BoxesCalm, Exists, BoxStates
    <3>3. QED
      BY <1>1, <1>2, <3>1, <3>2 DEF Owned
  <2>3. QED
    BY <2>1, <2>2
<1>3. CASE ~Lost(s) /\ row'[s].container = row[s].container
  <2>1. ASSUME NEW w \in Workers, Building(w)', worker'[w].svc = s
        PROVE  Exists(worker[w].box)'
    <3>1. Building(w) /\ worker'[w].box = worker[w].box /\ worker[w].svc = s
      BY <1>1, <2>1 DEF WorkerCalm
    <3>2. PICK c \in Containers : c = worker[w].box /\ c = worker'[w].box
      BY <1>1, <3>1 DEF WorkerOK, Building
    <3>3. Exists(c) /\ ~Old(c) /\ box[c].svc = s
      BY <1>1, <1>3, <3>1, <3>2 DEF Whole, Apart, Aimed, Building
    <3>4. Exists(c)'
      BY <1>1, <3>3 DEF Spared
    <3>5. QED
      BY <3>2, <3>4
  <2>2. ASSUME NEW c \in Named(s)'
        PROVE  row'[s].container = c \/ \E w \in Workers : Building(w)' /\ worker'[w].box = c
    <3>1. c \in Containers /\ box'[c].svc = s /\ Exists(c)'
      BY <2>2 DEF Named, Existing, Exists
    <3>2. box[c].svc = s /\ Exists(c)
      BY <1>1, <3>1 DEF BoxesCalm
    <3>3. c \in Named(s)
      BY <3>2 DEF Named, Existing, Exists
    <3>4. CASE row[s].container = c
      BY <1>3, <3>4
    <3>5. ASSUME NEW w \in Workers, Building(w), worker[w].box = c
          PROVE  Building(w)' /\ worker'[w].box = c
      <4>1. worker[w].svc = s
        BY <1>1, <3>2, <3>5 DEF Aimed, Building
      <4>2. Building(w)'
        BY <1>1, <3>5, <4>1 DEF WorkerCalm
      <4>3. QED
        BY <1>1, <3>5, <4>2 DEF WorkerCalm
    <3>6. QED
      BY <1>1, <1>3, <3>3, <3>4, <3>5 DEF Whole
  <2>3. QED
    BY <2>1, <2>2
<1>4. QED
  BY <1>2, <1>3, LostCalm

\* A calm step keeps the invariant.
LEMMA CalmCloses ==
  ASSUME Smooth, Calm
  PROVE  Sound'
  BY OwnedCalm, ApartCalm, UndoCalm, SuspendedCalm, WholeCalm DEF Sound

----------------------------------------------------------------------------
(* Frames: what a step leaves alone is calm. *)

\* An untouched engine loses nothing.
LEMMA BoxesStill ==
  ASSUME UNCHANGED box
  PROVE  BoxesCalm /\ Spared
  BY DEF BoxesCalm, Spared, Exists

\* Deploys that stay where they are.
LEMMA WorkersStill ==
  ASSUME UNCHANGED worker
  PROVE  \A w \in Workers : WorkerCalm(w)
  BY DEF WorkerCalm, Building

\* Requests that stay where they are.
LEMMA ClientsStill ==
  ASSUME UNCHANGED client
  PROVE  \A k \in Clients : ClientCalm(k)
  BY DEF ClientCalm

\* A tick that stays where it is.
LEMMA RecStill ==
  ASSUME UNCHANGED rec
  PROVE  RecCalm
  BY DEF RecCalm

\* A step that only moves processes.
LEMMA ReadsCalm ==
  ASSUME Smooth, UNCHANGED <<tenant, row, box>>, \A w \in Workers : WorkerCalm(w),
         \A k \in Clients : ClientCalm(k), RecCalm
  PROVE  Calm
  BY BoxesStill, SameRowsKeep, SmoothTypes DEF Calm, TenantsCalm

\* A step with a Docker call.
LEMMA DockerCalm ==
  ASSUME Smooth, UNCHANGED <<tenant, row>>, BoxesCalm, Spared,
         \A w \in Workers : WorkerCalm(w), \A k \in Clients : ClientCalm(k), RecCalm
  PROVE  Calm
  BY SameRowsKeep, SmoothTypes DEF Calm, TenantsCalm

\* A step with a statement on the services table.
LEMMA TableCalm ==
  ASSUME Smooth, UNCHANGED <<tenant, box>>, RowsKept,
         \A w \in Workers : WorkerCalm(w), \A k \in Clients : ClientCalm(k), RecCalm
  PROVE  Calm
  BY BoxesStill DEF Calm, TenantsCalm

\* A lost service is lost as long as nobody writes tables or handles requests.
LEMMA StaysLost ==
  ASSUME UNCHANGED <<tenant, row, client>>, NEW s \in Services, Lost(s)
  PROVE  Lost(s)'
  BY DEF Lost, HasRow, DeleteDue

----------------------------------------------------------------------------
(* The Docker calls. *)

OnlyLoses(c) == \A d \in Containers : Exists(d) /\ d # c => Exists(d)'

\* Stopping loses no container.
LEMMA StopBoxCalm ==
  ASSUME Smooth, NEW c \in Containers, StopBox(c)
  PROVE  BoxesCalm /\ Spared
<1>1. box \in [Containers -> Box]
  BY SmoothTypes DEF StateTypeOK
<1>2. QED
  BY <1>1 DEF StopBox, BoxesCalm, Spared, Exists, Box, BoxStates

\* Nor does starting one that exists.
LEMMA StartBoxCalm ==
  ASSUME Smooth, NEW c \in Containers, Exists(c), StartBox(c)
  PROVE  BoxesCalm /\ Spared
<1> DEFINE new == [box[c] EXCEPT !.st = "running", !.manual = FALSE, !.unhealthy = FALSE]
<1>1. box \in [Containers -> Box] /\ box[c] \in Box
  BY SmoothTypes DEF StateTypeOK
<1>2. new.st = "running" /\ new.svc = box[c].svc
  BY <1>1 DEF Box
<1>3. box' = [box EXCEPT ![c] = new]
  BY DEF StartBox
<1> HIDE DEF new
<1>4. QED
  BY <1>1, <1>2, <1>3 DEF BoxesCalm, Spared, Exists, BoxStates

\* Removal loses what it removes.
LEMMA RemoveBoxCalm ==
  ASSUME Smooth, NEW c \in Containers, Exists(c), RemoveBox(c)
  PROVE  BoxesCalm /\ OnlyLoses(c)
<1>1. box \in [Containers -> Box]
  BY SmoothTypes DEF StateTypeOK
<1>2. QED
  BY <1>1 DEF RemoveBox, BoxesCalm, OnlyLoses, Exists, Box, BoxStates

\* So do the two forms of clean-up, which do not fail here.
LEMMA CleanUpCalm ==
  ASSUME Smooth, NEW c, StopAndRemove(c) \/ TryRemove(c)
  PROVE  BoxesCalm /\ OnlyLoses(c)
<1>1. CASE UNCHANGED box
  BY <1>1, BoxesStill DEF OnlyLoses, Exists
<1>2. CASE Exists(c) /\ RemoveBox(c)
  BY <1>2, RemoveBoxCalm DEF Exists
<1>3. QED
  BY <1>1, <1>2, NoFault DEF StopAndRemove, TryRemove

\* Removing what was read from a row is allowed.
LEMMA OldSpared ==
  ASSUME NEW c, OnlyLoses(c), c \in Containers => Old(c)
  PROVE  Spared
  BY DEF OnlyLoses, Spared

----------------------------------------------------------------------------
(* Deploys *)

\* A deploy that moves alone.
LEMMA OneWorkerCalm ==
  ASSUME NEW w \in Workers, \A v \in Workers : v # w => worker'[v] = worker[v],
         WorkerCalm(w)
  PROVE  \A v \in Workers : WorkerCalm(v)
<1> SUFFICES ASSUME NEW v \in Workers, v # w PROVE WorkerCalm(v)
  OBVIOUS
<1>1. worker'[v] = worker[v]
  OBVIOUS
<1>2. QED
  BY <1>1 DEF WorkerCalm, Building

\* A deploy that builds nothing moves on and holds nothing new.
LEMMA GotoCalm ==
  ASSUME Smooth, NEW w \in Workers, NEW l, Goto(w, l), ~Building(w),
         l \notin {"start", "commit", "undo", "mark", "clean"}
  PROVE  \A v \in Workers : WorkerCalm(v)
<1>1. worker[w] \in Worker /\ worker'[w].pc = l
  BY SmoothTypes DEF Goto, Worker
<1>2. WorkerCalm(w)
  BY <1>1 DEF WorkerCalm, Building
<1>3. \A v \in Workers : v # w => worker'[v] = worker[v]
  BY SmoothTypes DEF Goto
<1>4. QED
  BY <1>2, <1>3, OneWorkerCalm

\* So does one that ends.
LEMMA FinishCalm ==
  ASSUME Smooth, NEW w \in Workers, Finish(w), ~Building(w)
  PROVE  \A v \in Workers : WorkerCalm(v)
<1>1. worker'[w] = IdleWorker
  BY SmoothTypes DEF Finish
<1>2. worker'[w].pc = "idle"
  BY <1>1 DEF IdleWorker
<1>3. WorkerCalm(w)
  BY <1>2 DEF WorkerCalm, Building
<1>4. \A v \in Workers : v # w => worker'[v] = worker[v]
  BY SmoothTypes DEF Finish
<1>5. QED
  BY <1>3, <1>4, OneWorkerCalm

\* And one that reports or returns an early error.
LEMMA GiveUpCalm ==
  ASSUME Smooth, NEW w \in Workers, NEW l \in {"rejected", "failing"}, GiveUp(w, l),
         ~Building(w)
  PROVE  \A v \in Workers : WorkerCalm(v)
  BY GotoCalm, FinishCalm DEF GiveUp

\* A deploy starts.
LEMMA SpawnCalm ==
  ASSUME Smooth, NEW w \in Workers, NEW kind, NEW s, Spawn(w, kind, s),
         worker[w].pc = "idle"
  PROVE  \A v \in Workers : WorkerCalm(v)
<1>1. worker'[w].pc = "check"
  BY SmoothTypes DEF Spawn
<1>2. WorkerCalm(w)
  BY <1>1 DEF WorkerCalm, Building
<1>3. \A v \in Workers : v # w => worker'[v] = worker[v]
  BY SmoothTypes DEF Spawn
<1>4. QED
  BY <1>2, <1>3, OneWorkerCalm

\* A deploy keeps the container of its row.
LEMMA AimCalm ==
  ASSUME Smooth, NEW w \in Workers, NEW l \in {"failing", "mark", "clean"}, NEW c,
         worker' = [worker EXCEPT ![w].pc = l, ![w].box = c], ~Building(w),
         c = None \/ Referenced(c)
  PROVE  \A v \in Workers : WorkerCalm(v)
<1>1. worker[w] \in Worker
  BY SmoothTypes
<1>2. worker'[w].pc = l /\ worker'[w].box = c
  BY <1>1, SmoothTypes DEF Worker
<1>3. WorkerCalm(w)
  BY <1>2 DEF WorkerCalm, Building
<1>4. \A v \in Workers : v # w => worker'[v] = worker[v]
  BY SmoothTypes
<1>5. QED
  BY <1>3, <1>4, OneWorkerCalm

\* What a row names is referenced by it.
LEMMA RowNames ==
  ASSUME NEW s \in Services, HasRow(s)
  PROVE  row[s].container = None \/ Referenced(row[s].container)
  BY DEF Referenced

\* A deploy that moves past the tenant check, the queue, the semaphore, the pull or
\* the network, or ends before, is calm.
LEMMA WaitingCalm ==
  ASSUME Smooth, NEW w \in Workers, UNCHANGED <<client, rec>>,
         \/ CheckTenantActive(w) \/ EnterQueue(w) \/ AcquireSlot(w) \/ PullImage(w)
         \/ SetupNetwork(w)
  PROVE  Calm
<1>1. ~Building(w)
  BY DEF CheckTenantActive, EnterQueue, AcquireSlot, PullImage, SetupNetwork, At, Building
<1>2. UNCHANGED <<tenant, row, box>>
  BY DEF CheckTenantActive, EnterQueue, AcquireSlot, PullImage, SetupNetwork, stateVars
<1>3. \/ GiveUp(w, "rejected")
      \/ \E l \in {"queue", "sem", "read", "reread", "image"} : Goto(w, l)
  BY NoFault
     DEF CheckTenantActive, EnterQueue, AcquireSlot, PullImage, SetupNetwork
<1>4. \A v \in Workers : WorkerCalm(v)
  BY <1>1, <1>3, GiveUpCalm, GotoCalm
<1>5. QED
  BY <1>2, <1>4, ClientsStill, RecStill, ReadsCalm

\* getOwned of a deploy.
LEMMA LoadServiceCalm ==
  ASSUME Smooth, NEW w \in Workers, LoadService(w), UNCHANGED <<client, rec>>
  PROVE  Calm
<1> DEFINE s == worker[w].svc
           deploy == worker[w].kind = "Deploy"
           l == IF deploy /\ row[s].circuitOpen THEN "failing" ELSE "mark"
           c == IF deploy THEN None ELSE row[s].container
<1>1. ~Building(w) /\ UNCHANGED <<tenant, row, box>> /\ s \in Services
  BY DEF LoadService, At, Building, Smooth, IInv, WorkerOK
<1>2. CASE Finish(w)
  BY <1>1, <1>2, FinishCalm, ClientsStill, RecStill, ReadsCalm
<1>3. CASE HasRow(s) /\ worker' = [worker EXCEPT ![w].pc = l, ![w].box = c]
  <2>1. l \in {"failing", "mark", "clean"} /\ (c = None \/ Referenced(c))
    BY <1>1, <1>3, RowNames
  <2> HIDE DEF l, c
  <2>2. \A v \in Workers : WorkerCalm(v)
    BY <1>1, <1>3, <2>1, AimCalm
  <2>3. QED
    BY <1>1, <2>2, ClientsStill, RecStill, ReadsCalm
<1>4. QED
  BY <1>2, <1>3, NoFault DEF LoadService

\* The second getOwned.
LEMMA ReloadServiceCalm ==
  ASSUME Smooth, NEW w \in Workers, ReloadService(w), UNCHANGED <<client, rec>>
  PROVE  Calm
<1>1. ~Building(w) /\ UNCHANGED <<tenant, row, box>> /\ worker[w].svc \in Services
  BY DEF ReloadService, At, Building, Smooth, IInv, WorkerOK
<1>2. CASE Finish(w)
  BY <1>1, <1>2, FinishCalm, ClientsStill, RecStill, ReadsCalm
<1>3. CASE HasRow(worker[w].svc) /\
           worker' = [worker EXCEPT ![w].pc = "clean",
                                    ![w].box = row[worker[w].svc].container]
  <2>1. \A v \in Workers : WorkerCalm(v)
    BY <1>1, <1>3, RowNames, AimCalm
  <2>2. QED
    BY <1>1, <2>1, ClientsStill, RecStill, ReadsCalm
<1>4. QED
  BY <1>2, <1>3, NoFault DEF ReloadService

\* The UPDATE to 'deploying' does not change what the deploy will clean up.
LEMMA MarkDeployingCalm ==
  ASSUME Smooth, NEW w \in Workers, MarkDeploying(w), UNCHANGED <<client, rec>>
  PROVE  Calm
<1> DEFINE l == IF worker[w].kind = "Deploy" THEN "pull" ELSE "clean"
<1>1. /\ worker[w].pc = "mark" /\ UNCHANGED <<tenant, box>> /\ worker[w] \in Worker
      /\ worker[w].svc \in Services
      /\ SetStatus(worker[w].svc, "deploying")
      /\ worker' = [worker EXCEPT ![w].pc = l, ![w].mark = "written"]
  BY NoFault, SmoothTypes DEF MarkDeploying, At, Smooth, IInv, WorkerOK
<1>2. worker'[w].pc \in {"pull", "clean"} /\ worker'[w].box = worker[w].box
  BY <1>1, SmoothTypes DEF Worker
<1>3. WorkerCalm(w)
  BY <1>1, <1>2 DEF WorkerCalm, Building
<1>4. \A v \in Workers : WorkerCalm(v)
  BY <1>1, <1>3, SmoothTypes, OneWorkerCalm
<1>5. RowsKept
  BY <1>1, SmoothTypes, SetStatusKeeps DEF Statuses
<1>6. QED
  BY <1>1, <1>4, <1>5, ClientsStill, RecStill, TableCalm

\* The deploy removes what the row named.
LEMMA CleanOldCalm ==
  ASSUME Smooth, NEW w \in Workers, CleanOld(w), UNCHANGED <<client, rec>>
  PROVE  Calm
<1>1. /\ worker[w].pc = "clean" /\ UNCHANGED <<tenant, row>>
      /\ StopAndRemove(worker[w].box) /\ worker[w] \in Worker
  BY SmoothTypes DEF CleanOld, At
<1>2. Old(worker[w].box)
  BY <1>1 DEF Old, WorkOld
<1>3. BoxesCalm /\ Spared
  BY <1>1, <1>2, CleanUpCalm, OldSpared
<1>4. worker'[w].pc \in {"create", "net"}
  BY <1>1, SmoothTypes DEF CleanOld, Worker
<1>5. WorkerCalm(w)
  BY <1>1, <1>4 DEF WorkerCalm, Building
<1>6. \A v \in Workers : v # w => worker'[v] = worker[v]
  BY SmoothTypes DEF CleanOld
<1>7. QED
  BY <1>1, <1>3, <1>5, <1>6, OneWorkerCalm, ClientsStill, RecStill, DockerCalm

\* UPDATE of the image.
LEMMA UpdateImageCalm ==
  ASSUME Smooth, NEW w \in Workers, UpdateImage(w), UNCHANGED <<client, rec>>
  PROVE  Calm
<1>1. /\ ~Building(w) /\ UNCHANGED <<tenant, box>> /\ worker[w].svc \in Services
      /\ TouchRow(worker[w].svc) /\ Goto(w, "create")
  BY NoFault DEF UpdateImage, At, Building, Smooth, IInv, WorkerOK
<1>2. RowsKept
  BY <1>1, SmoothTypes, TouchRowKeeps
<1>3. QED
  BY <1>1, <1>2, GotoCalm, ClientsStill, RecStill, TableCalm

\* A failed deploy is written down.
LEMMA RecordFailureCalm ==
  ASSUME Smooth, NEW w \in Workers, RecordFailure(w), UNCHANGED <<client, rec>>
  PROVE  Calm
<1>1. /\ ~Building(w) /\ UNCHANGED <<tenant, box>> /\ worker[w].svc \in Services
      /\ SetStatus(worker[w].svc, "failed") /\ Finish(w)
  BY NoFault DEF RecordFailure, At, Building, Smooth, IInv, WorkerOK
<1>2. RowsKept
  BY <1>1, SmoothTypes, SetStatusKeeps DEF Statuses
<1>3. QED
  BY <1>1, <1>2, FinishCalm, ClientsStill, RecStill, TableCalm

\* Starting the container: either it is there, or its service is lost.
LEMMA StartContainerCalm ==
  ASSUME Smooth, NEW w \in Workers, StartContainer(w), UNCHANGED <<client, rec>>
  PROVE  Calm
<1>1. /\ worker[w].pc = "start" /\ UNCHANGED <<tenant, row>> /\ worker[w] \in Worker
      /\ worker[w].svc \in Services /\ worker[w].box \in Containers
      /\ \A v \in Workers : v # w => worker'[v] = worker[v]
  BY SmoothTypes DEF StartContainer, At, Goto, Smooth, IInv, WorkerOK
<1>2. CASE Exists(worker[w].box) /\ StartBox(worker[w].box) /\ Goto(w, "commit")
  <2>1. /\ worker'[w].pc = "commit" /\ worker'[w].box = worker[w].box
        /\ worker'[w].svc = worker[w].svc
    BY <1>1, <1>2, SmoothTypes DEF Goto, Worker
  <2>2. WorkerCalm(w)
    BY <1>1, <2>1 DEF WorkerCalm, Building
  <2>3. BoxesCalm /\ Spared
    BY <1>1, <1>2, StartBoxCalm
  <2>4. QED
    BY <1>1, <2>2, <2>3, OneWorkerCalm, ClientsStill, RecStill, DockerCalm
<1>3. CASE ~Exists(worker[w].box) /\ Goto(w, "failing") /\ UNCHANGED box
  <2>1. worker'[w].pc = "failing"
    BY <1>1, <1>3, SmoothTypes DEF Goto, Worker
  <2>2. PICK s \in Services : s = worker[w].svc
    BY <1>1
  <2>3. Lost(s)
    BY <1>1, <1>3, <2>2 DEF Smooth, Sound, Whole, Building
  <2>4. Lost(s)'
    BY <1>1, <2>3, StaysLost
  <2>5. WorkerCalm(w)
    BY <2>1, <2>2, <2>4 DEF WorkerCalm, Building
  <2>6. QED
    BY <1>1, <1>3, <2>5, OneWorkerCalm, ClientsStill, RecStill, ReadsCalm
<1>4. QED
  BY <1>2, <1>3, NoFault DEF StartContainer

\* A deploy that finds its row gone removes its container.
LEMMA UndoDeployCalm ==
  ASSUME Smooth, NEW w \in Workers, UndoDeploy(w), UNCHANGED <<client, rec>>
  PROVE  Calm
<1>1. /\ worker[w].pc = "undo" /\ UNCHANGED <<tenant, row>>
      /\ worker[w].svc \in Services /\ worker[w].box \in Containers
      /\ ~Building(w) /\ Finish(w) /\ StopAndRemove(worker[w].box)
      /\ ~HasRow(worker[w].svc) /\ box[worker[w].box].svc = worker[w].svc
  BY DEF UndoDeploy, At, Smooth, IInv, WorkerOK, Building, Sound, UndoGone
<1>2. PICK s \in Services, c \in Containers : s = worker[w].svc /\ c = worker[w].box
  BY <1>1
<1>3. BoxesCalm /\ OnlyLoses(c)
  BY <1>1, <1>2, CleanUpCalm
<1>4. Lost(s)'
  BY <1>1, <1>2, StaysLost DEF Lost
<1>5. Spared
  BY <1>1, <1>2, <1>3, <1>4 DEF Spared, OnlyLoses
<1>6. QED
  BY <1>1, <1>3, <1>5, FinishCalm, ClientsStill, RecStill, DockerCalm

\* The deploy creates a container that nobody has read, and nobody else builds.
LEMMA CreatedSound ==
  ASSUME Smooth, NEW w \in Workers, NEW c \in Containers, UNCHANGED <<tenant, row, client, rec>>,
         worker[w].pc = "create", CreateBox(c, worker[w].svc),
         worker' = [worker EXCEPT ![w].pc = "start", ![w].box = c]
  PROVE  Sound'
<1>1. PICK s \in Services : s = worker[w].svc
  BY DEF Smooth, IInv, WorkerOK
<1>2. /\ row[s].status # "absent" /\ worker[w] \in Worker /\ box \in [Containers -> Box]
      /\ worker \in [Workers -> Worker]
  BY <1>1, SmoothTypes DEF Smooth, RInv, Aimed, StateTypeOK
<1>3. /\ worker'[w].pc = "start" /\ worker'[w].box = c /\ worker'[w].svc = s
      /\ \A v \in Workers : v # w => worker'[v] = worker[v]
  BY <1>1, <1>2 DEF Worker
<1>4. /\ box[c].st = "unused" /\ box'[c].svc = s /\ box'[c].st = "created"
      /\ \A d \in Containers : d # c => box'[d] = box[d]
  BY <1>1, <1>2 DEF CreateBox, BlankBox
<1>5. /\ \A d \in Containers : Owned(d)
      /\ Apart /\ \A k \in Clients : Suspended(k)
      /\ \A v \in Workers : UndoGone(v) /\ WorkerOK(v)
      /\ \A x \in Services : Whole(x)
  BY DEF Smooth, Sound, IInv
<1>6. ASSUME NEW d \in Containers PROVE Owned(d)'
  BY <1>2, <1>4, <1>5 DEF Owned
<1>7. \A d \in Containers : Old(d)' => Old(d)
  <2> SUFFICES ASSUME NEW d \in Containers, Old(d)' PROVE Old(d)
    OBVIOUS
  <2>1. WorkOld(d)' => WorkOld(d)
    BY <1>3 DEF WorkOld
  <2>2. /\ Referenced(d)' => Referenced(d)
        /\ ClientOld(d)' => ClientOld(d)
        /\ RecOld(d)' => RecOld(d)
    BY DEF Referenced, HasRow, ClientOld, RecOld
  <2>3. QED
    BY <2>1, <2>2 DEF Old
<1>8. \A v \in Workers : v # w => (Building(v)' <=> Building(v))
  BY <1>3 DEF Building
<1>9. ASSUME NEW v \in Workers, v # w, Building(v)
      PROVE  worker[v].box \in Containers /\ worker[v].box # c
  BY <1>4, <1>5, <1>9 DEF WorkerOK, Building
<1>10. Apart'
  <2>1. \A d \in Containers : Old(d)' => box'[d].st # "unused"
    BY <1>4, <1>5, <1>7 DEF Apart
  <2>2. ASSUME NEW v \in Workers, Building(v)' PROVE ~Old(worker[v].box)'
    <3>1. CASE v = w
      <4>1. ~Old(c)'
        BY <1>4, <1>5, <1>7 DEF Apart
      <4>2. QED
        BY <1>3, <3>1, <4>1
    <3>2. CASE v # w
      <4>1. PICK d \in Containers : d = worker[v].box /\ d = worker'[v].box
        BY <1>3, <1>8, <1>9, <2>2, <3>2
      <4>2. ~Old(d)'
        BY <1>5, <1>7, <1>8, <2>2, <3>2, <4>1 DEF Apart
      <4>3. QED
        BY <4>1, <4>2
    <3>3. QED
      BY <3>1, <3>2
  <2>3. ASSUME NEW u \in Workers, NEW v \in Workers, Building(u)', Building(v)',
               worker'[u].box = worker'[v].box
        PROVE  u = v
    <3>1. \A x \in Workers : x # w /\ Building(x)' => Building(x) /\ worker'[x].box # c
      BY <1>3, <1>8, <1>9
    <3>2. CASE u # w /\ v # w
      <4>1. Building(u) /\ Building(v) /\ worker[u].box = worker[v].box
        BY <1>3, <2>3, <3>1, <3>2
      <4>2. QED
        BY <1>5, <4>1 DEF Apart
    <3>3. QED
      BY <1>3, <2>3, <3>1, <3>2
  <2>4. QED
    BY <2>1, <2>2, <2>3 DEF Apart
<1>11. ASSUME NEW v \in Workers PROVE UndoGone(v)'
  <2> SUFFICES ASSUME v # w, worker[v].pc = "undo" PROVE UndoGone(v)'
    BY <1>3 DEF UndoGone
  <2>1. PICK x, d : x = worker[v].svc /\ d = worker[v].box
    OBVIOUS
  <2>2. d \in Containers /\ box[d].st # "unused" /\ ~HasRow(x) /\ box[d].svc = x
    BY <1>5, <2>1 DEF WorkerOK, UndoGone
  <2>3. ~HasRow(x)' /\ box'[d].svc = x
    BY <1>4, <2>2 DEF HasRow
  <2>4. QED
    BY <1>3, <2>1, <2>3 DEF UndoGone
<1>12. ASSUME NEW k \in Clients PROVE Suspended(k)'
  <2>1. client[k].boxes \subseteq Containers
    BY SmoothTypes DEF Client
  <2>2. \A d \in client[k].boxes : box'[d] = box[d]
    BY <1>4, <1>5, <2>1 DEF Suspended
  <2>3. \A d \in client'[k].boxes :
          box'[d].st # "unused" /\ ~tenant'[TenantOf[box'[d].svc]]
    BY <1>5, <2>2 DEF Suspended
  <2>4. client'[k].pc = "labels" => ~tenant'[TenantOf[client'[k].svc]]
    BY <1>5 DEF Suspended
  <2>5. QED
    BY <2>3, <2>4 DEF Suspended
<1>13. ASSUME NEW x \in Services PROVE Whole(x)'
  <2> SUFFICES ASSUME ~Lost(x)'
               PROVE  /\ \A v \in Workers : Building(v)' /\ worker'[v].svc = x =>
                           Exists(worker[v].box)'
                      /\ \A d \in Named(x)' : row'[x].container = d
                           \/ \E v \in Workers : Building(v)' /\ worker'[v].box = d
    BY DEF Whole
  <2>1. ~Lost(x)
    BY StaysLost
  <2>2. ASSUME NEW v \in Workers, Building(v)', worker'[v].svc = x
        PROVE  Exists(worker[v].box)'
    <3>1. CASE v = w
      BY <1>3, <1>4, <3>1 DEF Exists, BoxStates
    <3>2. CASE v # w
      <4>1. PICK d \in Containers : d = worker[v].box /\ d = worker'[v].box /\ d # c
        BY <1>3, <1>8, <1>9, <2>2, <3>2
      <4>2. Exists(d)
        BY <1>3, <1>5, <1>8, <2>1, <2>2, <3>2, <4>1 DEF Whole
      <4>3. Exists(d)'
        BY <1>4, <4>1, <4>2 DEF Exists
      <4>4. QED
        BY <4>1, <4>3
    <3>3. QED
      BY <3>1, <3>2
  <2>3. ASSUME NEW d \in Named(x)'
        PROVE  row'[x].container = d \/ \E v \in Workers : Building(v)' /\ worker'[v].box = d
    <3>1. CASE d = c
      BY <1>3, <3>1 DEF Building
    <3>2. CASE d # c
      <4>1. d \in Named(x)
        BY <1>4, <2>3, <3>2 DEF Named, Existing
      <4>2. CASE row[x].container = d
        BY <4>2
      <4>3. ASSUME NEW v \in Workers, Building(v), worker[v].box = d
            PROVE  Building(v)' /\ worker'[v].box = d
        <5>1. v # w
          BY <4>3 DEF Building
        <5>2. QED
          BY <1>3, <1>8, <4>3, <5>1
      <4>4. QED
        BY <1>5, <2>1, <4>1, <4>2, <4>3 DEF Whole
    <3>3. QED
      BY <3>1, <3>2
  <2>4. QED
    BY <2>2, <2>3
<1>14. QED
  BY <1>6, <1>10, <1>11, <1>12, <1>13 DEF Sound

\* ContainerCreate, or its refusal.
LEMMA CreateContainerSound ==
  ASSUME Smooth, NEW w \in Workers, CreateContainer(w), UNCHANGED <<client, rec>>
  PROVE  Sound'
<1>1. worker[w].pc = "create" /\ UNCHANGED <<tenant, row>>
  BY DEF CreateContainer, At
<1>2. CASE Goto(w, "failing") /\ UNCHANGED box
  <2>1. \A v \in Workers : WorkerCalm(v)
    BY <1>1, <1>2, GotoCalm DEF Building
  <2>2. QED
    BY <1>1, <1>2, <2>1, ClientsStill, RecStill, ReadsCalm, CalmCloses
<1>3. ASSUME NEW c \in Containers, CreateBox(c, worker[w].svc),
             worker' = [worker EXCEPT ![w].pc = "start", ![w].box = c]
      PROVE  Sound'
  BY <1>1, <1>3, CreatedSound
<1>4. QED
  BY <1>2, <1>3, NoFault DEF CreateContainer

\* The deploy records what it built: the one container of its service.
LEMMA CommittedSound ==
  ASSUME Smooth, NEW w \in Workers, UNCHANGED <<tenant, box, client, rec>>,
         worker[w].pc = "commit", HasRow(worker[w].svc),
         SetRunning(worker[w].svc, worker[w].box), Finish(w)
  PROVE  Sound'
<1>1. PICK s \in Services, b \in Containers : s = worker[w].svc /\ b = worker[w].box
  BY DEF Smooth, IInv, WorkerOK
<1>2. /\ Building(w) /\ HasRow(s) /\ box[b].svc = s /\ box[b].st # "unused"
      /\ row \in [Services -> Row] /\ row[s] \in Row
      /\ worker \in [Workers -> Worker] /\ b # None
  BY <1>1, SmoothTypes DEF Building, Smooth, RInv, Aimed, IInv, WorkerOK, StateTypeOK
<1>3. /\ worker'[w] = IdleWorker /\ worker'[w].pc = "idle"
      /\ \A v \in Workers : v # w => worker'[v] = worker[v]
  BY <1>2 DEF Finish, IdleWorker
<1>4. /\ row'[s].status = "running" /\ row'[s].container = b
      /\ \A x \in Services : x # s => row'[x] = row[x]
  <2> DEFINE new == [row[s] EXCEPT !.status = "running", !.container = b, !.updatedAt = now]
  <2>1. new.status = "running" /\ new.container = b
    BY <1>2 DEF Row
  <2>2. row' = [row EXCEPT ![s] = new]
    BY <1>1 DEF SetRunning
  <2> HIDE DEF new
  <2>3. QED
    BY <1>2, <2>1, <2>2
<1>5. /\ \A d \in Containers : Owned(d)
      /\ Apart /\ \A k \in Clients : Suspended(k)
      /\ \A v \in Workers : UndoGone(v) /\ WorkerOK(v)
      /\ \A x \in Services : Whole(x)
  BY DEF Smooth, Sound, IInv
<1>6. \A x \in Services : HasRow(x)' <=> HasRow(x)
  BY <1>2, <1>4 DEF HasRow, Statuses
<1>7. \A x \in Services : Lost(x)' <=> Lost(x)
  BY <1>6 DEF Lost, DeleteDue
<1>8. \A v \in Workers : Building(v)' => Building(v) /\ v # w /\ worker'[v] = worker[v]
  BY <1>3 DEF Building
<1>9. ASSUME NEW d \in Containers PROVE Owned(d)'
  BY <1>4, <1>5 DEF Owned
<1>10. \A d \in Containers : Old(d)' => Old(d) \/ d = b
  <2> SUFFICES ASSUME NEW d \in Containers, Old(d)', d # b PROVE Old(d)
    OBVIOUS
  <2>1. Referenced(d)' => Referenced(d)
    BY <1>4, <1>6 DEF Referenced
  <2>2. WorkOld(d)' => WorkOld(d)
    BY <1>3 DEF WorkOld
  <2>3. /\ ClientOld(d)' => ClientOld(d)
        /\ RecOld(d)' => RecOld(d)
    BY DEF ClientOld, RecOld
  <2>4. QED
    BY <2>1, <2>2, <2>3 DEF Old
<1>11. Apart'
  <2>1. \A d \in Containers : Old(d)' => box'[d].st # "unused"
    BY <1>2, <1>5, <1>10 DEF Apart
  <2>2. ASSUME NEW v \in Workers, Building(v)' PROVE ~Old(worker[v].box)'
    <3>1. Building(v) /\ v # w /\ worker'[v] = worker[v]
      BY <1>8, <2>2
    <3>2. PICK d \in Containers : d = worker[v].box /\ d = worker'[v].box
      BY <1>5, <3>1 DEF WorkerOK, Building
    <3>3. d # b /\ ~Old(d)
      BY <1>1, <1>2, <1>5, <3>1, <3>2 DEF Apart
    <3>4. ~Old(d)'
      BY <1>10, <3>3
    <3>5. QED
      BY <3>2, <3>4
  <2>3. \A u, v \in Workers :
          Building(u)' /\ Building(v)' /\ worker'[u].box = worker'[v].box => u = v
    BY <1>5, <1>8 DEF Apart
  <2>4. QED
    BY <2>1, <2>2, <2>3 DEF Apart
<1>12. ASSUME NEW v \in Workers PROVE UndoGone(v)'
  <2> SUFFICES ASSUME v # w, worker[v].pc = "undo" PROVE UndoGone(v)'
    BY <1>3 DEF UndoGone
  <2>1. PICK x \in Services : x = worker[v].svc
    BY <1>5 DEF WorkerOK
  <2>2. ~HasRow(x)'
    BY <1>5, <1>6, <2>1 DEF UndoGone
  <2>3. QED
    BY <1>3, <1>5, <2>1, <2>2 DEF UndoGone
<1>13. ASSUME NEW k \in Clients PROVE Suspended(k)'
  BY <1>5 DEF Suspended
<1>14. ASSUME NEW x \in Services PROVE Whole(x)'
  <2> SUFFICES ASSUME ~Lost(x)'
               PROVE  /\ \A v \in Workers : Building(v)' /\ worker'[v].svc = x =>
                           Exists(worker[v].box)'
                      /\ \A d \in Named(x)' : row'[x].container = d
                           \/ \E v \in Workers : Building(v)' /\ worker'[v].box = d
    BY DEF Whole
  <2>1. ~Lost(x) /\ Named(x)' = Named(x)
    BY <1>7 DEF Named, Existing
  <2>2. \A v \in Workers : Building(v)' /\ worker'[v].svc = x => Exists(worker[v].box)'
    BY <1>5, <1>8, <2>1 DEF Whole, Exists
  <2>3. ASSUME NEW d \in Named(x)
        PROVE  row'[x].container = d \/ \E v \in Workers : Building(v)' /\ worker'[v].box = d
    <3>1. CASE x = s
      <4>1. Exists(b)
        BY <1>1, <1>2, <1>5, <2>1, <3>1 DEF Whole
      <4>2. d = b
        BY <1>2, <3>1, <4>1 DEF Smooth, Promise, Named, Existing, Exists
      <4>3. QED
        BY <1>4, <3>1, <4>2
    <3>2. CASE x # s
      <4>1. CASE row[x].container = d
        BY <1>4, <3>2, <4>1
      <4>2. ASSUME NEW v \in Workers, Building(v), worker[v].box = d
            PROVE  Building(v)' /\ worker'[v].box = d
        <5>1. v # w
          BY <1>1, <1>2, <3>2, <4>2 DEF Named
        <5>2. QED
          BY <1>3, <4>2, <5>1 DEF Building
      <4>3. QED
        BY <1>5, <2>1, <4>1, <4>2 DEF Whole
    <3>3. QED
      BY <3>1, <3>2
  <2>4. QED
    BY <2>1, <2>2, <2>3
<1>15. QED
  BY <1>9, <1>11, <1>12, <1>13, <1>14 DEF Sound

\* The commit, or the discovery that the row is gone.
LEMMA CommitDeploySound ==
  ASSUME Smooth, NEW w \in Workers, CommitDeploy(w), UNCHANGED <<client, rec>>
  PROVE  Sound'
<1>1. /\ worker[w].pc = "commit" /\ UNCHANGED <<tenant, box>> /\ worker[w] \in Worker
      /\ worker[w].svc \in Services
  BY SmoothTypes DEF CommitDeploy, At, Smooth, IInv, WorkerOK
<1>2. CASE HasRow(worker[w].svc) /\ SetRunning(worker[w].svc, worker[w].box) /\ Finish(w)
  BY <1>1, <1>2, CommittedSound
<1>3. CASE ~HasRow(worker[w].svc) /\ Goto(w, "undo") /\ UNCHANGED row
  <2>1. PICK s \in Services : s = worker[w].svc
    BY <1>1
  <2>2. Lost(s)'
    BY <1>1, <1>3, <2>1, StaysLost DEF Lost
  <2>3. /\ worker'[w].pc = "undo" /\ worker'[w].box = worker[w].box
        /\ worker'[w].svc = worker[w].svc
        /\ \A v \in Workers : v # w => worker'[v] = worker[v]
    BY <1>1, <1>3, SmoothTypes DEF Goto, Worker
  <2>4. WorkerCalm(w)
    BY <1>1, <1>3, <2>1, <2>2, <2>3 DEF WorkerCalm, Building
  <2>5. QED
    BY <1>1, <1>3, <2>3, <2>4, OneWorkerCalm, ClientsStill, RecStill, ReadsCalm, CalmCloses
<1>4. QED
  BY <1>2, <1>3, NoFault DEF CommitDeploy

\* No deploy expires.
LEMMA NoExpiry ==
  ASSUME Smooth, NEW w \in Workers
  PROVE  ~DeployExpires(w)
<1>1. worker[w].start \in Nat /\ now \in Nat /\ now < DeployTimeout /\ DeployTimeout \in Nat
  BY SmoothTypes, ConstantsAssumption DEF Worker, StateTypeOK, Smooth
<1>2. QED
  BY <1>1 DEF DeployExpires, Live

\* Every step of a deploy.
LEMMA WorkerStepSound ==
  ASSUME Smooth, NEW w \in Workers, WorkerStep(w), UNCHANGED rec
  PROVE  Sound'
<1>1. UNCHANGED client
  BY NoExpiry
     DEF WorkerStep, CheckTenantActive, EnterQueue, AcquireSlot, LoadService,
         MarkDeploying, PullImage, ReloadService, CleanOld, SetupNetwork, UpdateImage,
         CreateContainer, StartContainer, CommitDeploy, UndoDeploy, RecordFailure
<1>2. QED
  BY <1>1, WaitingCalm, LoadServiceCalm, MarkDeployingCalm, ReloadServiceCalm,
     CleanOldCalm, UpdateImageCalm, CreateContainerSound, StartContainerCalm,
     CommitDeploySound, UndoDeployCalm, RecordFailureCalm, NoExpiry, CalmCloses
     DEF WorkerStep

\* A build hands its image over.
LEMMA DeployBuiltSound ==
  ASSUME Smooth, NEW w \in Workers, NEW s \in Services, DeployBuilt(w, s), UNCHANGED rec
  PROVE  Sound'
<1>1. /\ worker[w].pc = "idle" /\ Spawn(w, "DeployImage", s)
      /\ UNCHANGED <<tenant, row, box, client>>
  BY DEF DeployBuilt, stateVars
<1>2. QED
  BY <1>1, SpawnCalm, ClientsStill, RecStill, ReadsCalm, CalmCloses

----------------------------------------------------------------------------
(* Requests *)

\* A request that moves alone.
LEMMA OneClientCalm ==
  ASSUME NEW k \in Clients, \A j \in Clients : j # k => client'[j] = client[j],
         ClientCalm(k)
  PROVE  \A j \in Clients : ClientCalm(j)
<1> SUFFICES ASSUME NEW j \in Clients, j # k PROVE ClientCalm(j)
  OBVIOUS
<1>1. client'[j] = client[j]
  OBVIOUS
<1>2. QED
  BY <1>1 DEF ClientCalm

\* A request with no deletion due is answered, or the deletion has been made.
LEMMA ReplyCalm ==
  ASSUME Smooth, NEW k \in Clients, Reply(k),
         \A s \in Services : client[k].pc = "delete" /\ client[k].svc = s => ~HasRow(s)'
  PROVE  \A j \in Clients : ClientCalm(j)
<1>1. client'[k] = IdleClient
  BY SmoothTypes DEF Reply
<1>2. /\ client'[k].pc = "idle" /\ client'[k].box = None
      /\ client'[k].rows = {} /\ client'[k].boxes = {}
  BY <1>1 DEF IdleClient
<1>3. ClientCalm(k)
  BY <1>2 DEF ClientCalm
<1>4. \A j \in Clients : j # k => client'[j] = client[j]
  BY SmoothTypes DEF Reply
<1>5. QED
  BY <1>3, <1>4, OneClientCalm

\* A request goes on with what it has.
LEMMA ProceedCalm ==
  ASSUME Smooth, NEW k \in Clients, NEW l, Proceed(k, l), client[k].pc # "delete",
         l # "labels"
  PROVE  \A j \in Clients : ClientCalm(j)
<1>1. client[k] \in Client /\ client \in [Clients -> Client]
  BY SmoothTypes
<1>2. /\ client'[k].pc = l /\ client'[k].box = client[k].box
      /\ client'[k].rows = client[k].rows /\ client'[k].boxes = client[k].boxes
  BY <1>1 DEF Proceed, Client
<1>3. ClientCalm(k)
  BY <1>2 DEF ClientCalm
<1>4. \A j \in Clients : j # k => client'[j] = client[j]
  BY <1>1 DEF Proceed
<1>5. QED
  BY <1>3, <1>4, OneClientCalm

\* A request arrives.
LEMMA ArriveSound ==
  ASSUME Smooth, NEW k \in Clients, NEW op, NEW s, Arrive(k, op, s), UNCHANGED rec
  PROVE  Sound'
<1> DEFINE l == CASE op \in {"Create", "Start"} -> "check"
                  [] op = "Suspend" -> "suspend"
                  [] OTHER -> "read"
           new == [IdleClient EXCEPT !.op = op, !.svc = s, !.pc = l]
<1>1. /\ client[k].pc = "idle" /\ client' = [client EXCEPT ![k] = new]
      /\ UNCHANGED <<tenant, row, box, worker>>
  BY DEF Arrive, On, stateVars
<1>2. /\ new.pc # "labels" /\ new.box = None /\ new.rows = {} /\ new.boxes = {}
  BY DEF IdleClient
<1> HIDE DEF new
<1>3. client'[k] = new /\ \A j \in Clients : j # k => client'[j] = client[j]
  BY <1>1, SmoothTypes
<1>4. ClientCalm(k)
  BY <1>1, <1>2, <1>3 DEF ClientCalm
<1>5. QED
  BY <1>1, <1>3, <1>4, OneClientCalm, WorkersStill, RecStill, ReadsCalm, CalmCloses

\* The tenant check and the quota of a handler.
LEMMA EntryCalm ==
  ASSUME Smooth, NEW k \in Clients, UNCHANGED rec,
         HandlerChecksTenant(k) \/ CountServices(k)
  PROVE  Calm
<1>1. client[k].pc # "delete" /\ UNCHANGED <<tenant, row, box, worker>>
  BY DEF HandlerChecksTenant, CountServices, On, stateVars
<1>2. Reply(k) \/ \E l \in {"count", "read", "insert"} : Proceed(k, l)
  BY DEF HandlerChecksTenant, CountServices
<1>3. \A j \in Clients : ClientCalm(j)
  BY <1>1, <1>2, ReplyCalm, ProceedCalm
<1>4. QED
  BY <1>1, <1>3, WorkersStill, RecStill, ReadsCalm

\* The INSERT, and the deploy it starts.
LEMMA InsertServiceCalm ==
  ASSUME Smooth, NEW k \in Clients, InsertService(k), UNCHANGED rec
  PROVE  Calm
<1>1. /\ client[k].pc = "insert" /\ client[k].svc \in Services
      /\ row[client[k].svc].status = "absent" /\ InsertRow(client[k].svc)
      /\ Reply(k) /\ UNCHANGED <<tenant, box>>
  BY DEF InsertService, On, Smooth, IInv, ClientOK
<1>2. RowsKept
  BY <1>1, InsertRowKeeps, SmoothTypes
<1>3. \A j \in Clients : ClientCalm(j)
  BY <1>1, ReplyCalm
<1>4. \A w \in Workers : WorkerCalm(w)
  BY SpawnCalm DEF InsertService
<1>5. QED
  BY <1>1, <1>2, <1>3, <1>4, RecStill, TableCalm

\* getOwned of a handler.
LEMMA ReadServiceCalm ==
  ASSUME Smooth, NEW k \in Clients, ReadService(k), UNCHANGED rec
  PROVE  Calm
<1> DEFINE s == client[k].svc
           op == client[k].op
           c == row[s].container
           l == CASE op = "Start" -> "start"
                  [] op = "Delete" -> "remove"
                  [] op = "Reset" /\ row[s].container = None -> "reset"
                  [] OTHER -> "stop"
<1>1. /\ client[k].pc = "read" /\ s \in Services /\ UNCHANGED <<tenant, row, box, worker>>
      /\ client[k] \in Client /\ client \in [Clients -> Client]
  BY SmoothTypes DEF ReadService, On, Smooth, IInv, ClientOK, stateVars
<1>2. CASE Reply(k)
  BY <1>1, <1>2, ReplyCalm, WorkersStill, RecStill, ReadsCalm
<1>3. CASE HasRow(s) /\ client' = [client EXCEPT ![k].box = c, ![k].pc = l]
  <2>1. l # "labels" /\ (c = None \/ Referenced(c))
    BY <1>1, <1>3, RowNames
  <2> HIDE DEF l, c
  <2>2. /\ client'[k].pc = l /\ client'[k].box = c
        /\ client'[k].rows = client[k].rows /\ client'[k].boxes = client[k].boxes
    BY <1>1, <1>3 DEF Client
  <2>3. ClientCalm(k)
    BY <1>1, <2>1, <2>2 DEF ClientCalm
  <2>4. \A j \in Clients : j # k => client'[j] = client[j]
    BY <1>1, <1>3
  <2>5. QED
    BY <1>1, <2>3, <2>4, OneClientCalm, WorkersStill, RecStill, ReadsCalm
<1>4. QED
  BY <1>2, <1>3 DEF ReadService

\* StopContainer of Stop, Restart and Reset.
LEMMA StopCallCalm ==
  ASSUME Smooth, NEW k \in Clients, StopCall(k), UNCHANGED rec
  PROVE  Calm
<1>1. client[k].pc = "stop" /\ UNCHANGED <<tenant, row, worker>>
  BY DEF StopCall, On
<1>2. Reply(k) \/ \E l \in {"write", "start", "remove"} : Proceed(k, l)
  BY NoFault DEF StopCall, AfterStop
<1>3. \A j \in Clients : ClientCalm(j)
  BY <1>1, <1>2, ReplyCalm, ProceedCalm
<1>4. UNCHANGED box \/ (client[k].box \in Containers /\ StopBox(client[k].box))
  BY NoFault DEF StopCall, Exists
<1>5. BoxesCalm /\ Spared
  BY <1>4, BoxesStill, StopBoxCalm
<1>6. QED
  BY <1>1, <1>3, <1>5, WorkersStill, RecStill, DockerCalm

\* StartContainer of Start and Restart.
LEMMA StartCallCalm ==
  ASSUME Smooth, NEW k \in Clients, StartCall(k), UNCHANGED rec
  PROVE  Calm
<1>1. /\ client[k].pc = "start" /\ UNCHANGED <<tenant, row, worker>>
      /\ client[k] \in Client /\ client \in [Clients -> Client]
  BY SmoothTypes DEF StartCall, On
<1>2. CASE Reply(k) /\ UNCHANGED box
  BY <1>1, <1>2, ReplyCalm, WorkersStill, RecStill, ReadsCalm
<1>3. CASE /\ Exists(client[k].box) /\ StartBox(client[k].box)
           /\ client' = [client EXCEPT ![k].pc = "write", ![k].st = "running"]
  <2>1. /\ client'[k].pc = "write" /\ client'[k].box = client[k].box
        /\ client'[k].rows = client[k].rows /\ client'[k].boxes = client[k].boxes
    BY <1>1, <1>3 DEF Client
  <2>2. ClientCalm(k)
    BY <1>1, <2>1 DEF ClientCalm
  <2>3. \A j \in Clients : j # k => client'[j] = client[j]
    BY <1>1, <1>3
  <2>4. BoxesCalm /\ Spared
    BY <1>3, StartBoxCalm DEF Exists
  <2>5. QED
    BY <1>1, <2>2, <2>3, <2>4, OneClientCalm, WorkersStill, RecStill, DockerCalm
<1>4. QED
  BY <1>2, <1>3 DEF StartCall

\* The status a handler writes.
LEMMA WriteStatusCalm ==
  ASSUME Smooth, NEW k \in Clients, WriteStatus(k), UNCHANGED rec
  PROVE  Calm
<1>1. /\ client[k].pc = "write" /\ UNCHANGED <<tenant, box, worker>>
      /\ client[k].svc \in Services /\ client[k].st \in Statuses
      /\ SetStatus(client[k].svc, client[k].st)
      /\ Reply(k) \/ Proceed(k, "settle")
  BY NoFault, SmoothTypes DEF WriteStatus, On, Smooth, IInv, ClientOK, Client
<1>2. RowsKept
  BY <1>1, SetStatusKeeps, SmoothTypes
<1>3. \A j \in Clients : ClientCalm(j)
  BY <1>1, ReplyCalm, ProceedCalm
<1>4. QED
  BY <1>1, <1>2, <1>3, WorkersStill, RecStill, TableCalm

\* Delete and Reset remove what the row named.
LEMMA RemoveCallCalm ==
  ASSUME Smooth, NEW k \in Clients, RemoveCall(k), UNCHANGED rec
  PROVE  Calm
<1>1. /\ client[k].pc = "remove" /\ UNCHANGED <<tenant, row, worker>>
      /\ StopAndRemove(client[k].box) \/ TryRemove(client[k].box)
      /\ Proceed(k, "byname") \/ Proceed(k, "reset")
  BY DEF RemoveCall, On
<1>2. Old(client[k].box)
  BY DEF Old, ClientOld
<1>3. BoxesCalm /\ Spared
  BY <1>1, <1>2, CleanUpCalm, OldSpared
<1>4. \A j \in Clients : ClientCalm(j)
  BY <1>1, ProceedCalm
<1>5. QED
  BY <1>1, <1>3, <1>4, WorkersStill, RecStill, DockerCalm

\* Delete also removes what holds the service's name: the service is lost.
LEMMA RemoveByNameCalm ==
  ASSUME Smooth, NEW k \in Clients, RemoveByName(k), UNCHANGED rec
  PROVE  Calm
<1>1. /\ client[k].pc = "byname" /\ UNCHANGED <<tenant, row, worker>>
      /\ Proceed(k, "delete") /\ client[k].svc \in Services
      /\ client[k] \in Client /\ client \in [Clients -> Client]
  BY SmoothTypes DEF RemoveByName, On, Smooth, IInv, ClientOK
<1>2. \A j \in Clients : ClientCalm(j)
  BY <1>1, ProceedCalm
<1>3. PICK s \in Services : s = client[k].svc
  BY <1>1
<1>4. Lost(s)'
  <2>1. client'[k].pc = "delete" /\ client'[k].svc = s
    BY <1>1, <1>3 DEF Proceed, Client
  <2>2. QED
    BY <2>1 DEF Lost, DeleteDue
<1>5. CASE UNCHANGED box
  BY <1>1, <1>2, <1>5, BoxesStill, WorkersStill, RecStill, DockerCalm
<1>6. ASSUME NEW c \in Named(s), StopAndRemove(c) PROVE BoxesCalm /\ Spared
  <2>1. BoxesCalm /\ OnlyLoses(c) /\ box[c].svc = s
    BY <1>6, CleanUpCalm DEF Named
  <2>2. QED
    BY <1>4, <2>1 DEF OnlyLoses, Spared
<1>7. QED
  BY <1>1, <1>2, <1>3, <1>5, <1>6, WorkersStill, RecStill, DockerCalm DEF RemoveByName

\* The DELETE.
LEMMA DeleteServiceCalm ==
  ASSUME Smooth, NEW k \in Clients, DeleteService(k), UNCHANGED rec
  PROVE  Calm
<1>1. /\ client[k].svc \in Services /\ DeleteRow(client[k].svc)
      /\ Reply(k) /\ UNCHANGED <<tenant, box, worker>>
  BY DEF DeleteService, On, Smooth, IInv, ClientOK
<1>2. RowsKept
  BY <1>1, DeleteRowKeeps, SmoothTypes
<1>3. PICK s \in Services : s = client[k].svc
  BY <1>1
<1>4. ~HasRow(s)'
  BY <1>1, <1>3, SmoothTypes DEF DeleteRow, HasRow, StateTypeOK, BlankRow, Statuses
<1>5. \A j \in Clients : ClientCalm(j)
  BY <1>1, <1>3, <1>4, ReplyCalm
<1>6. QED
  BY <1>1, <1>2, <1>5, WorkersStill, RecStill, TableCalm

\* The reset of a circuit.
LEMMA ResetCalm ==
  ASSUME Smooth, NEW k \in Clients, ResetCircuitBreaker(k), UNCHANGED rec
  PROVE  Calm
<1>1. /\ client[k].pc = "reset" /\ client[k].svc \in Services
      /\ CloseCircuit(client[k].svc, row[client[k].svc].retryAt)
      /\ Reply(k) /\ UNCHANGED <<tenant, box, worker>>
  BY DEF ResetCircuitBreaker, On, Smooth, IInv, ClientOK
<1>2. row[client[k].svc].retryAt \in Nat \cup {None}
  BY <1>1, SmoothTypes DEF StateTypeOK, Row
<1>3. RowsKept
  BY <1>1, <1>2, CloseCircuitKeeps, SmoothTypes
<1>4. QED
  BY <1>1, <1>3, ReplyCalm, WorkersStill, RecStill, TableCalm

\* The transaction of DELETE /v1/tenant.
LEMMA SuspendTenantCalm ==
  ASSUME Smooth, NEW k \in Clients, SuspendTenant(k), UNCHANGED rec
  PROVE  Calm
<1>1. /\ client[k].pc = "suspend" /\ client[k].svc \in Services
      /\ tenant' = [tenant EXCEPT ![TenantOf[client[k].svc]] = FALSE]
      /\ Proceed(k, "labels") /\ UNCHANGED <<row, box, worker>>
      /\ client[k] \in Client /\ client \in [Clients -> Client]
      /\ tenant \in [Tenants -> BOOLEAN] /\ TenantOf[client[k].svc] \in Tenants
  BY SmoothTypes DEF SuspendTenant, On, Smooth, IInv, ClientOK, StateTypeOK
<1>2. /\ client'[k].pc = "labels" /\ client'[k].svc = client[k].svc
      /\ client'[k].box = client[k].box
      /\ client'[k].rows = client[k].rows /\ client'[k].boxes = client[k].boxes
      /\ \A j \in Clients : j # k => client'[j] = client[j]
  BY <1>1 DEF Proceed, Client
<1>3. ~tenant'[TenantOf[client[k].svc]]
  BY <1>1
<1>4. ClientCalm(k)
  BY <1>1, <1>2, <1>3 DEF ClientCalm
<1>5. TenantsCalm
  BY <1>1 DEF TenantsCalm
<1>6. QED
  BY <1>1, <1>2, <1>4, <1>5, OneClientCalm, WorkersStill, RecStill, BoxesStill,
     SameRowsKeep, SmoothTypes DEF Calm

\* The list of the tenant's containers.
LEMMA ListLabelledCalm ==
  ASSUME Smooth, NEW k \in Clients, ListLabelled(k), UNCHANGED rec
  PROVE  Calm
<1> DEFINE listed == {c \in Existing : TenantOf[box[c].svc] = TenantOf[client[k].svc]}
<1>1. /\ client[k].pc = "labels" /\ UNCHANGED <<tenant, row, box, worker>>
      /\ client' = [client EXCEPT ![k].pc = "purge", ![k].boxes = listed]
      /\ client[k] \in Client /\ client \in [Clients -> Client]
      /\ ~tenant[TenantOf[client[k].svc]]
  BY NoFault, SmoothTypes DEF ListLabelled, On, Smooth, Sound, Suspended
<1>2. \A c \in listed : Exists(c) /\ ~tenant[TenantOf[box[c].svc]]
  BY <1>1 DEF Existing, Exists
<1> HIDE DEF listed
<1>3. /\ client'[k].pc = "purge" /\ client'[k].box = client[k].box
      /\ client'[k].rows = client[k].rows /\ client'[k].boxes = listed
      /\ \A j \in Clients : j # k => client'[j] = client[j]
  BY <1>1 DEF Client
<1>4. ClientCalm(k)
  BY <1>1, <1>2, <1>3 DEF ClientCalm
<1>5. QED
  BY <1>1, <1>3, <1>4, OneClientCalm, WorkersStill, RecStill, ReadsCalm

\* The purge removes containers of a suspended tenant.
LEMMA PurgeLabelledCalm ==
  ASSUME Smooth, NEW k \in Clients, PurgeLabelled(k), UNCHANGED rec
  PROVE  Calm
<1>1. /\ client[k].pc = "purge" /\ UNCHANGED <<tenant, row, worker>>
      /\ client[k] \in Client /\ client \in [Clients -> Client]
  BY SmoothTypes DEF PurgeLabelled, On
<1>2. CASE Proceed(k, "rows") /\ UNCHANGED box
  BY <1>1, <1>2, ProceedCalm, WorkersStill, RecStill, ReadsCalm
<1>3. ASSUME NEW c \in client[k].boxes, StopAndRemove(c),
             client' = [client EXCEPT ![k].boxes = @ \ {c}]
      PROVE  Calm
  <2>1. /\ client'[k].pc = "purge" /\ client'[k].box = client[k].box
        /\ client'[k].rows = client[k].rows
        /\ client'[k].boxes \subseteq client[k].boxes
        /\ \A j \in Clients : j # k => client'[j] = client[j]
    BY <1>1, <1>3 DEF Client
  <2>2. ClientCalm(k)
    BY <1>1, <2>1 DEF ClientCalm
  <2>3. BoxesCalm /\ OnlyLoses(c)
    BY <1>3, CleanUpCalm
  <2>4. ~tenant[TenantOf[box[c].svc]]
    BY DEF Smooth, Sound, Suspended
  <2>5. ASSUME NEW s \in Services, box[c].svc = s PROVE Lost(s)'
    BY <1>1, <2>4, <2>5 DEF Lost
  <2>6. Spared
    BY <2>3, <2>5 DEF Spared, OnlyLoses
  <2>7. QED
    BY <1>1, <2>1, <2>2, <2>3, <2>6, OneClientCalm, WorkersStill, RecStill, DockerCalm
<1>4. QED
  BY <1>2, <1>3 DEF PurgeLabelled

\* The list of the tenant's rows.
LEMMA ListRowsCalm ==
  ASSUME Smooth, NEW k \in Clients, ListRows(k), UNCHANGED rec
  PROVE  Calm
<1> DEFINE listed == {<<s, row[s].container>> : s \in RowsOf(TenantOf[client[k].svc])}
<1>1. /\ client[k].pc = "rows" /\ UNCHANGED <<tenant, row, box, worker>>
      /\ client' = [client EXCEPT ![k].pc = "settle", ![k].rows = listed]
      /\ client[k] \in Client /\ client \in [Clients -> Client]
  BY SmoothTypes DEF ListRows, On, stateVars
<1>2. \A p \in listed : p[2] = None \/ Referenced(p[2])
  BY DEF RowsOf, Referenced
<1> HIDE DEF listed
<1>3. /\ client'[k].pc = "settle" /\ client'[k].box = client[k].box
      /\ client'[k].rows = listed /\ client'[k].boxes = client[k].boxes
      /\ \A j \in Clients : j # k => client'[j] = client[j]
  BY <1>1 DEF Client
<1>4. ClientCalm(k)
  BY <1>1, <1>2, <1>3 DEF ClientCalm
<1>5. QED
  BY <1>1, <1>3, <1>4, OneClientCalm, WorkersStill, RecStill, ReadsCalm

\* The suspension removes what a row named.
LEMMA SettleRowCalm ==
  ASSUME Smooth, NEW k \in Clients, SettleRow(k), UNCHANGED rec
  PROVE  Calm
<1>1. /\ client[k].pc = "settle" /\ UNCHANGED <<tenant, row, worker>>
      /\ client[k] \in Client /\ client \in [Clients -> Client]
  BY SmoothTypes DEF SettleRow, On
<1>2. CASE Reply(k) /\ UNCHANGED box
  BY <1>1, <1>2, ReplyCalm, WorkersStill, RecStill, ReadsCalm
<1>3. ASSUME NEW p \in client[k].rows, NEW st,
             client' = [client EXCEPT ![k].pc = "write", ![k].svc = p[1],
                                      ![k].st = st, ![k].rows = @ \ {p}],
             UNCHANGED box \/ (Exists(p[2]) /\ RemoveBox(p[2]))
      PROVE  Calm
  <2> DEFINE new == [client[k] EXCEPT !.pc = "write", !.svc = p[1], !.st = st,
                                      !.rows = @ \ {p}]
  <2>1. /\ new.pc = "write" /\ new.box = client[k].box
        /\ new.rows \subseteq client[k].rows /\ new.boxes = client[k].boxes
    BY <1>1 DEF Client
  <2>2. client' = [client EXCEPT ![k] = new]
    BY <1>3
  <2> HIDE DEF new
  <2>3. client'[k] = new /\ \A j \in Clients : j # k => client'[j] = client[j]
    BY <1>1, <2>2
  <2>4. ClientCalm(k)
    BY <1>1, <2>1, <2>3 DEF ClientCalm
  <2>5. Old(p[2])
    BY DEF Old, ClientOld
  <2>6. BoxesCalm /\ Spared
    BY <1>3, <2>5, BoxesStill, RemoveBoxCalm, OldSpared DEF Exists
  <2>7. QED
    BY <1>1, <2>3, <2>4, <2>6, OneClientCalm, WorkersStill, RecStill, DockerCalm
<1>4. QED
  BY <1>2, <1>3, NoFault DEF SettleRow

\* Every step of a request.
LEMMA ClientStepSound ==
  ASSUME Smooth, NEW k \in Clients, ClientStep(k), UNCHANGED rec
  PROVE  Sound'
<1>1. ~RequestCancelled(k)
  BY NoFault DEF RequestCancelled
<1>2. Calm
  BY <1>1, EntryCalm, InsertServiceCalm, ReadServiceCalm, StopCallCalm, StartCallCalm,
     WriteStatusCalm, RemoveCallCalm, RemoveByNameCalm, DeleteServiceCalm, ResetCalm,
     SuspendTenantCalm, ListLabelledCalm, PurgeLabelledCalm, ListRowsCalm,
     SettleRowCalm DEF ClientStep
<1>3. QED
  BY <1>2, CalmCloses

----------------------------------------------------------------------------
(* The reconciler *)

\* A tick moves on with what it has.
LEMMA StepCalm ==
  ASSUME Smooth, NEW l, Step(l)
  PROVE  RecCalm
<1>1. rec \in ReconcilerState
  BY SmoothTypes
<1>2. rec'.box = rec.box /\ rec'.todo = rec.todo /\ rec'.unwell = rec.unwell
  BY <1>1 DEF Step, ReconcilerState
<1>3. QED
  BY <1>2 DEF RecCalm

\* A tick that starts, and its SELECT of running rows.
LEMMA TickStartsCalm ==
  ASSUME Smooth, ListContainers \/ SelectRunning, UNCHANGED <<worker, client>>
  PROVE  Calm
<1>1. UNCHANGED <<tenant, row, box>> /\ rec \in ReconcilerState
  BY SmoothTypes DEF ListContainers, SelectRunning, stateVars
<1>2. CASE ListContainers
  <2>1. rec'.box = None /\ rec'.todo = {} /\ rec'.unwell = {}
    BY <1>2 DEF ListContainers, IdleReconciler
  <2>2. RecCalm
    BY <2>1 DEF RecCalm
  <2>3. QED
    BY <1>1, <2>2, WorkersStill, ClientsStill, ReadsCalm
<1>3. CASE SelectRunning
  <2> DEFINE running == {p \in Pairs : /\ row[p[1]].status = "running"
                                       /\ row[p[1]].container = p[2]}
  <2>1. rec' = [rec EXCEPT !.pc = "check", !.todo = running, !.unwell = running]
    BY <1>3 DEF SelectRunning
  <2>2. \A p \in running : Referenced(p[2])
    BY DEF Pairs, Referenced, HasRow, Statuses
  <2> HIDE DEF running
  <2>3. rec'.box = rec.box /\ rec'.todo = running /\ rec'.unwell = running
    BY <1>1, <2>1 DEF ReconcilerState
  <2>4. RecCalm
    BY <2>2, <2>3 DEF RecCalm
  <2>5. QED
    BY <1>1, <2>4, WorkersStill, ClientsStill, ReadsCalm
<1>4. QED
  BY <1>2, <1>3

\* The inspections of steps 1 and 1a.
LEMMA InspectCalm ==
  ASSUME Smooth, InspectNext \/ HealthNext, UNCHANGED <<worker, client>>
  PROVE  Calm
<1>1. UNCHANGED <<tenant, row, box>> /\ rec \in ReconcilerState
  BY SmoothTypes DEF InspectNext, HealthNext
<1>2. CASE Step("health") \/ Step("recover")
  BY <1>1, <1>2, StepCalm, WorkersStill, ClientsStill, ReadsCalm
<1>3. ASSUME NEW p \in rec.todo \cup rec.unwell,
             \/ rec' = [rec EXCEPT !.pc = "mark", !.todo = @ \ {p},
                                   !.svc = p[1], !.box = p[2]]
             \/ rec' = [rec EXCEPT !.pc = "stop", !.unwell = @ \ {p},
                                   !.svc = p[1], !.box = p[2]]
             \/ rec' = [rec EXCEPT !.todo = @ \ {p}]
             \/ rec' = [rec EXCEPT !.unwell = @ \ {p}]
      PROVE  Calm
  <2>1. /\ rec'.box \in {rec.box, p[2]}
        /\ rec'.todo \subseteq rec.todo /\ rec'.unwell \subseteq rec.unwell
    BY <1>1, <1>3 DEF ReconcilerState
  <2>2. RecCalm
    BY <2>1 DEF RecCalm
  <2>3. QED
    BY <1>1, <2>2, WorkersStill, ClientsStill, ReadsCalm
<1>4. CASE InspectNext
  BY <1>2, <1>3, <1>4, NoFault DEF InspectNext
<1>5. CASE HealthNext
  BY <1>2, <1>3, <1>5, NoFault DEF HealthNext
<1>6. QED
  BY <1>4, <1>5

\* The two UPDATEs to 'crashed'.
LEMMA MarkCalm ==
  ASSUME Smooth, MarkCrashed \/ MarkUnhealthy, UNCHANGED <<worker, client>>
  PROVE  Calm
<1>1. /\ UNCHANGED <<tenant, box>> /\ rec.svc \in Services
      /\ SetStatus(rec.svc, "crashed")
  BY NoFault DEF MarkCrashed, MarkUnhealthy, InPc, Smooth, IInv, ReconcilerOK
<1>2. \E l : Step(l)
  BY NoFault DEF MarkCrashed, MarkUnhealthy
<1>3. RowsKept
  BY <1>1, SetStatusKeeps, SmoothTypes DEF Statuses
<1>4. QED
  BY <1>1, <1>2, <1>3, StepCalm, WorkersStill, ClientsStill, TableCalm

\* The Docker calls of a tick act on what a row named.
LEMMA TickDockerCalm ==
  ASSUME Smooth, KillCrashed \/ StopUnhealthy \/ DropUnhealthy,
         UNCHANGED <<worker, client>>
  PROVE  Calm
<1>1. UNCHANGED <<tenant, row>>
  BY DEF KillCrashed, StopUnhealthy, DropUnhealthy
<1>2. \E l : Step(l)
  BY NoFault DEF KillCrashed, StopUnhealthy, DropUnhealthy
<1>3. Old(rec.box)
  BY DEF Old, RecOld
<1>4. BoxesCalm /\ Spared
  <2>1. CASE KillCrashed \/ DropUnhealthy
    BY <1>3, <2>1, CleanUpCalm, OldSpared DEF KillCrashed, DropUnhealthy
  <2>2. CASE StopUnhealthy
    <3>1. UNCHANGED box \/ (rec.box \in Containers /\ StopBox(rec.box))
      BY <2>2, NoFault DEF StopUnhealthy, Exists
    <3>2. QED
      BY <3>1, BoxesStill, StopBoxCalm
  <2>3. QED
    BY <2>1, <2>2
<1>5. QED
  BY <1>1, <1>2, <1>4, StepCalm, WorkersStill, ClientsStill, DockerCalm

\* Step 1b.
LEMMA RecoverCalm ==
  ASSUME Smooth, SelectRecoverable \/ RecoverNext, UNCHANGED <<worker, client>>
  PROVE  Calm
<1>1. UNCHANGED <<tenant, box>> /\ rec \in ReconcilerState
  BY SmoothTypes DEF SelectRecoverable, RecoverNext, stateVars
<1>2. rec'.box = rec.box /\ rec'.todo = rec.todo /\ rec'.unwell = rec.unwell
  BY <1>1, NoFault DEF SelectRecoverable, RecoverNext, Step, ReconcilerState
<1>3. RecCalm
  BY <1>2 DEF RecCalm
<1>4. RowsKept
  <2>1. UNCHANGED row \/ \E s \in rec.due : CloseCircuit(s, None)
    BY NoFault DEF SelectRecoverable, RecoverNext, stateVars
  <2>2. rec.due \subseteq Services
    BY <1>1 DEF ReconcilerState
  <2>3. QED
    BY <2>1, <2>2, SameRowsKeep, CloseCircuitKeeps, SmoothTypes
<1>5. QED
  BY <1>1, <1>3, <1>4, WorkersStill, ClientsStill, TableCalm

\* Step 2.
LEMMA FailStaleCalm ==
  ASSUME Smooth, FailStaleDeploys, UNCHANGED <<worker, client>>
  PROVE  Calm
<1>1. /\ UNCHANGED <<tenant, box>> /\ Step("idle")
      /\ row' = [s \in Services |->
                   IF Stale(s) THEN [row[s] EXCEPT !.status = "failed", !.updatedAt = now]
                               ELSE row[s]]
  BY NoFault DEF FailStaleDeploys
<1>2. RowsKept
  <2>1. row \in [Services -> Row] /\ now \in Nat
    BY SmoothTypes DEF StateTypeOK
  <2>2. ASSUME NEW s \in Services
        PROVE  /\ row'[s] \in Row
               /\ row'[s] = row[s] \/ (/\ HasRow(s) /\ row'[s].status = "failed"
                                       /\ row'[s].container = row[s].container
                                       /\ row'[s].updatedAt = now)
    <3>1. row[s] \in Row
      BY <2>1
    <3>2. QED
      BY <1>1, <2>1, <3>1 DEF Row, Stale, HasRow, Statuses
  <2>3. row' \in [Services -> Row]
    BY <1>1, <2>2
  <2>4. QED
    BY <2>1, <2>2, <2>3 DEF RowsKept, HasRow, Statuses
<1>3. QED
  BY <1>1, <1>2, StepCalm, WorkersStill, ClientsStill, TableCalm

\* Every step of the reconciler.
LEMMA ReconcilerSound ==
  ASSUME Smooth, ReconcilerNext, UNCHANGED <<worker, client>>
  PROVE  Sound'
<1>1. ~TickAborts
  BY NoFault DEF TickAborts
<1>2. Calm
  BY <1>1, TickStartsCalm, InspectCalm, MarkCalm, TickDockerCalm, RecoverCalm, FailStaleCalm
     DEF ReconcilerNext, ReconcilerStep
<1>3. QED
  BY <1>2, CalmCloses

----------------------------------------------------------------------------
(* The collector, the environment, and the whole *)

\* Before the age gate the collector has no batch, and removes nothing.
LEMMA CollectorSound ==
  ASSUME Smooth, CollectorNext, UNCHANGED <<worker, client, rec>>
  PROVE  Sound'
<1>1. gc.orphaned = {}
  <2> SUFFICES ASSUME NEW c \in gc.orphaned PROVE FALSE
    OBVIOUS
  <2>1. c \in Containers
    BY SmoothTypes DEF CollectorState
  <2>2. box[c].createdAt \in Nat /\ now \in Nat
    BY <2>1, SmoothTypes DEF StateTypeOK, Box
  <2>3. box[c].createdAt + MinResourceAge <= now /\ now < DeployTimeout
    BY DEF Smooth, IInv, CollectorOK
  <2>4. QED
    BY <2>2, <2>3, TimingAssumption, ConstantsAssumption
<1>2. UNCHANGED <<tenant, row, box>>
  BY <1>1, NoFault
     DEF CollectorNext, CollectorStep, ListServiceContainers, CheckNext, RemoveNext,
         CollectAborts, stateVars
<1>3. QED
  BY <1>2, WorkersStill, ClientsStill, RecStill, ReadsCalm, CalmCloses

\* The clock, and Docker's restart policy.
LEMMA EnvironmentSound ==
  ASSUME Smooth, Environment, UNCHANGED <<worker, client, rec>>
  PROVE  Sound'
<1>1. UNCHANGED <<tenant, row>>
  BY NoFault DEF Environment, Tick, BoxExits, BoxRestarts, HealthCheckFails
<1>2. UNCHANGED box \/ \E c \in Containers : Exists(c) /\ StartBox(c)
  BY NoFault
     DEF Environment, Tick, BoxExits, BoxRestarts, HealthCheckFails, Exists, BoxStates
<1>3. BoxesCalm /\ Spared
  BY <1>2, BoxesStill, StartBoxCalm
<1>4. QED
  BY <1>1, <1>3, WorkersStill, ClientsStill, RecStill, DockerCalm, CalmCloses

\* Every step that nothing disturbs.
LEMMA NextSound ==
  ASSUME Smooth, [Next]_vars
  PROVE  Sound'
<1>1. ~ProcessRestarts
  BY NoFault DEF ProcessRestarts
<1>2. CASE UNCHANGED vars
  BY <1>2, WorkersStill, ClientsStill, RecStill, ReadsCalm, CalmCloses DEF vars
<1>3. CASE ManagerNext /\ UNCHANGED <<rec, gc>>
  BY <1>3, DeployBuiltSound, WorkerStepSound, ArriveSound, ClientStepSound DEF ManagerNext
<1>4. QED
  BY <1>1, <1>2, <1>3, EnvironmentSound, ReconcilerSound, CollectorSound DEF Next

\* A step fails once or not at all, and the clock does not go back.
Passes == /\ now' = now \/ now' = now + 1
          /\ faults' = faults \/ Fault

\* Every step of a deploy passes.
LEMMA WorkerPasses ==
  ASSUME NEW w \in Workers, WorkerStep(w)
  PROVE  Passes
<1>1. \A c : StopAndRemove(c) => faults' = faults \/ Fault
  BY DEF StopAndRemove
<1>2. CASE \/ CheckTenantActive(w) \/ EnterQueue(w) \/ AcquireSlot(w) \/ LoadService(w)
           \/ MarkDeploying(w) \/ PullImage(w) \/ ReloadService(w) \/ CleanOld(w)
  BY <1>1, <1>2 DEF Passes, CheckTenantActive, EnterQueue, AcquireSlot, LoadService,
     MarkDeploying, PullImage, ReloadService, CleanOld, stateVars
<1>3. CASE \/ SetupNetwork(w) \/ UpdateImage(w) \/ CreateContainer(w)
           \/ StartContainer(w) \/ CommitDeploy(w) \/ UndoDeploy(w)
           \/ RecordFailure(w) \/ DeployExpires(w)
  BY <1>1, <1>3 DEF Passes, SetupNetwork, UpdateImage, CreateContainer, StartContainer,
     CommitDeploy, UndoDeploy, RecordFailure, DeployExpires, stateVars
<1>4. QED
  BY <1>2, <1>3 DEF WorkerStep

\* Every step of a request passes.
LEMMA ClientPasses ==
  ASSUME NEW k \in Clients, ClientStep(k)
  PROVE  Passes
<1>1. \A c : StopAndRemove(c) \/ TryRemove(c) => faults' = faults \/ Fault
  BY DEF StopAndRemove, TryRemove
<1>2. CASE \/ HandlerChecksTenant(k) \/ CountServices(k) \/ InsertService(k)
           \/ ReadService(k) \/ StopCall(k) \/ StartCall(k) \/ WriteStatus(k)
           \/ RemoveCall(k) \/ RemoveByName(k)
  BY <1>1, <1>2 DEF Passes, HandlerChecksTenant, CountServices, InsertService,
     ReadService, StopCall, StartCall, WriteStatus, RemoveCall, RemoveByName, stateVars
<1>3. CASE \/ DeleteService(k) \/ ResetCircuitBreaker(k) \/ SuspendTenant(k)
           \/ ListLabelled(k) \/ PurgeLabelled(k) \/ ListRows(k) \/ SettleRow(k)
           \/ RequestCancelled(k)
  BY <1>1, <1>3 DEF Passes, DeleteService, ResetCircuitBreaker, SuspendTenant,
     ListLabelled, PurgeLabelled, ListRows, SettleRow, RequestCancelled, stateVars
<1>4. QED
  BY <1>2, <1>3 DEF ClientStep

\* Every step of the loops passes.
LEMMA LoopsPass ==
  ASSUME ReconcilerNext \/ CollectorNext
  PROVE  Passes
<1>1. \A c : StopAndRemove(c) \/ TryRemove(c) => faults' = faults \/ Fault
  BY DEF StopAndRemove, TryRemove
<1>2. CASE ReconcilerNext
  BY <1>1, <1>2 DEF Passes, ReconcilerNext, ReconcilerStep, ListContainers, SelectRunning,
     InspectNext, MarkCrashed, KillCrashed, HealthNext, StopUnhealthy, MarkUnhealthy,
     DropUnhealthy, SelectRecoverable, RecoverNext, FailStaleDeploys, TickAborts, stateVars
<1>3. CASE CollectorNext
  BY <1>1, <1>3 DEF Passes, CollectorNext, CollectorStep, ListServiceContainers, CheckNext,
     RemoveNext, CollectAborts, stateVars
<1>4. QED
  BY <1>2, <1>3

\* Every step passes.
LEMMA NextPasses ==
  ASSUME [Next]_vars
  PROVE  Passes
<1>1. CASE UNCHANGED vars
  BY <1>1 DEF vars, Passes
<1>2. CASE Environment \/ ProcessRestarts
  BY <1>2 DEF Passes, Environment, Tick, BoxExits, BoxRestarts, HealthCheckFails,
              ProcessRestarts
<1>3. CASE ManagerNext
  BY <1>3, WorkerPasses, ClientPasses DEF ManagerNext, DeployBuilt, Arrive, stateVars, Passes
<1>4. QED
  BY <1>1, <1>2, <1>3, LoopsPass DEF Next

\* The invariant survives every step: one that fails or comes too late ends what
\* it is about.
LEMMA SInvKept ==
  ASSUME IInv, RInv, Promise, SInv, [Next]_vars
  PROVE  SInv'
<1>1. /\ now \in Nat /\ faults \in Nat /\ MaxFaults \in Nat /\ DeployTimeout \in Nat
      /\ faults <= MaxFaults
  BY ConstantsAssumption DEF IInv, TypeOK, StateTypeOK, SInv
<1>2. Passes
  BY NextPasses
<1>3. faults' <= MaxFaults
  BY <1>1, <1>2 DEF Passes, Fault
<1>4. ASSUME Undisturbed' PROVE Sound'
  <2>1. faults' = MaxFaults /\ now' < DeployTimeout
    BY <1>4 DEF Undisturbed
  <2>2. faults' = faults /\ now < DeployTimeout
    BY <1>1, <1>2, <2>1 DEF Passes, Fault
  <2>3. Smooth
    BY <1>1, <2>1, <2>2 DEF Smooth, SInv, Undisturbed
  <2>4. QED
    BY <2>3, NextSound
<1>5. QED
  BY <1>3, <1>4 DEF SInv

\* The first state is good: nothing exists, and nobody has read anything.
LEMMA InitSound ==
  ASSUME Init
  PROVE  SInv
<1>1. /\ \A w \in Workers : worker[w].pc = "idle"
      /\ \A k \in Clients : client[k] = IdleClient
      /\ rec = IdleReconciler /\ faults = MaxFaults
  BY DEF Init, StateInit, ManagerInit, ReconcilerInit, IdleWorker
<1>2. \A k \in Clients : /\ client[k].pc = "idle" /\ client[k].box = None
                         /\ client[k].rows = {} /\ client[k].boxes = {}
  BY <1>1 DEF IdleClient
<1>3. rec.box = None /\ rec.todo = {} /\ rec.unwell = {}
  BY <1>1 DEF IdleReconciler
<1>4. \A c \in Containers : Old(c) => Referenced(c)
  BY <1>1, <1>2, <1>3, ConstantsAssumption DEF Old, WorkOld, ClientOld, RecOld
<1>5. /\ \A c \in Containers : ~Exists(c) /\ Owned(c)
      /\ \A c \in Containers : Referenced(c) => box[c].st # "unused"
  <2>1. CASE row = [s \in Services |-> BlankRow] /\ box = [c \in Containers |-> BlankBox]
    BY <2>1 DEF BlankRow, BlankBox, Exists, BoxStates, Owned, Referenced, HasRow, Statuses
  <2>2. ASSUME NEW s \in Services, NEW d \in Containers, NEW retry \in {None, 0},
               row = [[x \in Services |-> BlankRow] EXCEPT ![s] = LegacyRow(d, retry)],
               box = [[x \in Containers |-> BlankBox]
                        EXCEPT ![d] = [BlankBox EXCEPT !.svc = s, !.st = "removed"]]
        PROVE  /\ \A c \in Containers : ~Exists(c) /\ Owned(c)
               /\ \A c \in Containers : Referenced(c) => box[c].st # "unused"
    <3>1. /\ row[s].status = "crashed" /\ row[s].container = d
          /\ \A x \in Services : x # s => row[x].status = "absent"
      BY <2>2 DEF BlankRow, LegacyRow
    <3>2. /\ box[d].svc = s /\ box[d].st = "removed"
          /\ \A x \in Containers : x # d => box[x].st = "unused"
      BY <2>2 DEF BlankBox
    <3>3. QED
      BY <3>1, <3>2 DEF Exists, BoxStates, Owned, Referenced, HasRow, Statuses
  <2>3. QED
    BY <2>1, <2>2 DEF Init, StateInit
<1>6. Apart
  BY <1>1, <1>4, <1>5 DEF Apart, Building
<1>7. \A s \in Services : Whole(s)
  BY <1>1, <1>5 DEF Whole, Building, Named, Existing, Exists
<1>8. Sound
  BY <1>1, <1>2, <1>5, <1>6, <1>7 DEF Sound, UndoGone, Suspended
<1>9. QED
  BY <1>1, <1>8, ConstantsAssumption DEF SInv

\* In a quiet state nothing is being built and no deletion is due.
LEMMA SoundIsWhole ==
  ASSUME IInv, SInv
  PROVE  NoSplitBrain
<1> SUFFICES ASSUME Quiet, Undisturbed, NEW c \in Existing, NEW s, s = box[c].svc,
                    HasRow(s), tenant[TenantOf[s]]
             PROVE  row[s].container = c
  BY DEF NoSplitBrain
<1>1. Sound
  BY DEF SInv
<1>2. c \in Containers /\ s \in Services
  BY <1>1 DEF Existing, Sound, Owned, BoxStates
<1>3. ~Lost(s)
  BY DEF Lost, DeleteDue, Quiet
<1>4. c \in Named(s)
  BY DEF Named
<1>5. \A w \in Workers : ~Building(w)
  BY DEF Quiet, Building
<1>6. QED
  BY <1>1, <1>2, <1>3, <1>4, <1>5 DEF Sound, Whole

\* Racing deploys of both kinds, deletes, resets, starts, stops and both loops never
\* leave, once they are done, a container that claims a service whose row names
\* another one or none, as long as nothing has failed, no deploy context can have
\* expired and the service's tenant is active.
THEOREM SplitBrainNeedsDisturbance == Spec => []NoSplitBrain
<1>1. Init => RInv /\ SInv
  BY InitMaps, InitSound
<1>2. IInv /\ RInv /\ Promise /\ SInv /\ [Next]_vars => RInv' /\ SInv'
  BY NextMaps, SInvKept
<1>3. IInv /\ SInv => NoSplitBrain
  BY SoundIsWhole
<1>4. QED
  BY <1>1, <1>2, <1>3, InductiveInvariant, PromiseHolds, PTL DEF Spec
================================================================================
