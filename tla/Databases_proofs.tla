--------------------------- MODULE Databases_proofs ---------------------------
(***************************************************************************)
(* Proofs about Databases, for every finite set of ids, every number of    *)
(* Delete requests, every port range and every pair of timeouts with       *)
(* RequestTimeout <= MinResourceAge.                                       *)
(***************************************************************************)
EXTENDS Databases, FiniteSetTheorems, WellFoundedInduction, TLAPS

----------------------------------------------------------------------------
(* The inductive invariant *)

\* Places of a Create before its row is inserted, before its volume is made,
\* and after it has recorded its container or given up.
Early == {"new", "count", "port", "insert"}
Past == {"wait", "ready", "fail", "cleanBox", "cleanVol", "done"}

\* What the state of a database says of where its Create is. A container id is
\* recorded, and a row deleted, only when Create will make nothing any more; a
\* row is ready only when Create has returned; a container is not older than
\* the request that made it.
CreateFits(d) ==
  /\ row[d].container => create[d].pc \in Past
  /\ row[d].status = "deleted" =>
       create[d].pc \in Past /\ ~Exists(d) /\ ~vol[d]
  /\ row[d].status = "ready" => create[d].pc = "done"
  /\ vol[d] => create[d].pc \notin Early \cup {"volume"}
  /\ box[d].st # "none" => /\ create[d].pc \in Past \cup {"start", "record"}
                           /\ create[d].start <= box[d].createdAt
  /\ create[d].pc # "new" => create[d].start <= now

\* A Delete that has read the record finds a Create that makes nothing any
\* more, and leaves behind it neither the container nor the volume.
DeleteFits(k) ==
  LET d == del[k].db IN
  /\ del[k].pc # "idle" => d \in Dbs
  /\ del[k].pc \in {"box", "vol", "row"} => create[d].pc \in Past
  /\ del[k].pc \in {"vol", "row"} => ~Exists(d)
  /\ del[k].pc = "row" => ~vol[d]

\* The collector's batch of containers holds none that a row names and none
\* whose request is still alive; its batch of volumes none that has a row or
\* may still get one.
GcFits ==
  /\ gc.at <= now
  /\ gc.pc \in {"boxes", "removeBoxes"} =>
       \A d \in gc.batch : ~Referenced(d) /\ create[d].pc \notin Early /\ ~Live(d)
  /\ gc.pc = "vols" => \A d \in gc.todo : create[d].pc \notin Early
  /\ gc.pc \in {"vols", "removeVols"} =>
       \A d \in gc.batch : ~HasRow(d) /\ create[d].pc \notin Early

\* The startup pass runs alone, on databases that are still provisioning.
BootFits ==
  boot.pc # "up" =>
    /\ ~rec.busy /\ rec.db = None /\ gc.pc = "idle"
    /\ \A d \in boot.todo : row[d].status = "provisioning"
    /\ boot.pc = "select" => boot.db = None
    /\ boot.pc \in {"box", "vol"} => boot.db # None
    /\ boot.db # None => boot.db \notin boot.todo /\ row[boot.db].status = "provisioning"

\* A row the reconciler is about to mark belongs to a pass.
RecFits == rec.db # None => rec.busy

IndInv ==
  /\ TypeOK
  /\ \A d \in Dbs : CreateFits(d)
  /\ \A k \in Deleters : DeleteFits(k)
  /\ GcFits /\ BootFits /\ RecFits

----------------------------------------------------------------------------
(* The least free port *)

\* A set of naturals that is not empty has a least element, so findFreePort's
\* answer is a port of the range.
LEMMA MinBelongs ==
  ASSUME NEW S \in SUBSET Nat, S # {}
  PROVE  Min(S) \in S
<1>1. IsWellFoundedOn(OpToRel(<, Nat), Nat)
  BY NatLessThanWellFounded
<1>2. PICK x \in S : \A y \in S : <<y, x>> \notin OpToRel(<, Nat)
  BY <1>1, WFMin
<1>3. \A y \in S : ~(y < x)
  BY <1>2 DEF OpToRel
<1>4. \A y \in S : x <= y
  BY <1>3
<1>5. QED
  BY <1>4 DEF Min

----------------------------------------------------------------------------
(* The record types, and what a step keeps of one database *)

Row == [status: Statuses \cup {"absent", "deleted"}, port: Ports \cup {None},
        container: BOOLEAN]
Box == [st: BoxStates \cup {"none", "removed"}, createdAt: Nat]
Places == {"new", "count", "port", "insert", "volume", "run", "start", "record",
           "wait", "ready", "fail", "cleanBox", "cleanVol", "done"}
Create == [pc: Places, start: Nat, port: Ports \cup {None}, attempt: Nat,
           then: {"done", "cleanBox", "cleanVol"}]
Delete == [pc: {"idle", "read", "box", "vol", "row"}, db: Dbs \cup {None}]
Boot == [pc: {"select", "box", "vol", "mark", "up"}, todo: SUBSET Dbs,
         db: Dbs \cup {None}]
Rec == [todo: SUBSET Dbs, db: Dbs \cup {None}, busy: BOOLEAN]
Gc == [pc: {"idle", "boxes", "removeBoxes", "vols", "removeVols"},
       todo: SUBSET Dbs, at: Nat, batch: SUBSET Dbs]

\* TypeOK, with the record types named.
LEMMA Types ==
  TypeOK <=> /\ now \in Nat /\ faults \in Nat
             /\ row \in [Dbs -> Row] /\ box \in [Dbs -> Box] /\ vol \in [Dbs -> BOOLEAN]
             /\ create \in [Dbs -> Create] /\ del \in [Deleters -> Delete]
             /\ boot \in Boot /\ rec \in Rec /\ gc \in Gc
  BY Zenon DEF TypeOK, Row, Box, Create, Places, Delete, Boot, Rec, Gc

\* The same after a step.
LEMMA TypesNext ==
  TypeOK' <=> /\ now' \in Nat /\ faults' \in Nat
              /\ row' \in [Dbs -> Row] /\ box' \in [Dbs -> Box] /\ vol' \in [Dbs -> BOOLEAN]
              /\ create' \in [Dbs -> Create] /\ del' \in [Deleters -> Delete]
              /\ boot' \in Boot /\ rec' \in Rec /\ gc' \in Gc
  BY Zenon DEF TypeOK, Row, Box, Create, Places, Delete, Boot, Rec, Gc

\* What no step of anybody takes back from database d: a Create past its last
\* write to Docker stays there and nothing of its database appears again; a row
\* comes only from an early Create; a container id is recorded only while the
\* request is alive.
Kept(d) ==
  /\ create[d].pc \in Past => create'[d].pc \in Past
  /\ create[d].pc \notin Early =>
       create'[d].pc \notin Early /\ create'[d].start = create[d].start
  /\ create[d].pc \in Past => (Exists(d)' => Exists(d)) /\ (vol'[d] => vol[d])
  /\ create[d].pc \notin Early => (HasRow(d)' => HasRow(d))
  /\ create[d].pc \notin Early /\ ~Live(d) /\ ~Referenced(d) => ~Referenced(d)'

\* The parts of the state that a step changes for database d only.
RowOf(d) == row' \in [Dbs -> Row] /\ \A x \in Dbs \ {d} : row'[x] = row[x]

BoxOf(d) == box' \in [Dbs -> Box] /\ \A x \in Dbs \ {d} : box'[x] = box[x]

VolOf(d) == vol' \in [Dbs -> BOOLEAN] /\ \A x \in Dbs \ {d} : vol'[x] = vol[x]

CreateOf(d, l) ==
  /\ create' \in [Dbs -> Create] /\ \A x \in Dbs \ {d} : create'[x] = create[x]
  /\ create'[d].pc = l
  /\ create[d].pc # "new" => create'[d].start = create[d].start

\* Its container stays as old, is not made by this step and does not come back.
BoxShrinks(d) ==
  /\ BoxOf(d) /\ box'[d].createdAt = box[d].createdAt
  /\ box'[d].st = "none" <=> box[d].st = "none"
  /\ Exists(d)' => Exists(d)

\* A Delete that a step leaves alone still fits.
LEMMA DeleteKept ==
  ASSUME TypeOK, NEW k \in Deleters, DeleteFits(k), del'[k] = del[k],
         \A d \in Dbs : Kept(d)
  PROVE  DeleteFits(k)'
<1> DEFINE d == del[k].db
<1>1. CASE del[k].pc = "idle"
  BY <1>1 DEF DeleteFits
<1>2. CASE del[k].pc # "idle"
  <2>1. d \in Dbs /\ Kept(d) /\ del'[k].db = d /\ del'[k].pc = del[k].pc
    BY <1>2 DEF DeleteFits
  <2>2. QED
    BY <2>1 DEF DeleteFits, Kept, Exists
<1>3. QED
  BY <1>1, <1>2

\* A collection that a step leaves alone still fits.
LEMMA GcKept ==
  ASSUME TypeOK, GcFits, gc' = gc, now' \in Nat, now <= now', create' \in [Dbs -> Create],
         \A d \in Dbs : Kept(d)
  PROVE  GcFits'
<1>1. /\ now \in Nat /\ gc \in Gc /\ create \in [Dbs -> Create]
      /\ RequestTimeout \in Nat /\ gc.at \in Nat
  BY Types, DatabasesAssumption DEF Gc
<1>2. gc.batch \subseteq Dbs /\ gc.todo \subseteq Dbs
  BY <1>1 DEF Gc
<1>3. ASSUME NEW d \in Dbs, create[d].pc \notin Early, ~Live(d)
      PROVE  ~Live(d)'
  <2>1. create'[d].start = create[d].start /\ create[d].start \in Nat
    BY <1>1, <1>3 DEF Kept, Create
  <2>2. QED
    BY <1>1, <1>3, <2>1 DEF Live
<1>4. gc.at <= now'
  BY <1>1 DEF GcFits
<1>5. gc.pc \in {"boxes", "removeBoxes"} =>
        \A d \in gc.batch : ~Referenced(d)' /\ create'[d].pc \notin Early /\ ~Live(d)'
  BY <1>2, <1>3 DEF GcFits, Kept
<1>6. /\ gc.pc = "vols" => \A d \in gc.todo : create'[d].pc \notin Early
      /\ gc.pc \in {"vols", "removeVols"} =>
           \A d \in gc.batch : ~HasRow(d)' /\ create'[d].pc \notin Early
  BY <1>2 DEF GcFits, Kept
<1>7. QED
  BY <1>4, <1>5, <1>6 DEF GcFits

\* A step that leaves a database alone keeps it.
LEMMA Untouched ==
  ASSUME NEW d \in Dbs, row'[d] = row[d], box'[d] = box[d], vol'[d] = vol[d],
         create'[d] = create[d]
  PROVE  Kept(d)
  BY DEF Kept, Exists, HasRow, Referenced

\* So does the passing of time with what is said of its Create.
LEMMA FitsUntouched ==
  ASSUME TypeOK, NEW d \in Dbs, CreateFits(d), row'[d] = row[d], box'[d] = box[d],
         vol'[d] = vol[d], create'[d] = create[d], now' \in Nat, now <= now'
  PROVE  CreateFits(d)'
<1>1. create[d].start \in Nat /\ now \in Nat
  BY Types DEF Create
<1>2. create[d].start <= now => create[d].start <= now'
  BY <1>1
<1>3. QED
  BY <1>2 DEF CreateFits, Exists

\* A step of Create for database d, once what it does to d fits.
LEMMA CreatePreserves ==
  ASSUME IndInv, NEW d \in Dbs, NEW l \in Places, boot.pc = "up", Others(d),
         faults' \in Nat, CreateOf(d, l), RowOf(d), BoxOf(d), VolOf(d),
         Kept(d), CreateFits(d)'
  PROVE  IndInv'
<1>1. /\ now' = now /\ now \in Nat /\ now <= now' /\ TypeOK
      /\ del' = del /\ boot' = boot /\ rec' = rec /\ gc' = gc
  BY Types DEF Others, IndInv
<1>2. TypeOK'
  BY <1>1, Types, TypesNext DEF CreateOf, RowOf, BoxOf, VolOf
<1>3. \A x \in Dbs : Kept(x)
  BY Untouched DEF CreateOf, RowOf, BoxOf, VolOf
<1>4. \A x \in Dbs : CreateFits(x)'
  BY <1>1, FitsUntouched DEF IndInv, CreateOf, RowOf, BoxOf, VolOf
<1>5. \A k \in Deleters : DeleteFits(k)'
  BY <1>1, <1>3, DeleteKept DEF IndInv
<1>6. GcFits'
  BY <1>1, <1>3, GcKept DEF IndInv, CreateOf
<1>7. BootFits' /\ RecFits'
  BY <1>1 DEF IndInv, BootFits, RecFits
<1>8. QED
  BY <1>2, <1>4, <1>5, <1>6, <1>7 DEF IndInv

----------------------------------------------------------------------------
(* What the helpers do to one database *)

\* Nothing.
LEMMA SameKeeps ==
  ASSUME TypeOK, NEW d \in Dbs
  PROVE  /\ row' = row => RowOf(d)
         /\ box' = box => BoxShrinks(d) /\ BoxOf(d)
         /\ vol' = vol => VolOf(d)
  BY Types DEF RowOf, BoxOf, VolOf, BoxShrinks, Exists

\* A failed call costs one fault.
LEMMA FaultKeeps ==
  ASSUME TypeOK, Fault \/ faults' = faults
  PROVE  faults' \in Nat
  BY Types DEF Fault, TypeOK

\* Goto and FailThen move one Create.
LEMMA GotoMoves ==
  ASSUME TypeOK, NEW d \in Dbs, NEW l \in Places, Goto(d, l)
  PROVE  CreateOf(d, l)
<1> DEFINE new == [create[d] EXCEPT !.pc = l]
<1>1. create[d] \in Create /\ create \in [Dbs -> Create]
  BY Types
<1>2. new \in Create /\ new.pc = l /\ new.start = create[d].start
  BY <1>1 DEF Create, Places
<1>3. create' = [create EXCEPT ![d] = new]
  BY DEF Goto
<1> HIDE DEF new
<1>4. QED
  BY <1>1, <1>2, <1>3 DEF CreateOf

LEMMA FailThenMoves ==
  ASSUME TypeOK, NEW d \in Dbs, NEW l \in {"done", "cleanBox", "cleanVol"},
         FailThen(d, l)
  PROVE  CreateOf(d, "fail")
<1> DEFINE new == [create[d] EXCEPT !.pc = "fail", !.then = l]
<1>1. create[d] \in Create /\ create \in [Dbs -> Create]
  BY Types
<1>2. new \in Create /\ new.pc = "fail" /\ new.start = create[d].start
  BY <1>1 DEF Create, Places
<1>3. create' = [create EXCEPT ![d] = new]
  BY DEF FailThen
<1> HIDE DEF new
<1>4. QED
  BY <1>1, <1>2, <1>3 DEF CreateOf

\* A status update changes the status of an existing row.
LEMMA SetStatusKeeps ==
  ASSUME TypeOK, NEW d \in Dbs, NEW st \in Statuses, SetStatus(d, st)
  PROVE  /\ RowOf(d) /\ row'[d].container = row[d].container
         /\ row'[d].status = IF HasRow(d) THEN st ELSE row[d].status
<1> DEFINE new == [row[d] EXCEPT !.status = st]
<1>1. row[d] \in Row /\ row \in [Dbs -> Row]
  BY Types
<1>2. new \in Row /\ new.status = st /\ new.container = row[d].container
  BY <1>1, Zenon DEF Row
<1>3. row' = IF HasRow(d) THEN [row EXCEPT ![d] = new] ELSE row
  BY DEF SetStatus
<1> HIDE DEF new
<1>4. QED
  BY <1>1, <1>2, <1>3 DEF RowOf

\* Stopping, starting and removing a container that exists.
LEMMA SetBox ==
  ASSUME TypeOK, NEW d \in Dbs, NEW st \in BoxStates \cup {"removed"}, Exists(d),
         box' = [box EXCEPT ![d].st = st]
  PROVE  BoxShrinks(d) /\ box'[d].st = st
<1> DEFINE new == [box[d] EXCEPT !.st = st]
<1>1. box[d] \in Box /\ box \in [Dbs -> Box]
  BY Types
<1>2. new \in Box /\ new.st = st /\ new.createdAt = box[d].createdAt
  BY <1>1 DEF Box
<1>3. box' = [box EXCEPT ![d] = new]
  OBVIOUS
<1> HIDE DEF new
<1>4. QED
  BY <1>1, <1>2, <1>3 DEF BoxShrinks, BoxOf, Exists, BoxStates

\* DropBox leaves no container, KeepBox at most the one there was.
LEMMA DropBoxKeeps ==
  ASSUME TypeOK, NEW d \in Dbs
  PROVE  /\ DropBox(d) => BoxShrinks(d) /\ ~Exists(d)'
         /\ KeepBox(d) => BoxShrinks(d)
<1>1. ASSUME DropBox(d)
      PROVE  BoxShrinks(d) /\ ~Exists(d)'
  BY <1>1, SetBox, SameKeeps DEF DropBox, RemoveBox, Exists, BoxStates
<1>2. ASSUME KeepBox(d)
      PROVE  BoxShrinks(d)
  BY <1>2, SetBox, SameKeeps DEF KeepBox, BoxStates
<1>3. QED
  BY <1>1, <1>2

\* DropVol removes the volume unless its container exists.
LEMMA DropVolKeeps ==
  ASSUME TypeOK, NEW d \in Dbs, DropVol(d)
  PROVE  VolOf(d) /\ (vol'[d] <=> vol[d] /\ Exists(d))
<1>1. vol \in [Dbs -> BOOLEAN]
  BY Types
<1>2. vol' = [vol EXCEPT ![d] = vol[d] /\ Exists(d)]
  BY DEF DropVol
<1>3. QED
  BY <1>1, <1>2, Zenon DEF VolOf

----------------------------------------------------------------------------
(* One lemma per step of Create *)

\* What every step of Create may use and leaves alone.
LEMMA CreateFacts ==
  ASSUME IndInv, NEW d \in Dbs
  PROVE  /\ TypeOK /\ CreateFits(d) /\ now \in Nat
         /\ create[d] \in Create /\ row[d] \in Row /\ box[d] \in Box
         /\ vol[d] \in BOOLEAN
  BY Types DEF IndInv

\* Request: the context's deadline starts.
LEMMA RequestStep ==
  ASSUME IndInv, NEW d \in Dbs, Request(d)
  PROVE  IndInv'
<1> DEFINE new == [create[d] EXCEPT !.pc = "count", !.start = now]
<1>1. /\ TypeOK /\ CreateFits(d) /\ now \in Nat /\ create[d] \in Create
      /\ create \in [Dbs -> Create]
  BY CreateFacts, Types
<1>2. new \in Create /\ new.pc = "count" /\ new.start = now
  BY <1>1 DEF Create, Places
<1>3. /\ create[d].pc = "new" /\ boot.pc = "up" /\ Others(d) /\ now' = now
      /\ create' = [create EXCEPT ![d] = new]
      /\ UNCHANGED <<faults, row, box, vol>>
  BY DEF Request, At, Others
<1> HIDE DEF new
<1>4. CreateOf(d, "count") /\ create'[d].start = now
  BY <1>1, <1>2, <1>3 DEF CreateOf
<1>5. RowOf(d) /\ BoxOf(d) /\ VolOf(d) /\ faults' \in Nat
  BY <1>1, <1>3, SameKeeps, FaultKeeps
<1>6. Kept(d)
  BY <1>3 DEF Kept, Past, Early
<1>7. CreateFits(d)'
  BY <1>1, <1>3, <1>4 DEF CreateFits, CreateOf, Exists, Past, Early
<1>8. QED
  BY <1>3, <1>4, <1>5, <1>6, <1>7, CreatePreserves DEF Places

\* CheckQuota and FindFreePort move their Create only.
LEMMA FindPortStep ==
  ASSUME IndInv, NEW d \in Dbs, CheckQuota(d) \/ FindFreePort(d)
  PROVE  IndInv'
<1>1. /\ TypeOK /\ CreateFits(d) /\ create[d] \in Create /\ create \in [Dbs -> Create]
  BY CreateFacts, Types
<1>2. /\ create[d].pc \in {"count", "port"} /\ boot.pc = "up" /\ Others(d) /\ now' = now
      /\ UNCHANGED <<faults, row, box, vol>>
  BY DEF CheckQuota, FindFreePort, At, Others
<1>3. \E l \in {"port", "insert", "done"} : CreateOf(d, l)
  <2>1. CASE \E l \in {"port", "done"} : Goto(d, l)
    BY <1>1, <2>1, GotoMoves DEF Places
  <2>2. CASE /\ FreePorts # {}
             /\ create' = [create EXCEPT ![d].pc = "insert", ![d].port = Min(FreePorts)]
    <3> DEFINE p == Min(FreePorts)
               new == [create[d] EXCEPT !.pc = "insert", !.port = p]
    <3>1. p \in Ports
      BY <2>2, MinBelongs, DatabasesAssumption DEF FreePorts
    <3> HIDE DEF p
    <3>2. new \in Create /\ new.pc = "insert" /\ new.start = create[d].start
      BY <1>1, <3>1 DEF Create, Places
    <3>3. create' = [create EXCEPT ![d] = new]
      BY <2>2 DEF p
    <3> HIDE DEF new
    <3>4. CreateOf(d, "insert")
      BY <1>1, <3>2, <3>3 DEF CreateOf
    <3>5. QED
      BY <3>4
  <2>3. QED
    BY <2>1, <2>2 DEF CheckQuota, FindFreePort
<1>4. PICK l \in {"port", "insert", "done"} : CreateOf(d, l)
  BY <1>3
<1>5. RowOf(d) /\ BoxOf(d) /\ VolOf(d) /\ faults' \in Nat
  BY <1>1, <1>2, SameKeeps, FaultKeeps
<1>6. Kept(d)
  BY <1>2 DEF Kept, Past, Early
<1>7. CreateFits(d)'
  BY <1>1, <1>2, <1>4 DEF CreateFits, CreateOf, Exists, Past, Early
<1>8. QED
  BY <1>2, <1>4, <1>5, <1>6, <1>7, CreatePreserves DEF Places

\* Insert: only an early Create adds a row.
LEMMA InsertStep ==
  ASSUME IndInv, NEW d \in Dbs, Insert(d)
  PROVE  IndInv'
<1> DEFINE p == create[d].port
<1>1. /\ TypeOK /\ CreateFits(d) /\ create[d] \in Create /\ create \in [Dbs -> Create]
      /\ row \in [Dbs -> Row] /\ row[d] \in Row
  BY CreateFacts, Types
<1>2. /\ create[d].pc = "insert" /\ boot.pc = "up" /\ Others(d) /\ now' = now
      /\ UNCHANGED <<box, vol>>
  BY DEF Insert, At, Others
<1>3. faults' \in Nat
  BY <1>1, FaultKeeps DEF Insert
<1>4. PICK l \in {"volume", "done", "port"} : CreateOf(d, l)
  <2>1. CASE \E l \in {"volume", "done"} : Goto(d, l)
    BY <1>1, <2>1, GotoMoves DEF Places
  <2>2. CASE \E l \in {"done", "port"} :
               create' = [create EXCEPT ![d].pc = l, ![d].attempt = create[d].attempt + 1]
    <3>1. PICK l \in {"done", "port"} :
               create' = [create EXCEPT ![d].pc = l, ![d].attempt = create[d].attempt + 1]
      BY <2>2
    <3> DEFINE new == [create[d] EXCEPT !.pc = l, !.attempt = create[d].attempt + 1]
    <3>2. new \in Create /\ new.pc = l /\ new.start = create[d].start
      <4>1. create[d].attempt + 1 \in Nat /\ l \in Places
        BY <1>1 DEF Create, Places
      <4>2. QED
        BY <1>1, <4>1, Zenon DEF Create
    <3>3. create' = [create EXCEPT ![d] = new]
      BY <3>1
    <3> HIDE DEF new
    <3>4. CreateOf(d, l)
      BY <1>1, <3>2, <3>3 DEF CreateOf
    <3>5. QED
      BY <3>4
  <2>3. QED
    BY <2>1, <2>2 DEF Insert
<1>5. /\ RowOf(d) /\ row'[d].container = row[d].container
      /\ row'[d].status \in {row[d].status, "provisioning"}
  <2>1. CASE row' = row
    BY <1>1, <2>1, SameKeeps
  <2>2. CASE row' = [row EXCEPT ![d].status = "provisioning", ![d].port = p]
    <3> DEFINE new == [row[d] EXCEPT !.status = "provisioning", !.port = p]
    <3>1. p \in Ports \cup {None}
      BY <1>1 DEF Create
    <3> HIDE DEF p
    <3>2. new \in Row /\ new.status = "provisioning" /\ new.container = row[d].container
      BY <1>1, <3>1, Zenon DEF Row, Statuses
    <3>3. row' = [row EXCEPT ![d] = new]
      BY <2>2
    <3> HIDE DEF new
    <3>4. QED
      BY <1>1, <3>2, <3>3 DEF RowOf
  <2>3. QED
    BY <2>1, <2>2 DEF Insert
<1>6. BoxOf(d) /\ VolOf(d)
  BY <1>1, <1>2, SameKeeps
<1>7. Kept(d)
  BY <1>2 DEF Kept, Past, Early
<1>8. CreateFits(d)'
  BY <1>1, <1>2, <1>4, <1>5 DEF CreateFits, CreateOf, Exists, Past, Early
<1>9. QED
  BY <1>2, <1>3, <1>4, <1>5, <1>6, <1>7, <1>8, CreatePreserves DEF Places

\* CreateVolume: the only step that makes a volume.
LEMMA CreateVolumeStep ==
  ASSUME IndInv, NEW d \in Dbs, CreateVolume(d)
  PROVE  IndInv'
<1>1. TypeOK /\ CreateFits(d) /\ vol \in [Dbs -> BOOLEAN]
  BY CreateFacts, Types
<1>2. /\ create[d].pc = "volume" /\ boot.pc = "up" /\ Others(d) /\ now' = now
      /\ UNCHANGED <<row, box>>
  BY DEF CreateVolume, At, Others
<1>3. faults' \in Nat
  BY <1>1, FaultKeeps DEF CreateVolume
<1>4. VolOf(d)
  BY <1>1, SameKeeps DEF CreateVolume, VolOf
<1>5. PICK l \in {"run", "fail"} : CreateOf(d, l) /\ (l = "fail" => vol' = vol)
  BY <1>1, GotoMoves, FailThenMoves DEF CreateVolume, Places
<1>6. RowOf(d) /\ BoxOf(d)
  BY <1>1, <1>2, SameKeeps
<1>7. Kept(d)
  BY <1>2, <1>5 DEF Kept, Past, Early, CreateOf, HasRow, Referenced
<1>8. CreateFits(d)'
  BY <1>1, <1>2, <1>5 DEF CreateFits, CreateOf, Exists, Past, Early
<1>9. QED
  BY <1>2, <1>3, <1>4, <1>5, <1>6, <1>7, <1>8, CreatePreserves DEF Places

\* CreateContainer: the only step that makes a container, not before its
\* request.
LEMMA CreateContainerStep ==
  ASSUME IndInv, NEW d \in Dbs, CreateContainer(d)
  PROVE  IndInv'
<1>1. TypeOK /\ CreateFits(d) /\ box \in [Dbs -> Box] /\ now \in Nat
  BY CreateFacts, Types
<1>2. /\ create[d].pc = "run" /\ boot.pc = "up" /\ Others(d) /\ now' = now
      /\ UNCHANGED <<row, vol>>
  BY DEF CreateContainer, At, Others
<1>3. faults' \in Nat
  BY <1>1, FaultKeeps DEF CreateContainer
<1>4. BoxOf(d) /\ (box'[d].createdAt = now \/ box' = box)
  <2> DEFINE new == [st |-> "created", createdAt |-> now]
  <2>1. new \in Box /\ new.createdAt = now
    BY <1>1 DEF Box, BoxStates
  <2>2. box' = [box EXCEPT ![d] = new] \/ box' = box
    BY DEF CreateContainer
  <2> HIDE DEF new
  <2>3. QED
    BY <1>1, <2>1, <2>2, SameKeeps DEF BoxOf
<1>5. PICK l \in {"start", "fail"} : CreateOf(d, l) /\ (l = "fail" => box' = box)
  BY <1>1, GotoMoves, FailThenMoves DEF CreateContainer, Places
<1>6. RowOf(d) /\ VolOf(d)
  BY <1>1, <1>2, SameKeeps
<1>7. Kept(d)
  BY <1>2, <1>5 DEF Kept, Past, Early, CreateOf, HasRow, Referenced
<1>8. CreateFits(d)'
  BY <1>1, <1>2, <1>4, <1>5 DEF CreateFits, CreateOf, Exists, Past, Early
<1>9. QED
  BY <1>2, <1>3, <1>4, <1>5, <1>6, <1>7, <1>8, CreatePreserves DEF Places

\* StartContainer: runs, or is removed, or is left behind.
LEMMA StartContainerStep ==
  ASSUME IndInv, NEW d \in Dbs, StartContainer(d)
  PROVE  IndInv'
<1>1. TypeOK /\ CreateFits(d)
  BY CreateFacts
<1>2. /\ create[d].pc = "start" /\ boot.pc = "up" /\ Others(d) /\ now' = now
      /\ UNCHANGED <<row, vol>>
  BY DEF StartContainer, At, Others
<1>3. faults' \in Nat
  BY <1>1, FaultKeeps DEF StartContainer
<1>4. BoxShrinks(d)
  BY <1>1, SetBox, DropBoxKeeps, SameKeeps DEF StartContainer, BoxStates
<1>5. PICK l \in {"record", "fail"} : CreateOf(d, l)
  BY <1>1, GotoMoves, FailThenMoves DEF StartContainer, Places
<1>6. RowOf(d) /\ VolOf(d)
  BY <1>1, <1>2, SameKeeps
<1>7. Kept(d)
  BY <1>2, <1>5 DEF Kept, Past, Early, CreateOf, HasRow, Referenced
<1>8. CreateFits(d)'
  BY <1>1, <1>2, <1>4, <1>5 DEF CreateFits, CreateOf, BoxShrinks, Past, Early
<1>9. QED
  BY <1>2, <1>3, <1>4, <1>5, <1>6, <1>7, <1>8, CreatePreserves DEF Places, BoxShrinks

\* RecordContainer: only a live request names its container.
LEMMA RecordContainerStep ==
  ASSUME IndInv, NEW d \in Dbs, RecordContainer(d)
  PROVE  IndInv'
<1>1. TypeOK /\ CreateFits(d) /\ row \in [Dbs -> Row] /\ row[d] \in Row
  BY CreateFacts, Types
<1>2. /\ create[d].pc = "record" /\ boot.pc = "up" /\ Others(d) /\ now' = now
      /\ UNCHANGED <<box, vol>>
  BY DEF RecordContainer, At, Others
<1>3. faults' \in Nat
  BY <1>1, FaultKeeps DEF RecordContainer
<1>4. PICK l \in {"wait", "cleanBox"} : CreateOf(d, l)
  BY <1>1, GotoMoves DEF RecordContainer, Places
<1>5. /\ RowOf(d) /\ row'[d].status = row[d].status
      /\ row' # row => HasRow(d) /\ Live(d)
  <2> DEFINE new == [row[d] EXCEPT !.container = TRUE]
  <2>1. new \in Row /\ new.status = row[d].status
    BY <1>1, Zenon DEF Row
  <2>2. row' = row \/ (row' = [row EXCEPT ![d] = new] /\ HasRow(d) /\ Live(d))
    BY DEF RecordContainer
  <2> HIDE DEF new
  <2>3. QED
    BY <1>1, <2>1, <2>2, SameKeeps DEF RowOf
<1>6. BoxOf(d) /\ VolOf(d)
  BY <1>1, <1>2, SameKeeps
<1>7. Kept(d)
  BY <1>2, <1>4, <1>5 DEF Kept, Past, Early, CreateOf, HasRow, Referenced
<1>8. CreateFits(d)'
  BY <1>1, <1>2, <1>4, <1>5 DEF CreateFits, CreateOf, Exists, HasRow, Statuses, Past, Early
<1>9. QED
  BY <1>2, <1>3, <1>4, <1>5, <1>6, <1>7, <1>8, CreatePreserves DEF Places

\* WaitHealthy moves its Create only.
LEMMA WaitHealthyStep ==
  ASSUME IndInv, NEW d \in Dbs, WaitHealthy(d)
  PROVE  IndInv'
<1>1. TypeOK /\ CreateFits(d)
  BY CreateFacts
<1>2. /\ create[d].pc = "wait" /\ boot.pc = "up" /\ Others(d) /\ now' = now
      /\ UNCHANGED <<row, box, vol>>
  BY DEF WaitHealthy, At, Others
<1>3. faults' \in Nat
  BY <1>1, FaultKeeps DEF WaitHealthy
<1>4. PICK l \in {"ready", "fail"} : CreateOf(d, l)
  BY <1>1, GotoMoves, FailThenMoves DEF WaitHealthy, Places
<1>5. RowOf(d) /\ BoxOf(d) /\ VolOf(d)
  BY <1>1, <1>2, SameKeeps
<1>6. Kept(d)
  BY <1>2, <1>4 DEF Kept, Past, Early, CreateOf, HasRow, Referenced, Exists
<1>7. CreateFits(d)'
  BY <1>1, <1>2, <1>4 DEF CreateFits, CreateOf, Exists, Past, Early
<1>8. QED
  BY <1>2, <1>3, <1>4, <1>5, <1>6, <1>7, CreatePreserves DEF Places

\* MarkReady and MarkFailed: a row that exists, and ready only at the end.
LEMMA MarkStep ==
  ASSUME IndInv, NEW d \in Dbs, MarkReady(d) \/ MarkFailed(d)
  PROVE  IndInv'
<1>1. TypeOK /\ CreateFits(d) /\ create[d] \in Create
  BY CreateFacts
<1>2. /\ create[d].pc \in {"ready", "fail"} /\ boot.pc = "up" /\ Others(d) /\ now' = now
      /\ UNCHANGED <<box, vol>>
  BY DEF MarkReady, MarkFailed, At, Others
<1>3. faults' \in Nat
  BY <1>1, FaultKeeps DEF MarkReady, MarkFailed
<1>4. PICK l \in {"done", "cleanBox", "cleanVol"} : Goto(d, l) /\ CreateOf(d, l)
  BY <1>1, GotoMoves DEF MarkReady, MarkFailed, Places, Create
<1>5. /\ RowOf(d) /\ row'[d].container = row[d].container
      /\ row'[d].status # row[d].status => HasRow(d) /\ row'[d].status \in {"ready", "failed"}
      /\ HasRow(d)' => HasRow(d)
  <2>1. row' = row \/ \E st \in {"ready", "failed"} : SetStatus(d, st)
    BY DEF MarkReady, MarkFailed
  <2>2. QED
    BY <1>1, <2>1, SetStatusKeeps, SameKeeps DEF Statuses, HasRow
<1>6. row'[d].status = "ready" => l = "done"
  <2>1. CASE MarkReady(d)
    <3>1. CASE SetStatus(d, "ready") /\ Goto(d, IF HasRow(d) THEN "done" ELSE "cleanBox")
      <4>1. CASE HasRow(d)
        <5>1. CreateOf(d, "done")
          BY <1>1, <3>1, <4>1, GotoMoves DEF Places
        <5>2. QED
          BY <1>4, <5>1 DEF CreateOf
      <4>2. CASE ~HasRow(d)
        BY <1>5, <4>2, <1>1, <1>2 DEF HasRow, Statuses
      <4>3. QED
        BY <4>1, <4>2
    <3>2. CASE row' = row
      BY <1>1, <1>2, <3>2 DEF CreateFits
    <3>3. QED
      BY <2>1, <3>1, <3>2 DEF MarkReady
  <2>2. CASE MarkFailed(d)
    <3>1. row' = row \/ SetStatus(d, "failed")
      BY <2>2 DEF MarkFailed
    <3>2. row'[d].status \in {row[d].status, "failed"}
      BY <1>1, <3>1, SetStatusKeeps DEF Statuses
    <3>3. QED
      BY <1>1, <1>2, <3>2 DEF CreateFits
  <2>3. QED
    BY <2>1, <2>2
<1>7. BoxOf(d) /\ VolOf(d)
  BY <1>1, <1>2, SameKeeps
<1>8. Kept(d)
  BY <1>2, <1>4, <1>5 DEF Kept, Past, Early, CreateOf, Referenced, Exists
<1>9. CreateFits(d)'
  BY <1>1, <1>2, <1>4, <1>5, <1>6
     DEF CreateFits, CreateOf, Exists, HasRow, Statuses, Past, Early
<1>10. QED
  BY <1>2, <1>3, <1>4, <1>5, <1>7, <1>8, <1>9, CreatePreserves DEF Places

\* The two clean-ups remove or leave.
LEMMA CleanStep ==
  ASSUME IndInv, NEW d \in Dbs, CleanContainer(d) \/ CleanVolume(d)
  PROVE  IndInv'
<1>1. TypeOK /\ CreateFits(d)
  BY CreateFacts
<1>2. /\ create[d].pc \in {"cleanBox", "cleanVol"} /\ boot.pc = "up" /\ Others(d)
      /\ now' = now /\ row' = row
  BY DEF CleanContainer, CleanVolume, At, Others
<1>3. faults' \in Nat
  BY <1>1, FaultKeeps DEF CleanContainer, CleanVolume
<1>4. PICK l \in {"cleanVol", "done"} : CreateOf(d, l)
  BY <1>1, GotoMoves DEF CleanContainer, CleanVolume, Places
<1>5. BoxShrinks(d)
  BY <1>1, DropBoxKeeps, SameKeeps DEF CleanContainer, CleanVolume
<1>6. VolOf(d) /\ (vol'[d] => vol[d])
  BY <1>1, DropVolKeeps, SameKeeps DEF CleanContainer, CleanVolume
<1>7. RowOf(d)
  BY <1>1, <1>2, SameKeeps
<1>8. Kept(d)
  BY <1>2, <1>4, <1>5, <1>6 DEF Kept, Past, Early, CreateOf, HasRow, Referenced, BoxShrinks
<1>9. CreateFits(d)'
  BY <1>1, <1>2, <1>4, <1>5, <1>6 DEF CreateFits, CreateOf, BoxShrinks, Past, Early
<1>10. QED
  BY <1>2, <1>3, <1>4, <1>5, <1>6, <1>7, <1>8, <1>9, CreatePreserves
     DEF Places, BoxShrinks

\* Every step of Create preserves the invariant.
LEMMA CreateStepKeeps ==
  ASSUME IndInv, NEW d \in Dbs, CreateStep(d)
  PROVE  IndInv'
  BY RequestStep, FindPortStep, InsertStep, CreateVolumeStep, CreateContainerStep,
     StartContainerStep, RecordContainerStep, WaitHealthyStep, MarkStep, CleanStep
     DEF CreateStep

----------------------------------------------------------------------------
(* Steps that leave every Create alone *)

\* What such a step may do to the row of d: no new row or container id, none
\* ready; deleted only when nothing of the database is left.
RowShrinks(d) ==
  /\ RowOf(d)
  /\ row'[d].container => row[d].container
  /\ HasRow(d)' => HasRow(d)
  /\ row'[d].status = "ready" => row[d].status = "ready"
  /\ row'[d].status = "deleted" =>
       \/ row[d].status = "deleted"
       \/ create[d].pc \in Past /\ ~Exists(d) /\ ~vol[d]

VolShrinks(d) == VolOf(d) /\ (vol'[d] => vol[d])

\* Nothing at all is the simplest of them.
LEMMA SameShrinks ==
  ASSUME TypeOK, NEW d \in Dbs
  PROVE  /\ row' = row => RowShrinks(d)
         /\ box' = box => BoxShrinks(d)
         /\ vol' = vol => VolShrinks(d)
  BY SameKeeps DEF RowShrinks, VolShrinks, HasRow

\* Removals are others.
LEMMA DropShrinks ==
  ASSUME TypeOK, NEW d \in Dbs
  PROVE  /\ DropBox(d) \/ KeepBox(d) => BoxShrinks(d)
         /\ DropVol(d) => VolShrinks(d)
  BY DropBoxKeeps, DropVolKeeps DEF VolShrinks

\* So is a status other than ready.
LEMMA StatusShrinks ==
  ASSUME TypeOK, NEW d \in Dbs, NEW st \in {"failed", "unavailable"}, SetStatus(d, st)
  PROVE  RowShrinks(d)
  BY SetStatusKeeps DEF RowShrinks, Statuses, HasRow

\* Such a step keeps every database and what is said of its Create.
LEMMA ShrinksKeep ==
  ASSUME IndInv, NEW d \in Dbs, create' = create, now' = now,
         RowShrinks(d), BoxShrinks(d), VolShrinks(d)
  PROVE  \A x \in Dbs : Kept(x) /\ CreateFits(x)'
<1>1. TypeOK /\ CreateFits(d) /\ now \in Nat /\ now <= now'
  BY CreateFacts
<1>2. Kept(d)
  BY DEF Kept, RowShrinks, BoxShrinks, VolShrinks, Referenced
<1>3. CreateFits(d)'
  BY <1>1 DEF CreateFits, RowShrinks, BoxShrinks, VolShrinks
<1>4. ASSUME NEW x \in Dbs \ {d}
      PROVE  Kept(x) /\ CreateFits(x)'
  <2>1. row'[x] = row[x] /\ box'[x] = box[x] /\ vol'[x] = vol[x]
    BY DEF RowShrinks, BoxShrinks, VolShrinks, RowOf, BoxOf, VolOf
  <2>2. QED
    BY <1>1, <2>1, Untouched, FitsUntouched DEF IndInv
<1>5. QED
  BY <1>2, <1>3, <1>4

\* A step that touches no database keeps them all.
LEMMA NothingKeeps ==
  ASSUME IndInv, UNCHANGED <<row, box, vol, create>>, now' \in Nat, now <= now'
  PROVE  \A x \in Dbs : Kept(x) /\ CreateFits(x)'
  BY Untouched, FitsUntouched DEF IndInv

\* The parts of the invariant put together: Deletes and the collection only
\* matter where the step changes them.
LEMMA Assemble ==
  ASSUME IndInv, TypeOK', now <= now',
         \A d \in Dbs : Kept(d) /\ CreateFits(d)',
         \A k \in Deleters : del'[k] = del[k] \/ DeleteFits(k)',
         gc' = gc \/ GcFits', BootFits', RecFits'
  PROVE  IndInv'
<1>1. \A k \in Deleters : DeleteFits(k)'
  BY DeleteKept DEF IndInv
<1>2. GcFits'
  BY GcKept, TypesNext DEF IndInv
<1>3. QED
  BY <1>1, <1>2 DEF IndInv

\* While the server listens, the startup pass is over.
LEMMA Listening ==
  ASSUME boot.pc = "up", boot' = boot
  PROVE  BootFits'
  BY DEF BootFits

----------------------------------------------------------------------------
(* Delete *)

\* What every step of Delete may use.
LEMMA DeleteFacts ==
  ASSUME IndInv, NEW k \in Deleters, del[k].pc # "idle"
  PROVE  /\ TypeOK /\ DeleteFits(k) /\ del \in [Deleters -> Delete] /\ del[k] \in Delete
         /\ del[k].db \in Dbs /\ CreateFits(del[k].db)
         /\ now \in Nat /\ now <= now
  BY Types DEF IndInv, DeleteFits

\* A request that goes on keeps its database; the others stay.
LEMMA ToStepMoves ==
  ASSUME IndInv, NEW k \in Deleters, NEW l \in {"box", "vol", "row"}, ToStep(k, l)
  PROVE  /\ del' \in [Deleters -> Delete] /\ del'[k].pc = l /\ del'[k].db = del[k].db
         /\ \A x \in Deleters \ {k} : del'[x] = del[x]
<1> DEFINE new == [del[k] EXCEPT !.pc = l]
<1>1. del \in [Deleters -> Delete] /\ del[k] \in Delete
  BY Types DEF IndInv
<1>2. new \in Delete /\ new.pc = l /\ new.db = del[k].db
  BY <1>1 DEF Delete
<1>3. del' = [del EXCEPT ![k] = new]
  BY DEF ToStep
<1> HIDE DEF new
<1>4. QED
  BY <1>1, <1>2, <1>3

\* An answered request is idle.
LEMMA AnswerMoves ==
  ASSUME IndInv, NEW k \in Deleters, Answer(k)
  PROVE  /\ del' \in [Deleters -> Delete] /\ DeleteFits(k)'
         /\ \A x \in Deleters \ {k} : del'[x] = del[x]
<1>1. del \in [Deleters -> Delete]
  BY Types DEF IndInv
<1>2. IdleDelete \in Delete /\ IdleDelete.pc = "idle"
  BY DEF IdleDelete, Delete
<1>3. QED
  BY <1>1, <1>2 DEF Answer, DeleteFits

\* A request arrives for a database that has been inserted.
LEMMA DeleteArrivesStep ==
  ASSUME IndInv, NEW k \in Deleters, NEW d \in Dbs, DeleteArrives(k, d)
  PROVE  IndInv'
<1> DEFINE new == [pc |-> "read", db |-> d]
<1>1. TypeOK /\ del \in [Deleters -> Delete] /\ now \in Nat
  BY Types DEF IndInv
<1>2. /\ boot.pc = "up" /\ del' = [del EXCEPT ![k] = new]
      /\ UNCHANGED <<now, faults, row, box, vol, create, boot, rec, gc>>
  BY DEF DeleteArrives, In, shared
<1>3. new \in Delete /\ new.pc = "read" /\ new.db = d
  BY DEF Delete
<1> HIDE DEF new
<1>4. /\ del' \in [Deleters -> Delete] /\ DeleteFits(k)'
      /\ \A x \in Deleters \ {k} : del'[x] = del[x]
  BY <1>1, <1>2, <1>3 DEF DeleteFits
<1>5. TypeOK'
  BY <1>1, <1>2, <1>4, Types, TypesNext
<1>6. \A x \in Dbs : Kept(x) /\ CreateFits(x)'
  BY <1>1, <1>2, NothingKeeps
<1>7. BootFits' /\ RecFits'
  BY <1>2, Listening DEF IndInv, RecFits
<1>8. QED
  BY <1>1, <1>2, <1>4, <1>5, <1>6, <1>7, Assemble

\* Get reads the record: its Create is past its last write to Docker.
LEMMA ReadDatabaseStep ==
  ASSUME IndInv, NEW k \in Deleters, ReadDatabase(k)
  PROVE  IndInv'
<1>1. del[k].pc = "read" /\ boot.pc = "up"
  BY DEF ReadDatabase, In
<1>2. /\ UNCHANGED <<now, faults, row, box, vol, create, boot, rec, gc>>
      /\ IF Readable(del[k].db) THEN ToStep(k, "box") ELSE Answer(k)
  BY DEF ReadDatabase, shared
<1>3. /\ TypeOK /\ del[k].db \in Dbs /\ CreateFits(del[k].db) /\ now \in Nat
      /\ now <= now'
  BY <1>1, <1>2, DeleteFacts
<1>4. /\ del' \in [Deleters -> Delete] /\ DeleteFits(k)'
      /\ \A x \in Deleters \ {k} : del'[x] = del[x]
  <2>1. CASE Answer(k)
    BY <2>1, AnswerMoves
  <2>2. CASE Readable(del[k].db) /\ ToStep(k, "box")
    BY <1>2, <1>3, <2>2, ToStepMoves DEF DeleteFits, Readable, CreateFits
  <2>3. QED
    BY <1>2, <2>1, <2>2
<1>5. TypeOK'
  BY <1>2, <1>3, <1>4, Types, TypesNext
<1>6. \A x \in Dbs : Kept(x) /\ CreateFits(x)'
  BY <1>2, <1>3, NothingKeeps
<1>7. BootFits' /\ RecFits'
  BY <1>1, <1>2, Listening DEF IndInv, RecFits
<1>8. QED
  BY <1>2, <1>3, <1>4, <1>5, <1>6, <1>7, Assemble

\* DeleteContainer, DeleteVolume, DeleteRow: each goes on only when its part
\* of the database is gone, and none of them makes anything.
LEMMA DeletePartsStep ==
  ASSUME IndInv, NEW k \in Deleters,
         DeleteContainer(k) \/ DeleteVolume(k) \/ DeleteRow(k)
  PROVE  IndInv'
<1>1. del[k].pc \in {"box", "vol", "row"} /\ boot.pc = "up"
  BY DEF DeleteContainer, DeleteVolume, DeleteRow, In
<1>2. UNCHANGED <<now, create, boot, rec, gc>>
  BY DEF DeleteContainer, DeleteVolume, DeleteRow
<1>d. PICK d \in Dbs : d = del[k].db
  BY <1>1, DeleteFacts
<1>3. /\ TypeOK /\ CreateFits(d) /\ DeleteFits(k) /\ now \in Nat
      /\ now <= now' /\ create[d].pc \in Past /\ row \in [Dbs -> Row] /\ row[d] \in Row
  <2>1. TypeOK /\ DeleteFits(k) /\ now \in Nat /\ now <= now'
    BY <1>1, <1>2, DeleteFacts
  <2>2. QED
    BY <1>1, <1>d, <2>1, Types DEF DeleteFits, IndInv
<1>4. faults' \in Nat
  BY <1>3, FaultKeeps DEF DeleteContainer, DeleteVolume, DeleteRow
<1>5. BoxShrinks(d)
  BY <1>3, <1>d, SameShrinks, DropShrinks DEF DeleteContainer, DeleteVolume, DeleteRow
<1>6. VolShrinks(d)
  BY <1>3, <1>d, SameShrinks, DropShrinks DEF DeleteContainer, DeleteVolume, DeleteRow
<1>7. RowShrinks(d)
  <2>1. CASE row' = row
    BY <1>3, <2>1, SameShrinks
  <2>2. CASE /\ del[k].pc = "row" /\ HasRow(d)
             /\ row' = [row EXCEPT ![d].status = "deleted", ![d].container = FALSE]
    <3> DEFINE new == [row[d] EXCEPT !.status = "deleted", !.container = FALSE]
    <3>1. new \in Row /\ new.status = "deleted" /\ ~new.container
      BY <1>3, Zenon DEF Row
    <3>2. row' = [row EXCEPT ![d] = new]
      BY <2>2
    <3> HIDE DEF new
    <3>3. row' \in [Dbs -> Row] /\ row'[d] = new /\ \A x \in Dbs \ {d} : row'[x] = row[x]
      BY <1>3, <3>1, <3>2
    <3>4. QED
      BY <1>3, <1>d, <2>2, <3>1, <3>3 DEF RowShrinks, RowOf, HasRow, Statuses, DeleteFits
  <2>3. QED
    BY <1>d, <2>1, <2>2 DEF DeleteContainer, DeleteVolume, DeleteRow, In
<1>8. /\ del' \in [Deleters -> Delete] /\ DeleteFits(k)'
      /\ \A x \in Deleters \ {k} : del'[x] = del[x]
  <2>1. CASE Answer(k)
    BY <2>1, AnswerMoves
  <2>2. CASE DeleteContainer(k) /\ DropBox(d) /\ ToStep(k, "vol")
    <3>1. ~Exists(d)'
      BY <1>3, <2>2, DropBoxKeeps
    <3>2. /\ del' \in [Deleters -> Delete] /\ del'[k].pc = "vol" /\ del'[k].db = d
          /\ \A x \in Deleters \ {k} : del'[x] = del[x]
      BY <1>d, <2>2, ToStepMoves
    <3>3. QED
      BY <1>2, <1>3, <3>1, <3>2 DEF DeleteFits, Exists
  <2>3. CASE /\ DeleteVolume(k) /\ DropVol(d) /\ ToStep(k, "row")
             /\ ~(vol[d] /\ Exists(d))
    <3>1. ~Exists(d)' /\ ~vol'[d]
      BY <1>3, <1>d, <2>3, DropVolKeeps DEF DeleteVolume, In, DeleteFits, Exists
    <3>2. /\ del' \in [Deleters -> Delete] /\ del'[k].pc = "row" /\ del'[k].db = d
          /\ \A x \in Deleters \ {k} : del'[x] = del[x]
      BY <1>d, <2>3, ToStepMoves
    <3>3. QED
      BY <1>2, <1>3, <3>1, <3>2 DEF DeleteFits, Exists
  <2>4. QED
    BY <1>d, <2>1, <2>2, <2>3 DEF DeleteContainer, DeleteVolume, DeleteRow
<1>9. TypeOK'
  BY <1>2, <1>3, <1>4, <1>5, <1>6, <1>7, <1>8, Types, TypesNext
     DEF BoxShrinks, BoxOf, VolShrinks, VolOf, RowShrinks, RowOf
<1>10. \A x \in Dbs : Kept(x) /\ CreateFits(x)'
  BY <1>2, <1>3, <1>5, <1>6, <1>7, ShrinksKeep
<1>11. BootFits' /\ RecFits'
  BY <1>1, <1>2, Listening DEF IndInv, RecFits
<1>12. QED
  BY <1>2, <1>3, <1>8, <1>9, <1>10, <1>11, Assemble

----------------------------------------------------------------------------
(* ReconcileStale *)

\* A step of the startup pass: rec and gc are idle, no Create and no Delete is
\* touched, and what it changes belongs to one database.
LEMMA BootPreserves ==
  ASSUME IndInv, boot' \in Boot, BootFits', faults' \in Nat, NEW d \in Dbs,
         UNCHANGED <<now, create, del, rec, gc>>,
         RowShrinks(d), BoxShrinks(d), VolShrinks(d)
  PROVE  IndInv'
<1>1. TypeOK /\ now \in Nat /\ now <= now'
  BY Types DEF IndInv
<1>2. TypeOK'
  BY <1>1, Types, TypesNext
     DEF BoxShrinks, BoxOf, VolShrinks, VolOf, RowShrinks, RowOf
<1>3. \A x \in Dbs : Kept(x) /\ CreateFits(x)'
  BY ShrinksKeep
<1>4. RecFits'
  BY DEF IndInv, RecFits
<1>5. QED
  BY <1>1, <1>2, <1>3, <1>4, Assemble

\* The same for a step that changes no database.
LEMMA BootOnly ==
  ASSUME IndInv, boot' \in Boot, BootFits', faults' \in Nat,
         UNCHANGED <<now, row, box, vol, create, del, rec, gc>>
  PROVE  IndInv'
<1>1. TypeOK /\ now \in Nat /\ now <= now'
  BY Types DEF IndInv
<1>2. TypeOK'
  BY <1>1, Types, TypesNext
<1>3. \A x \in Dbs : Kept(x) /\ CreateFits(x)'
  BY <1>1, NothingKeeps
<1>4. RecFits'
  BY DEF IndInv, RecFits
<1>5. QED
  BY <1>1, <1>2, <1>3, <1>4, Assemble

\* SelectStale lists provisioning databases, or gives up.
LEMMA SelectStaleStep ==
  ASSUME IndInv, SelectStale
  PROVE  IndInv'
<1>1. /\ TypeOK /\ boot \in Boot /\ BootFits /\ boot.pc = "select"
      /\ UNCHANGED <<now, row, box, vol, create, del, rec, gc>>
  BY Types DEF IndInv, SelectStale
<1>2. faults' \in Nat
  BY <1>1, FaultKeeps DEF SelectStale
<1>3. boot' \in Boot /\ BootFits'
  <2>1. CASE boot' = [boot EXCEPT !.pc = "up"]
    <3>1. boot' \in Boot /\ boot'.pc = "up"
      BY <1>1, <2>1 DEF Boot
    <3>2. QED
      BY <3>1 DEF BootFits
  <2>2. CASE boot' = [boot EXCEPT !.pc = "mark", !.todo =
               {d \in Dbs : row[d].status = "provisioning" /\ Readable(d)}]
    <3> DEFINE t == {d \in Dbs : row[d].status = "provisioning" /\ Readable(d)}
    <3>1. t \in SUBSET Dbs /\ \A d \in t : row[d].status = "provisioning"
      OBVIOUS
    <3> HIDE DEF t
    <3>2. boot' = [boot EXCEPT !.pc = "mark", !.todo = t]
      BY <2>2 DEF t
    <3>3. boot' \in Boot /\ boot'.pc = "mark" /\ boot'.todo = t /\ boot'.db = boot.db
      BY <1>1, <3>1, <3>2 DEF Boot
    <3>4. boot.db = None
      BY <1>1 DEF IndInv, BootFits
    <3>5. QED
      BY <1>1, <3>1, <3>3, <3>4 DEF BootFits
  <2>3. QED
    BY <2>1, <2>2 DEF SelectStale
<1>4. QED
  BY <1>1, <1>2, <1>3, BootOnly

\* NextStale takes the next one, or the pass is over.
LEMMA NextStaleStep ==
  ASSUME IndInv, NextStale
  PROVE  IndInv'
<1>1. /\ TypeOK /\ boot \in Boot /\ BootFits /\ boot.pc = "mark" /\ boot.db = None
      /\ UNCHANGED <<now, faults, row, box, vol, create, del, rec, gc>>
  BY Types DEF IndInv, NextStale, shared
<1>2. boot' \in Boot /\ BootFits'
  <2>1. CASE boot' = [boot EXCEPT !.pc = "up"]
    <3>1. boot' \in Boot /\ boot'.pc = "up"
      BY <1>1, <2>1 DEF Boot
    <3>2. QED
      BY <3>1 DEF BootFits
  <2>2. ASSUME NEW d \in boot.todo,
               boot' = [pc |-> "box", todo |-> boot.todo \ {d}, db |-> d]
        PROVE  boot' \in Boot /\ BootFits'
    <3>1. d \in Dbs /\ boot.todo \in SUBSET Dbs /\ row[d].status = "provisioning"
      BY <1>1 DEF Boot, BootFits
    <3>2. /\ boot' \in Boot /\ boot'.pc = "box" /\ boot'.todo = boot.todo \ {d}
          /\ boot'.db = d /\ d # None
      BY <2>2, <3>1, DatabasesAssumption DEF Boot
    <3>3. QED
      BY <1>1, <3>1, <3>2 DEF BootFits
  <2>3. QED
    BY <2>1, <2>2 DEF NextStale
<1>3. QED
  BY <1>1, <1>2, BootOnly, Types

\* DropStaleBox and DropStaleVol act on a database that is provisioning.
LEMMA DropStaleStep ==
  ASSUME IndInv, DropStaleBox \/ DropStaleVol
  PROVE  IndInv'
<1>1. /\ TypeOK /\ boot \in Boot /\ BootFits /\ boot.pc \in {"box", "vol"}
      /\ UNCHANGED <<now, row, create, del, rec, gc>>
  BY Types DEF IndInv, DropStaleBox, DropStaleVol
<1>2. PICK d \in Dbs : d = boot.db
  BY <1>1 DEF BootFits, Boot
<1>3. faults' \in Nat
  BY <1>1, FaultKeeps DEF DropStaleBox, DropStaleVol
<1>4. RowShrinks(d) /\ BoxShrinks(d) /\ VolShrinks(d)
  BY <1>1, <1>2, SameShrinks, DropShrinks DEF DropStaleBox, DropStaleVol
<1>5. PICK l \in {"vol", "mark"} : boot' = [boot EXCEPT !.pc = l]
  BY DEF DropStaleBox, DropStaleVol
<1>6. /\ boot' \in Boot /\ boot'.pc = l /\ boot'.todo = boot.todo /\ boot'.db = boot.db
  BY <1>1, <1>5 DEF Boot
<1>7. BootFits'
  BY <1>1, <1>6 DEF BootFits
<1>8. QED
  BY <1>1, <1>3, <1>4, <1>6, <1>7, BootPreserves

\* MarkStale fails the one it has cleaned up.
LEMMA MarkStaleStep ==
  ASSUME IndInv, MarkStale
  PROVE  IndInv'
<1>1. /\ TypeOK /\ boot \in Boot /\ BootFits /\ boot.pc = "mark" /\ boot.db # None
      /\ UNCHANGED <<now, box, vol, create, del, rec, gc>>
      /\ boot' = [boot EXCEPT !.db = None]
  BY Types DEF IndInv, MarkStale
<1>2. PICK d \in Dbs : d = boot.db
  BY <1>1 DEF Boot
<1>3. faults' \in Nat
  BY <1>1, FaultKeeps DEF MarkStale
<1>4. RowShrinks(d) /\ BoxShrinks(d) /\ VolShrinks(d)
  BY <1>1, <1>2, SameShrinks, StatusShrinks DEF MarkStale
<1>5. /\ boot' \in Boot /\ boot'.pc = "mark" /\ boot'.todo = boot.todo /\ boot'.db = None
  BY <1>1 DEF Boot
<1>6. BootFits'
  <2>1. \A x \in boot.todo : x \in Dbs /\ x # d
    BY <1>1, <1>2 DEF BootFits, Boot
  <2>2. \A x \in boot.todo : row'[x] = row[x]
    BY <1>4, <2>1 DEF RowShrinks, RowOf
  <2>3. QED
    BY <1>1, <1>5, <2>2 DEF BootFits
<1>7. QED
  BY <1>1, <1>3, <1>4, <1>5, <1>6, BootPreserves

----------------------------------------------------------------------------
(* Step 3 of the reconciler *)

\* SelectReady and InspectReady change the pass only.
LEMMA InspectStep ==
  ASSUME IndInv, SelectReady \/ InspectReady
  PROVE  IndInv'
<1>1. /\ TypeOK /\ rec \in Rec /\ now \in Nat /\ now <= now'
      /\ UNCHANGED <<now, row, box, vol, create, del, boot, gc>>
  <2>1. UNCHANGED <<now, row, box, vol, create, del, boot, gc>>
    BY DEF SelectReady, InspectReady, shared
  <2>2. QED
    BY <2>1, Types DEF IndInv
<1>2. faults' \in Nat
  BY <1>1, FaultKeeps DEF SelectReady, InspectReady, shared
<1>3. boot.pc = "up"
  BY DEF SelectReady, InspectReady, IndInv, BootFits
<1>4. rec' \in Rec /\ RecFits'
  <2>0. IdleRec \in Rec /\ IdleRec.db = None
    BY DEF IdleRec, Rec
  <2>1. CASE SelectReady
    <3> DEFINE t == {d \in Dbs : row[d].status = "ready" /\ row[d].container}
    <3>1. t \in SUBSET Dbs
      OBVIOUS
    <3> HIDE DEF t
    <3>2. rec' = [IdleRec EXCEPT !.busy = TRUE, !.todo = t]
      BY <2>1 DEF SelectReady, t
    <3>3. rec' \in Rec /\ rec'.db = IdleRec.db
      BY <2>0, <3>1, <3>2, Zenon DEF Rec
    <3>4. QED
      BY <2>0, <3>3 DEF RecFits
  <2>2. CASE rec' = IdleRec
    BY <2>0, <2>2 DEF RecFits
  <2>3. CASE \E d \in rec.todo, x \in Dbs \cup {None} :
               rec.busy /\ rec' = [rec EXCEPT !.todo = rec.todo \ {d}, !.db = x]
    <3>1. PICK d \in rec.todo, x \in Dbs \cup {None} :
               rec.busy /\ rec' = [rec EXCEPT !.todo = rec.todo \ {d}, !.db = x]
      BY <2>3
    <3>2. rec.todo \ {d} \in SUBSET Dbs
      BY <1>1 DEF Rec
    <3>3. rec' \in Rec /\ rec'.busy = rec.busy
      BY <1>1, <3>1, <3>2, Zenon DEF Rec
    <3>4. QED
      BY <3>1, <3>3 DEF RecFits
  <2>4. CASE \E d \in rec.todo : rec.busy /\ rec' = [rec EXCEPT !.todo = rec.todo \ {d}]
    <3>1. PICK d \in rec.todo : rec.busy /\ rec' = [rec EXCEPT !.todo = rec.todo \ {d}]
      BY <2>4
    <3>2. rec.todo \ {d} \in SUBSET Dbs
      BY <1>1 DEF Rec
    <3>3. rec' \in Rec /\ rec'.busy = rec.busy
      BY <1>1, <3>1, <3>2, Zenon DEF Rec
    <3>4. QED
      BY <3>1, <3>3 DEF RecFits
  <2>5. CASE InspectReady
    <3>1. rec.todo \subseteq Dbs
      BY <1>1 DEF Rec
    <3>2. CASE rec.todo = {} /\ rec' = IdleRec
      BY <2>2, <3>2
    <3>3. ASSUME NEW d \in rec.todo,
                 rec' = [rec EXCEPT !.todo = @ \ {d}, !.db = IF Exists(d) THEN None ELSE d]
          PROVE  rec' \in Rec /\ RecFits'
      <4>1. (IF Exists(d) THEN None ELSE d) \in Dbs \cup {None}
        BY <3>1
      <4>2. QED
        BY <2>3, <2>5, <3>3, <4>1 DEF InspectReady
    <3>4. ASSUME NEW d \in rec.todo, rec' = [rec EXCEPT !.todo = @ \ {d}]
          PROVE  rec' \in Rec /\ RecFits'
      BY <2>4, <2>5, <3>4 DEF InspectReady
    <3>5. QED
      BY <2>5, <3>2, <3>3, <3>4 DEF InspectReady
  <2>6. QED
    BY <2>1, <2>5
<1>5. TypeOK'
  BY <1>1, <1>2, <1>4, Types, TypesNext
<1>6. \A x \in Dbs : Kept(x) /\ CreateFits(x)'
  BY <1>1, NothingKeeps
<1>7. BootFits'
  BY <1>1, <1>3, Listening
<1>8. QED
  BY <1>1, <1>4, <1>5, <1>6, <1>7, Assemble

\* MarkUnavailable makes no row ready.
LEMMA MarkUnavailableStep ==
  ASSUME IndInv, MarkUnavailable
  PROVE  IndInv'
<1>1. /\ TypeOK /\ rec \in Rec /\ now \in Nat /\ rec.db # None /\ rec.busy
      /\ UNCHANGED <<now, box, vol, create, del, boot, gc>>
      /\ rec' = [rec EXCEPT !.db = None]
  BY Types DEF IndInv, MarkUnavailable, RecFits
<1>2. PICK d \in Dbs : d = rec.db
  BY <1>1 DEF Rec
<1>3. faults' \in Nat
  BY <1>1, FaultKeeps DEF MarkUnavailable
<1>4. RowShrinks(d) /\ BoxShrinks(d) /\ VolShrinks(d)
  BY <1>1, <1>2, SameShrinks, StatusShrinks DEF MarkUnavailable
<1>5. rec' \in Rec /\ rec'.db = None
  BY <1>1, Zenon DEF Rec
<1>6. TypeOK'
  BY <1>1, <1>3, <1>4, <1>5, Types, TypesNext
     DEF BoxShrinks, BoxOf, VolShrinks, VolOf, RowShrinks, RowOf
<1>7. \A x \in Dbs : Kept(x) /\ CreateFits(x)'
  BY <1>1, <1>4, ShrinksKeep
<1>8. BootFits' /\ RecFits'
  BY <1>1, <1>5, Listening DEF IndInv, BootFits, RecFits
<1>9. QED
  BY <1>1, <1>6, <1>7, <1>8, Assemble

----------------------------------------------------------------------------
(* The collector *)

\* A step of the collector that changes no database.
LEMMA GcOnly ==
  ASSUME IndInv, gc' \in Gc, GcFits', faults' \in Nat, boot.pc = "up",
         UNCHANGED <<now, row, box, vol, create, del, boot, rec>>
  PROVE  IndInv'
<1>1. TypeOK /\ now \in Nat /\ now <= now'
  BY Types DEF IndInv
<1>2. TypeOK'
  BY <1>1, Types, TypesNext
<1>3. \A x \in Dbs : Kept(x) /\ CreateFits(x)'
  BY <1>1, NothingKeeps
<1>4. BootFits' /\ RecFits'
  BY Listening DEF IndInv, RecFits
<1>5. QED
  BY <1>1, <1>2, <1>3, <1>4, Assemble

\* What every step of a collection under way may use.
LEMMA GcFacts ==
  ASSUME IndInv
  PROVE  /\ TypeOK /\ gc \in Gc /\ GcFits /\ now \in Nat /\ gc.at \in Nat
         /\ gc.todo \in SUBSET Dbs /\ gc.batch \in SUBSET Dbs
         /\ gc.pc # "idle" => boot.pc = "up"
  BY Types DEF IndInv, Gc, BootFits

\* The list of containers is taken at the current time.
LEMMA ListBoxesStep ==
  ASSUME IndInv, ListBoxes
  PROVE  IndInv'
<1> DEFINE t == {d \in Dbs : Exists(d)}
<1>1. /\ TypeOK /\ now \in Nat /\ boot.pc = "up"
      /\ UNCHANGED <<now, faults, row, box, vol, create, del, boot, rec>>
      /\ gc' = [pc |-> "boxes", todo |-> t, at |-> now, batch |-> {}]
  BY GcFacts DEF ListBoxes, shared
<1>2. t \in SUBSET Dbs
  OBVIOUS
<1> HIDE DEF t
<1>3. gc' \in Gc /\ gc'.pc = "boxes" /\ gc'.at = now /\ gc'.batch = {}
  BY <1>1, <1>2 DEF Gc
<1>4. GcFits'
  BY <1>1, <1>3 DEF GcFits
<1>5. QED
  BY <1>1, <1>3, <1>4, GcOnly, Types

\* A container old enough when it was listed belongs to a request that is over.
LEMMA OldEnoughIsOver ==
  ASSUME IndInv, NEW d \in Dbs, Exists(d), OldEnough(d, gc.at)
  PROVE  create[d].pc \notin Early /\ ~Live(d)
<1>1. /\ CreateFits(d) /\ box[d] \in Box /\ create[d] \in Create
      /\ now \in Nat /\ gc.at \in Nat /\ gc.at <= now
  BY CreateFacts, GcFacts DEF GcFits
<1>2. /\ box[d].st # "none"
      /\ create[d].start \in Nat /\ box[d].createdAt \in Nat
      /\ RequestTimeout \in Nat /\ MinResourceAge \in Nat
      /\ RequestTimeout <= MinResourceAge
  BY <1>1, DatabasesAssumption DEF Exists, BoxStates, Create, Box
<1>3. create[d].pc \in Past \cup {"start", "record"} /\ create[d].start <= box[d].createdAt
  BY <1>1, <1>2 DEF CreateFits
<1>4. create[d].start + RequestTimeout <= now
  BY <1>1, <1>2, <1>3 DEF OldEnough
<1>5. QED
  BY <1>1, <1>2, <1>3, <1>4 DEF Live, Past, Early

\* CheckBox adds a container to the batch that nobody names or will name.
LEMMA CheckBoxStep ==
  ASSUME IndInv, CheckBox
  PROVE  IndInv'
<1>1. /\ TypeOK /\ gc \in Gc /\ GcFits /\ gc.pc = "boxes" /\ boot.pc = "up"
      /\ gc.todo \in SUBSET Dbs /\ gc.batch \in SUBSET Dbs
      /\ UNCHANGED <<now, row, box, vol, create, del, boot, rec>>
  BY GcFacts DEF CheckBox
<1>2. faults' \in Nat
  BY <1>1, FaultKeeps DEF CheckBox
<1>3. ASSUME NEW l \in {"boxes", "removeBoxes"}, NEW t \in SUBSET Dbs,
             NEW b \in SUBSET Dbs,
             \A d \in b : ~Referenced(d) /\ create[d].pc \notin Early /\ ~Live(d),
             gc' = [gc EXCEPT !.pc = l, !.todo = t, !.batch = b]
      PROVE  gc' \in Gc /\ GcFits'
  <2>1. gc' \in Gc /\ gc'.pc = l /\ gc'.batch = b /\ gc'.at = gc.at
    BY <1>1, <1>3 DEF Gc
  <2>2. \A d \in b : ~Referenced(d)' /\ create'[d].pc \notin Early /\ ~Live(d)'
    BY <1>1, <1>3 DEF Referenced, HasRow, Live
  <2>3. QED
    BY <1>1, <2>1, <2>2 DEF GcFits
<1>4. \A d \in gc.batch : ~Referenced(d) /\ create[d].pc \notin Early /\ ~Live(d)
  BY <1>1 DEF GcFits
<1>5. CASE gc' = [gc EXCEPT !.pc = "removeBoxes"]
  <2>1. gc' = [gc EXCEPT !.pc = "removeBoxes", !.todo = gc.todo, !.batch = gc.batch]
    BY <1>1, <1>5, Zenon DEF Gc
  <2>2. gc' \in Gc /\ GcFits'
    BY <1>1, <1>3, <1>4, <2>1
  <2>3. QED
    BY <1>1, <1>2, <2>2, GcOnly
<1>6. ASSUME NEW d \in gc.todo,
             gc' = [gc EXCEPT !.todo = @ \ {d}, !.batch =
                      IF Exists(d) /\ OldEnough(d, gc.at) /\ ~Referenced(d)
                        THEN @ \cup {d} ELSE @]
      PROVE  IndInv'
  <2> DEFINE t == gc.todo \ {d}
             b == IF Exists(d) /\ OldEnough(d, gc.at) /\ ~Referenced(d)
                    THEN gc.batch \cup {d} ELSE gc.batch
  <2>1. /\ t \in SUBSET Dbs /\ b \in SUBSET Dbs
        /\ \A x \in b : ~Referenced(x) /\ create[x].pc \notin Early /\ ~Live(x)
    BY <1>1, <1>4, OldEnoughIsOver
  <2>2. gc' = [gc EXCEPT !.todo = t, !.batch = b]
    BY <1>6
  <2> HIDE DEF t, b
  <2>3. gc' = [gc EXCEPT !.pc = "boxes", !.todo = t, !.batch = b]
    BY <1>1, <2>2, Zenon DEF Gc
  <2>4. gc' \in Gc /\ GcFits'
    BY <1>3, <2>1, <2>3
  <2>5. QED
    BY <1>1, <1>2, <2>4, GcOnly
<1>7. ASSUME NEW d \in gc.todo, gc' = [gc EXCEPT !.todo = @ \ {d}]
      PROVE  IndInv'
  <2> DEFINE t == gc.todo \ {d}
  <2>1. t \in SUBSET Dbs
    BY <1>1
  <2>2. gc' = [gc EXCEPT !.todo = t]
    BY <1>7
  <2> HIDE DEF t
  <2>3. gc' = [gc EXCEPT !.pc = "boxes", !.todo = t, !.batch = gc.batch]
    BY <1>1, <2>2, Zenon DEF Gc
  <2>4. gc' \in Gc /\ GcFits'
    BY <1>1, <1>3, <1>4, <2>1, <2>3
  <2>5. QED
    BY <1>1, <1>2, <2>4, GcOnly
<1>8. QED
  BY <1>5, <1>6, <1>7 DEF CheckBox

\* RemoveOrphans removes containers of its batch; the volumes it lists next
\* belong to Creates that have a row already.
LEMMA RemoveOrphansStep ==
  ASSUME IndInv, RemoveOrphans
  PROVE  IndInv'
<1>1. /\ TypeOK /\ gc \in Gc /\ GcFits /\ gc.pc = "removeBoxes" /\ boot.pc = "up"
      /\ gc.todo \in SUBSET Dbs /\ gc.batch \in SUBSET Dbs /\ now \in Nat /\ now <= now'
      /\ UNCHANGED <<now, row, vol, create, del, boot, rec>>
  <2>1. UNCHANGED <<now, row, vol, create, del, boot, rec>> /\ gc.pc = "removeBoxes"
    BY DEF RemoveOrphans
  <2>2. QED
    BY <2>1, GcFacts
<1>2. faults' \in Nat
  BY <1>1, FaultKeeps DEF RemoveOrphans
<1>3. CASE /\ gc.batch = {} /\ UNCHANGED <<box, faults>>
           /\ gc' = [gc EXCEPT !.pc = "vols", !.todo = {d \in Dbs : vol[d]}]
  <2> DEFINE t == {d \in Dbs : vol[d]}
  <2>1. t \in SUBSET Dbs /\ \A d \in t : create[d].pc \notin Early
    BY CreateFacts DEF CreateFits
  <2>2. gc' = [gc EXCEPT !.pc = "vols", !.todo = t]
    BY <1>3
  <2> HIDE DEF t
  <2>3. /\ gc' \in Gc /\ gc'.pc = "vols" /\ gc'.todo = t /\ gc'.batch = {}
        /\ gc'.at = gc.at
    BY <1>1, <1>3, <2>1, <2>2 DEF Gc
  <2>4. GcFits'
    BY <1>1, <2>1, <2>3 DEF GcFits
  <2>5. QED
    BY <1>1, <1>2, <1>3, <2>3, <2>4, GcOnly
<1>4. ASSUME NEW d \in gc.batch, DropBox(d) \/ KeepBox(d),
             gc' = [gc EXCEPT !.batch = @ \ {d}]
      PROVE  IndInv'
  <2>1. d \in Dbs /\ gc.batch \ {d} \in SUBSET Dbs
    BY <1>1
  <2>2. /\ gc' \in Gc /\ gc'.pc = "removeBoxes" /\ gc'.batch = gc.batch \ {d}
        /\ gc'.at = gc.at
    BY <1>1, <1>4, <2>1 DEF Gc
  <2>3. RowShrinks(d) /\ BoxShrinks(d) /\ VolShrinks(d)
    BY <1>1, <1>4, <2>1, SameShrinks, DropShrinks
  <2>4. \A x \in Dbs : Kept(x) /\ CreateFits(x)'
    BY <1>1, <2>1, <2>3, ShrinksKeep
  <2>5. TypeOK'
    BY <1>1, <1>2, <2>2, <2>3, Types, TypesNext DEF BoxShrinks, BoxOf
  <2>6. GcFits'
    <3>1. \A x \in gc.batch :
            ~Referenced(x)' /\ create'[x].pc \notin Early /\ ~Live(x)'
      BY <1>1 DEF GcFits, Referenced, HasRow, Live
    <3>2. QED
      BY <1>1, <2>2, <3>1 DEF GcFits
  <2>7. BootFits' /\ RecFits'
    BY <1>1, Listening DEF IndInv, RecFits
  <2>8. QED
    BY <1>1, <2>4, <2>5, <2>6, <2>7, Assemble
<1>5. QED
  BY <1>3, <1>4 DEF RemoveOrphans

\* CheckVolume adds a volume to the batch that has no row and will get none.
LEMMA CheckVolumeStep ==
  ASSUME IndInv, CheckVolume
  PROVE  IndInv'
<1>1. /\ TypeOK /\ gc \in Gc /\ GcFits /\ gc.pc = "vols" /\ boot.pc = "up"
      /\ gc.todo \in SUBSET Dbs /\ gc.batch \in SUBSET Dbs
      /\ UNCHANGED <<now, row, box, vol, create, del, boot, rec>>
  BY GcFacts DEF CheckVolume
<1>2. faults' \in Nat
  BY <1>1, FaultKeeps DEF CheckVolume
<1>3. ASSUME NEW l \in {"vols", "removeVols"}, NEW t \in SUBSET gc.todo,
             NEW b \in SUBSET Dbs,
             \A d \in b : ~HasRow(d) /\ create[d].pc \notin Early,
             gc' = [gc EXCEPT !.pc = l, !.todo = t, !.batch = b]
      PROVE  IndInv'
  <2>1. /\ gc' \in Gc /\ gc'.pc = l /\ gc'.batch = b /\ gc'.at = gc.at
        /\ gc'.todo = t
    BY <1>1, <1>3 DEF Gc
  <2>2. \A d \in b : ~HasRow(d)' /\ create'[d].pc \notin Early
    BY <1>1, <1>3 DEF HasRow
  <2>3. GcFits'
    BY <1>1, <2>1, <2>2 DEF GcFits
  <2>4. QED
    BY <1>1, <1>2, <2>1, <2>3, GcOnly
<1>4. \A d \in gc.batch : ~HasRow(d) /\ create[d].pc \notin Early
  BY <1>1 DEF GcFits
<1>5. CASE gc' = [gc EXCEPT !.pc = "removeVols"]
  <2>1. gc' = [gc EXCEPT !.pc = "removeVols", !.todo = gc.todo, !.batch = gc.batch]
    BY <1>1, <1>5, Zenon DEF Gc
  <2>2. QED
    BY <1>1, <1>3, <1>4, <2>1
<1>6. ASSUME NEW d \in gc.todo,
             gc' = [gc EXCEPT !.todo = @ \ {d},
                              !.batch = IF HasRow(d) THEN @ ELSE @ \cup {d}]
      PROVE  IndInv'
  <2> DEFINE t == gc.todo \ {d}
             b == IF HasRow(d) THEN gc.batch ELSE gc.batch \cup {d}
  <2>1. /\ t \in SUBSET gc.todo /\ b \in SUBSET Dbs
        /\ \A x \in b : ~HasRow(x) /\ create[x].pc \notin Early
    BY <1>1, <1>4 DEF GcFits
  <2>2. gc' = [gc EXCEPT !.todo = t, !.batch = b]
    BY <1>6
  <2> HIDE DEF t, b
  <2>3. gc' = [gc EXCEPT !.pc = "vols", !.todo = t, !.batch = b]
    BY <1>1, <2>2, Zenon DEF Gc
  <2>4. QED
    BY <1>3, <2>1, <2>3
<1>7. ASSUME NEW d \in gc.todo, gc' = [gc EXCEPT !.todo = @ \ {d}]
      PROVE  IndInv'
  <2> DEFINE t == gc.todo \ {d}
  <2>1. t \in SUBSET gc.todo
    BY <1>1
  <2>2. gc' = [gc EXCEPT !.todo = t]
    BY <1>7
  <2> HIDE DEF t
  <2>3. gc' = [gc EXCEPT !.pc = "vols", !.todo = t, !.batch = gc.batch]
    BY <1>1, <2>2, Zenon DEF Gc
  <2>4. QED
    BY <1>1, <1>3, <1>4, <2>1, <2>3
<1>8. QED
  BY <1>5, <1>6, <1>7 DEF CheckVolume

\* RemoveVolumes removes volumes of its batch.
LEMMA RemoveVolumesStep ==
  ASSUME IndInv, RemoveVolumes
  PROVE  IndInv'
<1>1. /\ TypeOK /\ gc \in Gc /\ GcFits /\ gc.pc = "removeVols" /\ boot.pc = "up"
      /\ gc.todo \in SUBSET Dbs /\ gc.batch \in SUBSET Dbs /\ now \in Nat /\ now <= now'
      /\ UNCHANGED <<now, row, box, create, del, boot, rec>>
  <2>1. UNCHANGED <<now, row, box, create, del, boot, rec>> /\ gc.pc = "removeVols"
    BY DEF RemoveVolumes
  <2>2. QED
    BY <2>1, GcFacts
<1>2. faults' \in Nat
  BY <1>1, FaultKeeps DEF RemoveVolumes
<1>3. CASE gc' = IdleGc /\ UNCHANGED <<vol, faults>>
  <2>1. IdleGc \in Gc /\ IdleGc.pc = "idle" /\ IdleGc.at = 0
    BY DEF IdleGc, Gc
  <2>2. GcFits'
    BY <1>1, <1>3, <2>1 DEF GcFits
  <2>3. QED
    BY <1>1, <1>2, <1>3, <2>1, <2>2, GcOnly
<1>4. ASSUME NEW d \in gc.batch, DropVol(d) \/ vol' = vol,
             gc' = [gc EXCEPT !.batch = @ \ {d}]
      PROVE  IndInv'
  <2>1. d \in Dbs /\ gc.batch \ {d} \in SUBSET Dbs
    BY <1>1
  <2>2. /\ gc' \in Gc /\ gc'.pc = "removeVols" /\ gc'.batch = gc.batch \ {d}
        /\ gc'.at = gc.at
    BY <1>1, <1>4, <2>1 DEF Gc
  <2>3. RowShrinks(d) /\ BoxShrinks(d) /\ VolShrinks(d)
    BY <1>1, <1>4, <2>1, SameShrinks, DropShrinks
  <2>4. \A x \in Dbs : Kept(x) /\ CreateFits(x)'
    BY <1>1, <2>1, <2>3, ShrinksKeep
  <2>5. TypeOK'
    BY <1>1, <1>2, <2>2, <2>3, Types, TypesNext DEF VolShrinks, VolOf
  <2>6. GcFits'
    <3>1. \A x \in gc.batch : ~HasRow(x)' /\ create'[x].pc \notin Early
      BY <1>1 DEF GcFits, HasRow
    <3>2. QED
      BY <1>1, <2>2, <3>1 DEF GcFits
  <2>7. BootFits' /\ RecFits'
    BY <1>1, Listening DEF IndInv, RecFits
  <2>8. QED
    BY <1>1, <2>4, <2>5, <2>6, <2>7, Assemble
<1>5. QED
  BY <1>3, <1>4 DEF RemoveVolumes

----------------------------------------------------------------------------
(* The environment *)

\* Time passes.
LEMMA TickStep ==
  ASSUME IndInv, Tick
  PROVE  IndInv'
<1>1. /\ TypeOK /\ now \in Nat /\ now' = now + 1
      /\ UNCHANGED <<faults, row, box, vol, create, del, boot, rec, gc>>
  BY Types DEF IndInv, Tick
<1>2. now' \in Nat /\ now <= now'
  BY <1>1
<1>3. TypeOK'
  BY <1>1, <1>2, Types, TypesNext
<1>4. \A x \in Dbs : Kept(x) /\ CreateFits(x)'
  BY <1>1, <1>2, NothingKeeps
<1>5. BootFits' /\ RecFits'
  BY <1>1 DEF IndInv, BootFits, RecFits
<1>6. QED
  BY <1>1, <1>2, <1>3, <1>4, <1>5, Assemble

\* A container exits, or Docker restarts it.
LEMMA BoxStep ==
  ASSUME IndInv, NEW d \in Dbs, BoxExits(d) \/ BoxRestarts(d)
  PROVE  IndInv'
<1>1. /\ TypeOK /\ now \in Nat /\ now <= now'
      /\ UNCHANGED <<now, row, vol, create, del, boot, rec, gc>>
  <2>1. UNCHANGED <<now, row, vol, create, del, boot, rec, gc>>
    BY DEF BoxExits, BoxRestarts
  <2>2. QED
    BY <2>1, Types DEF IndInv
<1>2. faults' \in Nat
  BY <1>1, FaultKeeps DEF BoxExits, BoxRestarts
<1>3. BoxShrinks(d) /\ RowShrinks(d) /\ VolShrinks(d)
  BY <1>1, SetBox, SameShrinks DEF BoxExits, BoxRestarts, Exists, BoxStates
<1>4. TypeOK'
  BY <1>1, <1>2, <1>3, Types, TypesNext DEF BoxShrinks, BoxOf
<1>5. \A x \in Dbs : Kept(x) /\ CreateFits(x)'
  BY <1>1, <1>3, ShrinksKeep
<1>6. BootFits' /\ RecFits'
  BY <1>1 DEF IndInv, BootFits, RecFits
<1>7. QED
  BY <1>1, <1>4, <1>5, <1>6, Assemble

\* The process restarts: every Create under way is over, and main() begins
\* again with the startup pass.
LEMMA RestartStep ==
  ASSUME IndInv, ProcessRestarts
  PROVE  IndInv'
<1>1. /\ TypeOK /\ now \in Nat /\ now <= now' /\ create \in [Dbs -> Create]
      /\ UNCHANGED <<now, row, box, vol>>
      /\ del' = [k \in Deleters |-> IdleDelete]
      /\ boot' = IdleBoot /\ rec' = IdleRec /\ gc' = IdleGc
  <2>1. UNCHANGED <<now, row, box, vol>>
    BY DEF ProcessRestarts
  <2>2. QED
    BY <2>1, Types DEF IndInv, ProcessRestarts
<1>2. faults' \in Nat
  BY <1>1, FaultKeeps DEF ProcessRestarts
<1>3. /\ IdleDelete \in Delete /\ IdleDelete.pc = "idle"
      /\ IdleBoot \in Boot /\ IdleBoot.pc = "select" /\ IdleBoot.db = None
      /\ IdleBoot.todo = {}
      /\ IdleRec \in Rec /\ IdleRec.db = None /\ ~IdleRec.busy
      /\ IdleGc \in Gc /\ IdleGc.pc = "idle" /\ IdleGc.at = 0
  BY DEF IdleDelete, Delete, IdleBoot, Boot, IdleRec, Rec, IdleGc, Gc
<1>4. /\ create' \in [Dbs -> Create]
      /\ \A d \in Dbs :
           /\ create'[d].start = create[d].start
           /\ create'[d].pc = IF create[d].pc = "new" THEN "new" ELSE "done"
  <2> DEFINE over(d) == [create[d] EXCEPT !.pc = "done"]
  <2>1. \A d \in Dbs : /\ over(d) \in Create /\ over(d).pc = "done"
                       /\ over(d).start = create[d].start
    BY <1>1, Zenon DEF Create, Places
  <2>2. create' = [d \in Dbs |-> IF create[d].pc = "new" THEN create[d] ELSE over(d)]
    BY DEF ProcessRestarts
  <2> HIDE DEF over
  <2>3. QED
    BY <1>1, <2>1, <2>2
<1>5. TypeOK'
  BY <1>1, <1>2, <1>3, <1>4, Types, TypesNext
<1>6. ASSUME NEW d \in Dbs
      PROVE  Kept(d) /\ CreateFits(d)'
  <2>1. Kept(d)
    BY <1>1, <1>4 DEF Kept, Past, Early, Exists, HasRow, Referenced
  <2>2. CreateFits(d)'
    BY <1>1, <1>4, CreateFacts DEF CreateFits, Past, Early, Exists
  <2>3. QED
    BY <2>1, <2>2
<1>7. \A k \in Deleters : DeleteFits(k)'
  BY <1>1, <1>3 DEF DeleteFits
<1>8. GcFits' /\ BootFits' /\ RecFits'
  BY <1>1, <1>3 DEF GcFits, BootFits, RecFits
<1>9. QED
  BY <1>1, <1>5, <1>6, <1>7, <1>8, Assemble

----------------------------------------------------------------------------
(* The theorems *)

\* The empty platform satisfies the invariant.
LEMMA InitHolds == Init => IndInv
<1> SUFFICES ASSUME Init PROVE IndInv
  OBVIOUS
<1>1. /\ IdleDelete \in Delete /\ IdleDelete.pc = "idle"
      /\ IdleBoot \in Boot /\ IdleBoot.pc = "select" /\ IdleBoot.db = None
      /\ IdleBoot.todo = {}
      /\ IdleRec \in Rec /\ IdleRec.db = None /\ ~IdleRec.busy
      /\ IdleGc \in Gc /\ IdleGc.pc = "idle" /\ IdleGc.at = 0
  BY DEF IdleDelete, Delete, IdleBoot, Boot, IdleRec, Rec, IdleGc, Gc
<1>2. NewCreate \in Create /\ NewCreate.pc = "new"
  BY DEF NewCreate, Create, Places
<1>3. [status |-> "absent", port |-> None, container |-> FALSE] \in Row
  BY DEF Row
<1>4. [st |-> "none", createdAt |-> 0] \in Box
  BY DEF Box
<1>5. TypeOK
  BY <1>1, <1>2, <1>3, <1>4, Types, DatabasesAssumption DEF Init
<1>6. \A d \in Dbs : CreateFits(d)
  BY <1>2 DEF Init, CreateFits, Exists, BoxStates, Past, Early
<1>7. \A k \in Deleters : DeleteFits(k)
  BY <1>1 DEF Init, DeleteFits
<1>8. GcFits /\ BootFits /\ RecFits
  BY <1>1 DEF Init, GcFits, BootFits, RecFits
<1>9. QED
  BY <1>5, <1>6, <1>7, <1>8 DEF IndInv

\* Every step preserves it.
LEMMA NextKeeps ==
  ASSUME IndInv, [Next]_vars
  PROVE  IndInv'
<1>1. CASE UNCHANGED vars
  <2>1. UNCHANGED <<now, faults, row, box, vol, create, del, boot, rec, gc>>
    BY <1>1 DEF vars
  <2>2. TypeOK /\ now \in Nat /\ now <= now'
    BY <2>1, Types DEF IndInv
  <2>3. TypeOK'
    BY <2>1, <2>2, Types, TypesNext
  <2>4. \A x \in Dbs : Kept(x) /\ CreateFits(x)'
    BY <2>1, <2>2, NothingKeeps
  <2>5. BootFits' /\ RecFits'
    BY <2>1 DEF IndInv, BootFits, RecFits
  <2>6. QED
    BY <2>1, <2>2, <2>3, <2>4, <2>5, Assemble
<1>2. CASE \E d \in Dbs : CreateStep(d) \/ BoxExits(d) \/ BoxRestarts(d)
  BY <1>2, CreateStepKeeps, BoxStep
<1>3. CASE \E k \in Deleters : DeleteStep(k) \/ \E d \in Dbs : DeleteArrives(k, d)
  BY <1>3, ReadDatabaseStep, DeletePartsStep, DeleteArrivesStep DEF DeleteStep
<1>4. CASE ReconcileStale
  BY <1>4, SelectStaleStep, NextStaleStep, DropStaleStep, MarkStaleStep DEF ReconcileStale
<1>5. CASE RecStep
  BY <1>5, InspectStep, MarkUnavailableStep DEF RecStep
<1>6. CASE GcStep
  BY <1>6, ListBoxesStep, CheckBoxStep, RemoveOrphansStep, CheckVolumeStep,
     RemoveVolumesStep DEF GcStep
<1>7. QED
  BY <1>1, <1>2, <1>3, <1>4, <1>5, <1>6, TickStep, RestartStep DEF Next

\* Rows, containers, volumes, Creates, Deletes, startup pass and collector
\* always fit together.
THEOREM DatabasesInvariant == Spec => []IndInv
<1>1. IndInv /\ [Next]_vars => IndInv'
  BY NextKeeps
<1>2. QED
  BY <1>1, InitHolds, PTL DEF Spec

\* All variables of the database manager keep their types.
THEOREM DatabasesTypeCorrect == Spec => []TypeOK
<1>1. IndInv => TypeOK
  BY DEF IndInv
<1>2. QED
  BY <1>1, DatabasesInvariant, PTL

\* Nothing of a deleted database is left or comes back, whatever Create,
\* clean-ups, restarts and failures race with its Delete.
THEOREM DeletedStaysClean == Spec => []DeletedIsClean
<1>1. IndInv => DeletedIsClean
  BY DEF IndInv, CreateFits, DeletedIsClean
<1>2. QED
  BY <1>1, DatabasesInvariant, PTL

\* The collector's batch holds no container that a row names or that a live
\* Create may still record, because the age gate is not shorter than the
\* request's timeout.
THEOREM CollectorTakesGarbage == Spec => []CollectedBoxIsGarbage
<1>1. IndInv => CollectedBoxIsGarbage
  BY DEF IndInv, GcFits, CollectedBoxIsGarbage
<1>2. QED
  BY <1>1, DatabasesInvariant, PTL

\* A volume that a step removes while its database is ready is removed by a
\* Delete request that has come to the volume.
LEMMA VolumeRemovedByDelete ==
  ASSUME IndInv, Next, NEW d \in Dbs, row[d].status = "ready", vol[d], ~vol'[d]
  PROVE  \E k \in Deleters : del[k] = [pc |-> "vol", db |-> d]
<1>1. TypeOK /\ CreateFits(d) /\ create[d].pc = "done" /\ HasRow(d)
  BY CreateFacts DEF CreateFits, HasRow, Statuses
<1>2. vol' # vol
  OBVIOUS
<1>3. ASSUME NEW x \in Dbs, DropVol(x)
      PROVE  x = d
  BY <1>1, <1>3, DropVolKeeps DEF VolOf
<1>4. ASSUME NEW x \in Dbs, CreateStep(x)
      PROVE  FALSE
  <2>1. CreateVolume(x) \/ CleanVolume(x)
    BY <1>2, <1>4 DEF CreateStep, Request, CheckQuota, FindFreePort, Insert,
       CreateContainer, StartContainer, RecordContainer, WaitHealthy, MarkReady,
       MarkFailed, CleanContainer
  <2>2. CASE CreateVolume(x)
    <3>1. vol' = [vol EXCEPT ![x] = TRUE] /\ vol \in [Dbs -> BOOLEAN]
      BY <1>1, <1>2, <2>2, Types DEF CreateVolume
    <3>2. QED
      BY <3>1
  <2>3. CASE CleanVolume(x)
    BY <1>1, <1>2, <1>3, <2>3 DEF CleanVolume, At
  <2>4. QED
    BY <2>1, <2>2, <2>3
<1>5. ASSUME ReconcileStale
      PROVE  FALSE
  <2>1. DropStaleVol
    BY <1>2, <1>5 DEF ReconcileStale, SelectStale, NextStale, DropStaleBox, MarkStale,
       shared
  <2>2. PICK x \in Dbs : x = boot.db /\ row[x].status = "provisioning"
    BY <2>1, Types DEF DropStaleVol, IndInv, BootFits, Boot
  <2>3. DropVol(x)
    BY <1>2, <2>1, <2>2 DEF DropStaleVol
  <2>4. QED
    BY <1>3, <2>2, <2>3
<1>6. ASSUME GcStep
      PROVE  FALSE
  <2>1. RemoveVolumes
    BY <1>2, <1>6 DEF GcStep, ListBoxes, CheckBox, RemoveOrphans, CheckVolume, shared
  <2>2. PICK x \in gc.batch : DropVol(x)
    BY <1>2, <2>1 DEF RemoveVolumes
  <2>3. x \in Dbs /\ ~HasRow(x)
    BY <2>1, GcFacts DEF RemoveVolumes, GcFits
  <2>4. QED
    BY <1>1, <1>3, <2>2, <2>3
<1>7. ~RecStep /\ ~Tick /\ ~ProcessRestarts
  BY <1>2 DEF RecStep, SelectReady, InspectReady, MarkUnavailable, Tick, ProcessRestarts,
     shared
<1>8. \A x \in Dbs : ~BoxExits(x) /\ ~BoxRestarts(x)
  BY <1>2 DEF BoxExits, BoxRestarts
<1>9. PICK k \in Deleters : DeleteStep(k) \/ \E x \in Dbs : DeleteArrives(k, x)
  BY <1>4, <1>5, <1>6, <1>7, <1>8 DEF Next
<1>10. DeleteVolume(k)
  BY <1>2, <1>9 DEF DeleteStep, ReadDatabase, DeleteContainer, DeleteRow, DeleteArrives,
     shared
<1>11. del[k].pc = "vol" /\ DropVol(del[k].db)
  BY <1>2, <1>10 DEF DeleteVolume, In
<1>12. del[k] \in Delete /\ del[k].db \in Dbs
  BY <1>11, DeleteFacts
<1>13. del[k].db = d
  BY <1>3, <1>11, <1>12
<1>14. del[k] = [pc |-> "vol", db |-> d]
  BY <1>11, <1>12, <1>13 DEF Delete
<1>15. QED
  BY <1>14

\* The data of a ready database is removed by its Delete request only.
THEOREM ReadyDataKept == Spec => ReadyVolumeKept
<1>1. IndInv /\ [Next]_vars =>
        [\A d \in Dbs :
           row[d].status = "ready" /\ vol[d] /\ ~vol'[d]
             => \E k \in Deleters : del[k] = [pc |-> "vol", db |-> d]]_vars
  BY VolumeRemovedByDelete
<1>2. QED
  BY <1>1, DatabasesInvariant, PTL DEF Spec, ReadyVolumeKept

----------------------------------------------------------------------------
(* Racing Creates, while nothing fails and no time passes *)

\* A Delete has removed the container, and has the row removed or will.
Doomed(d) ==
  /\ box[d].st = "removed" /\ row[d].status # "absent"
  /\ \/ row[d].status = "deleted"
     \/ \E k \in Deleters : del[k].pc \in {"vol", "row"} /\ del[k].db = d

Running(d, st) == row[d].status = st /\ box[d].st = "running"

\* A Create gives its search up when the others took all its attempts or all ports.
GaveUp(d) == \/ MaxPortRetries <= Cardinality(Rivals(d))
             \/ Cardinality(Ports) <= Cardinality(Rivals(d))

\* The row and the container of a database, by where its Create is.
Stage(d) ==
  LET c == create[d] IN
  /\ c.pc \in Early => row[d].status = "absent" /\ box[d].st = "none"
  /\ c.pc \in {"new", "count"} => c.port = None /\ c.attempt = 0
  /\ c.pc \in {"volume", "run"} => row[d].status = "provisioning" /\ box[d].st = "none"
  /\ c.pc = "start" => row[d].status = "provisioning" /\ box[d].st = "created"
  /\ c.pc = "record" => Running(d, "provisioning")
  /\ c.pc \in {"wait", "ready"} => Running(d, "provisioning") \/ Doomed(d)
  /\ c.pc \in {"wait", "ready", "fail"} => row[d].status \in {"provisioning", "deleted"}
  /\ c.pc \in {"fail", "cleanBox", "cleanVol"} => Doomed(d)
  /\ c.pc = "done" => \/ Running(d, "ready") \/ Doomed(d)
                      \/ /\ row[d].status = "absent" /\ box[d].st = "none"
                         /\ c.port = None \/ GaveUp(d)
  /\ HasRow(d) => row[d].port = c.port /\ c.port \in Ports
  /\ c.pc \notin {"new", "count", "done"} \/ box[d].st # "none" => Live(d)

Taken(p) == \E x \in Dbs : Holds(x, p)

\* Every port a Create lost, or is about to lose, went to another one's row.
Tries(d) ==
  LET c == create[d] IN
  /\ c.pc \in {"port", "insert"} => c.attempt <= Cardinality(Rivals(d))
  /\ c.pc = "insert" => /\ c.port \in Ports
                        /\ Taken(c.port) => c.attempt + 1 <= Cardinality(Rivals(d))

\* The partial unique index.
PortsUnique == \A x, y \in Dbs, p \in Ports : Holds(x, p) /\ Holds(y, p) => x = y

\* The reconciler looks at databases that were ready, and marks doomed ones.
Settled(d) == create[d].pc = "done" /\ row[d].status \notin {"absent", "failed"}

RecCalm == /\ \A d \in rec.todo : Settled(d)
           /\ rec.db # None => Settled(rec.db) /\ Doomed(rec.db)

\* The startup pass finds nothing: no request was served before.
BootCalm == boot.pc # "up" => /\ boot.pc \in {"select", "mark"} /\ boot.todo = {}
                              /\ boot.db = None /\ \A d \in Dbs : create[d].pc = "new"

CalmFits ==
  /\ \A d \in Dbs : Stage(d) /\ Tries(d)
  /\ PortsUnique /\ RecCalm /\ BootCalm

CalmInv == faults <= MaxFaults /\ (Calm => CalmFits)

\* Nothing fails in a step between two calm states.
LEMMA CalmStep ==
  ASSUME TypeOK, Calm, Calm'
  PROVE  now' = now /\ faults' = faults /\ ~Fault
<1>1. faults \in Nat
  BY Types
<1>2. QED
  BY <1>1 DEF Calm, Fault

LEMMA RivalsCounted ==
  ASSUME NEW d
  PROVE  /\ IsFiniteSet(Rivals(d)) /\ Cardinality(Rivals(d)) \in Nat
         /\ IsFiniteSet(Rivals(d)') /\ Cardinality(Rivals(d)') \in Nat
<1>1. IsFiniteSet(Dbs) /\ Rivals(d) \subseteq Dbs /\ Rivals(d)' \subseteq Dbs
  BY DatabasesAssumption DEF Rivals
<1>2. IsFiniteSet(Rivals(d)) /\ IsFiniteSet(Rivals(d)')
  BY <1>1, FS_Subset
<1>3. QED
  BY <1>2, FS_CardinalityType

\* A row that was inserted is never as if it had not been.
RowsStay == \A x \in Dbs : row[x].status # "absent" => row'[x].status # "absent"

LEMMA RivalsGrow ==
  ASSUME RowsStay, NEW d
  PROVE  Cardinality(Rivals(d)) <= Cardinality(Rivals(d)')
<1>1. Rivals(d) \subseteq Rivals(d)'
  BY DEF RowsStay, Rivals
<1>2. QED
  BY <1>1, RivalsCounted, FS_Subset

\* No row takes a port in this step.
PortsShrink == \A x \in Dbs : \A p \in Ports : Holds(x, p)' => Holds(x, p)

DoomedStay == \A x \in Dbs : Doomed(x) => Doomed(x)'

LEMMA GaveUpStays ==
  ASSUME RowsStay, NEW d, GaveUp(d)
  PROVE  GaveUp(d)'
<1>1. MaxPortRetries \in Nat /\ Cardinality(Ports) \in Nat
  BY DatabasesAssumption, FS_CardinalityType
<1>2. QED
  BY <1>1, RivalsGrow, RivalsCounted DEF GaveUp

\* A database that the step leaves alone stays where it is.
LEMMA StageStays ==
  ASSUME RowsStay, NEW x \in Dbs, Stage(x), create'[x] = create[x], row'[x] = row[x],
         box'[x] = box[x], now' = now, Doomed(x) => Doomed(x)'
  PROVE  Stage(x)'
<1>1. GaveUp(x) => GaveUp(x)'
  BY GaveUpStays
<1>2. QED
  BY <1>1 DEF Stage, Running, HasRow, Live

LEMMA TriesStay ==
  ASSUME TypeOK, RowsStay, PortsShrink, NEW x \in Dbs, Tries(x), create'[x] = create[x]
  PROVE  Tries(x)'
<1>1. create[x].attempt \in Nat
  BY Types DEF Create
<1>2. Cardinality(Rivals(x)) <= Cardinality(Rivals(x)')
  BY RivalsGrow
<1>3. create[x].port \in Ports => (Taken(create[x].port)' => Taken(create[x].port))
  BY DEF PortsShrink, Taken
<1>4. ASSUME NEW n \in Nat, n <= Cardinality(Rivals(x)) PROVE n <= Cardinality(Rivals(x)')
  BY <1>2, <1>4, RivalsCounted
<1>5. QED
  BY <1>1, <1>3, <1>4 DEF Tries

\* A step that takes no port and touches one database, once what it does to that
\* database fits.
Touches(d) ==
  /\ now' = now /\ RowsStay /\ PortsShrink /\ DoomedStay
  /\ \A x \in Dbs \ {d} : create'[x] = create[x] /\ row'[x] = row[x] /\ box'[x] = box[x]

LEMMA TouchFits ==
  ASSUME IndInv, CalmFits, NEW d, Touches(d), d \in Dbs => Stage(d)' /\ Tries(d)',
         RecCalm', BootCalm'
  PROVE  CalmFits'
<1>1. TypeOK
  BY DEF IndInv
<1>2. \A x \in Dbs : Stage(x)' /\ Tries(x)'
  BY <1>1, StageStays, TriesStay DEF CalmFits, Touches, DoomedStay
<1>3. PortsUnique'
  BY DEF CalmFits, PortsUnique, Touches, PortsShrink
<1>4. QED
  BY <1>2, <1>3 DEF CalmFits

\* The reconciler's databases have no Create under way.
LEMMA CreateFitsCalm ==
  ASSUME IndInv, CalmFits, NEW d \in Dbs, boot.pc = "up", Others(d), create[d].pc # "done",
         Touches(d), Stage(d)', Tries(d)'
  PROVE  CalmFits'
<1>1. BootCalm' /\ rec' = rec /\ rec \in Rec
  BY Types DEF Others, BootCalm, IndInv
<1>2. RecCalm'
  <2>1. \A x \in rec.todo : x \in Dbs /\ x # d /\ Settled(x)
    BY <1>1 DEF CalmFits, RecCalm, Settled, Rec
  <2>2. rec.db # None => rec.db \in Dbs /\ rec.db # d /\ Settled(rec.db) /\ Doomed(rec.db)
    BY <1>1 DEF CalmFits, RecCalm, Settled, Rec
  <2>3. \A x \in Dbs : x # d /\ Settled(x) => Settled(x)'
    BY DEF Settled, Touches
  <2>4. QED
    BY <1>1, <2>1, <2>2, <2>3 DEF RecCalm, Settled, Touches, DoomedStay
<1>3. QED
  BY <1>1, <1>2, TouchFits

\* Goto and FailThen leave the other fields of a Create alone.
LEMMA GotoFields ==
  ASSUME TypeOK, NEW d \in Dbs, NEW l \in Places,
         Goto(d, l) \/ (l = "fail" /\ \E m \in {"done", "cleanBox", "cleanVol"} : FailThen(d, m))
  PROVE  /\ create'[d].pc = l /\ create'[d].port = create[d].port
         /\ create'[d].attempt = create[d].attempt /\ create'[d].start = create[d].start
         /\ \A x \in Dbs \ {d} : create'[x] = create[x]
<1>1. create[d] \in Create /\ create \in [Dbs -> Create]
  BY Types
<1>2. CASE Goto(d, l)
  BY <1>1, <1>2 DEF Goto, Create
<1>3. CASE l = "fail" /\ \E m \in {"done", "cleanBox", "cleanVol"} : FailThen(d, m)
  BY <1>1, <1>3 DEF FailThen, Create
<1>4. QED
  BY <1>2, <1>3

\* What the steps of Create may use of a calm state.
LEMMA CalmFacts ==
  ASSUME IndInv, CalmFits, NEW d \in Dbs
  PROVE  /\ TypeOK /\ CreateFits(d) /\ Stage(d) /\ Tries(d) /\ now \in Nat
         /\ create[d] \in Create /\ create \in [Dbs -> Create]
         /\ row[d] \in Row /\ row \in [Dbs -> Row] /\ box[d] \in Box /\ box \in [Dbs -> Box]
         /\ create[d].attempt \in Nat /\ create[d].port \in Ports \cup {None}
         /\ None \notin Ports
<1>1. /\ TypeOK /\ CreateFits(d) /\ now \in Nat /\ create[d] \in Create
      /\ create \in [Dbs -> Create] /\ row[d] \in Row /\ row \in [Dbs -> Row]
      /\ box[d] \in Box /\ box \in [Dbs -> Box]
  BY CreateFacts, Types
<1>2. QED
  BY <1>1, DatabasesAssumption DEF CalmFits, Create

\* A step of Create that changes neither the row's status nor the port it holds,
\* and no container that was removed.
LEMMA RowKept ==
  ASSUME IndInv, CalmFits, NEW d \in Dbs, Others(d), now' = now,
         row'[d].status = row[d].status, row'[d].port = row[d].port,
         \A x \in Dbs \ {d} : create'[x] = create[x] /\ row'[x] = row[x] /\ box'[x] = box[x],
         box[d].st = "removed" => box'[d].st = "removed"
  PROVE  Touches(d)
<1>1. RowsStay /\ PortsShrink
  BY DEF RowsStay, PortsShrink, Holds, HasRow
<1>2. DoomedStay
  BY DEF DoomedStay, Doomed, Others
<1>3. QED
  BY <1>1, <1>2 DEF Touches

LEMMA RequestCalm ==
  ASSUME IndInv, CalmFits, Calm, Calm', NEW d \in Dbs, Request(d) \/ CheckQuota(d)
  PROVE  CalmFits'
<1>1. TypeOK /\ Stage(d) /\ create[d] \in Create /\ create \in [Dbs -> Create] /\ now' = now
  BY CalmFacts, CalmStep
<1>2. /\ boot.pc = "up" /\ Others(d) /\ UNCHANGED <<row, box>>
      /\ create[d].pc \in {"new", "count"}
  BY DEF Request, CheckQuota, At
<1>3. PICK l \in {"count", "port", "done"} :
        /\ create'[d].pc = l /\ create'[d].port = None /\ create'[d].attempt = 0
        /\ \A x \in Dbs \ {d} : create'[x] = create[x]
        /\ l = "port" => Live(d)'
  <2>1. create[d].port = None /\ create[d].attempt = 0
    BY <1>1, <1>2 DEF Stage
  <2>2. CASE Request(d)
    BY <1>1, <2>1, <2>2 DEF Request, Create
  <2>3. CASE CheckQuota(d)
    <3>1. PICK l \in {"port", "done"} : Goto(d, l) /\ (l = "port" => Live(d))
      BY <2>3 DEF CheckQuota
    <3>2. /\ create'[d].pc = l /\ create'[d].port = create[d].port
          /\ create'[d].attempt = create[d].attempt /\ create'[d].start = create[d].start
          /\ \A x \in Dbs \ {d} : create'[x] = create[x]
      BY <1>1, <3>1, GotoFields DEF Places
    <3>3. QED
      BY <1>1, <2>1, <3>1, <3>2 DEF Live
  <2>4. QED
    BY <2>2, <2>3
<1>4. Touches(d)
  BY <1>1, <1>2, <1>3, RowKept
<1>5. Stage(d)'
  BY <1>1, <1>2, <1>3 DEF Stage, Early, HasRow, Statuses
<1>6. Tries(d)'
  BY <1>3, RivalsCounted DEF Tries
<1>7. QED
  BY <1>2, <1>4, <1>5, <1>6, CreateFitsCalm

\* A container runs on the port that its row holds.
LEMMA RunningHolds ==
  ASSUME IndInv, CalmFits, NEW x \in Dbs, box[x].st = "running"
  PROVE  /\ row[x].status # "absent" /\ create[x].port \in Ports \cup {None}
         /\ \A p \in Ports : create[x].port = p => Holds(x, p)
<1>1. Stage(x) /\ create[x] \in Create
  BY CalmFacts
<1>2. Running(x, "provisioning") \/ Running(x, "ready")
  BY <1>1 DEF Stage, Doomed, Create, Places, Early
<1>3. QED
  BY <1>1, <1>2 DEF Running, Holds, HasRow, Statuses, Stage, Create

\* When no port is free, every port has a rival.
LEMMA AllPortsLost ==
  ASSUME IndInv, CalmFits, NEW d \in Dbs, create[d].pc = "port", FreePorts = {}
  PROVE  GaveUp(d)
<1> DEFINE S == {create[x].port : x \in Rivals(d)}
<1>1. row[d].status = "absent" /\ box[d].st = "none"
  BY CalmFacts DEF Stage, Early
<1>2. ASSUME NEW p \in Ports PROVE p \in S
  <2>1. PICK x \in Dbs : (box[x].st = "running" /\ create[x].port = p) \/ Holds(x, p)
    BY DEF FreePorts, Bound
  <2>2. x # d /\ row[x].status # "absent" /\ create[x].port = p
    BY <1>1, <2>1, RunningHolds, CalmFacts DEF Holds, HasRow, Statuses, Stage
  <2>3. QED
    BY <2>2 DEF Rivals
<1>3. IsFiniteSet(S) /\ Cardinality(S) <= Cardinality(Rivals(d))
  <2> DEFINE f == [x \in Rivals(d) |-> create[x].port]
  <2>1. f \in Surjection(Rivals(d), S)
    BY DEF Surjection
  <2>2. QED
    BY <2>1, RivalsCounted, FS_Surjection
<1>4. Cardinality(Ports) <= Cardinality(S)
  BY <1>2, <1>3, FS_Subset
<1>5. Cardinality(Ports) \in Nat /\ Cardinality(S) \in Nat
  BY <1>3, DatabasesAssumption, FS_CardinalityType
<1>6. QED
  BY <1>3, <1>4, <1>5, RivalsCounted DEF GaveUp

LEMMA FindPortCalm ==
  ASSUME IndInv, CalmFits, Calm, Calm', NEW d \in Dbs, FindFreePort(d)
  PROVE  CalmFits'
<1>1. /\ TypeOK /\ Stage(d) /\ Tries(d) /\ create[d] \in Create
      /\ create \in [Dbs -> Create] /\ now' = now
  BY CalmFacts, CalmStep
<1>2. /\ boot.pc = "up" /\ Others(d) /\ UNCHANGED <<row, box>> /\ create[d].pc = "port"
  BY DEF FindFreePort, At
<1>3. CASE FreePorts = {}
  <2>1. Goto(d, "done") /\ GaveUp(d)
    BY <1>2, <1>3, AllPortsLost DEF FindFreePort
  <2>2. /\ create'[d].pc = "done" /\ create'[d].start = create[d].start
        /\ \A x \in Dbs \ {d} : create'[x] = create[x]
    BY <1>1, <2>1, GotoFields DEF Places
  <2>3. Touches(d)
    BY <1>1, <1>2, <2>2, RowKept
  <2>4. GaveUp(d)'
    BY <2>1, <2>3, GaveUpStays DEF Touches
  <2>5. Stage(d)' /\ Tries(d)'
    BY <1>1, <1>2, <2>2, <2>4 DEF Stage, Tries, Early, HasRow, Statuses
  <2>6. QED
    BY <1>2, <2>3, <2>5, CreateFitsCalm
<1>4. CASE FreePorts # {}
  <2>1. PICK p \in FreePorts : p = Min(FreePorts)
    BY <1>4, MinBelongs, DatabasesAssumption DEF FreePorts
  <2>2. create' = [create EXCEPT ![d].pc = "insert", ![d].port = p]
    BY <1>4, <2>1 DEF FindFreePort
  <2>3. /\ create'[d].pc = "insert" /\ create'[d].port = p
        /\ create'[d].attempt = create[d].attempt /\ create'[d].start = create[d].start
        /\ \A x \in Dbs \ {d} : create'[x] = create[x]
    BY <1>1, <2>2 DEF Create
  <2>4. Touches(d)
    BY <1>1, <1>2, <2>3, RowKept
  <2>5. Stage(d)'
    BY <1>1, <1>2, <2>3 DEF Stage, Early, HasRow, Statuses, Live
  <2>6. ~Taken(p)' /\ p \in Ports
    BY <1>2 DEF Taken, Holds, HasRow, FreePorts
  <2>7. Tries(d)'
    <3>1. create'[d].attempt <= Cardinality(Rivals(d)')
      BY <1>1, <1>2, <2>3 DEF Tries, Rivals
    <3>2. ~Taken(create[d].port)'
      BY <2>3, <2>6 DEF Taken
    <3>3. QED
      BY <2>3, <2>6, <3>1, <3>2 DEF Tries
  <2>8. QED
    BY <1>2, <2>4, <2>5, <2>7, CreateFitsCalm
<1>5. QED
  BY <1>3, <1>4

\* A lost race for a port: the winner is one more rival.
LEMMA LostPortCalm ==
  ASSUME IndInv, CalmFits, Calm, Calm', NEW d \in Dbs, Insert(d), row' = row
  PROVE  CalmFits'
<1>1. /\ TypeOK /\ Stage(d) /\ Tries(d) /\ create[d] \in Create
      /\ create \in [Dbs -> Create] /\ now' = now /\ ~Fault
      /\ create[d].attempt \in Nat /\ MaxPortRetries \in Nat
  BY CalmFacts, CalmStep, DatabasesAssumption
<1>2. /\ boot.pc = "up" /\ Others(d) /\ box' = box /\ create[d].pc = "insert"
  BY DEF Insert, At
<1>3. Live(d) /\ row[d].status = "absent" /\ box[d].st = "none" /\ create[d].port \in Ports
  BY <1>1, <1>2 DEF Stage, Tries, Early
<1>4. /\ Taken(create[d].port)
      /\ create' = [create EXCEPT ![d].pc = IF create[d].attempt + 1 = MaxPortRetries
                                              THEN "done" ELSE "port",
                                  ![d].attempt = @ + 1]
  <2>1. row' # [row EXCEPT ![d].status = "provisioning", ![d].port = create[d].port]
    <3>1. row[d] \in Row /\ row \in [Dbs -> Row]
      BY CalmFacts
    <3>2. [row EXCEPT ![d].status = "provisioning", ![d].port = create[d].port][d].status
            = "provisioning"
      BY <3>1, Zenon DEF Row
    <3>3. QED
      BY <1>3, <3>2
  <2>2. QED
    BY <1>1, <1>3, <2>1 DEF Insert, Taken
<1>5. PICK l \in {"done", "port"} :
        /\ create'[d].pc = l /\ create'[d].attempt = create[d].attempt + 1
        /\ create'[d].port = create[d].port /\ create'[d].start = create[d].start
        /\ \A x \in Dbs \ {d} : create'[x] = create[x]
        /\ l = "done" => create[d].attempt + 1 = MaxPortRetries
  BY <1>1, <1>4 DEF Create
<1>6. Touches(d)
  BY <1>1, <1>2, <1>5, RowKept
<1>7. create[d].attempt + 1 <= Cardinality(Rivals(d)')
  <2>1. create[d].attempt + 1 <= Cardinality(Rivals(d))
    BY <1>1, <1>2, <1>4 DEF Tries
  <2>2. QED
    BY <1>1, <1>6, <2>1, RivalsGrow, RivalsCounted DEF Touches
<1>8. l = "done" => GaveUp(d)'
  BY <1>5, <1>7 DEF GaveUp
<1>9. Stage(d)'
  BY <1>1, <1>2, <1>3, <1>5, <1>8 DEF Stage, Early, HasRow, Statuses, Live
<1>10. Tries(d)'
  BY <1>5, <1>7 DEF Tries
<1>11. QED
  BY <1>2, <1>6, <1>9, <1>10, CreateFitsCalm

\* A row goes in: every other Create has one more rival, and nobody else's row
\* holds the port.
LEMMA WonPortCalm ==
  ASSUME IndInv, CalmFits, Calm, Calm', NEW d \in Dbs, Insert(d), row' # row
  PROVE  CalmFits'
<1>1. /\ TypeOK /\ Stage(d) /\ Tries(d) /\ create[d] \in Create
      /\ create \in [Dbs -> Create] /\ now' = now /\ row[d] \in Row /\ row \in [Dbs -> Row]
  BY CalmFacts, CalmStep
<1> DEFINE p == create[d].port
           new == [row[d] EXCEPT !.status = "provisioning", !.port = p]
<1>2. /\ boot.pc = "up" /\ Others(d) /\ UNCHANGED box /\ create[d].pc = "insert"
      /\ Live(d) /\ ~Taken(p) /\ Goto(d, "volume") /\ row' = [row EXCEPT ![d] = new]
  BY DEF Insert, At, Taken
<1>3. /\ create'[d].pc = "volume" /\ create'[d].port = p
      /\ create'[d].start = create[d].start /\ \A x \in Dbs \ {d} : create'[x] = create[x]
  BY <1>1, <1>2, GotoFields DEF Places
<1>4. p \in Ports /\ row[d].status = "absent" /\ box[d].st = "none"
  BY <1>1, <1>2 DEF Tries, Stage, Early
<1>5. new.status = "provisioning" /\ new.port = p
  BY <1>1, <1>4, Zenon DEF Row
<1> HIDE DEF new, p
<1>6. /\ row'[d].status = "provisioning" /\ row'[d].port = p
      /\ \A x \in Dbs \ {d} : row'[x] = row[x]
  BY <1>1, <1>2, <1>5
<1>7. RowsStay
  BY <1>6 DEF RowsStay
<1>8. DoomedStay
  BY <1>2, <1>4, <1>6 DEF DoomedStay, Doomed, Others
<1>9. ASSUME NEW x \in Dbs, x # d PROVE Tries(x)' /\ Stage(x)'
  <2>1. d \notin Rivals(x) /\ Rivals(x)' = Rivals(x) \cup {d}
    BY <1>4, <1>6, <1>9 DEF Rivals
  <2>2. Cardinality(Rivals(x)') = Cardinality(Rivals(x)) + 1
    BY <2>1, RivalsCounted, FS_AddElement
  <2>3. Tries(x) /\ Stage(x) /\ create[x].attempt \in Nat
    BY CalmFacts
  <2>4. Tries(x)'
    BY <1>3, <1>9, <2>2, <2>3, RivalsCounted DEF Tries
  <2>5. QED
    BY <1>1, <1>2, <1>3, <1>6, <1>7, <1>8, <1>9, <2>3, <2>4, StageStays DEF DoomedStay
<1>10. Stage(d)' /\ Tries(d)'
  <2>1. Live(d)'
    BY <1>1, <1>2, <1>3 DEF Live
  <2>2. QED
    BY <1>2, <1>3, <1>4, <1>6, <2>1 DEF Stage, Tries, Early
<1>11. PortsUnique'
  <2>1. ASSUME NEW x \in Dbs, NEW q \in Ports, x # d PROVE Holds(x, q)' <=> Holds(x, q)
    BY <1>6, <2>1 DEF Holds, HasRow
  <2>2. ASSUME NEW q \in Ports, Holds(d, q)' PROVE q = p
    BY <1>6, <2>2 DEF Holds
  <2>3. QED
    BY <1>2, <2>1, <2>2 DEF PortsUnique, CalmFits, Taken
<1>12. BootCalm' /\ RecCalm'
  <2>1. rec' = rec /\ rec \in Rec /\ boot' = boot
    BY <1>1, <1>2, Types DEF Others
  <2>2. \A x \in Dbs : Settled(x) => x # d /\ Settled(x)'
    BY <1>2, <1>3, <1>6 DEF Settled
  <2>3. RecCalm
    BY DEF CalmFits
  <2>4. QED
    BY <1>2, <1>8, <2>1, <2>2, <2>3 DEF RecCalm, BootCalm, DoomedStay, Rec, Settled
<1>13. QED
  BY <1>9, <1>10, <1>11, <1>12 DEF CalmFits

\* With its row in, a Create makes its volume and its container.
LEMMA MakeCalm ==
  ASSUME IndInv, CalmFits, Calm, Calm', NEW d \in Dbs, CreateVolume(d) \/ CreateContainer(d)
  PROVE  CalmFits'
<1>1. /\ TypeOK /\ Stage(d) /\ box[d] \in Box /\ box \in [Dbs -> Box] /\ now' = now
      /\ now \in Nat /\ ~Fault
  BY CalmFacts, CalmStep
<1>2. /\ boot.pc = "up" /\ Others(d) /\ UNCHANGED row /\ create[d].pc \in {"volume", "run"}
  BY DEF CreateVolume, CreateContainer, At
<1>3. Live(d) /\ row[d].status = "provisioning" /\ box[d].st = "none"
  BY <1>1, <1>2 DEF Stage
<1>4. PICK l \in {"run", "start"} :
        /\ Goto(d, l) /\ \A x \in Dbs \ {d} : box'[x] = box[x]
        /\ l = "run" => box' = box
        /\ l = "start" => box'[d].st = "created"
  <2>1. CASE CreateVolume(d)
    BY <1>1, <1>3, <2>1 DEF CreateVolume
  <2>2. CASE CreateContainer(d)
    <3>1. /\ Goto(d, "start")
          /\ box' = [box EXCEPT ![d] = [st |-> "created", createdAt |-> now]]
      BY <1>1, <1>3, <2>2 DEF CreateContainer
    <3>2. box'[d].st = "created" /\ \A x \in Dbs \ {d} : box'[x] = box[x]
      BY <1>1, <3>1
    <3>3. QED
      BY <3>1, <3>2
  <2>3. QED
    BY <2>1, <2>2
<1>5. /\ create'[d].pc = l /\ create'[d].port = create[d].port
      /\ create'[d].start = create[d].start /\ \A x \in Dbs \ {d} : create'[x] = create[x]
  BY <1>1, <1>4, GotoFields DEF Places
<1>6. Touches(d)
  BY <1>1, <1>2, <1>3, <1>4, <1>5, RowKept
<1>7. Stage(d)'
  BY <1>1, <1>2, <1>3, <1>4, <1>5 DEF Stage, Early, HasRow, Live
<1>8. Tries(d)'
  BY <1>5 DEF Tries
<1>9. QED
  BY <1>2, <1>6, <1>7, <1>8, CreateFitsCalm

\* Nobody else runs on the port of its row, so the container starts.
LEMMA StartCalm ==
  ASSUME IndInv, CalmFits, Calm, Calm', NEW d \in Dbs, StartContainer(d)
  PROVE  CalmFits'
<1>1. /\ TypeOK /\ Stage(d) /\ box[d] \in Box /\ box \in [Dbs -> Box] /\ now' = now
      /\ ~Fault /\ create[d].port \in Ports \cup {None} /\ row[d] \in Row
  BY CalmFacts, CalmStep
<1>2. /\ boot.pc = "up" /\ Others(d) /\ UNCHANGED row /\ create[d].pc = "start"
  BY DEF StartContainer, At
<1>3. /\ Live(d) /\ row[d].status = "provisioning" /\ box[d].st = "created"
      /\ row[d].port = create[d].port /\ create[d].port \in Ports
  BY <1>1, <1>2 DEF Stage, HasRow, Statuses
<1>4. Exists(d)
  BY <1>3 DEF Exists, BoxStates
<1>5. ~Bound(create[d].port)
  <2>1. Holds(d, create[d].port)
    BY <1>3 DEF Holds, HasRow, Statuses
  <2>2. ASSUME NEW x \in Dbs, box[x].st = "running", create[x].port = create[d].port
        PROVE  FALSE
    <3>1. Holds(x, create[d].port)
      BY <1>3, <2>2, RunningHolds
    <3>2. x = d
      BY <1>3, <2>1, <3>1 DEF CalmFits, PortsUnique
    <3>3. QED
      BY <1>3, <2>2, <3>2
  <2>3. QED
    BY <2>2 DEF Bound
<1>6. Goto(d, "record") /\ box' = [box EXCEPT ![d].st = "running"]
  BY <1>1, <1>3, <1>4, <1>5 DEF StartContainer
<1>7. box'[d].st = "running" /\ \A x \in Dbs \ {d} : box'[x] = box[x]
  BY <1>1, <1>6 DEF Box
<1>8. /\ create'[d].pc = "record" /\ create'[d].port = create[d].port
      /\ create'[d].start = create[d].start /\ \A x \in Dbs \ {d} : create'[x] = create[x]
  BY <1>1, <1>6, GotoFields DEF Places
<1>9. Touches(d)
  BY <1>1, <1>2, <1>3, <1>7, <1>8, RowKept
<1>10. Stage(d)'
  BY <1>1, <1>2, <1>3, <1>7, <1>8 DEF Stage, Early, HasRow, Live, Running
<1>11. Tries(d)'
  BY <1>8 DEF Tries
<1>12. QED
  BY <1>2, <1>9, <1>10, <1>11, CreateFitsCalm

\* The row is there until the container is recorded: no Delete can read it before.
LEMMA RecordCalm ==
  ASSUME IndInv, CalmFits, Calm, Calm', NEW d \in Dbs, RecordContainer(d)
  PROVE  CalmFits'
<1>1. /\ TypeOK /\ Stage(d) /\ row[d] \in Row /\ row \in [Dbs -> Row] /\ now' = now /\ ~Fault
  BY CalmFacts, CalmStep
<1>2. /\ boot.pc = "up" /\ Others(d) /\ UNCHANGED box /\ create[d].pc = "record"
  BY DEF RecordContainer, At
<1>3. Live(d) /\ row[d].status = "provisioning" /\ box[d].st = "running" /\ HasRow(d)
  BY <1>1, <1>2 DEF Stage, Running, HasRow, Statuses
<1>4. Goto(d, "wait") /\ row' = [row EXCEPT ![d].container = TRUE]
  BY <1>1, <1>3 DEF RecordContainer
<1>5. /\ row'[d].status = row[d].status /\ row'[d].port = row[d].port
      /\ \A x \in Dbs \ {d} : row'[x] = row[x]
  BY <1>1, <1>4 DEF Row
<1>6. /\ create'[d].pc = "wait" /\ create'[d].port = create[d].port
      /\ create'[d].start = create[d].start /\ \A x \in Dbs \ {d} : create'[x] = create[x]
  BY <1>1, <1>4, GotoFields DEF Places
<1>7. Touches(d)
  BY <1>1, <1>2, <1>5, <1>6, RowKept
<1>8. Stage(d)'
  BY <1>1, <1>2, <1>3, <1>5, <1>6 DEF Stage, Early, HasRow, Live, Running
<1>9. Tries(d)'
  BY <1>6 DEF Tries
<1>10. QED
  BY <1>2, <1>7, <1>8, <1>9, CreateFitsCalm

\* A Create that waits in vain has been deleted meanwhile.
LEMMA WaitCalm ==
  ASSUME IndInv, CalmFits, Calm, Calm', NEW d \in Dbs, WaitHealthy(d)
  PROVE  CalmFits'
<1>1. TypeOK /\ Stage(d) /\ now' = now /\ ~Fault
  BY CalmFacts, CalmStep
<1>2. /\ boot.pc = "up" /\ Others(d) /\ UNCHANGED <<row, box>> /\ create[d].pc = "wait"
  BY DEF WaitHealthy, At
<1>3. PICK l \in {"ready", "fail"} :
        /\ Goto(d, l) \/ (l = "fail" /\ FailThen(d, "cleanBox"))
        /\ l = "fail" => ~Bound(create[d].port)
  BY <1>1 DEF WaitHealthy
<1>4. /\ create'[d].pc = l /\ create'[d].port = create[d].port
      /\ create'[d].start = create[d].start /\ \A x \in Dbs \ {d} : create'[x] = create[x]
  BY <1>1, <1>3, GotoFields DEF Places
<1>5. l = "fail" => Doomed(d)
  BY <1>1, <1>2, <1>3 DEF Stage, Running, Bound
<1>6. Touches(d)
  BY <1>1, <1>2, <1>4, RowKept
<1>7. Doomed(d) => Doomed(d)'
  BY <1>6 DEF Touches, DoomedStay
<1>8. Stage(d)'
  BY <1>1, <1>2, <1>4, <1>5, <1>7 DEF Stage, Early, HasRow, Live, Running
<1>9. Tries(d)'
  BY <1>4 DEF Tries
<1>10. QED
  BY <1>2, <1>6, <1>8, <1>9, CreateFitsCalm

\* The new status of a row that holds its port, or of none.
LEMMA MarkCalm ==
  ASSUME IndInv, CalmFits, Calm, Calm', NEW d \in Dbs, MarkReady(d) \/ MarkFailed(d)
  PROVE  CalmFits'
<1>1. /\ TypeOK /\ Stage(d) /\ row[d] \in Row /\ row \in [Dbs -> Row] /\ now' = now /\ ~Fault
      /\ create[d] \in Create
  BY CalmFacts, CalmStep
<1>2. /\ boot.pc = "up" /\ Others(d) /\ UNCHANGED box /\ create[d].pc \in {"ready", "fail"}
  BY DEF MarkReady, MarkFailed, At
<1>3. PICK st \in {"ready", "failed"}, l \in {"done", "cleanBox", "cleanVol"} :
        /\ SetStatus(d, st) /\ Goto(d, l)
        /\ create[d].pc = "ready" => st = "ready" /\ (HasRow(d) => l = "done")
  <2>1. CASE MarkReady(d)
    BY <1>1, <2>1 DEF MarkReady, At
  <2>2. CASE MarkFailed(d)
    <3>1. create[d].then \in {"done", "cleanBox", "cleanVol"}
      BY <1>1 DEF Create
    <3>2. QED
      BY <1>1, <2>2, <3>1 DEF MarkFailed, At
  <2>3. QED
    BY <2>1, <2>2
<1>4. /\ row'[d].status = IF HasRow(d) THEN st ELSE row[d].status
      /\ row'[d].port = row[d].port /\ \A x \in Dbs \ {d} : row'[x] = row[x]
  BY <1>1, <1>3 DEF SetStatus, Row
<1>5. /\ create'[d].pc = l /\ create'[d].port = create[d].port
      /\ create'[d].start = create[d].start /\ \A x \in Dbs \ {d} : create'[x] = create[x]
  BY <1>1, <1>3, GotoFields DEF Places
<1>6. /\ row[d].status \in {"provisioning", "deleted"}
      /\ Doomed(d) \/ (create[d].pc = "ready" /\ Running(d, "provisioning"))
  BY <1>1, <1>2 DEF Stage
<1>7. HasRow(d) <=> row[d].status = "provisioning"
  BY <1>6 DEF HasRow, Statuses
<1>8. RowsStay /\ PortsShrink
  BY <1>4, <1>6, <1>7 DEF RowsStay, PortsShrink, Holds, HasRow
<1>9. DoomedStay
  BY <1>2, <1>4, <1>6, <1>7 DEF DoomedStay, Doomed, Others
<1>10. Touches(d)
  BY <1>1, <1>2, <1>4, <1>5, <1>8, <1>9 DEF Touches
<1>11. Doomed(d)' \/ (l = "done" /\ Running(d, "ready")')
  BY <1>2, <1>3, <1>4, <1>6, <1>7, <1>9 DEF DoomedStay, Running
<1>12. Live(d)' /\ (HasRow(d)' => row'[d].port = create'[d].port /\ create'[d].port \in Ports)
  BY <1>1, <1>2, <1>4, <1>5, <1>6, <1>7 DEF Stage, Live, HasRow, Statuses
<1>13. Stage(d)'
  BY <1>5, <1>11, <1>12 DEF Stage, Early
<1>14. Tries(d)'
  BY <1>5 DEF Tries
<1>15. QED
  BY <1>2, <1>10, <1>13, <1>14, CreateFitsCalm

\* What a Create cleans up is gone.
LEMMA CleanCalm ==
  ASSUME IndInv, CalmFits, Calm, Calm', NEW d \in Dbs, CleanContainer(d) \/ CleanVolume(d)
  PROVE  CalmFits'
<1>1. TypeOK /\ Stage(d) /\ now' = now /\ ~Fault
  BY CalmFacts, CalmStep
<1>2. /\ boot.pc = "up" /\ Others(d) /\ UNCHANGED row
      /\ create[d].pc \in {"cleanBox", "cleanVol"}
  BY DEF CleanContainer, CleanVolume, At
<1>3. Doomed(d) /\ ~Exists(d)
  BY <1>1, <1>2 DEF Stage, Doomed, Exists, BoxStates
<1>4. box' = box
  BY <1>1, <1>3 DEF CleanContainer, CleanVolume, DropBox
<1>5. PICK l \in {"cleanVol", "done"} : Goto(d, l)
  BY DEF CleanContainer, CleanVolume
<1>6. /\ create'[d].pc = l /\ create'[d].port = create[d].port
      /\ create'[d].start = create[d].start /\ \A x \in Dbs \ {d} : create'[x] = create[x]
  BY <1>1, <1>5, GotoFields DEF Places
<1>7. Touches(d)
  BY <1>1, <1>2, <1>4, <1>6, RowKept
<1>8. Doomed(d)'
  BY <1>3, <1>7 DEF Touches, DoomedStay
<1>9. Stage(d)'
  BY <1>1, <1>2, <1>4, <1>6, <1>8 DEF Stage, Early, HasRow, Live
<1>10. Tries(d)'
  BY <1>6 DEF Tries
<1>11. QED
  BY <1>2, <1>7, <1>9, <1>10, CreateFitsCalm

LEMMA CreateStepCalm ==
  ASSUME IndInv, CalmFits, Calm, Calm', NEW d \in Dbs, CreateStep(d)
  PROVE  CalmFits'
  BY RequestCalm, FindPortCalm, LostPortCalm, WonPortCalm, MakeCalm, StartCalm, RecordCalm,
     WaitCalm, MarkCalm, CleanCalm DEF CreateStep

\* A step that changes no row, container or Create.
LEMMA IdleCalm ==
  ASSUME IndInv, CalmFits, now' = now, UNCHANGED <<row, box, create>>, DoomedStay,
         RecCalm', BootCalm'
  PROVE  CalmFits'
<1>1. RowsStay /\ PortsShrink
  BY DEF RowsStay, PortsShrink, Holds, HasRow
<1>2. Touches(None)
  BY <1>1 DEF Touches
<1>3. None \notin Dbs
  BY DatabasesAssumption
<1>4. QED
  BY <1>2, <1>3, TouchFits

\* What the reconciler has in hand stays settled and doomed.
LEMMA RecStays ==
  ASSUME IndInv, CalmFits, rec' = rec, DoomedStay, \A x \in Dbs : Settled(x) => Settled(x)'
  PROVE  RecCalm'
<1>1. rec \in Rec
  BY Types DEF IndInv
<1>2. RecCalm
  BY DEF CalmFits
<1>3. QED
  BY <1>1, <1>2 DEF RecCalm, Settled, DoomedStay, Rec

LEMMA SameSettled ==
  ASSUME UNCHANGED <<row, create>>, NEW x, Settled(x)
  PROVE  Settled(x)'
  BY DEF Settled

\* A Delete that has not removed its container yet.
LEMMA DeleteBeginsCalm ==
  ASSUME IndInv, CalmFits, Calm, Calm', NEW k \in Deleters,
         ReadDatabase(k) \/ \E d \in Dbs : DeleteArrives(k, d)
  PROVE  CalmFits'
<1>1. /\ TypeOK /\ now' = now /\ UNCHANGED <<row, box, create, boot, rec>> /\ boot.pc = "up"
      /\ del[k].pc \in {"idle", "read"} /\ del \in [Deleters -> Delete]
  BY Types, CalmStep DEF ReadDatabase, DeleteArrives, In, shared, IndInv
<1>2. \A j \in Deleters \ {k} : del'[j] = del[j]
  BY <1>1, ToStepMoves, AnswerMoves DEF ReadDatabase, DeleteArrives
<1>3. DoomedStay
  BY <1>1, <1>2 DEF DoomedStay, Doomed
<1>4. RecCalm'
  BY <1>1, <1>3, RecStays, SameSettled
<1>5. BootCalm'
  BY <1>1 DEF BootCalm
<1>6. QED
  BY <1>1, <1>3, <1>4, <1>5, IdleCalm

\* With its container gone, a database is doomed.
LEMMA DeleteContainerCalm ==
  ASSUME IndInv, CalmFits, Calm, Calm', NEW k \in Deleters, DeleteContainer(k)
  PROVE  CalmFits'
<1>1. /\ TypeOK /\ now' = now /\ UNCHANGED <<row, create, boot, rec>> /\ boot.pc = "up"
      /\ del[k].pc = "box" /\ del \in [Deleters -> Delete] /\ ~Fault
      /\ box \in [Dbs -> Box]
  BY Types, CalmStep DEF DeleteContainer, In, IndInv
<1>2. PICK d \in Dbs : d = del[k].db /\ create[d].pc \in Past
  BY <1>1, DeleteFacts DEF DeleteFits
<1>3. DropBox(d) /\ ToStep(k, "vol")
  BY <1>1, <1>2 DEF DeleteContainer
<1>4. /\ del'[k].pc = "vol" /\ del'[k].db = d
      /\ \A j \in Deleters \ {k} : del'[j] = del[j]
  BY <1>2, <1>3, ToStepMoves
<1>5. box[d].st = "removed" => box'[d].st = "removed"
  BY <1>3 DEF DropBox, Exists, BoxStates
<1>6. \A x \in Dbs \ {d} : box'[x] = box[x]
  BY <1>1, <1>3 DEF DropBox, RemoveBox
<1>7. DoomedStay
  BY <1>1, <1>4, <1>5, <1>6 DEF DoomedStay, Doomed
<1>8. RowsStay /\ PortsShrink
  BY <1>1 DEF RowsStay, PortsShrink, Holds, HasRow
<1>9. Touches(d)
  BY <1>1, <1>6, <1>7, <1>8 DEF Touches
<1>10. Stage(d) /\ Tries(d) /\ box[d] \in Box
  BY CalmFacts
<1>11. Stage(d)'
  <2>1. CASE box'[d] = box[d]
    BY <1>1, <1>7, <1>8, <1>10, <2>1, StageStays DEF DoomedStay
  <2>2. CASE box'[d] # box[d]
    <3>1. Exists(d) /\ box'[d].st = "removed"
      BY <1>1, <1>3, <2>2 DEF DropBox, RemoveBox, Box
    <3>2. row[d].status # "absent" /\ Live(d)
      BY <1>2, <1>10, <3>1 DEF Stage, Running, Doomed, Past, Exists, BoxStates
    <3>3. Doomed(d)'
      BY <1>1, <1>4, <3>1, <3>2 DEF Doomed
    <3>4. QED
      BY <1>1, <1>2, <1>10, <3>2, <3>3 DEF Stage, Past, Early, HasRow, Live
  <2>3. QED
    BY <2>1, <2>2
<1>12. Tries(d)'
  BY <1>1, <1>8, <1>10, TriesStay
<1>13. RecCalm' /\ BootCalm'
  BY <1>1, <1>7, RecStays, SameSettled DEF BootCalm
<1>14. QED
  BY <1>9, <1>11, <1>12, <1>13, TouchFits

\* The container is gone, so the volume goes too.
LEMMA DeleteVolumeCalm ==
  ASSUME IndInv, CalmFits, Calm, Calm', NEW k \in Deleters, DeleteVolume(k)
  PROVE  CalmFits'
<1>1. /\ TypeOK /\ now' = now /\ UNCHANGED <<row, box, create, boot, rec>> /\ boot.pc = "up"
      /\ del[k].pc = "vol" /\ del \in [Deleters -> Delete] /\ ~Fault
  BY Types, CalmStep DEF DeleteVolume, In, IndInv
<1>2. ~Exists(del[k].db)
  BY <1>1, DeleteFacts DEF DeleteFits
<1>3. ToStep(k, "row")
  BY <1>1, <1>2 DEF DeleteVolume
<1>4. /\ del'[k].pc = "row" /\ del'[k].db = del[k].db
      /\ \A j \in Deleters \ {k} : del'[j] = del[j]
  BY <1>3, ToStepMoves
<1>5. DoomedStay
  BY <1>1, <1>4 DEF DoomedStay, Doomed
<1>6. RecCalm' /\ BootCalm'
  BY <1>1, <1>5, RecStays, SameSettled DEF BootCalm
<1>7. QED
  BY <1>1, <1>5, <1>6, IdleCalm

LEMMA DeleteRowCalm ==
  ASSUME IndInv, CalmFits, Calm, Calm', NEW k \in Deleters, DeleteRow(k)
  PROVE  CalmFits'
<1>1. /\ TypeOK /\ now' = now /\ UNCHANGED <<box, create, boot, rec>> /\ boot.pc = "up"
      /\ del[k].pc = "row" /\ del \in [Deleters -> Delete] /\ ~Fault
      /\ row \in [Dbs -> Row]
  BY Types, CalmStep DEF DeleteRow, In, IndInv
<1>2. PICK d \in Dbs : d = del[k].db /\ create[d].pc \in Past /\ ~Exists(d)
  BY <1>1, DeleteFacts DEF DeleteFits
<1>3. Answer(k)
  BY DEF DeleteRow
<1>4. \A j \in Deleters \ {k} : del'[j] = del[j]
  BY <1>3, AnswerMoves
<1>5. Stage(d) /\ Tries(d) /\ row[d] \in Row
  BY CalmFacts
<1>6. /\ \A x \in Dbs \ {d} : row'[x] = row[x]
      /\ HasRow(d) => row'[d].status = "deleted"
      /\ ~HasRow(d) => row'[d] = row[d] /\ row[d].status \in {"absent", "deleted"}
  <2>1. CASE HasRow(d)
    <3> DEFINE new == [row[d] EXCEPT !.status = "deleted", !.container = FALSE]
    <3>1. new.status = "deleted"
      BY <1>5, Zenon DEF Row
    <3>2. row' = [row EXCEPT ![d] = new]
      BY <1>1, <1>2, <2>1 DEF DeleteRow
    <3> HIDE DEF new
    <3>3. QED
      BY <1>1, <2>1, <3>1, <3>2
  <2>2. CASE ~HasRow(d)
    <3>1. row' = row
      BY <1>1, <1>2, <2>2 DEF DeleteRow
    <3>2. row[d].status \in {"absent", "deleted"}
      BY <1>5, <2>2 DEF Row, HasRow
    <3>3. QED
      BY <2>2, <3>1, <3>2
  <2>3. QED
    BY <2>1, <2>2
<1>7. DoomedStay
  <2>1. Doomed(d) => Doomed(d)'
    BY <1>1, <1>6 DEF Doomed
  <2>2. ASSUME NEW x \in Dbs, x # d, Doomed(x) PROVE Doomed(x)'
    BY <1>1, <1>2, <1>4, <1>6, <2>2 DEF Doomed
  <2>3. QED
    BY <2>1, <2>2 DEF DoomedStay
<1>8. RowsStay /\ PortsShrink
  <2>1. HasRow(d)' => ~HasRow(d) /\ row'[d] = row[d]
    BY <1>6 DEF HasRow, Statuses
  <2>2. QED
    BY <1>6, <2>1 DEF RowsStay, PortsShrink, Holds, HasRow, Statuses
<1>9. Touches(d)
  BY <1>1, <1>6, <1>7, <1>8 DEF Touches
<1>10. Stage(d)'
  <2>1. CASE ~HasRow(d)
    BY <1>1, <1>5, <1>6, <1>7, <1>8, <2>1, StageStays DEF DoomedStay
  <2>2. CASE HasRow(d)
    <3>1. Doomed(d)
      BY <1>2, <1>5, <2>2 DEF Stage, Past, Running, Exists, BoxStates, HasRow, Statuses
    <3>2. Doomed(d)' /\ row'[d].status = "deleted" /\ ~HasRow(d)'
      BY <1>6, <1>7, <2>2, <3>1 DEF DoomedStay, HasRow, Statuses
    <3>3. QED
      BY <1>1, <1>2, <1>5, <3>2 DEF Stage, Past, Early, Live
  <2>3. QED
    BY <2>1, <2>2
<1>11. Tries(d)'
  BY <1>1, <1>5, <1>8, TriesStay
<1>12. \A x \in Dbs : Settled(x) => Settled(x)'
  BY <1>1, <1>6 DEF Settled
<1>13. RecCalm' /\ BootCalm'
  BY <1>1, <1>7, <1>12, RecStays DEF BootCalm
<1>14. QED
  BY <1>9, <1>10, <1>11, <1>13, TouchFits

\* Only what a Delete has taken apart is found missing.
LEMMA InspectCalm ==
  ASSUME IndInv, CalmFits, Calm, Calm', SelectReady \/ InspectReady
  PROVE  CalmFits'
<1>1. /\ TypeOK /\ now' = now /\ UNCHANGED <<row, box, create, del, boot>> /\ ~Fault
      /\ rec \in Rec /\ RecCalm /\ BootCalm
  BY Types, CalmStep DEF SelectReady, InspectReady, shared, IndInv, CalmFits
<1>2. DoomedStay
  BY <1>1 DEF DoomedStay, Doomed
<1>3. \A x : Settled(x) => Settled(x)'
  BY <1>1, SameSettled
<1>4. RecCalm'
  <2>1. CASE SelectReady
    <3>1. /\ rec'.todo = {d \in Dbs : row[d].status = "ready" /\ row[d].container}
          /\ rec'.db = None
      BY <2>1 DEF SelectReady, IdleRec
    <3>2. \A d \in Dbs : row[d].status = "ready" => Settled(d)
      BY CreateFacts DEF CreateFits, Settled
    <3>3. QED
      BY <1>3, <3>1, <3>2 DEF RecCalm, Settled
  <2>2. CASE InspectReady
    <3>1. CASE rec' = IdleRec
      BY <3>1 DEF IdleRec, RecCalm
    <3>2. CASE \E d \in rec.todo :
                 rec' = [rec EXCEPT !.todo = @ \ {d}, !.db = IF Exists(d) THEN None ELSE d]
      <4>1. PICK d \in rec.todo :
              rec' = [rec EXCEPT !.todo = @ \ {d}, !.db = IF Exists(d) THEN None ELSE d]
        BY <3>2
      <4>2. /\ rec'.todo \subseteq rec.todo /\ rec'.db \in {None, d}
            /\ rec'.db # None => rec'.db = d /\ ~Exists(d)
        BY <1>1, <4>1 DEF Rec
      <4>3. d \in Dbs /\ Settled(d)
        BY <1>1 DEF Rec, RecCalm
      <4>4. ~Exists(d) => Doomed(d)
        BY <4>3, CalmFacts DEF Settled, Stage, Running, Exists, BoxStates
      <4>5. Settled(d)' /\ (~Exists(d) => Doomed(d)')
        BY <1>2, <1>3, <4>3, <4>4 DEF DoomedStay
      <4>6. \A x \in rec'.todo : Settled(x)'
        BY <1>1, <1>3, <4>2 DEF RecCalm
      <4>7. rec'.db # None => Settled(rec.db)' /\ Doomed(rec.db)'
        BY <4>2, <4>5 DEF Settled, Doomed
      <4>8. QED
        BY <4>6, <4>7 DEF RecCalm, Settled
    <3>3. QED
      BY <1>1, <2>2, <3>1, <3>2 DEF InspectReady
  <2>3. QED
    BY <2>1, <2>2
<1>5. BootCalm'
  BY <1>1 DEF BootCalm
<1>6. QED
  BY <1>1, <1>2, <1>4, <1>5, IdleCalm

LEMMA MarkUnavailableCalm ==
  ASSUME IndInv, CalmFits, Calm, Calm', MarkUnavailable
  PROVE  CalmFits'
<1>1. /\ TypeOK /\ now' = now /\ UNCHANGED <<box, create, del, boot>> /\ ~Fault
      /\ rec \in Rec /\ RecCalm /\ BootCalm /\ rec.db # None /\ row \in [Dbs -> Row]
  BY Types, CalmStep DEF MarkUnavailable, IndInv, CalmFits
<1>2. PICK d \in Dbs : d = rec.db /\ Settled(d) /\ Doomed(d)
  BY <1>1 DEF Rec, RecCalm
<1>3. SetStatus(d, "unavailable") /\ rec' = [rec EXCEPT !.db = None]
  BY <1>1, <1>2 DEF MarkUnavailable
<1>4. Stage(d) /\ Tries(d) /\ row[d] \in Row
  BY CalmFacts
<1>5. /\ row'[d].status = IF HasRow(d) THEN "unavailable" ELSE row[d].status
      /\ row'[d].port = row[d].port /\ \A x \in Dbs \ {d} : row'[x] = row[x]
  BY <1>1, <1>3, <1>4 DEF SetStatus, Row
<1>6. HasRow(d)' => HasRow(d)
  BY <1>5 DEF HasRow
<1>7. RowsStay /\ PortsShrink
  <2>1. \A p \in Ports : Holds(d, p)' => Holds(d, p)
    BY <1>2, <1>5, <1>6 DEF Settled, Holds
  <2>2. QED
    BY <1>5, <2>1 DEF RowsStay, PortsShrink, Holds, HasRow
<1>8. DoomedStay
  <2>1. row[d].status = "deleted" => row'[d].status = "deleted"
    BY <1>5 DEF HasRow, Statuses
  <2>2. QED
    BY <1>1, <1>5, <1>7, <2>1 DEF DoomedStay, Doomed, RowsStay
<1>9. Touches(d)
  BY <1>1, <1>5, <1>7, <1>8 DEF Touches
<1>10. Doomed(d)' /\ create[d].pc = "done"
  BY <1>2, <1>8 DEF DoomedStay, Settled
<1>11. Stage(d)'
  BY <1>1, <1>4, <1>5, <1>6, <1>10 DEF Stage, Early, Live
<1>12. Tries(d)'
  BY <1>1, <1>10 DEF Tries
<1>13. \A x \in Dbs : Settled(x) => Settled(x)'
  BY <1>1, <1>5, <1>7 DEF Settled, RowsStay
<1>14. RecCalm'
  <2>1. rec'.todo = rec.todo /\ rec'.db = None /\ rec.todo \subseteq Dbs
    BY <1>1, <1>3 DEF Rec
  <2>2. QED
    BY <1>1, <1>13, <2>1 DEF RecCalm, Settled
<1>15. BootCalm'
  BY <1>1 DEF BootCalm
<1>16. QED
  BY <1>9, <1>11, <1>12, <1>14, <1>15, TouchFits

\* The collector finds no container old enough, the startup pass no row.
LEMMA LoopsCalm ==
  ASSUME IndInv, CalmFits, Calm, Calm', GcStep \/ ReconcileStale \/ UNCHANGED vars
  PROVE  CalmFits'
<1>1. /\ TypeOK /\ now' = now /\ ~Fault /\ BootCalm /\ boot \in Boot
  BY Types, CalmStep DEF IndInv, CalmFits
<1>2. ASSUME NEW x \in Dbs, create[x].pc \notin Early, ~Live(x), DropBox(x) PROVE box' = box
  <2>1. box[x].st = "none"
    BY <1>2, CalmFacts DEF Stage
  <2>2. QED
    BY <1>2, <2>1 DEF DropBox, Exists, BoxStates
<1>3. UNCHANGED <<row, box, create, del, rec>> /\ BootCalm'
  <2>1. CASE GcStep
    <3>1. UNCHANGED <<row, create, del, boot, rec>>
      BY <2>1 DEF GcStep, ListBoxes, CheckBox, RemoveOrphans, CheckVolume, RemoveVolumes, shared
    <3>2. box' = box
      <4>1. CASE RemoveOrphans
        <5>1. gc.pc = "removeBoxes"
          BY <4>1 DEF RemoveOrphans
        <5>2. \A x \in gc.batch : x \in Dbs /\ create[x].pc \notin Early /\ ~Live(x)
          BY <5>1, GcFacts DEF GcFits
        <5>3. QED
          BY <1>1, <1>2, <4>1, <5>2 DEF RemoveOrphans
      <4>2. QED
        BY <2>1, <4>1 DEF GcStep, ListBoxes, CheckBox, CheckVolume, RemoveVolumes, shared
    <3>3. QED
      BY <1>1, <3>1, <3>2 DEF BootCalm
  <2>2. CASE ReconcileStale
    <3>1. boot.pc # "up"
      BY <2>2 DEF ReconcileStale, SelectStale, NextStale, DropStaleBox, DropStaleVol, MarkStale
    <3>2. boot.todo = {} /\ boot.db = None /\ boot.pc \in {"select", "mark"}
      BY <1>1, <3>1 DEF BootCalm
    <3>3. ~DropStaleBox /\ ~DropStaleVol /\ ~MarkStale
      BY <3>2 DEF DropStaleBox, DropStaleVol, MarkStale
    <3>4. UNCHANGED <<row, box, create, del, rec>>
      BY <2>2, <3>3 DEF ReconcileStale, SelectStale, NextStale, shared
    <3>5. {d \in Dbs : row[d].status = "provisioning" /\ Readable(d)} = {}
      <4>1. \A d \in Dbs : row[d].status = "absent"
        BY <1>1, <3>1, CalmFacts DEF BootCalm, Stage, Early
      <4>2. QED
        BY <4>1
    <3>6. boot'.todo = {} /\ boot'.db = None /\ boot'.pc \in {"mark", "up"}
      <4>1. CASE SelectStale
        BY <1>1, <3>2, <3>5, <4>1 DEF SelectStale, Boot
      <4>2. CASE NextStale
        BY <1>1, <3>2, <4>2 DEF NextStale, Boot
      <4>3. QED
        BY <2>2, <3>3, <4>1, <4>2 DEF ReconcileStale
    <3>7. QED
      BY <1>1, <3>1, <3>4, <3>6 DEF BootCalm
  <2>3. CASE UNCHANGED vars
    BY <1>1, <2>3 DEF vars, BootCalm
  <2>4. QED
    BY <2>1, <2>2, <2>3
<1>4. DoomedStay
  BY <1>3 DEF DoomedStay, Doomed
<1>5. RecCalm'
  BY <1>3, <1>4, RecStays, SameSettled
<1>6. QED
  BY <1>1, <1>3, <1>4, <1>5, IdleCalm

\* Time only passes and faults are only used up.
LEMMA OneWay ==
  ASSUME [Next]_vars
  PROVE  (faults' = faults \/ Fault) /\ (now' = now \/ now' = now + 1)
<1>1. ASSUME NEW d \in Dbs, CreateStep(d) \/ BoxExits(d) \/ BoxRestarts(d)
      PROVE  (faults' = faults \/ Fault) /\ now' = now
  BY <1>1 DEF CreateStep, Request, CheckQuota, FindFreePort, Insert, CreateVolume,
     CreateContainer, StartContainer, RecordContainer, WaitHealthy, MarkReady,
     MarkFailed, CleanContainer, CleanVolume, BoxExits, BoxRestarts, Others
<1>2. ASSUME NEW k \in Deleters, DeleteStep(k) \/ \E d \in Dbs : DeleteArrives(k, d)
      PROVE  (faults' = faults \/ Fault) /\ now' = now
  BY <1>2 DEF DeleteStep, DeleteArrives, ReadDatabase, DeleteContainer, DeleteVolume,
     DeleteRow, shared
<1>3. ASSUME ReconcileStale \/ RecStep
      PROVE  (faults' = faults \/ Fault) /\ now' = now
  BY <1>3 DEF ReconcileStale, SelectStale, NextStale, DropStaleBox, DropStaleVol,
     MarkStale, RecStep, SelectReady, InspectReady, MarkUnavailable, shared
<1>4. ASSUME GcStep \/ ProcessRestarts
      PROVE  (faults' = faults \/ Fault) /\ now' = now
  BY <1>4 DEF GcStep, ListBoxes, CheckBox, RemoveOrphans, CheckVolume, RemoveVolumes,
     ProcessRestarts, shared
<1>5. ASSUME Tick \/ UNCHANGED vars
      PROVE  faults' = faults /\ (now' = now \/ now' = now + 1)
  BY <1>5 DEF Tick, vars
<1>6. QED
  BY <1>1, <1>2, <1>3, <1>4, <1>5 DEF Next

LEMMA NextCalm ==
  ASSUME IndInv, CalmInv, [Next]_vars
  PROVE  CalmInv'
<1>1. TypeOK /\ now \in Nat /\ faults \in Nat /\ MaxFaults \in Nat /\ faults <= MaxFaults
  BY Types, DatabasesAssumption DEF IndInv, CalmInv
<1>2. faults' <= MaxFaults /\ (Calm' => Calm)
  BY <1>1, OneWay DEF Calm, Fault
<1> SUFFICES ASSUME Calm, Calm' PROVE CalmFits'
  BY <1>2 DEF CalmInv
<1>3. CalmFits /\ ~Fault /\ now' = now
  BY <1>1, CalmStep DEF CalmInv
<1>4. ASSUME NEW d \in Dbs PROVE ~BoxExits(d) /\ ~BoxRestarts(d)
  <2>1. box[d].st # "exited"
    BY <1>3, CalmFacts DEF Stage, Running, Doomed, Create, Places, Early
  <2>2. QED
    BY <1>3, <2>1 DEF BoxExits, BoxRestarts
<1>5. ~Tick /\ ~ProcessRestarts
  BY <1>1, <1>3 DEF Tick, ProcessRestarts
<1>6. CASE \E d \in Dbs : CreateStep(d)
  BY <1>3, <1>6, CreateStepCalm
<1>7. CASE \E k \in Deleters : DeleteStep(k) \/ \E d \in Dbs : DeleteArrives(k, d)
  BY <1>3, <1>7, DeleteBeginsCalm, DeleteContainerCalm, DeleteVolumeCalm, DeleteRowCalm
     DEF DeleteStep
<1>8. CASE RecStep
  BY <1>3, <1>8, InspectCalm, MarkUnavailableCalm DEF RecStep
<1>9. CASE GcStep \/ ReconcileStale \/ UNCHANGED vars
  BY <1>3, <1>9, LoopsCalm
<1>10. QED
  BY <1>4, <1>5, <1>6, <1>7, <1>8, <1>9 DEF Next

LEMMA InitCalm == Init => CalmInv
<1> SUFFICES ASSUME Init PROVE CalmFits
  BY DatabasesAssumption DEF CalmInv, Init
<1>1. \A d \in Dbs : /\ row[d].status = "absent" /\ box[d].st = "none"
                     /\ create[d].pc = "new" /\ create[d].port = None /\ create[d].attempt = 0
  BY DEF Init, NewCreate
<1>2. \A d \in Dbs : Stage(d) /\ Tries(d)
  BY <1>1 DEF Stage, Tries, Early, HasRow, Statuses
<1>3. PortsUnique
  BY <1>1 DEF PortsUnique, Holds, HasRow, Statuses
<1>4. RecCalm /\ BootCalm
  BY <1>1 DEF Init, RecCalm, BootCalm, IdleRec, IdleBoot
<1>5. QED
  BY <1>2, <1>3, <1>4 DEF CalmFits

\* For any number of Creates, Deletes, ports and attempts: while nothing fails and no
\* time passes, a Create that found a port ends ready or deleted, or lost to as
\* many other Creates as it has attempts or the range has ports; no race between
\* the search, the unique index, the reconciler and the collector fails it otherwise.
THEOREM RacesSucceed == Spec => []RacingCreatesSucceed
<1>1. IndInv /\ CalmInv /\ [Next]_vars => CalmInv'
  BY NextCalm
<1>2. CalmInv => RacingCreatesSucceed
  BY DEF CalmInv, CalmFits, Stage, Running, Doomed, GaveUp, RacingCreatesSucceed
<1>3. QED
  BY <1>1, <1>2, InitCalm, DatabasesInvariant, PTL DEF Spec

=============================================================================
