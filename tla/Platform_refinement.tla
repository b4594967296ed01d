------------------------- MODULE Platform_refinement -------------------------
(***************************************************************************)
(* Platform implements Hosting: every step of a deploy, a request, a loop, *)
(* the Docker engine or a restart is one step of the promise or leaves it  *)
(* where it was. What the promise gives for every service follows at the   *)
(* end, as invariants of Platform.                                         *)
(***************************************************************************)
EXTENDS Platform_proofs

----------------------------------------------------------------------------
(* What the refinement needs beyond IInv. *)

\* An id that was never used carries no label.
UnusedUnowned == \A c \in Containers : box[c].st = "unused" => box[c].svc = None

\* A row is inserted with an empty container_id over nothing.
AbsentBlank == \A s \in Services : row[s].status = "absent" => row[s].container = None

\* A deploy works on a service that was inserted, and on its way from the
\* creation of a container to the commit it holds a container of that service.
Aimed(w) ==
  /\ worker[w].pc # "idle" => row[worker[w].svc].status # "absent"
  /\ worker[w].pc \in {"start", "commit"} => box[worker[w].box].svc = worker[w].svc

RInv ==
  /\ UnusedUnowned
  /\ AbsentBlank
  /\ \A w \in Workers : Aimed(w)

----------------------------------------------------------------------------
(* The statements and the Docker calls as steps of the promise. *)

\* The step is a step of Hosting or changes nothing of it.
Maps == [Host!Next]_(Host!hostVars)

RowsLookSame ==
  \A s \in Services : /\ HostState(s)' = HostState(s)
                      /\ row'[s].container = row[s].container

BoxesLookSame ==
  \A c \in Containers : /\ box'[c].svc = box[c].svc
                        /\ box'[c].st \in BoxStates <=> box[c].st \in BoxStates

\* The rows and the labels keep what RInv says of them.
OwnKept ==
  /\ UnusedUnowned' /\ AbsentBlank'
  /\ \A s \in Services : row[s].status # "absent" => row'[s].status # "absent"
  /\ \A c \in Containers : box[c].st # "unused" => box'[c].svc = box[c].svc

\* What Hosting sees of a status.
LEMMA HostStates ==
  ASSUME NEW s \in Services, row[s] \in Row
  PROVE  /\ row[s].status = "absent" => HostState(s) = "absent"
         /\ row[s].status = "deleted" => HostState(s) = "deleted"
         /\ row[s].status = "running" => HostState(s) = "running"
         /\ row[s].status \in Statuses \ {"running"} => HostState(s) = "idle"
  BY DEF HostState, Row, Statuses

\* The same after a step.
LEMMA HostStatesNext ==
  ASSUME NEW s \in Services, row'[s] \in Row
  PROVE  /\ row'[s].status = "absent" => HostState(s)' = "absent"
         /\ row'[s].status = "deleted" => HostState(s)' = "deleted"
         /\ row'[s].status = "running" => HostState(s)' = "running"
         /\ row'[s].status \in Statuses \ {"running"} => HostState(s)' = "idle"
  BY DEF HostState, Row, Statuses

\* Rows that look the same are the same table to Hosting.
LEMMA SameTable ==
  ASSUME RowsLookSame
  PROVE  /\ [s \in Services |-> HostState(s)]' = [s \in Services |-> HostState(s)]
         /\ [s \in Services |-> row[s].container]' = [s \in Services |-> row[s].container]
  BY DEF RowsLookSame

\* Containers that look the same are the same containers to Hosting.
LEMMA SameEngine ==
  ASSUME BoxesLookSame
  PROVE  /\ [c \in Containers |-> box[c].svc]' = [c \in Containers |-> box[c].svc]
         /\ Existing' = Existing
  BY DEF BoxesLookSame, Existing

\* A step Hosting does not see.
LEMMA Unseen ==
  ASSUME RowsLookSame, BoxesLookSame
  PROVE  Maps
  BY SameTable, SameEngine DEF Maps, Host!hostVars

\* An untouched table looks the same.
LEMMA SameRowsLook ==
  ASSUME UNCHANGED row
  PROVE  RowsLookSame
  BY DEF RowsLookSame, HostState

\* An untouched engine looks the same.
LEMMA SameBoxesLook ==
  ASSUME UNCHANGED box
  PROVE  BoxesLookSame
  BY DEF BoxesLookSame

\* A row that changes alone is one step of Hosting: it comes, its service is
\* resumed or paused, it adopts a container, or it goes.
LEMMA OneRow ==
  ASSUME NEW s \in Services, NEW new \in Row, row \in [Services -> Row],
         row' = [row EXCEPT ![s] = new], BoxesLookSame,
         \/ new.container = row[s].container /\ row[s].status \in Statuses
              /\ new.status \in Statuses
              /\ (new.status = "running" => row[s].container # None)
         \/ new.container = None /\ row[s].container = None
              /\ row[s].status = "absent" /\ new.status \in Statuses \ {"running"}
         \/ new.container = None /\ row[s].status \in Statuses /\ new.status = "deleted"
         \/ /\ row[s].status \in Statuses /\ new.status = "running"
            /\ new.container \in Containers /\ box[new.container].svc = s
  PROVE  Maps
<1>1. row[s] \in Row /\ row'[s] = new
  OBVIOUS
<1>2. /\ row[s].status = "absent" => HostState(s) = "absent"
      /\ row[s].status = "running" => HostState(s) = "running"
      /\ row[s].status \in Statuses \ {"running"} => HostState(s) = "idle"
  BY <1>1, HostStates
<1>3. /\ new.status = "deleted" => HostState(s)' = "deleted"
      /\ new.status = "running" => HostState(s)' = "running"
      /\ new.status \in Statuses \ {"running"} => HostState(s)' = "idle"
  BY <1>1, HostStatesNext
<1>4. \A x \in Services : x # s => HostState(x)' = HostState(x) /\ row'[x] = row[x]
  BY DEF HostState
<1>5. /\ [c \in Containers |-> box[c].svc]' = [c \in Containers |-> box[c].svc]
      /\ Existing' = Existing
  BY SameEngine
<1> DEFINE st == [x \in Services |-> HostState(x)]
           rd == [x \in Services |-> row[x].container]
<1>6. st' = [st EXCEPT ![s] = HostState(s)']
  BY <1>4
<1>7. rd' = [rd EXCEPT ![s] = new.container]
  BY <1>1, <1>4
<1>8. /\ st[s] = HostState(s) /\ rd[s] = row[s].container
  OBVIOUS
<1>9. CASE HostState(s)' = HostState(s) /\ new.container = row[s].container
  BY <1>1, <1>4, <1>9, Unseen DEF RowsLookSame
<1>10. CASE HostState(s) = "absent" /\ HostState(s)' = "idle"
            /\ new.container = row[s].container
  <2>1. rd' = rd
    BY <1>7, <1>8, <1>10
  <2>2. Host!Register(s)
    BY <1>5, <1>6, <1>8, <1>10, <2>1 DEF Host!Register
  <2>3. QED
    BY <2>2 DEF Maps, Host!Next
<1>11. CASE HostState(s) = "idle" /\ HostState(s)' = "running"
            /\ new.container = row[s].container /\ row[s].container # None
  <2>1. rd' = rd
    BY <1>7, <1>8, <1>11
  <2>2. Host!Resume(s)
    BY <1>5, <1>6, <1>8, <1>11, <2>1 DEF Host!Resume
  <2>3. QED
    BY <2>2 DEF Maps, Host!Next
<1>12. CASE HostState(s) = "running" /\ HostState(s)' = "idle"
            /\ new.container = row[s].container
  <2>1. rd' = rd
    BY <1>7, <1>8, <1>12
  <2>2. Host!Pause(s)
    BY <1>5, <1>6, <1>8, <1>12, <2>1 DEF Host!Pause
  <2>3. QED
    BY <2>2 DEF Maps, Host!Next
<1>13. CASE HostState(s) \in {"idle", "running"} /\ HostState(s)' = "deleted"
            /\ new.container = None
  <2>1. Host!Unregister(s)
    BY <1>5, <1>6, <1>7, <1>8, <1>13 DEF Host!Unregister, Host!Recorded
  <2>2. QED
    BY <2>1 DEF Maps, Host!Next
<1>14. CASE HostState(s) \in {"idle", "running"} /\ HostState(s)' = "running"
            /\ new.container \in Containers /\ box[new.container].svc = s
  <2>1. Host!Adopt(s, new.container)
    BY <1>5, <1>6, <1>7, <1>8, <1>14 DEF Host!Adopt, Host!Recorded
  <2>2. QED
    BY <1>14, <2>1 DEF Maps, Host!Next
<1>15. QED
  BY <1>1, <1>2, <1>3, <1>9, <1>10, <1>11, <1>12, <1>13, <1>14

\* A container that is removed is withdrawn.
LEMMA Removed ==
  ASSUME box \in [Containers -> Box], NEW c \in Containers, Exists(c), RemoveBox(c),
         RowsLookSame
  PROVE  Maps
<1>1. /\ \A x \in Containers : box'[x].svc = box[x].svc
      /\ \A x \in Containers : x # c => box'[x] = box[x]
      /\ box'[c].st = "removed"
  BY DEF RemoveBox, Box
<1>2. Existing' = Existing \ {c} /\ c \in Existing
  BY <1>1 DEF Existing, Exists, BoxStates
<1>3. [x \in Containers |-> box[x].svc]' = [x \in Containers |-> box[x].svc]
  BY <1>1
<1>4. Host!Withdraw(c)
  BY <1>2, <1>3, SameTable DEF Host!Withdraw
<1>5. QED
  BY <1>4 DEF Maps, Host!Next

\* A container that is created is provided.
LEMMA Created ==
  ASSUME box \in [Containers -> Box], NEW c \in Containers, NEW s \in Services,
         UnusedUnowned, row[s] \in Row, row[s].status # "absent", Named(s) = {},
         CreateBox(c, s), RowsLookSame
  PROVE  Maps
<1> DEFINE new == [BlankBox EXCEPT !.svc = s, !.st = "created", !.createdAt = now]
<1>1. new.svc = s /\ new.st = "created"
  BY DEF BlankBox
<1>2. box[c].svc = None /\ box' = [box EXCEPT ![c] = new]
  BY DEF CreateBox, UnusedUnowned
<1> HIDE DEF new
<1>3. Existing' = Existing \cup {c}
  BY <1>1, <1>2 DEF Existing, BoxStates
<1> DEFINE ow == [x \in Containers |-> box[x].svc]
<1>4. ow' = [ow EXCEPT ![c] = s]
  BY <1>1, <1>2
<1>5. HostState(s) # "absent"
  BY HostStates DEF Row
<1>6. \A x \in Existing : ow[x] # s
  BY DEF Named, Existing
<1>7. Host!Provide(s, c)
  BY <1>2, <1>3, <1>4, <1>5, <1>6, SameTable DEF Host!Provide
<1>8. QED
  BY <1>7 DEF Maps, Host!Next

\* A table whose one row changes, without going back to "absent", keeps RInv's part.
LEMMA OneRowOwn ==
  ASSUME RInv, NEW s \in Services, NEW new, row \in [Services -> Row],
         row' = [row EXCEPT ![s] = new], new.status # "absent", UNCHANGED box
  PROVE  OwnKept
  BY DEF RInv, UnusedUnowned, AbsentBlank, OwnKept

\* An untouched table keeps RInv's part, if the labels stay.
LEMMA BoxOwn ==
  ASSUME RInv, UNCHANGED row,
         \A c \in Containers :
           /\ box'[c].svc = box[c].svc
           /\ box'[c].st = "unused" => box[c].st = "unused"
  PROVE  OwnKept
  BY DEF RInv, UnusedUnowned, AbsentBlank, OwnKept

\* A step that touches neither the table nor the engine.
LEMMA StillMaps ==
  ASSUME RInv, UNCHANGED <<row, box>>
  PROVE  Maps /\ OwnKept
  BY SameRowsLook, SameBoxesLook, Unseen, BoxOwn

\* UPDATE ... SET status is a pause, a resumption or nothing.
LEMMA SetStatusMaps ==
  ASSUME StateTypeOK, RInv, NEW s \in Services, NEW st \in Statuses, SetStatus(s, st),
         UNCHANGED box, st = "running" /\ HasRow(s) => row[s].container # None
  PROVE  Maps /\ OwnKept
<1> DEFINE new == [row[s] EXCEPT !.status = st, !.updatedAt = now]
<1>1. CASE HasRow(s)
  <2>1. row \in [Services -> Row] /\ row[s] \in Row /\ now \in Nat
    BY DEF StateTypeOK
  <2>2. /\ new \in Row /\ new.status = st /\ new.container = row[s].container
        /\ st # "absent"
    BY <2>1 DEF Row, Statuses
  <2>3. row' = [row EXCEPT ![s] = new]
    BY <1>1 DEF SetStatus
  <2> HIDE DEF new
  <2>4. QED
    BY <1>1, <2>1, <2>2, <2>3, OneRow, OneRowOwn, SameBoxesLook DEF HasRow
<1>2. CASE ~HasRow(s)
  BY <1>2, StillMaps DEF SetStatus
<1>3. QED
  BY <1>1, <1>2

\* The image update is not seen.
LEMMA TouchRowMaps ==
  ASSUME StateTypeOK, RInv, NEW s \in Services, TouchRow(s), UNCHANGED box, IInv
  PROVE  Maps /\ OwnKept
<1> DEFINE new == [row[s] EXCEPT !.updatedAt = now]
<1>1. CASE HasRow(s)
  <2>1. row \in [Services -> Row] /\ row[s] \in Row /\ now \in Nat
    BY DEF StateTypeOK
  <2>2. /\ new \in Row /\ new.status = row[s].status /\ new.container = row[s].container
        /\ new.status \in Statuses /\ new.status # "absent"
    BY <1>1, <2>1 DEF Row, Statuses, HasRow
  <2>3. row' = [row EXCEPT ![s] = new]
    BY <1>1 DEF TouchRow
  <2>4. row[s].status = "running" => row[s].container # None
    BY DEF IInv, RunningHasContainer
  <2> HIDE DEF new
  <2>5. QED
    BY <2>1, <2>2, <2>3, <2>4, OneRow, OneRowOwn, SameBoxesLook
<1>2. CASE ~HasRow(s)
  BY <1>2, StillMaps DEF TouchRow
<1>3. QED
  BY <1>1, <1>2

\* Closing a circuit pauses the service or is not seen.
LEMMA CloseCircuitMaps ==
  ASSUME StateTypeOK, RInv, NEW s \in Services, NEW r \in Nat \cup {None},
         CloseCircuit(s, r), UNCHANGED box
  PROVE  Maps /\ OwnKept
<1> DEFINE new == [row[s] EXCEPT !.status = "stopped", !.updatedAt = now,
                                 !.circuitOpen = FALSE, !.retryAt = r]
<1>1. CASE HasRow(s)
  <2>1. row \in [Services -> Row] /\ row[s] \in Row /\ now \in Nat
    BY DEF StateTypeOK
  <2>2. new \in Row
    BY <2>1, Zenon DEF Row, Statuses
  <2>3. new.status = "stopped" /\ new.container = row[s].container
    BY <2>1 DEF Row
  <2>4. row' = [row EXCEPT ![s] = new]
    BY <1>1 DEF CloseCircuit
  <2> HIDE DEF new
  <2>5. QED
    BY <1>1, <2>1, <2>2, <2>3, <2>4, OneRow, OneRowOwn, SameBoxesLook
    DEF HasRow, Statuses
<1>2. CASE ~HasRow(s)
  BY <1>2, StillMaps DEF CloseCircuit
<1>3. QED
  BY <1>1, <1>2

\* The INSERT registers the service.
LEMMA InsertRowMaps ==
  ASSUME StateTypeOK, RInv, NEW s \in Services, row[s].status = "absent", InsertRow(s),
         UNCHANGED box
  PROVE  Maps /\ OwnKept
<1> DEFINE new == [BlankRow EXCEPT !.status = "created", !.updatedAt = now]
<1>1. row \in [Services -> Row] /\ now \in Nat /\ row[s].container = None
  BY DEF StateTypeOK, RInv, AbsentBlank
<1>2. /\ new \in Row /\ new.status = "created" /\ new.container = None
  BY <1>1 DEF Row, BlankRow, Statuses
<1>3. row' = [row EXCEPT ![s] = new]
  BY DEF InsertRow
<1> HIDE DEF new
<1>4. QED
  BY <1>1, <1>2, <1>3, OneRow, OneRowOwn, SameBoxesLook DEF Statuses

\* The DELETE unregisters it.
LEMMA DeleteRowMaps ==
  ASSUME StateTypeOK, RInv, NEW s \in Services, DeleteRow(s), UNCHANGED box
  PROVE  Maps /\ OwnKept
<1> DEFINE new == [BlankRow EXCEPT !.status = "deleted"]
<1>1. row \in [Services -> Row] /\ new \in Row /\ new.status = "deleted"
      /\ new.container = None
  BY DEF StateTypeOK, Row, BlankRow
<1>2. CASE HasRow(s)
  <2>1. row' = [row EXCEPT ![s] = new]
    BY <1>2 DEF DeleteRow
  <2> HIDE DEF new
  <2>2. QED
    BY <1>1, <1>2, <2>1, OneRow, OneRowOwn, SameBoxesLook DEF HasRow
<1>3. CASE ~HasRow(s)
  BY <1>3, StillMaps DEF DeleteRow
<1>4. QED
  BY <1>2, <1>3

\* The commit of a deploy adopts the container it made.
LEMMA SetRunningMaps ==
  ASSUME StateTypeOK, RInv, NEW s \in Services, NEW c \in Containers, HasRow(s),
         box[c].svc = s, SetRunning(s, c), UNCHANGED box
  PROVE  Maps /\ OwnKept
<1> DEFINE new == [row[s] EXCEPT !.status = "running", !.container = c,
                                 !.updatedAt = now]
<1>1. row \in [Services -> Row] /\ row[s] \in Row /\ now \in Nat
  BY DEF StateTypeOK
<1>2. /\ new \in Row /\ new.status = "running" /\ new.container = c
  BY <1>1 DEF Row, Statuses
<1>3. row' = [row EXCEPT ![s] = new]
  BY DEF SetRunning
<1> HIDE DEF new
<1>4. QED
  BY <1>1, <1>2, <1>3, OneRow, OneRowOwn, SameBoxesLook DEF HasRow

\* Stopping and starting a container that exists is not seen.
LEMMA StopBoxMaps ==
  ASSUME StateTypeOK, RInv, NEW c \in Containers, StopBox(c), UNCHANGED row
  PROVE  Maps /\ OwnKept
<1>1. \A x \in Containers :
        /\ box'[x].svc = box[x].svc
        /\ box'[x].st = (IF x = c /\ box[x].st = "running" THEN "exited" ELSE box[x].st)
  BY DEF StopBox, StateTypeOK, Box
<1>2. BoxesLookSame
  BY <1>1 DEF BoxesLookSame, BoxStates
<1>3. QED
  BY <1>1, <1>2, SameRowsLook, Unseen, BoxOwn

\* A container that exists keeps its label and its existence through any call
\* that leaves it in one of the states of an existing container.
LEMMA OneBoxMaps ==
  ASSUME StateTypeOK, RInv, NEW c \in Containers, box[c].st \in BoxStates, NEW new,
         box' = [box EXCEPT ![c] = new], new.svc = box[c].svc, new.st \in BoxStates,
         UNCHANGED row
  PROVE  Maps /\ OwnKept
<1>1. \A x \in Containers :
        /\ box'[x].svc = box[x].svc
        /\ x # c => box'[x].st = box[x].st
        /\ x = c => box'[x].st = new.st
  BY DEF StateTypeOK
<1>2. BoxesLookSame
  BY <1>1 DEF BoxesLookSame
<1>3. \A x \in Containers : box'[x].st = "unused" => box[x].st = "unused"
  BY <1>1 DEF BoxStates
<1>4. QED
  BY <1>1, <1>2, <1>3, SameRowsLook, Unseen, BoxOwn

\* Starting an existing container is not seen.
LEMMA StartBoxMaps ==
  ASSUME StateTypeOK, RInv, NEW c \in Containers, box[c].st \in BoxStates, StartBox(c),
         UNCHANGED row
  PROVE  Maps /\ OwnKept
<1> DEFINE new == [box[c] EXCEPT !.st = "running", !.manual = FALSE,
                                 !.unhealthy = FALSE]
<1>1. box[c] \in Box
  BY DEF StateTypeOK
<1>2. new.svc = box[c].svc /\ new.st \in BoxStates
  BY <1>1 DEF Box, BoxStates
<1>3. box' = [box EXCEPT ![c] = new]
  BY DEF StartBox
<1> HIDE DEF new
<1>4. QED
  BY <1>2, <1>3, OneBoxMaps

\* A removal withdraws the container.
LEMMA RemoveBoxMaps ==
  ASSUME StateTypeOK, RInv, NEW c \in Containers, Exists(c), RemoveBox(c), UNCHANGED row
  PROVE  Maps /\ OwnKept
<1>1. Maps
  BY Removed, SameRowsLook DEF StateTypeOK
<1>2. \A x \in Containers :
        /\ box'[x].svc = box[x].svc
        /\ box'[x].st = "unused" => box[x].st = "unused"
  BY DEF RemoveBox, StateTypeOK, Box
<1>3. QED
  BY <1>1, <1>2, BoxOwn

\* Stop and remove withdraws the container, or fails unseen.
LEMMA StopAndRemoveMaps ==
  ASSUME StateTypeOK, RInv, NEW c, StopAndRemove(c), UNCHANGED row
  PROVE  Maps /\ OwnKept
<1>1. Exists(c) => c \in Containers
  BY DEF Exists
<1>2. QED
  BY <1>1, StillMaps, RemoveBoxMaps, StopBoxMaps DEF StopAndRemove

\* So does a removal whose error is ignored.
LEMMA TryRemoveMaps ==
  ASSUME StateTypeOK, RInv, NEW c, TryRemove(c), UNCHANGED row
  PROVE  Maps /\ OwnKept
<1>1. Exists(c) => c \in Containers
  BY DEF Exists
<1>2. QED
  BY <1>1, StillMaps, RemoveBoxMaps DEF TryRemove

\* A creation provides the container.
LEMMA CreateBoxMaps ==
  ASSUME StateTypeOK, RInv, NEW c \in Containers, NEW s \in Services,
         row[s].status # "absent", Named(s) = {}, CreateBox(c, s), UNCHANGED row
  PROVE  Maps /\ OwnKept /\ box'[c].svc = s
<1>1. Maps
  BY Created, SameRowsLook DEF StateTypeOK, RInv
<1>2. /\ box'[c].svc = s /\ box'[c].st = "created" /\ box[c].st = "unused"
      /\ \A x \in Containers : x # c => box'[x] = box[x]
  BY DEF CreateBox, BlankBox, StateTypeOK
<1>3. OwnKept
  BY <1>2 DEF RInv, OwnKept, UnusedUnowned, AbsentBlank
<1>4. QED
  BY <1>1, <1>2, <1>3

----------------------------------------------------------------------------
(* The processes. *)

\* A deploy that does not move stays aimed: rows do not go back to "absent" and
\* containers keep their labels.
LEMMA StaysAimed ==
  ASSUME IInv, RInv, OwnKept, NEW w \in Workers, worker'[w] = worker[w]
  PROVE  Aimed(w)'
<1>1. /\ Aimed(w)
      /\ worker[w].pc # "idle" => worker[w].svc \in Services
      /\ worker[w].pc \in {"start", "commit"} =>
           worker[w].box \in Containers /\ box[worker[w].box].st # "unused"
  BY DEF RInv, IInv, WorkerOK
<1>2. worker[w].pc # "idle" => row'[worker[w].svc].status # "absent"
  BY <1>1 DEF Aimed, OwnKept
<1>3. worker[w].pc \in {"start", "commit"} => box'[worker[w].box].svc = worker[w].svc
  BY <1>1 DEF Aimed, OwnKept
<1>4. QED
  BY <1>2, <1>3 DEF Aimed

\* A step that moves no deploy.
LEMMA NoDeploy ==
  ASSUME IInv, RInv, OwnKept, UNCHANGED worker
  PROVE  RInv'
  BY StaysAimed DEF RInv, OwnKept

\* A step that moves one deploy, to a place where it is aimed.
LEMMA OneDeploy ==
  ASSUME IInv, RInv, OwnKept, NEW w \in Workers, Aimed(w)',
         \A v \in Workers : v # w => worker'[v] = worker[v]
  PROVE  RInv'
<1>1. \A v \in Workers : Aimed(v)'
  BY StaysAimed
<1>2. QED
  BY <1>1 DEF RInv, OwnKept

\* A deploy whose service stays and that holds no new container.
LEMMA OnwardAimed ==
  ASSUME IInv, RInv, OwnKept, NEW w \in Workers, NEW new, worker[w].pc # "idle",
         worker' = [worker EXCEPT ![w] = new], new.svc = worker[w].svc,
         new.pc \in {"start", "commit"} =>
           worker[w].pc \in {"start", "commit"} /\ new.box = worker[w].box
  PROVE  RInv'
<1>1. worker \in [Workers -> Worker]
  BY DEF IInv, TypeOK, ManagerTypeOK
<1>2. /\ Aimed(w) /\ worker[w].svc \in Services
      /\ worker[w].pc \in {"start", "commit"} =>
           worker[w].box \in Containers /\ box[worker[w].box].st # "unused"
  BY DEF RInv, IInv, WorkerOK
<1>3. worker'[w] = new /\ \A v \in Workers : v # w => worker'[v] = worker[v]
  BY <1>1
<1>4. row'[new.svc].status # "absent"
  BY <1>2 DEF Aimed, OwnKept
<1>5. new.pc \in {"start", "commit"} => box'[new.box].svc = new.svc
  BY <1>2 DEF Aimed, OwnKept
<1>6. Aimed(w)'
  BY <1>3, <1>4, <1>5 DEF Aimed
<1>7. QED
  BY <1>3, <1>6, OneDeploy

\* Moving on, unless to the steps that hold a created container.
LEMMA GotoAimed ==
  ASSUME IInv, RInv, OwnKept, NEW w \in Workers, NEW l, Goto(w, l),
         worker[w].pc # "idle",
         l \in {"start", "commit"} => worker[w].pc \in {"start", "commit"}
  PROVE  RInv'
<1> DEFINE new == [worker[w] EXCEPT !.pc = l]
<1>1. worker \in [Workers -> Worker] /\ worker[w] \in Worker
  BY DEF IInv, TypeOK, ManagerTypeOK
<1>2. new.pc = l /\ new.svc = worker[w].svc /\ new.box = worker[w].box
  BY <1>1 DEF Worker
<1>3. worker' = [worker EXCEPT ![w] = new]
  BY DEF Goto
<1> HIDE DEF new
<1>4. QED
  BY <1>2, <1>3, OnwardAimed

\* A finished deploy.
LEMMA FinishAimed ==
  ASSUME IInv, RInv, OwnKept, NEW w \in Workers, Finish(w)
  PROVE  RInv'
<1>1. worker'[w].pc = "idle" /\ \A v \in Workers : v # w => worker'[v] = worker[v]
  BY DEF IInv, TypeOK, ManagerTypeOK, Finish, IdleWorker
<1>2. Aimed(w)'
  BY <1>1 DEF Aimed
<1>3. QED
  BY <1>1, <1>2, OneDeploy

\* Giving up.
LEMMA GiveUpAimed ==
  ASSUME IInv, RInv, OwnKept, NEW w \in Workers, NEW l \in {"rejected", "failing"},
         GiveUp(w, l), worker[w].pc # "idle"
  PROVE  RInv'
  BY GotoAimed, FinishAimed DEF GiveUp

\* A goroutine started for a service that was inserted.
LEMMA SpawnAimed ==
  ASSUME IInv, RInv, OwnKept, NEW w \in Workers, NEW kind, NEW s \in Services,
         Spawn(w, kind, s), row'[s].status # "absent"
  PROVE  RInv'
<1>1. /\ worker'[w].pc = "check" /\ worker'[w].svc = s
      /\ \A v \in Workers : v # w => worker'[v] = worker[v]
  BY DEF IInv, TypeOK, ManagerTypeOK, Spawn
<1>2. Aimed(w)'
  BY <1>1 DEF Aimed
<1>3. QED
  BY <1>1, <1>2, OneDeploy

----------------------------------------------------------------------------
(* Steps of a deploy *)

\* The steps that touch neither the table nor the engine.
LEMMA WaitingMaps ==
  ASSUME IInv, RInv, NEW w \in Workers,
         \/ CheckTenantActive(w) \/ EnterQueue(w) \/ AcquireSlot(w)
         \/ PullImage(w) \/ SetupNetwork(w) \/ DeployExpires(w)
  PROVE  Maps /\ RInv'
<1>1. UNCHANGED <<row, box>>
  BY DEF CheckTenantActive, EnterQueue, AcquireSlot, PullImage, SetupNetwork,
         DeployExpires, stateVars
<1>2. Maps /\ OwnKept
  BY <1>1, StillMaps
<1>3. CASE CheckTenantActive(w)
  BY <1>2, <1>3, GotoAimed, GiveUpAimed DEF CheckTenantActive, At
<1>4. CASE EnterQueue(w)
  BY <1>2, <1>4, GotoAimed, GiveUpAimed DEF EnterQueue, At
<1>5. CASE AcquireSlot(w)
  BY <1>2, <1>5, GotoAimed DEF AcquireSlot, At
<1>6. CASE PullImage(w)
  BY <1>2, <1>6, GotoAimed DEF PullImage, At
<1>7. CASE SetupNetwork(w)
  BY <1>2, <1>7, GotoAimed DEF SetupNetwork, At
<1>8. CASE DeployExpires(w)
  BY <1>2, <1>8, FinishAimed DEF DeployExpires
<1>9. QED
  BY <1>3, <1>4, <1>5, <1>6, <1>7, <1>8

\* getOwned, twice: the deploy aims at the container the row names.
LEMMA ReadingMaps ==
  ASSUME IInv, RInv, NEW w \in Workers, LoadService(w) \/ ReloadService(w)
  PROVE  Maps /\ RInv'
<1>1. UNCHANGED <<row, box>>
  BY DEF LoadService, ReloadService
<1>2. Maps /\ OwnKept
  BY <1>1, StillMaps
<1>3. worker[w].pc # "idle" /\ worker \in [Workers -> Worker] /\ worker[w] \in Worker
  BY DEF LoadService, ReloadService, At, IInv, TypeOK, ManagerTypeOK
<1>4. ASSUME NEW l, NEW b, l \notin {"start", "commit"},
             worker' = [worker EXCEPT ![w].pc = l, ![w].box = b]
      PROVE  RInv'
  <2> DEFINE new == [worker[w] EXCEPT !.pc = l, !.box = b]
  <2>1. new.pc = l /\ new.svc = worker[w].svc /\ worker' = [worker EXCEPT ![w] = new]
    BY <1>3, <1>4 DEF Worker
  <2> HIDE DEF new
  <2>2. QED
    BY <1>2, <1>3, <1>4, <2>1, OnwardAimed
<1>5. CASE LoadService(w)
  <2>1. CASE Finish(w)
    BY <1>2, <2>1, FinishAimed
  <2>2. CASE GiveUp(w, "failing")
    BY <1>2, <1>3, <2>2, GiveUpAimed
  <2>3. CASE worker' = [worker EXCEPT
                ![w].pc = IF worker[w].kind = "Deploy" /\ row[worker[w].svc].circuitOpen
                            THEN "failing" ELSE "mark",
                ![w].box = IF worker[w].kind = "Deploy" THEN None
                             ELSE row[worker[w].svc].container]
    <3> DEFINE l == IF worker[w].kind = "Deploy" /\ row[worker[w].svc].circuitOpen
                      THEN "failing" ELSE "mark"
               b == IF worker[w].kind = "Deploy" THEN None
                      ELSE row[worker[w].svc].container
    <3>1. l \notin {"start", "commit"}
      OBVIOUS
    <3>2. worker' = [worker EXCEPT ![w].pc = l, ![w].box = b]
      BY <2>3
    <3> HIDE DEF l, b
    <3>3. QED
      BY <1>2, <1>4, <3>1, <3>2
  <2>4. QED
    BY <1>2, <1>5, <2>1, <2>2, <2>3 DEF LoadService
<1>6. CASE ReloadService(w)
  <2>1. CASE Finish(w)
    BY <1>2, <2>1, FinishAimed
  <2>2. CASE worker' = [worker EXCEPT ![w].pc = "clean",
                                      ![w].box = row[worker[w].svc].container]
    <3> DEFINE l == "clean"
               b == row[worker[w].svc].container
    <3>1. l \notin {"start", "commit"}
      OBVIOUS
    <3>2. worker' = [worker EXCEPT ![w].pc = l, ![w].box = b]
      BY <2>2
    <3> HIDE DEF l, b
    <3>3. QED
      BY <1>2, <1>4, <3>1, <3>2
  <2>3. QED
    BY <1>2, <1>6, <2>1, <2>2 DEF ReloadService
<1>7. QED
  BY <1>5, <1>6

\* 'deploying' pauses a running service or is not seen.
LEMMA MarkDeployingMaps ==
  ASSUME IInv, RInv, NEW w \in Workers, MarkDeploying(w)
  PROVE  Maps /\ RInv'
<1> DEFINE next == IF worker[w].kind = "Deploy" THEN "pull" ELSE "clean"
<1>1. /\ worker[w].pc # "idle" /\ worker \in [Workers -> Worker] /\ worker[w] \in Worker
      /\ worker[w].svc \in Services /\ StateTypeOK /\ UNCHANGED box
      /\ next \notin {"start", "commit"}
  BY DEF MarkDeploying, At, IInv, TypeOK, ManagerTypeOK, WorkerOK
<1>2. CASE /\ SetStatus(worker[w].svc, "deploying")
           /\ worker' = [worker EXCEPT ![w].pc = next, ![w].mark = "written"]
  <2>1. "deploying" \in Statuses /\ "deploying" # "running"
    BY DEF Statuses
  <2>2. Maps /\ OwnKept
    BY <1>1, <1>2, <2>1, SetStatusMaps
  <2> DEFINE new == [worker[w] EXCEPT !.pc = next, !.mark = "written"]
  <2>3. new.pc = next /\ new.svc = worker[w].svc /\ worker' = [worker EXCEPT ![w] = new]
    BY <1>1, <1>2 DEF Worker
  <2> HIDE DEF new
  <2>4. QED
    BY <1>1, <2>2, <2>3, OnwardAimed
<1>3. CASE Goto(w, next) /\ UNCHANGED row
  BY <1>1, <1>3, StillMaps, GotoAimed
<1>4. QED
  BY <1>2, <1>3 DEF MarkDeploying

\* The old container is withdrawn.
LEMMA CleanOldMaps ==
  ASSUME IInv, RInv, NEW w \in Workers, CleanOld(w)
  PROVE  Maps /\ RInv'
<1>1. /\ worker[w].pc # "idle" /\ worker \in [Workers -> Worker] /\ worker[w] \in Worker
      /\ StateTypeOK
  BY DEF CleanOld, At, IInv, TypeOK, ManagerTypeOK
<1>2. Maps /\ OwnKept
  BY <1>1, StopAndRemoveMaps DEF CleanOld
<1> DEFINE l == IF worker[w].kind = "Deploy" THEN "create" ELSE "net"
           new == [worker[w] EXCEPT !.box = None, !.pc = l]
<1>3. new.pc = l /\ new.svc = worker[w].svc /\ worker' = [worker EXCEPT ![w] = new]
  BY <1>1 DEF Worker, CleanOld
<1>4. l \notin {"start", "commit"}
  OBVIOUS
<1> HIDE DEF new, l
<1>5. QED
  BY <1>1, <1>2, <1>3, <1>4, OnwardAimed

\* The UPDATE of the image is not seen.
LEMMA UpdateImageMaps ==
  ASSUME IInv, RInv, NEW w \in Workers, UpdateImage(w)
  PROVE  Maps /\ RInv'
<1>1. /\ worker[w].pc # "idle" /\ worker[w].svc \in Services /\ StateTypeOK
      /\ UNCHANGED box
  BY DEF UpdateImage, At, IInv, TypeOK, WorkerOK
<1>2. CASE TouchRow(worker[w].svc) /\ Goto(w, "create")
  BY <1>1, <1>2, TouchRowMaps, GotoAimed
<1>3. CASE Finish(w) /\ UNCHANGED row
  BY <1>1, <1>3, StillMaps, FinishAimed
<1>4. QED
  BY <1>2, <1>3 DEF UpdateImage

\* ContainerCreate provides a container: the name being free, the service has
\* no other.
LEMMA CreateContainerMaps ==
  ASSUME IInv, RInv, NEW w \in Workers, CreateContainer(w)
  PROVE  Maps /\ RInv'
<1>1. /\ worker[w].pc # "idle" /\ worker \in [Workers -> Worker] /\ worker[w] \in Worker
      /\ worker[w].svc \in Services /\ StateTypeOK /\ UNCHANGED row
      /\ row[worker[w].svc].status # "absent"
  BY DEF CreateContainer, At, IInv, TypeOK, ManagerTypeOK, WorkerOK, RInv, Aimed
<1>2. CASE Goto(w, "failing") /\ UNCHANGED box
  BY <1>1, <1>2, StillMaps, GotoAimed
<1>3. ASSUME NEW c \in Containers, Named(worker[w].svc) = {}, CreateBox(c, worker[w].svc),
             worker' = [worker EXCEPT ![w].pc = "start", ![w].box = c]
      PROVE  Maps /\ RInv'
  <2>1. PICK s \in Services : s = worker[w].svc
    BY <1>1
  <2>2. Maps /\ OwnKept /\ box'[c].svc = s
    BY <1>1, <1>3, <2>1, CreateBoxMaps
  <2>3. /\ worker'[w].box = c /\ worker'[w].svc = s
        /\ \A v \in Workers : v # w => worker'[v] = worker[v]
    BY <1>1, <1>3, <2>1 DEF Worker
  <2>4. row'[s].status # "absent"
    BY <1>1, <2>1
  <2>5. Aimed(w)'
    BY <2>2, <2>3, <2>4 DEF Aimed
  <2>6. QED
    BY <2>2, <2>3, <2>5, OneDeploy
<1>4. QED
  BY <1>2, <1>3 DEF CreateContainer

\* ContainerStart is not seen; when it fails the container is withdrawn.
LEMMA StartContainerMaps ==
  ASSUME IInv, RInv, NEW w \in Workers, StartContainer(w)
  PROVE  Maps /\ RInv'
<1>1. /\ worker[w].pc = "start" /\ worker[w].box \in Containers /\ StateTypeOK
      /\ UNCHANGED row
  BY DEF StartContainer, At, IInv, TypeOK, WorkerOK
<1>2. Exists(worker[w].box) => box[worker[w].box].st \in BoxStates
  BY DEF Exists
<1>3. CASE Exists(worker[w].box) /\ StartBox(worker[w].box) /\ Goto(w, "commit")
  BY <1>1, <1>2, <1>3, StartBoxMaps, GotoAimed
<1>4. CASE UNCHANGED box /\ Goto(w, "failing")
  BY <1>1, <1>4, StillMaps, GotoAimed
<1>5. CASE Exists(worker[w].box) /\ RemoveBox(worker[w].box) /\ Goto(w, "failing")
  BY <1>1, <1>5, RemoveBoxMaps, GotoAimed
<1>6. QED
  BY <1>3, <1>4, <1>5 DEF StartContainer

\* The commit adopts the container this deploy made, for the service it is for.
LEMMA CommitDeployMaps ==
  ASSUME IInv, RInv, NEW w \in Workers, CommitDeploy(w)
  PROVE  Maps /\ RInv'
<1>1. /\ worker[w].pc = "commit" /\ worker[w].box \in Containers /\ StateTypeOK
      /\ worker[w].svc \in Services /\ UNCHANGED box
      /\ box[worker[w].box].svc = worker[w].svc
  BY DEF CommitDeploy, At, IInv, TypeOK, WorkerOK, RInv, Aimed
<1>2. CASE HasRow(worker[w].svc) /\ SetRunning(worker[w].svc, worker[w].box) /\ Finish(w)
  BY <1>1, <1>2, SetRunningMaps, FinishAimed
<1>3. CASE Goto(w, "undo") /\ UNCHANGED row
  BY <1>1, <1>3, StillMaps, GotoAimed
<1>4. QED
  BY <1>2, <1>3 DEF CommitDeploy

\* A commit that failed withdraws the container.
LEMMA UndoDeployMaps ==
  ASSUME IInv, RInv, NEW w \in Workers, UndoDeploy(w)
  PROVE  Maps /\ RInv'
  BY StopAndRemoveMaps, FinishAimed DEF UndoDeploy, IInv, TypeOK

\* 'failed' pauses a running service or is not seen.
LEMMA RecordFailureMaps ==
  ASSUME IInv, RInv, NEW w \in Workers, RecordFailure(w)
  PROVE  Maps /\ RInv'
<1>1. /\ worker[w].svc \in Services /\ StateTypeOK /\ UNCHANGED box /\ Finish(w)
  BY DEF RecordFailure, At, IInv, TypeOK, WorkerOK
<1>2. "failed" \in Statuses /\ "failed" # "running"
  BY DEF Statuses
<1>3. Maps /\ OwnKept
  BY <1>1, <1>2, SetStatusMaps, StillMaps DEF RecordFailure
<1>4. QED
  BY <1>1, <1>3, FinishAimed

\* Every step of a deploy.
LEMMA WorkerStepMaps ==
  ASSUME IInv, RInv, NEW w \in Workers, WorkerStep(w)
  PROVE  Maps /\ RInv'
  BY WaitingMaps, ReadingMaps, MarkDeployingMaps, CleanOldMaps, UpdateImageMaps,
     CreateContainerMaps, StartContainerMaps, CommitDeployMaps, UndoDeployMaps,
     RecordFailureMaps DEF WorkerStep

----------------------------------------------------------------------------
(* Steps of a request *)

\* builds.runBuild starts a deploy of a service that was inserted.
LEMMA DeployBuiltMaps ==
  ASSUME IInv, RInv, NEW w \in Workers, NEW s \in Services, DeployBuilt(w, s)
  PROVE  Maps /\ RInv'
<1>1. UNCHANGED <<row, box>> /\ row'[s].status # "absent"
  BY DEF DeployBuilt, stateVars
<1>2. QED
  BY <1>1, StillMaps, SpawnAimed DEF DeployBuilt

\* The INSERT registers the service, and its deploy is aimed at it.
LEMMA InsertServiceMaps ==
  ASSUME IInv, RInv, NEW k \in Clients, InsertService(k)
  PROVE  Maps /\ RInv'
<1>1. StateTypeOK /\ client[k].svc \in Services
  BY DEF InsertService, On, IInv, TypeOK, ClientOK
<1>2. PICK s \in Services : s = client[k].svc
  BY <1>1
<1>3. Maps /\ OwnKept
  BY <1>1, <1>2, InsertRowMaps DEF InsertService
<1>4. row'[s].status # "absent"
  BY <1>1, <1>2 DEF InsertService, InsertRow, BlankRow, StateTypeOK
<1>5. QED
  BY <1>2, <1>3, <1>4, SpawnAimed DEF InsertService

\* The steps of a request that touch neither the table nor the engine.
LEMMA AnsweringMaps ==
  ASSUME IInv, RInv, NEW k \in Clients,
         \/ HandlerChecksTenant(k) \/ CountServices(k) \/ ReadService(k)
         \/ SuspendTenant(k) \/ ListLabelled(k) \/ ListRows(k) \/ RequestCancelled(k)
         \/ \E op \in Ops \ {"Build"}, s \in Services : Arrive(k, op, s)
  PROVE  Maps /\ RInv'
<1>1. UNCHANGED <<row, box, worker>>
  BY DEF HandlerChecksTenant, CountServices, ReadService, SuspendTenant, ListLabelled,
         ListRows, RequestCancelled, Arrive, stateVars
<1>2. QED
  BY <1>1, StillMaps, NoDeploy

\* The Docker calls of a request.
LEMMA CallingMaps ==
  ASSUME IInv, RInv, NEW k \in Clients,
         \/ StopCall(k) \/ StartCall(k) \/ RemoveCall(k) \/ RemoveByName(k)
         \/ PurgeLabelled(k)
  PROVE  Maps /\ RInv'
<1>1. StateTypeOK /\ UNCHANGED <<row, worker>>
  BY DEF IInv, TypeOK, StopCall, StartCall, RemoveCall, RemoveByName, PurgeLabelled
<1>2. Exists(client[k].box) =>
        client[k].box \in Containers /\ box[client[k].box].st \in BoxStates
  BY DEF Exists
<1>3. CASE StopCall(k)
  BY <1>1, <1>2, <1>3, StopBoxMaps, StillMaps, NoDeploy DEF StopCall
<1>4. CASE StartCall(k)
  BY <1>1, <1>2, <1>4, StartBoxMaps, StillMaps, NoDeploy DEF StartCall
<1>5. CASE RemoveCall(k)
  BY <1>1, <1>5, StopAndRemoveMaps, TryRemoveMaps, NoDeploy DEF RemoveCall
<1>6. CASE RemoveByName(k)
  BY <1>1, <1>6, StopAndRemoveMaps, StillMaps, NoDeploy DEF RemoveByName
<1>7. CASE PurgeLabelled(k)
  BY <1>1, <1>7, StopAndRemoveMaps, StillMaps, NoDeploy DEF PurgeLabelled
<1>8. QED
  BY <1>3, <1>4, <1>5, <1>6, <1>7

\* One row of a suspension: its container is withdrawn, or stays.
LEMMA SettleRowMaps ==
  ASSUME IInv, RInv, NEW k \in Clients, SettleRow(k)
  PROVE  Maps /\ RInv'
<1>1. StateTypeOK /\ UNCHANGED <<row, worker>>
  BY DEF IInv, TypeOK, SettleRow
<1>2. \/ UNCHANGED box
      \/ \E p \in client[k].rows :
           Exists(p[2]) /\ (StopBox(p[2]) \/ RemoveBox(p[2]))
  BY DEF SettleRow
<1>3. CASE UNCHANGED box
  BY <1>1, <1>3, StillMaps, NoDeploy
<1>4. ASSUME NEW p \in client[k].rows, Exists(p[2]), StopBox(p[2]) \/ RemoveBox(p[2])
      PROVE  Maps /\ RInv'
  <2>1. p[2] \in Containers
    BY <1>4 DEF Exists
  <2>2. QED
    BY <1>1, <1>4, <2>1, StopBoxMaps, RemoveBoxMaps, NoDeploy
<1>5. QED
  BY <1>2, <1>3, <1>4

\* A handler resumes only a service whose row names a container.
LEMMA WriteStatusMaps ==
  ASSUME IInv, RInv, NEW k \in Clients, WriteStatus(k)
  PROVE  Maps /\ RInv'
<1>1. /\ StateTypeOK /\ UNCHANGED <<box, worker>>
      /\ client[k].svc \in Services /\ client[k].st \in Statuses
      /\ client[k].st = "running" /\ HasRow(client[k].svc) =>
           row[client[k].svc].container # None
  BY DEF WriteStatus, On, IInv, TypeOK, ManagerTypeOK, ClientOK, Client
<1>2. CASE SetStatus(client[k].svc, client[k].st)
  BY <1>1, <1>2, SetStatusMaps, NoDeploy
<1>3. CASE UNCHANGED row
  BY <1>1, <1>3, StillMaps, NoDeploy
<1>4. QED
  BY <1>2, <1>3 DEF WriteStatus

\* DELETE FROM services unregisters.
LEMMA DeleteServiceMaps ==
  ASSUME IInv, RInv, NEW k \in Clients, DeleteService(k)
  PROVE  Maps /\ RInv'
<1>1. StateTypeOK /\ client[k].svc \in Services
  BY DEF DeleteService, On, IInv, TypeOK, ClientOK
<1>2. QED
  BY <1>1, DeleteRowMaps, NoDeploy DEF DeleteService

\* The reset pauses the service, or is not seen.
LEMMA ResetCircuitBreakerMaps ==
  ASSUME IInv, RInv, NEW k \in Clients, ResetCircuitBreaker(k)
  PROVE  Maps /\ RInv'
<1>1. StateTypeOK /\ client[k].svc \in Services
  BY DEF ResetCircuitBreaker, On, IInv, TypeOK, ClientOK
<1>2. row[client[k].svc].retryAt \in Nat \cup {None}
  BY <1>1 DEF StateTypeOK, Row
<1>3. QED
  BY <1>1, <1>2, CloseCircuitMaps, NoDeploy DEF ResetCircuitBreaker

\* Every step of the service manager.
LEMMA ManagerMaps ==
  ASSUME IInv, RInv, ManagerNext
  PROVE  Maps /\ RInv'
<1>1. ASSUME NEW k \in Clients, ClientStep(k)
      PROVE  Maps /\ RInv'
  BY <1>1, InsertServiceMaps, AnsweringMaps, CallingMaps, SettleRowMaps, WriteStatusMaps,
     DeleteServiceMaps, ResetCircuitBreakerMaps DEF ClientStep
<1>2. QED
  BY <1>1, DeployBuiltMaps, WorkerStepMaps, AnsweringMaps DEF ManagerNext

----------------------------------------------------------------------------
(* The loops, the engine and the process *)

\* The steps of a reconciler tick that only read.
LEMMA LookingMaps ==
  ASSUME IInv, RInv, UNCHANGED worker,
         \/ ListContainers \/ SelectRunning \/ InspectNext \/ HealthNext
         \/ SelectRecoverable \/ TickAborts
  PROVE  Maps /\ RInv'
<1>1. UNCHANGED <<row, box>>
  BY DEF ListContainers, SelectRunning, InspectNext, HealthNext, SelectRecoverable,
         TickAborts, stateVars
<1>2. QED
  BY <1>1, StillMaps, NoDeploy

\* 'crashed' pauses a running service or is not seen.
LEMMA MarkingMaps ==
  ASSUME IInv, RInv, UNCHANGED worker, MarkCrashed \/ MarkUnhealthy
  PROVE  Maps /\ RInv'
<1>1. StateTypeOK /\ rec.svc \in Services /\ UNCHANGED box
  BY DEF MarkCrashed, MarkUnhealthy, InPc, IInv, TypeOK, ReconcilerOK
<1>2. "crashed" \in Statuses /\ "crashed" # "running"
  BY DEF Statuses
<1>3. QED
  BY <1>1, <1>2, SetStatusMaps, StillMaps, NoDeploy DEF MarkCrashed, MarkUnhealthy

\* The reconciler's Docker calls.
LEMMA KillingMaps ==
  ASSUME IInv, RInv, UNCHANGED worker, KillCrashed \/ DropUnhealthy \/ StopUnhealthy
  PROVE  Maps /\ RInv'
<1>1. StateTypeOK /\ UNCHANGED row
  BY DEF IInv, TypeOK, KillCrashed, DropUnhealthy, StopUnhealthy
<1>2. Exists(rec.box) => rec.box \in Containers
  BY DEF Exists
<1>3. QED
  BY <1>1, <1>2, StopAndRemoveMaps, TryRemoveMaps, StopBoxMaps, StillMaps, NoDeploy
  DEF KillCrashed, DropUnhealthy, StopUnhealthy

\* Step 1b pauses, or is not seen.
LEMMA RecoverNextMaps ==
  ASSUME IInv, RInv, UNCHANGED worker, RecoverNext
  PROVE  Maps /\ RInv'
<1>1. StateTypeOK /\ rec.due \subseteq Services /\ UNCHANGED box
  BY DEF IInv, TypeOK, ReconcilerTypeOK, ReconcilerState, RecoverNext
<1>2. None \in Nat \cup {None}
  OBVIOUS
<1>3. QED
  BY <1>1, <1>2, CloseCircuitMaps, StillMaps, NoDeploy DEF RecoverNext

\* Step 2 turns rows from 'deploying' to 'failed', both idle to Hosting.
LEMMA FailStaleDeploysMaps ==
  ASSUME IInv, RInv, UNCHANGED worker, FailStaleDeploys
  PROVE  Maps /\ RInv'
<1>1. StateTypeOK /\ UNCHANGED box
  BY DEF IInv, TypeOK, FailStaleDeploys
<1>2. CASE UNCHANGED row
  BY <1>1, <1>2, StillMaps, NoDeploy
<1>3. CASE row' = [s \in Services |->
                     IF Stale(s) THEN [row[s] EXCEPT !.status = "failed",
                                                     !.updatedAt = now]
                                 ELSE row[s]]
  <2>1. \A s \in Services :
          /\ row[s] \in Row
          /\ row'[s].container = row[s].container
          /\ \/ row'[s] = row[s]
             \/ row[s].status = "deploying" /\ row'[s].status = "failed"
    BY <1>1, <1>3 DEF StateTypeOK, Row, Stale
  <2>2. \A s \in Services : HostState(s)' = HostState(s)
    BY <2>1 DEF HostState
  <2>3. Maps
    BY <1>1, <2>1, <2>2, SameBoxesLook, Unseen DEF RowsLookSame
  <2>4. OwnKept
    BY <1>1, <2>1 DEF OwnKept, RInv, UnusedUnowned, AbsentBlank
  <2>5. QED
    BY <2>3, <2>4, NoDeploy
<1>4. QED
  BY <1>2, <1>3 DEF FailStaleDeploys

\* The collector withdraws, or only looks.
LEMMA CollectorMaps ==
  ASSUME IInv, RInv, UNCHANGED worker, CollectorNext
  PROVE  Maps /\ RInv'
<1>1. StateTypeOK /\ UNCHANGED row
  BY DEF IInv, TypeOK, CollectorNext, CollectorStep, ListServiceContainers, CheckNext,
         RemoveNext, CollectAborts, stateVars
<1>2. UNCHANGED box \/ \E c \in gc.orphaned : StopAndRemove(c)
  BY DEF CollectorNext, CollectorStep, ListServiceContainers, CheckNext, RemoveNext,
         CollectAborts, stateVars
<1>3. QED
  BY <1>1, <1>2, StopAndRemoveMaps, StillMaps, NoDeploy

\* Hosting sees neither time nor what happens inside a container.
LEMMA EnvironmentMaps ==
  ASSUME IInv, RInv, UNCHANGED worker, Environment
  PROVE  Maps /\ RInv'
<1>1. StateTypeOK
  BY DEF IInv, TypeOK
<1>2. CASE Tick
  BY <1>2, StillMaps, NoDeploy DEF Tick
<1>3. ASSUME NEW c \in Containers, BoxExits(c)
      PROVE  Maps /\ RInv'
  <2> DEFINE new == [box[c] EXCEPT !.st = "exited"]
  <2>1. /\ box[c].st \in BoxStates /\ new.svc = box[c].svc /\ new.st \in BoxStates
        /\ box' = [box EXCEPT ![c] = new] /\ UNCHANGED row
    BY <1>1, <1>3 DEF BoxExits, BoxStates, StateTypeOK, Box
  <2> HIDE DEF new
  <2>2. QED
    BY <1>1, <2>1, OneBoxMaps, NoDeploy
<1>4. ASSUME NEW c \in Containers, BoxRestarts(c)
      PROVE  Maps /\ RInv'
  BY <1>1, <1>4, StartBoxMaps, NoDeploy DEF BoxRestarts, BoxStates
<1>5. ASSUME NEW c \in Containers, HealthCheckFails(c)
      PROVE  Maps /\ RInv'
  <2> DEFINE new == [box[c] EXCEPT !.unhealthy = TRUE]
  <2>1. /\ box[c].st \in BoxStates /\ new.svc = box[c].svc /\ new.st \in BoxStates
        /\ box' = [box EXCEPT ![c] = new] /\ UNCHANGED row
    BY <1>1, <1>5 DEF HealthCheckFails, BoxStates, StateTypeOK, Box
  <2> HIDE DEF new
  <2>2. QED
    BY <1>1, <2>1, OneBoxMaps, NoDeploy
<1>6. QED
  BY <1>2, <1>3, <1>4, <1>5 DEF Environment

\* A restart forgets the deploys.
LEMMA ProcessRestartsMaps ==
  ASSUME IInv, RInv, ProcessRestarts
  PROVE  Maps /\ RInv'
<1>1. UNCHANGED <<row, box>> /\ \A w \in Workers : worker'[w].pc = "idle"
  BY DEF ProcessRestarts, IdleWorker
<1>2. \A w \in Workers : Aimed(w)'
  BY <1>1 DEF Aimed
<1>3. Maps /\ OwnKept
  BY <1>1, StillMaps
<1>4. QED
  BY <1>2, <1>3 DEF RInv, OwnKept

\* Every step of the control plane.
LEMMA NextMaps ==
  ASSUME IInv, RInv, [Next]_vars
  PROVE  Maps /\ RInv'
<1>1. CASE UNCHANGED vars
  BY <1>1, StillMaps, NoDeploy DEF vars
<1>2. CASE ReconcilerNext /\ UNCHANGED <<worker, client, gc>>
  BY <1>2, LookingMaps, MarkingMaps, KillingMaps, RecoverNextMaps, FailStaleDeploysMaps
  DEF ReconcilerNext, ReconcilerStep
<1>3. QED
  BY <1>1, <1>2, ManagerMaps, CollectorMaps, EnvironmentMaps, ProcessRestartsMaps DEF Next

\* An empty platform, or one with a legacy row, is an initial state of Hosting.
LEMMA InitMaps ==
  ASSUME Init
  PROVE  RInv /\ Host!Init
<1>1. \A w \in Workers : Aimed(w)
  BY DEF Init, ManagerInit, IdleWorker, Aimed
<1>2. CASE row = [s \in Services |-> BlankRow] /\ box = [c \in Containers |-> BlankBox]
  <2>1. \A s \in Services : HostState(s) = "absent" /\ row[s].container = None
    BY <1>2 DEF BlankRow, HostState
  <2>2. \A c \in Containers : box[c].svc = None /\ box[c].st = "unused"
    BY <1>2 DEF BlankBox
  <2>3. Existing = {}
    BY <2>2 DEF Existing, BoxStates
  <2>4. RInv
    BY <1>1, <2>1, <2>2 DEF RInv, UnusedUnowned, AbsentBlank
  <2>5. Host!Init
    BY <2>1, <2>2, <2>3 DEF Host!Init
  <2>6. QED
    BY <2>4, <2>5
<1>3. ASSUME NEW s \in Services, NEW c \in Containers, NEW retry \in {None, 0},
             row = [[x \in Services |-> BlankRow] EXCEPT ![s] = LegacyRow(c, retry)],
             box = [[x \in Containers |-> BlankBox]
                      EXCEPT ![c] = [BlankBox EXCEPT !.svc = s, !.st = "removed"]]
      PROVE  RInv /\ Host!Init
  <2>1. /\ row[s].status = "crashed" /\ row[s].container = c
        /\ \A x \in Services : x # s => row[x].status = "absent" /\ row[x].container = None
    BY <1>3 DEF BlankRow, LegacyRow
  <2>2. /\ HostState(s) = "idle"
        /\ \A x \in Services : x # s => HostState(x) = "absent"
    BY <2>1 DEF HostState
  <2>3. /\ box[c].svc = s /\ box[c].st = "removed"
        /\ \A x \in Containers : x # c => box[x].svc = None /\ box[x].st = "unused"
    BY <1>3 DEF BlankBox
  <2>4. Existing = {}
    BY <2>3 DEF Existing, BoxStates
  <2>5. RInv
    BY <1>1, <2>1, <2>3 DEF RInv, UnusedUnowned, AbsentBlank
  <2>6. Host!Init
    BY <2>1, <2>2, <2>3, <2>4 DEF Host!Init
  <2>7. QED
    BY <2>5, <2>6
<1>4. QED
  BY <1>2, <1>3 DEF Init, StateInit

\* The control plane implements Hosting: every step of its goroutines, requests
\* and loops, of the Docker engine and of a restart is a step of the promise, or
\* is not seen by it.
THEOREM PlatformImplementsHosting == Spec => ImplementsHosting
<1>1. Init => RInv /\ Host!Init
  BY InitMaps
<1>2. IInv /\ RInv /\ [Next]_vars => RInv' /\ [Host!Next]_(Host!hostVars)
  BY NextMaps DEF Maps
<1>3. QED
  BY <1>1, <1>2, InductiveInvariant, PTL DEF Spec, ImplementsHosting, Host!Spec

----------------------------------------------------------------------------
(* What the promise gives. *)

\* A record names only a container that was made for its service, and a service
\* whose row is gone names none; no two containers that exist belong to the same
\* service.
Promise ==
  /\ \A s \in Services : row[s].container # None =>
       HasRow(s) /\ box[row[s].container].svc = s
  /\ \A c, d \in Existing : box[c].svc = box[d].svc => c = d

\* A deleted service does not come back.
DeletedIsFinal ==
  [][\A s \in Services : row[s].status = "deleted" => row'[s].status = "deleted"]_vars

\* A step of Hosting, service by service: the row of one service changes in one
\* of five ways and the containers stay.
SeesRow(s) ==
  /\ \A x \in Services \ {s} : HostState(x)' = HostState(x)
                               /\ row'[x].container = row[x].container
  /\ \/ row'[s].container = row[s].container
        /\ \/ HostState(s) = "absent" /\ HostState(s)' = "idle"
           \/ HostState(s) = "idle" /\ HostState(s)' = "running"
           \/ HostState(s) = "running" /\ HostState(s)' = "idle"
     \/ HostState(s) \in {"idle", "running"} /\ HostState(s)' = "deleted"
        /\ row'[s].container = None
     \/ HostState(s) \in {"idle", "running"} /\ HostState(s)' = "running"
        /\ box[row'[s].container].svc = s /\ row'[s].container \in Containers

\* Or one container comes, or goes, and the rows stay.
SeesBox(c) ==
  /\ \A x \in Containers \ {c} : box'[x].svc = box[x].svc
  /\ \/ Existing' = Existing \ {c} /\ box'[c].svc = box[c].svc
     \/ Existing' = Existing \cup {c} /\ box[c].svc = None
        /\ \A x \in Existing : box[x].svc # box'[c].svc

SameRows == \A s \in Services : HostState(s)' = HostState(s)
                                /\ row'[s].container = row[s].container
SameBoxes == Existing' = Existing /\ \A c \in Containers : box'[c].svc = box[c].svc

\* What a step of Hosting is in terms of rows and containers.
LEMMA MapsSees ==
  ASSUME Maps
  PROVE  \/ SameRows /\ SameBoxes
         \/ SameBoxes /\ \E s \in Services : SeesRow(s)
         \/ SameRows /\ \E c \in Containers : SeesBox(c)
<1> DEFINE st == [x \in Services |-> HostState(x)]
           rd == [x \in Services |-> row[x].container]
           ow == [x \in Containers |-> box[x].svc]
<1>1. /\ \A x \in Services : st[x] = HostState(x) /\ rd[x] = row[x].container
      /\ \A x \in Services : st'[x] = HostState(x)' /\ rd'[x] = row'[x].container
      /\ \A x \in Containers : ow[x] = box[x].svc /\ ow'[x] = box'[x].svc
  OBVIOUS
<1>2. st' = st /\ rd' = rd => SameRows
  BY <1>1, Zenon DEF SameRows
<1>3. ow' = ow /\ Existing' = Existing => SameBoxes
  BY <1>1, Zenon DEF SameBoxes
<1>4. CASE UNCHANGED Host!hostVars
  BY <1>2, <1>3, <1>4, Zenon DEF Host!hostVars
<1>5. ASSUME NEW s \in Services, Host!Register(s) \/ Host!Resume(s) \/ Host!Pause(s)
      PROVE  SameBoxes /\ SeesRow(s)
  <2>1. rd' = rd /\ ow' = ow /\ Existing' = Existing
    BY <1>5 DEF Host!Register, Host!Resume, Host!Pause
  <2>2. \/ st[s] = "absent" /\ st' = [st EXCEPT ![s] = "idle"]
        \/ st[s] = "idle" /\ st' = [st EXCEPT ![s] = "running"]
        \/ st[s] = "running" /\ st' = [st EXCEPT ![s] = "idle"]
    BY <1>5, Zenon DEF Host!Register, Host!Resume, Host!Pause
  <2> HIDE DEF st, rd, ow
  <2>3. /\ \A x \in Services \ {s} : st'[x] = st[x]
        /\ \/ st[s] = "absent" /\ st'[s] = "idle"
           \/ st[s] = "idle" /\ st'[s] = "running"
           \/ st[s] = "running" /\ st'[s] = "idle"
    <3>1. st = [x \in Services |-> st[x]]
      BY DEF st
    <3>2. QED
      BY <2>2, <3>1
  <2>4. QED
    BY <1>1, <1>3, <2>1, <2>3 DEF SeesRow
<1>6. ASSUME NEW s \in Services, Host!Unregister(s)
      PROVE  SameBoxes /\ SeesRow(s)
  <2>1. /\ st' = [st EXCEPT ![s] = "deleted"] /\ rd' = [rd EXCEPT ![s] = None]
        /\ ow' = ow /\ Existing' = Existing /\ st[s] \in {"idle", "running"}
    BY <1>6 DEF Host!Unregister, Host!Recorded
  <2>2. /\ \A x \in Services \ {s} : st'[x] = st[x] /\ rd'[x] = rd[x]
        /\ st'[s] = "deleted" /\ rd'[s] = None
    BY <2>1
  <2> HIDE DEF st, rd, ow
  <2>3. QED
    BY <1>1, <1>3, <2>1, <2>2 DEF SeesRow
<1>7. ASSUME NEW s \in Services, NEW c \in Containers, Host!Adopt(s, c)
      PROVE  SameBoxes /\ SeesRow(s)
  <2>1. /\ st' = [st EXCEPT ![s] = "running"] /\ rd' = [rd EXCEPT ![s] = c]
        /\ ow' = ow /\ Existing' = Existing /\ st[s] \in {"idle", "running"}
        /\ ow[c] = s
    BY <1>7 DEF Host!Adopt, Host!Recorded
  <2>2. /\ \A x \in Services \ {s} : st'[x] = st[x] /\ rd'[x] = rd[x]
        /\ st'[s] = "running" /\ rd'[s] = c
    BY <2>1
  <2> HIDE DEF st, rd, ow
  <2>3. QED
    BY <1>1, <1>3, <2>1, <2>2 DEF SeesRow
<1>8. ASSUME NEW c \in Containers, Host!Withdraw(c)
      PROVE  SameRows /\ SeesBox(c)
  <2>1. st' = st /\ rd' = rd /\ ow' = ow /\ Existing' = Existing \ {c}
    BY <1>8 DEF Host!Withdraw
  <2> HIDE DEF st, rd, ow
  <2>2. QED
    BY <1>1, <1>2, <2>1 DEF SeesBox
<1>9. ASSUME NEW s \in Services, NEW c \in Containers, Host!Provide(s, c)
      PROVE  SameRows /\ SeesBox(c)
  <2>1. /\ st' = st /\ rd' = rd /\ ow' = [ow EXCEPT ![c] = s]
        /\ Existing' = Existing \cup {c} /\ ow[c] = None
        /\ \A x \in Existing : ow[x] # s
    BY <1>9 DEF Host!Provide
  <2>2. (\A x \in Containers \ {c} : ow'[x] = ow[x]) /\ ow'[c] = s
    BY <2>1
  <2>3. \A x \in Existing : x \in Containers
    BY DEF Existing
  <2> HIDE DEF st, rd, ow
  <2>4. QED
    BY <1>1, <1>2, <2>1, <2>2, <2>3 DEF SeesBox
<1>10. QED
  BY <1>4, <1>5, <1>6, <1>7, <1>8, <1>9 DEF Maps, Host!Next

\* A step of Hosting keeps the promise.
LEMMA PromiseKept ==
  ASSUME StateTypeOK, StateTypeOK', Promise, Maps
  PROVE  /\ Promise'
         /\ \A s \in Services : row[s].status = "deleted" => row'[s].status = "deleted"
<1>1. \A s \in Services :
        /\ HasRow(s) <=> HostState(s) \in {"idle", "running"}
        /\ HasRow(s)' <=> HostState(s)' \in {"idle", "running"}
        /\ row[s].status = "deleted" <=> HostState(s) = "deleted"
        /\ row'[s].status = "deleted" <=> HostState(s)' = "deleted"
  <2> SUFFICES ASSUME NEW s \in Services
               PROVE  /\ HasRow(s) <=> HostState(s) \in {"idle", "running"}
                      /\ HasRow(s)' <=> HostState(s)' \in {"idle", "running"}
                      /\ row[s].status = "deleted" <=> HostState(s) = "deleted"
                      /\ row'[s].status = "deleted" <=> HostState(s)' = "deleted"
    OBVIOUS
  <2>1. row[s] \in Row /\ row'[s] \in Row
    BY DEF StateTypeOK
  <2>2. QED
    BY <2>1 DEF HostState, HasRow, Row, Statuses
<1>2. \A s \in Services : /\ row[s].container \in Containers \cup {None}
                          /\ row'[s].container \in Containers \cup {None}
  BY DEF StateTypeOK, Row
<1>3. Existing \subseteq Containers /\ None \notin Services /\ None \notin Containers
  BY ConstantsAssumption DEF Existing
<1>4. \A s \in Services : row[s].container # None =>
        HostState(s) \in {"idle", "running"} /\ box[row[s].container].svc = s
  BY <1>1 DEF Promise
<1>5. CASE SameRows /\ SameBoxes
  BY <1>1, <1>2, <1>3, <1>4, <1>5 DEF Promise, SameRows, SameBoxes
<1>6. ASSUME SameBoxes, NEW s \in Services, SeesRow(s)
      PROVE  /\ Promise'
             /\ \A x \in Services : row[x].status = "deleted" => row'[x].status = "deleted"
  <2>1. \A x \in Services : row[x].status = "deleted" => row'[x].status = "deleted"
    BY <1>1, <1>6 DEF SeesRow
  <2>2. ASSUME NEW x \in Services, row'[x].container # None
        PROVE  HasRow(x)' /\ box'[row'[x].container].svc = x
    <3>1. CASE x # s
      BY <1>1, <1>2, <1>4, <1>6, <2>2, <3>1 DEF SeesRow, SameBoxes
    <3>2. CASE x = s
      BY <1>1, <1>2, <1>4, <1>6, <2>2, <3>2 DEF SeesRow, SameBoxes
    <3>3. QED
      BY <3>1, <3>2
  <2>3. \A c, d \in Existing' : box'[c].svc = box'[d].svc => c = d
    BY <1>3, <1>6 DEF Promise, SameBoxes
  <2>4. QED
    BY <2>1, <2>2, <2>3 DEF Promise
<1>7. ASSUME SameRows, NEW c \in Containers, SeesBox(c)
      PROVE  /\ Promise'
             /\ \A x \in Services : row[x].status = "deleted" => row'[x].status = "deleted"
  <2>1. \A x \in Services : row[x].status = "deleted" => row'[x].status = "deleted"
    BY <1>1, <1>7 DEF SameRows
  <2>2. ASSUME NEW x \in Services, row'[x].container # None
        PROVE  HasRow(x)' /\ box'[row'[x].container].svc = x
    BY <1>1, <1>2, <1>3, <1>4, <1>7, <2>2 DEF SameRows, SeesBox
  <2>3. \A b, d \in Existing' : box'[b].svc = box'[d].svc => b = d
    BY <1>3, <1>7 DEF Promise, SeesBox
  <2>4. QED
    BY <2>1, <2>2, <2>3 DEF Promise
<1>8. QED
  BY <1>5, <1>6, <1>7, MapsSees

\* The first state keeps the promise.
LEMMA InitPromise ==
  ASSUME Init
  PROVE  Promise
<1>1. RInv /\ Host!Init /\ IInv
  BY InitMaps, InitOK
<1>2. Existing = {}
  BY <1>1 DEF Host!Init
<1>3. \A s \in Services : row[s].container # None =>
        HasRow(s) /\ box[row[s].container].svc = s
  <2> SUFFICES ASSUME NEW s \in Services, row[s].container # None
               PROVE  HasRow(s) /\ box[row[s].container].svc = s
    OBVIOUS
  <2>1. row[s] \in Row /\ row[s].container \in Containers
    BY <1>1 DEF IInv, TypeOK, StateTypeOK, Row
  <2>2. HostState(s) = "idle" /\ box[row[s].container].svc = s
    BY <1>1, <2>1 DEF Host!Init
  <2>3. QED
    BY <2>1, <2>2 DEF HostState, HasRow, Row, Statuses
<1>4. QED
  BY <1>2, <1>3 DEF Promise

\* At every moment a service has at most one container, its row names none but its
\* own, and no row outlives its deletion, whatever deploys, requests, loops,
\* failures and restarts do to one another.
THEOREM PromiseHolds == Spec => []Promise
<1>1. Init => RInv /\ Promise
  BY InitMaps, InitPromise
<1>2. IInv => StateTypeOK
  BY DEF IInv, TypeOK
<1>3. IInv' => StateTypeOK'
  BY <1>2, PTL
<1>4. IInv /\ IInv' /\ RInv /\ Promise /\ [Next]_vars => RInv' /\ Promise'
  BY <1>2, <1>3, NextMaps, PromiseKept
<1>5. QED
  BY <1>1, <1>4, InductiveInvariant, PTL DEF Spec

\* No statement of a late deploy, a late request or a loop brings a deleted
\* service back.
THEOREM DeletionIsFinal == Spec => DeletedIsFinal
<1>1. Init => RInv
  BY InitMaps
<1>2. IInv /\ RInv /\ [Next]_vars => RInv'
  BY NextMaps
<1>3. IInv /\ IInv' /\ RInv /\ Promise /\ [Next]_vars =>
        [\A s \in Services : row[s].status = "deleted" => row'[s].status = "deleted"]_vars
  <2> SUFFICES ASSUME IInv, IInv', RInv, Promise, [Next]_vars
               PROVE  \A s \in Services : row[s].status = "deleted" =>
                                          row'[s].status = "deleted"
    OBVIOUS
  <2>1. StateTypeOK /\ StateTypeOK'
    BY DEF IInv, TypeOK
  <2>2. QED
    BY <2>1, NextMaps, PromiseKept
<1>4. QED
  BY <1>1, <1>2, <1>3, InductiveInvariant, PromiseHolds, PTL DEF Spec, DeletedIsFinal

=============================================================================
