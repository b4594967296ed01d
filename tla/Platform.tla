------------------------------- MODULE Platform -------------------------------
(***************************************************************************)
(* The control plane: the service manager's goroutines, the reconciler and *)
(* the garbage collector over the shared tables and the Docker engine.     *)
(***************************************************************************)
EXTENDS ServiceManager, Reconciler, GarbageCollector

vars == <<now, tenant, row, box, faults, worker, client, rec, gc>>

Init == StateInit /\ ManagerInit /\ ReconcilerInit /\ CollectorInit

\* The process dies and is started again: goroutines and requests are lost,
\* the tables and the containers stay.
ProcessRestarts ==
  /\ Fault
  /\ worker' = [w \in Workers |-> IdleWorker]
  /\ client' = [k \in Clients |-> IdleClient]
  /\ rec' = IdleReconciler
  /\ gc' = IdleCollector
  /\ UNCHANGED <<now, tenant, row, box>>

Next ==
  \/ Environment /\ UNCHANGED <<worker, client, rec, gc>>
  \/ ManagerNext /\ UNCHANGED <<rec, gc>>
  \/ ReconcilerNext /\ UNCHANGED <<worker, client, gc>>
  \/ CollectorNext /\ UNCHANGED <<worker, client, rec>>
  \/ ProcessRestarts

Spec == Init /\ [][Next]_vars

\* Time passes, Docker applies its restart policy, and the two background
\* loops are driven by tickers that main() starts once; nothing makes a user
\* send a request, and no deploy is assumed to finish.
Fairness ==
  /\ WF_vars(Tick /\ UNCHANGED <<worker, client, rec, gc>>)
  /\ \A c \in Containers :
       WF_vars(BoxRestarts(c) /\ UNCHANGED <<worker, client, rec, gc>>)
  /\ WF_vars(ReconcilerStep /\ UNCHANGED <<worker, client, gc>>)
  /\ WF_vars(CollectorStep /\ UNCHANGED <<worker, client, rec>>)

FairSpec == Spec /\ Fairness

----------------------------------------------------------------------------
(* Safety *)

TypeOK == StateTypeOK /\ ManagerTypeOK /\ ReconcilerTypeOK /\ CollectorTypeOK

\* A deploy still able to record the container it created.
WillRecord(w, c) ==
  worker[w].pc \in {"start", "commit"} /\ worker[w].box = c /\ Live(w)

\* collectOnce removes a batch it decided on earlier: no container of the
\* batch is named by a services row, and no running deploy can still write it
\* into one.
CollectedIsGarbage ==
  \A c \in gc.orphaned :
    ~Referenced(c) /\ \A w \in Workers : ~WillRecord(w, c)

\* A row that step 2 of the reconciler would fail as timed out has no deploy
\* behind it that wrote the 'deploying' and whose context is still alive.
StaleIsDead ==
  \A s \in Services, w \in Workers :
    Stale(s) /\ worker[w].svc = s /\ worker[w].mark = "written" => ~Live(w)

\* The reconciler only looks at running rows that name a container; there are
\* no others, whatever order deploys, starts, resets and deletes come in.
RunningHasContainer ==
  \A s \in Services : row[s].status = "running" => row[s].container # None

Quiet == /\ \A w \in Workers : worker[w].pc = "idle"
         /\ \A k \in Clients : client[k].pc = "idle"

\* Nothing failed so far and no deploy context can have expired.
Undisturbed == faults = MaxFaults /\ now < DeployTimeout

\* Split-brain (reconciler step 4: a container that claims a service whose row
\* names another one, or none) needs a failure, an expired context or the
\* suspension of the tenant: racing deploys of both kinds, deletes and resets
\* alone never end in it. A suspension's purge between two overlapping deploys
\* does: both commit, in either order.
NoSplitBrain ==
  Quiet /\ Undisturbed =>
    \A c \in Existing :
      LET s == box[c].svc IN
      HasRow(s) /\ tenant[TenantOf[s]] => row[s].container = c

----------------------------------------------------------------------------
(* Refinement *)

HostState(s) == CASE row[s].status \in {"absent", "deleted", "running"} -> row[s].status
                  [] OTHER -> "idle"

Host == INSTANCE Hosting WITH
  state <- [s \in Services |-> HostState(s)],
  recorded <- [s \in Services |-> row[s].container],
  owner <- [c \in Containers |-> box[c].svc],
  existing <- Existing

\* Every step of the goroutines, requests and loops is a step of the promise, or
\* none: one container per service at a time, records that name only containers
\* of their own, no running row without one, no return from deletion.
ImplementsHosting == Host!Spec

----------------------------------------------------------------------------
(* Liveness, under FairSpec *)

\* A container no row names is removed once it is old enough.
OrphansCollected ==
  \A c \in Containers :
    (Exists(c) /\ ~Referenced(c) /\ OldEnough(c, now)) ~> ~Exists(c)

\* No service stays in 'deploying' for ever, even if its deploy died with the
\* process or lost its context.
DeploySettles ==
  \A s \in Services :
    (row[s].status = "deploying") ~> (row[s].status # "deploying")

\* A service marked running whose container does not exist does not stay so.
GhostDetected ==
  \A s \in Services :
    (row[s].status = "running" /\ ~Exists(row[s].container))
      ~> (row[s].status # "running" \/ Exists(row[s].container))

\* Step 1b closes every circuit whose retry time has come, whatever steps 1 and
\* 1a of the same ticks meet on the way there.
CircuitRecovers ==
  \A s \in Services :
    (HasRow(s) /\ row[s].circuitOpen /\ row[s].retryAt # None /\ row[s].retryAt <= now)
      ~> ~row[s].circuitOpen

----------------------------------------------------------------------------
(* What a document says, and the code does not do *)

\* README: deleting the tenant "stops all services".
SuspendStopsAll ==
  Quiet /\ Undisturbed
    => \A c \in Containers :
         box[c].st = "running" => tenant[TenantOf[box[c].svc]]
=============================================================================
