------------------------------ MODULE MCScenarios ------------------------------
(* Platform for TLC with two scenarios in one run: a behaviour keeps to the
   bounds of one of them. "races": two overlapping deploys of either kind with
   deletes and the collector, nothing failing. "requests": every request handler
   against a deploy and the reconciler, with a failure or a restart anywhere. *)
EXTENDS MCPlatform

VARIABLE scenario

Races ==
  [ops |-> {"Create", "Build", "Delete"}, workers |-> 2, boxes |-> 3,
   faults |-> 0, lastStart |-> 0, reconciling |-> FALSE, collecting |-> TRUE]

Requests ==
  [ops |-> Ops \ {"Build"}, workers |-> 1, boxes |-> 2,
   faults |-> 1, lastStart |-> 1, reconciling |-> TRUE, collecting |-> FALSE]

Busy == {w \in Workers : worker[w].pc # "idle"}

Within ==
  /\ \A k \in Clients : client[k].op \in scenario.ops \cup {"none"}
  /\ \A w \in Workers : worker[w].kind = "DeployImage" => "Build" \in scenario.ops
  /\ Cardinality(Busy) <= scenario.workers
  /\ Cardinality({c \in Containers : box[c] # BlankBox}) <= scenario.boxes
  /\ MaxFaults - faults <= scenario.faults
  /\ ~scenario.reconciling => rec = IdleReconciler
  /\ ~scenario.collecting => gc = IdleCollector

\* Requests and deploys start no later than lastStart.
NothingStarts ==
  /\ Busy' \subseteq Busy
  /\ \A k \in Clients : client[k].pc = "idle" => client'[k].pc = "idle"

MCInit == Init /\ scenario \in {Races, Requests}

MCNext ==
  /\ Next /\ UNCHANGED scenario /\ Within'
  /\ now > scenario.lastStart => NothingStarts

MCSpec == MCInit /\ [][MCNext]_<<vars, scenario>>
================================================================================
