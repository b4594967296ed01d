--------------------------- MODULE GarbageCollector ---------------------------
(***************************************************************************)
(* internal/gc, collectOnce for service containers: list, decide per       *)
(* container, then remove the whole batch. The decision is not taken again *)
(* before the removal.                                                     *)
(***************************************************************************)
EXTENDS PaasState

CONSTANT Collecting       \* whether this instance runs the loop

VARIABLE gc

CollectorState == [pc: {"idle", "check", "remove"},
                   boxes: SUBSET Containers,     \* svcContainers still to check
                   at: Nat,                      \* the cutoff's time.Now()
                   orphaned: SUBSET Containers]

IdleCollector == [pc |-> "idle", boxes |-> {}, at |-> 0, orphaned |-> {}]

\* The list and the cutoff are taken together: a container created between the
\* two is too young for the cutoff, one removed between them is skipped.
ListServiceContainers ==
  /\ Collecting /\ gc.pc = "idle"
  /\ gc' = [IdleCollector EXCEPT !.pc = "check", !.boxes = Existing, !.at = now]
  /\ UNCHANGED stateVars

\* Mutant of OldEnough: no age gate.
AnyAge(c, at) == box[c].createdAt <= at

\* ~info.CreatedAt.After(cutoff)
OldEnough(c, at) == box[c].createdAt + MinResourceAge <= at

\* Mutant of CheckNext: looks for the service of the label, not for the container.
CheckServiceExists ==
  /\ gc.pc = "check"
  /\ \/ gc.boxes = {} /\ gc' = [gc EXCEPT !.pc = "remove"]
     \/ \E c \in gc.boxes :
          gc' = [gc EXCEPT !.boxes = @ \ {c}, !.orphaned =
            IF Exists(c) /\ OldEnough(c, gc.at) /\ ~HasRow(box[c].svc)
              THEN @ \cup {c} ELSE @]
  /\ UNCHANGED stateVars

CheckNext ==
  /\ gc.pc = "check"
  /\ \/ gc.boxes = {} /\ gc' = [gc EXCEPT !.pc = "remove"] /\ UNCHANGED faults
     \/ \E c \in gc.boxes :
          \/ /\ gc' = [gc EXCEPT !.boxes = @ \ {c}, !.orphaned =
                  IF Exists(c) /\ OldEnough(c, gc.at) /\ ~Referenced(c)
                    THEN @ \cup {c} ELSE @]
             /\ UNCHANGED faults
          \/ Fault /\ gc' = [gc EXCEPT !.boxes = @ \ {c}]
  /\ UNCHANGED <<now, tenant, row, box>>

RemoveNext ==
  /\ gc.pc = "remove"
  /\ \/ gc.orphaned = {} /\ gc' = IdleCollector /\ UNCHANGED <<box, faults>>
     \/ \E c \in gc.orphaned :
          /\ StopAndRemove(c)
          /\ gc' = [gc EXCEPT !.orphaned = @ \ {c}]
  /\ UNCHANGED <<now, tenant, row>>

\* The tick's three-minute context ends.
CollectAborts ==
  /\ gc.pc # "idle" /\ Fault
  /\ gc' = IdleCollector
  /\ UNCHANGED <<now, tenant, row, box>>

CollectorStep == ListServiceContainers \/ CheckNext \/ RemoveNext

CollectorNext == CollectorStep \/ CollectAborts

CollectorInit == gc = IdleCollector

CollectorTypeOK == gc \in CollectorState
=============================================================================
