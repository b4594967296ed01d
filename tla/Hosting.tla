-------------------------------- MODULE Hosting --------------------------------
(***************************************************************************)
(* What the control plane promises of a service, whatever its goroutines,  *)
(* requests and loops do to one another: one container at a time, made for *)
(* it and never handed to another service; a record that names only        *)
(* containers of its own, names one whenever it says "running", and never  *)
(* comes back once it is deleted. Module Platform implements this.         *)
(***************************************************************************)
CONSTANTS Services, Containers, None

VARIABLES
  state,      \* of a service: "absent", "idle", "running", "deleted"
  recorded,   \* the container its record names
  owner,      \* the service a container was made for
  existing    \* the containers that exist

hostVars == <<state, recorded, owner, existing>>

Recorded(s) == state[s] \in {"idle", "running"}

\* Nothing, or records left by an earlier release whose containers are gone.
Init ==
  /\ existing = {}
  /\ owner \in [Containers -> Services \cup {None}]
  /\ state \in [Services -> {"absent", "idle"}]
  /\ recorded \in [Services -> Containers \cup {None}]
  /\ \A s \in Services : recorded[s] # None => state[s] = "idle" /\ owner[recorded[s]] = s

Register(s) ==
  /\ state[s] = "absent"
  /\ state' = [state EXCEPT ![s] = "idle"]
  /\ UNCHANGED <<recorded, owner, existing>>

\* A deploy overtaken by a deletion may still make its container.
Provide(s, c) ==
  /\ state[s] # "absent" /\ owner[c] = None
  /\ \A x \in existing : owner[x] # s
  /\ owner' = [owner EXCEPT ![c] = s]
  /\ existing' = existing \cup {c}
  /\ UNCHANGED <<state, recorded>>

Withdraw(c) ==
  /\ c \in existing
  /\ existing' = existing \ {c}
  /\ UNCHANGED <<state, recorded, owner>>

\* The record names a container made for the service, which may be gone again.
Adopt(s, c) ==
  /\ Recorded(s) /\ owner[c] = s
  /\ state' = [state EXCEPT ![s] = "running"]
  /\ recorded' = [recorded EXCEPT ![s] = c]
  /\ UNCHANGED <<owner, existing>>

Resume(s) ==
  /\ state[s] = "idle" /\ recorded[s] # None
  /\ state' = [state EXCEPT ![s] = "running"]
  /\ UNCHANGED <<recorded, owner, existing>>

Pause(s) ==
  /\ state[s] = "running"
  /\ state' = [state EXCEPT ![s] = "idle"]
  /\ UNCHANGED <<recorded, owner, existing>>

Unregister(s) ==
  /\ Recorded(s)
  /\ state' = [state EXCEPT ![s] = "deleted"]
  /\ recorded' = [recorded EXCEPT ![s] = None]
  /\ UNCHANGED <<owner, existing>>

Next ==
  \/ \E s \in Services : Register(s) \/ Resume(s) \/ Pause(s) \/ Unregister(s)
  \/ \E c \in Containers :
       Withdraw(c) \/ \E s \in Services : Provide(s, c) \/ Adopt(s, c)

Spec == Init /\ [][Next]_hostVars
================================================================================
