------------------------------- MODULE Custody -------------------------------
(***************************************************************************)
(* What an owner of compensating cleanup promises of the resources handed  *)
(* to it, in the words of the workflow's documentation: a resource that    *)
(* does not commit is released, a failed release is retained for a later   *)
(* retry, and nothing is released twice.  A resource is therefore held     *)
(* from the moment it is handed over to its one confirmed release.         *)
(***************************************************************************)
CONSTANT Resource

VARIABLES held,      \* handed over and not yet released
          released   \* released, for good

vars == <<held, released>>

Init == held = {} /\ released = {}

Receive(r) ==
  /\ r \notin held \cup released
  /\ held' = held \cup {r}
  /\ UNCHANGED released

Release(r) ==
  /\ r \in held
  /\ held' = held \ {r}
  /\ released' = released \cup {r}

Next == \E r \in Resource : Receive(r) \/ Release(r)

Spec == Init /\ [][Next]_vars
=============================================================================
