--------------------------- MODULE MCWorldManager ---------------------------
(* Small instances of WorldManager for TLC. *)
EXTENDS WorldManager

CONSTANTS c1, c2, c3, w1, w2, w3

\* b overlaps a in one namespace component; d returns a's identifier.
Handle(id, ref, ns) == [environment_id |-> id, opaque_ref |-> ref, namespace |-> ns]
HandleA == Handle("a", "ra", {"n1", "n2"})
HandleB == Handle("b", "rb", {"n2", "n3"})
HandleC == Handle("c", "rc", {"n4"})
HandleD == Handle("a", "rd", {"n5"})

AllHandles == {HandleA, HandleB, HandleC, HandleD}
ClashingHandles == {HandleA, HandleB, HandleD}
=============================================================================
