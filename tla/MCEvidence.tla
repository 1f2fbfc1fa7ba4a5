------------------------------ MODULE MCEvidence ------------------------------
(***************************************************************************)
(* Two collectors of one run id and one verifier.  There are two versions   *)
(* of the source, two revisions, and three workflows, two of them attempts  *)
(* at one revision.                                                        *)
(***************************************************************************)
EXTENDS AcceptanceBundle

CONSTANTS c1, c2

Version1 == [root |-> 1, setup |-> 1]
Version2 == [root |-> 1, setup |-> 2]
MCVersions == {Version1, Version2, [root |-> 2, setup |-> 1]}
Workflow1 == [revision |-> "r1", attempt |-> 1, version |-> Version1]
Workflow2 == [revision |-> "r1", attempt |-> 2, version |-> Version1]
Workflow3 == [revision |-> "r2", attempt |-> 1, version |-> Version2]
MCWorkflows == {Workflow1, Workflow2, Workflow3}

\* Receipts of one workflow, with another one's live test, and with another one's
\* composite.
Whole(w) == [m2 |-> w, m4 |-> w, process |-> w, actual |-> w]
LiveOfAnother == {[Whole(Workflow1) EXCEPT !.m2 = w] : w \in {Workflow2, Workflow3}}
ReplayOfAnother ==
  {[Whole(Workflow1) EXCEPT !.actual = Workflow2],
   [Whole(Workflow1) EXCEPT !.process = Workflow2, !.actual = Workflow2]}

Given(package, runtime, hosted) ==
  [version |-> Version1, marker |-> "r1", package |-> package, runtime |-> runtime,
   hosted |-> hosted, early |-> FALSE]
Fresh == RuntimeReceipt("r1", Version1)
\* Among them a package of another revision, a receipt that does not reproduce,
\* one of another revision, two receipts at once, and hosted receipts of parts
\* of several workflows: the collector has nothing but the receipt.
MCGiven ==
  {Given({}, {}, {}), Given({PackageReceipt("r1")}, {Fresh}, {}), Given({}, {}, {Whole(Workflow1)}),
   Given({PackageReceipt("r2")}, {}, {}), Given({}, {RuntimeReceipt("r1", Version2)}, {}),
   Given({}, {}, {Whole(Workflow3)}), Given({}, {Fresh}, {Whole(Workflow1)}),
   [Given({}, {}, {Whole(Workflow3)}) EXCEPT !.version = Version2, !.marker = "r2"],
   [Given({}, {}, {Whole(Workflow2)}) EXCEPT !.version = Version2],
   [Given({}, {}, {}) EXCEPT !.early = TRUE]}
    \cup {Given({}, {}, {h}) : h \in LiveOfAnother \cup ReplayOfAnother}
\* Two collectors race when they are given the same.
MCInputs ==
  {[c \in {c1} |-> input] : input \in MCGiven}
    \cup {[c \in {c1, c2} |-> Given({}, {}, {})], [c \in {c1, c2} |-> Given({PackageReceipt("r1")}, {Fresh}, {})]}
MCAsked == {{}, {"r1"}}
\* A bundle of the other version, for the same revision.
MCForeign ==
  {[Given({}, {RuntimeReceipt("r1", Version2)}, {}) EXCEPT !.version = Version2]}
===============================================================================
