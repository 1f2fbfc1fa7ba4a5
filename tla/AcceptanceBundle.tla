---------------------------- MODULE AcceptanceBundle ----------------------------
(***************************************************************************)
(* The evidence bundle of one run id (stateweaver.evidence: collector,      *)
(* verify; stateweaver.cli.evidence).  A collector makes the directory,     *)
(* writes it file by file and seals it with a manifest; a verifier, which   *)
(* may come at any time, reads it back and derives from it again what it    *)
(* must contain.  Collectors started under one run id race for the          *)
(* directory, fail, or die, and others may change what they left.           *)
(***************************************************************************)
EXTENDS BundleContents

CONSTANTS Inputs,         \* the collections started: collector -> what it is given
          Installed,      \* the version installed on the verifier's machine
          Asked,          \* the markers it may be asked for, {} for none
          Foreign,        \* what the bundles others have at hand were made of
          MaxMeddling     \* how often others may change the directory

VARIABLES made,           \* {the collector that made the directory}, or {}
          tree,           \* class -> content, of the files there are
          collection,     \* the progress of each collector
          verifier,       \* the progress of the verifier
          meddled         \* how often the directory was changed by others
bundleVars == <<made, tree, collection, verifier, meddled>>

-------------------------------------------------------------------------------
(* Collecting.                                                             *)

At(c, pc) == collection[c].pc = pc
Proceed(c, pc) == collection' = [collection EXCEPT ![c].pc = pc]

\* Mutant of MakeDirectory: exist_ok=True.
JoinDirectory(c) ==
  /\ At(c, "started")
  /\ IF Acceptable(collection[c].input) THEN Proceed(c, "writing") /\ made' = {c}
     ELSE Proceed(c, "raised") /\ UNCHANGED made
  /\ UNCHANGED <<tree, verifier, meddled>>

\* The inputs are validated, then root.mkdir(parents=True, exist_ok=False).
MakeDirectory(c) ==
  /\ At(c, "started")
  /\ IF made # {} \/ ~Acceptable(collection[c].input)
     THEN Proceed(c, "raised") /\ UNCHANGED made
     ELSE Proceed(c, "writing") /\ made' = {c}
  /\ UNCHANGED <<tree, verifier, meddled>>

\* atomic_write: the file is there whole or not at all.
WriteFile(c) ==
  /\ At(c, "writing") /\ collection[c].left # {}
  /\ LET class == First(collection[c].left)
     IN  /\ tree' = Added(class, Content(class, collection[c].input), tree)
         /\ collection' = [collection EXCEPT ![c].left = @ \ {class}]
  /\ UNCHANGED <<made, verifier, meddled>>

\* _write_manifest reads back what it lists, and is last.
WriteManifest(c) ==
  /\ At(c, "writing") /\ collection[c].left = {}
  /\ LET listed == Classes(collection[c].input)
     IN  /\ listed \subseteq DOMAIN tree
         /\ tree' = Added("manifest", <<"manifest", [class \in listed |-> tree[class]]>>, tree)
  /\ Proceed(c, "sealed")
  /\ UNCHANGED <<made, verifier, meddled>>

\* Any exception while it writes, the manifest included: rmtree, file by file.
Raise(c) ==
  /\ At(c, "writing")
  /\ Proceed(c, "cleaning") /\ UNCHANGED <<made, tree, verifier, meddled>>
CleanUp(c) ==
  /\ At(c, "cleaning")
  /\ IF DOMAIN tree = {} THEN made' = {} /\ Proceed(c, "raised") /\ UNCHANGED tree
     ELSE tree' = Dropping(First(DOMAIN tree), tree) /\ UNCHANGED <<made, collection>>
  /\ UNCHANGED <<verifier, meddled>>

\* Mutant of SelfVerify: what was written is not read again.
TrustWritten(c) ==
  /\ At(c, "sealed")
  /\ Proceed(c, "done")
  /\ UNCHANGED <<made, tree, verifier, meddled>>

\* The self-verification, as one step; when it fails the directory stays.
SelfVerify(c) ==
  /\ At(c, "sealed")
  /\ LET files == Dropping("manifest", tree)
         input == collection[c].input
     IN  Proceed(c, IF /\ "manifest" \in DOMAIN tree
                       /\ tree["manifest"] = <<"manifest", files>> /\ Covers(files, DOMAIN files)
                       /\ Holds(files, input.version, {input.marker})
                    THEN "done" ELSE "raised")
  /\ UNCHANGED <<made, tree, verifier, meddled>>
-------------------------------------------------------------------------------
(* Verifying: verify_foundation_evidence, after its own foundation replays.  *)

Reading == {"first", "second"}
Restarted(pc) == [verifier EXCEPT !.pc = pc, !.names = {}, !.listed = <<>>, !.read = {}]
Refused == [Restarted("invalid") EXCEPT !.before = <<>>, !.reproduced = <<>>]
Step(v) == verifier' = v /\ UNCHANGED <<made, tree, collection, meddled>>

\* A pass begins with the manifest's presence and the names; then the manifest.
\* An error anywhere decides the verdict.
List ==
  /\ verifier.pc \in Reading /\ verifier.names = {}
  /\ IF "manifest" \in DOMAIN tree
     THEN Step([verifier EXCEPT !.names = DOMAIN tree,
                  !.finished = IF verifier.pc = "first"
                               THEN \E c \in made : At(c, "done")
                               ELSE @])
     ELSE Step(Refused)
ReadManifest ==
  /\ verifier.pc \in Reading /\ verifier.names # {} /\ verifier.listed = <<>>
  /\ IF /\ "manifest" \in DOMAIN tree
        /\ Covers(tree["manifest"][2], verifier.names \ {"manifest"})
     THEN Step([verifier EXCEPT !.listed = tree["manifest"][2]])
     ELSE Step(Refused)
\* The artifacts, one after the other, held against the digests listed.
ReadFile ==
  /\ verifier.pc \in Reading /\ verifier.listed # <<>>
  /\ LET todo == DOMAIN verifier.listed \ verifier.read
         class == First(todo)
     IN  /\ todo # {}
         /\ IF class \in DOMAIN tree /\ tree[class] = verifier.listed[class]
            THEN Step([verifier EXCEPT !.read = @ \cup {class}])
            ELSE Step(Refused)

PassHolds == Holds(verifier.listed, Installed, verifier.markers)
AllRead == verifier.listed # <<>> /\ verifier.read = DOMAIN verifier.listed

\* Without a runtime receipt the first pass is the verdict.
JudgeFirst ==
  /\ verifier.pc = "first" /\ AllRead
  /\ Step(IF ~PassHolds THEN Refused
          ELSE IF "runtime" \in DOMAIN tree
               THEN [Restarted("reproduce") EXCEPT !.before = verifier.listed]
               ELSE [verifier EXCEPT !.pc = "valid"])
\* The receipt is loaded once more, and what it says observed again.
Reproduce ==
  /\ verifier.pc = "reproduce"
  /\ IF /\ "runtime" \in DOMAIN tree
        /\ \A receipt \in tree["runtime"][2] :
             /\ \A marker \in verifier.markers : RuntimeValid(receipt, marker)
             /\ Reproduces(receipt, Installed)
     THEN Step([verifier EXCEPT !.pc = "second", !.reproduced = tree["runtime"]])
     ELSE Step(Refused)
\* Mutant of JudgeSecond: the two readings are not compared.
JudgeLast ==
  /\ verifier.pc = "second" /\ AllRead
  /\ Step(IF PassHolds THEN [verifier EXCEPT !.pc = "valid"] ELSE Refused)

JudgeSecond ==
  /\ verifier.pc = "second" /\ AllRead
  /\ Step(IF PassHolds /\ verifier.listed = verifier.before
          THEN [verifier EXCEPT !.pc = "valid"] ELSE Refused)
-------------------------------------------------------------------------------
(* Others, of a sealed bundle: a file of another bundle takes the place of   *)
(* the collector's, one is removed, or the manifest is made to fit what is   *)
(* there.  Nothing is put back: two changes that undo one another would go   *)
(* unnoticed.                                                                *)

Meddle ==
  /\ meddled < MaxMeddling /\ "manifest" \in DOMAIN tree
  /\ verifier.pc \notin {"valid", "invalid"}
  /\ \/ \E input \in Foreign, c \in made : \E class \in Classes(input) \cap DOMAIN tree :
          /\ tree[class] = Content(class, collection[c].input)
          /\ tree' = [tree EXCEPT ![class] = Content(class, input)]
     \/ \E class \in DOMAIN tree :
          tree' = Dropping(class, tree)
     \/ tree' = Sealed(Dropping("manifest", tree))
  /\ tree' # tree
  /\ meddled' = meddled + 1
  /\ UNCHANGED <<made, collection, verifier>>
-------------------------------------------------------------------------------
BundleInit ==
  /\ made = {} /\ tree = <<>> /\ meddled = 0
  /\ collection \in {[c \in DOMAIN given |-> [pc |-> "started", input |-> given[c],
                                               left |-> Classes(given[c])]] :
                       given \in Inputs}
  /\ verifier \in {[pc |-> "first", markers |-> markers, names |-> {}, listed |-> <<>>,
                    read |-> {}, before |-> <<>>, reproduced |-> <<>>,
                    finished |-> FALSE] :
                     markers \in Asked}

BundleNext ==
  \/ \E c \in DOMAIN collection :
       \/ MakeDirectory(c) \/ WriteFile(c) \/ WriteManifest(c)
       \/ Raise(c) \/ CleanUp(c) \/ SelfVerify(c)
  \/ List \/ ReadManifest \/ ReadFile \/ JudgeFirst \/ Reproduce \/ JudgeSecond
  \/ Meddle
BundleSpec == BundleInit /\ [][BundleNext]_bundleVars
-------------------------------------------------------------------------------
(* Properties.                                                             *)

\* A bundle is declared valid only when it is what one collection of acceptable
\* inputs writes, on the verifier's own version and for its marker, and when the
\* receipt that was observed again is the one in it.  A receipt that somebody
\* removes between the first reading and that is not observed again: then it may
\* be one that does not reproduce.
BundleIsGenuine ==
  verifier.pc = "valid" =>
    LET input == Said(verifier.listed)
    IN  /\ verifier.listed = Bundle(input)
        /\ input.version = Installed /\ verifier.markers \subseteq {input.marker}
        /\ \/ /\ Acceptable(input)
              /\ "runtime" \in DOMAIN verifier.listed =>
                   verifier.reproduced = verifier.listed["runtime"]
           \/ /\ meddled > 0 /\ verifier.reproduced = <<>>
              /\ Acceptable([input EXCEPT !.runtime = {}])

\* What a collector declared collected and verified, and nobody changed, is not
\* refused by a verifier of the same version, for the same marker, on whose
\* machine the receipt reproduces.
FinishedVerifies ==
  verifier.finished /\ meddled = 0 /\ verifier.pc = "invalid" =>
    \E c \in made :
      LET input == collection[c].input
      IN  \/ input.version # Installed
          \/ ~(verifier.markers \subseteq {input.marker})
          \/ \E h \in input.hosted : ~Reproduces(NestedRuntime(h), Installed)

\* No collector changes a directory it did not make, and a sealed bundle is
\* changed by nobody but others.
NothingOverwritten ==
  [][tree' # tree /\ meddled' = meddled =>
       \E c \in DOMAIN collection :
         /\ made = {c} /\ collection[c].pc \in {"writing", "cleaning"}
         /\ \A other \in DOMAIN collection \ {c} : collection'[other] = collection[other]
         /\ "manifest" \notin DOMAIN tree \/ collection[c].pc = "cleaning" \/ meddled > 0]_bundleVars

\* In a bundle found valid every row that passes has its tests and its evidence
\* in it, and a row beyond the local gates its receipt; the release is never
\* eligible.  In its hosted receipt the search and the replays are one workflow's,
\* of the bundle's revision; the live test is of that revision if the producer
\* built the receipt, and may be of any other if not (_validate_foundation,
\* build_hosted_docker_qualification, HostedDockerQualificationReceipt).
NothingPassesUnproved ==
  verifier.pc = "valid" =>
    LET input == Said(verifier.listed)
    IN  /\ PartsGenuine
        /\ DOMAIN verifier.listed \ Always \in Proved
        /\ \A h \in input.hosted : OneWorkflowAt(h, input.marker)
===============================================================================
