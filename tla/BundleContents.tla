--------------------------- MODULE BundleContents ---------------------------
(***************************************************************************)
(* What an evidence bundle holds and what a verifier derives from it again  *)
(* (stateweaver.evidence: collector, verify; stateweaver.cli.evidence).     *)
(*                                                                         *)
(* Files that are written and read together are one class.  The content of  *)
(* a file is what it was derived from, and its digest the content.          *)
(***************************************************************************)
EXTENDS FoundationProof, HostedAdmission, AcceptanceResults

-------------------------------------------------------------------------------
(* What a collector is given: the installed version, the marker, sets of at  *)
(* most one package, runtime and hosted receipt, and whether its clock was   *)
(* set back (early) since the proof.  The marker is the caller's word.       *)

\* create_package_install_receipt, validate_package_install_receipt
PackageReceipt(marker) == [installed |-> "stateweaver-contracts", marker |-> marker]
PackageValid(receipt, marker) == receipt = PackageReceipt(marker)

\* qualify_runtime_observation: what is observed depends on the version alone.
RuntimeReceipt(marker, version) == [marker |-> marker, semantics |-> version]
\* validate_runtime_observation_qualification
RuntimeValid(receipt, marker) == receipt.marker = marker
Reproduces(receipt, version) == receipt.semantics = version

FoundationValid == {version \in Versions : ValidFoundation(Proofs[version])}
\* A hosted receipt is known by the workflows its parts are of.  It is for the
\* revision of its search: one for another revision is never valid.  Whether its
\* attestation was verified, neither collector nor verifier asks again.
HostedValid ==
  UNION {{<<h, marker>> : marker \in {revision \in Revisions :
            AdmissionValid(Admission(Receipt(Directories(h), h.m4.revision), h.m4.revision),
                           revision)}} :
         h \in Assemblies}
\* The M3 receipt inside the M4 receipt.
NestedRuntime(h) == RuntimeReceipt(h.m4.revision, h.m4.version)

Receipts(input) ==
  (IF input.hosted # {} THEN {"runtime", "hosted"} ELSE {})
    \cup (IF input.runtime # {} THEN {"runtime"} ELSE {})

\* collect_foundation_evidence and collect_acceptance_evidence raise before the
\* directory is made unless this holds.
Acceptable(input) ==
  /\ input.version \in FoundationValid
  /\ \A receipt \in input.package : PackageValid(receipt, input.marker)
  /\ input.hosted = {} \/ input.runtime = {}
  /\ \A h \in input.hosted : <<h, input.marker>> \in HostedValid
  /\ \A receipt \in input.runtime :
       RuntimeValid(receipt, input.marker) /\ Reproduces(receipt, input.version)
-------------------------------------------------------------------------------
(* What the bundle holds.                                                  *)

\* The order in which files are written, and the first of some of them.
Order == <<"source", "derived", "package", "hosted", "runtime", "results", "run", "manifest">>
First(classes) ==
  CHOOSE class \in classes :
    \E i \in DOMAIN Order : Order[i] = class /\ \A j \in 1..(i - 1) : Order[j] \notin classes
Always == {"source", "derived", "results", "run"}
Classes(input) ==
  Always \cup Receipts(input) \cup (IF input.package # {} THEN {"package"} ELSE {})

\* The results are those of the receipts there are.
EvidencePaths(classes) ==
  {"base"} \cup (classes \cap {"package", "hosted", "runtime"})
    \cup (IF "runtime" \in classes THEN {"fragment"} ELSE {})
PassingTests(classes) == {"local"} \cup (IF "hosted" \in classes THEN {"live"} ELSE {})
AdmittedRows(classes) ==
  (IF "runtime" \in classes THEN RuntimeRows ELSE {})
    \cup (IF "hosted" \in classes THEN HostedRows ELSE {})
\* What a bundle may hold beside what it always holds.
Extras ==
  {package \cup receipts : package \in {{}, {"package"}},
                           receipts \in {{}, {"runtime"}, {"runtime", "hosted"}}}
ResultsOf ==
  [classes \in Extras |->
     Results(EvidencePaths(classes), PassingTests(classes),
             [id \in AdmittedRows(classes) |-> "receipt"])]

\* _proof_artifact_payloads, _m01_qualification_payloads and
\* _local_deliverable_qualification_payloads.
ProofPayloads(version) == <<"oracle, replay, policy", version>>
RootPayloads(version)  == <<"qualification of the roots", version>>
LocalPayloads(marker)  == <<"qualification of the tests", marker>>
Derived(version, marker) ==
  <<"derived", ProofPayloads(version), RootPayloads(version), LocalPayloads(marker)>>
\* The metadata the collector was started with, in the run manifest.
Metadata(version, marker, early) == [version |-> version, marker |-> marker, early |-> early]
RunManifest(metadata, extras) == <<"run", metadata, extras>>

Content(class, input) ==
  CASE class = "source"  -> <<"source", input.version>>
    [] class = "derived" -> Derived(input.version, input.marker)
    [] class = "package" -> <<"package", input.package>>
    [] class = "hosted"  -> <<"hosted", input.hosted>>
    [] class = "runtime" -> <<"runtime", input.runtime \cup {NestedRuntime(h) : h \in input.hosted}>>
    [] class = "results" -> <<"results", Classes(input) \ Always>>
    [] class = "run"     -> RunManifest(Metadata(input.version, input.marker, input.early),
                                        Classes(input) \ Always)
Bundle(input) == [class \in Classes(input) |-> Content(class, input)]
\* The files with one more, or one replaced, and without one.
Added(class, content, files) ==
  [other \in DOMAIN files \cup {class} |-> IF other = class THEN content ELSE files[other]]
Dropping(class, files) == [other \in DOMAIN files \ {class} |-> files[other]]
Sealed(files) == Added("manifest", <<"manifest", files>>, files)
-------------------------------------------------------------------------------
(* Verification of what was read.                                          *)

\* The manifest decides which classes there have to be.
Required(files) ==
  Always \cup ({"package"} \cap DOMAIN files)
    \cup (IF "hosted" \in DOMAIN files THEN {"hosted", "runtime"} ELSE {})
    \cup ({"runtime"} \cap DOMAIN files)

\* _verify_coherence: everything is derived again from what the files say, and
\* the run manifest has to say the same.
Coherent(files) ==
  LET version == files["source"][2]
      marker  == files["run"][2].marker
      extras  == DOMAIN files \ Always
  IN  /\ version \in FoundationValid
      /\ files["derived"] = Derived(version, marker)
      /\ "package" \in extras => files["package"] = <<"package", {PackageReceipt(marker)}>>
      /\ "hosted" \in extras =>
           /\ \A h \in files["hosted"][2] : <<h, marker>> \in HostedValid
           /\ files["runtime"] = <<"runtime", {NestedRuntime(h) : h \in files["hosted"][2]}>>
      /\ "runtime" \in extras =>
           \A receipt \in files["runtime"][2] : RuntimeValid(receipt, marker)
      /\ files["results"] = <<"results", extras>>
      /\ files["run"] = RunManifest(Metadata(version, marker, FALSE), extras)

\* _validate_run_manifest: what the verifier knows by itself.
Provenance(files, version, markers) ==
  /\ files["source"][2] = version
  /\ markers \subseteq {files["run"][2].marker}

\* verify_acceptance_evidence: of the manifest, and of the files it lists.
Covers(files, names) == names = Required(files) /\ DOMAIN files = names
Holds(files, version, markers) == Coherent(files) /\ Provenance(files, version, markers)
-------------------------------------------------------------------------------
(* What a verified bundle shows.                                           *)

\* What a collector was given, going by the files.
Said(files) ==
  [version |-> files["source"][2], marker |-> files["run"][2].marker, early |-> FALSE,
   package |-> IF "package" \in DOMAIN files THEN files["package"][2] ELSE {},
   hosted  |-> IF "hosted" \in DOMAIN files THEN files["hosted"][2] ELSE {},
   runtime |-> IF "runtime" \in DOMAIN files /\ "hosted" \notin DOMAIN files
               THEN files["runtime"][2] ELSE {}]

\* The receipts with which every row that passes has its tests and its evidence,
\* and a row beyond the local gates its receipt; they can be derived, and the
\* release is not eligible.
Proved ==
  {classes \in Extras :
     /\ Derivable(EvidencePaths(classes), PassingTests(classes), ResultsOf[classes].admissions)
     /\ \A id \in RequirementIds : ResultsOf[classes].status[id] = "PASS" =>
          /\ Missing(id, EvidencePaths(classes), PassingTests(classes)) = {}
          /\ Local(id) \/ id \in AdmittedRows(classes)
     /\ ~ResultsOf[classes].eligible}

\* The parts of a hosted receipt that is valid for a marker: the search and both
\* replays are one workflow's, at that revision.  The live test may be another
\* workflow's.  It is of that revision if the producer built the receipt, which
\* compares its commit.txt; no later reader does.
OneWorkflowAt(h, marker) ==
  /\ h.process = h.m4 /\ h.actual = h.m4 /\ h.m4.revision = marker
  /\ Producible(Directories(h), marker) => h.m2.revision = marker

\* What the checks of the proof and of the receipt promise by themselves, of every
\* document: the program writes no proof the collector refuses, it takes no proof
\* of parts of several that no version could have written, and AdmissionsSound.
PartsGenuine == ProofsAreValid /\ NoSpliceIsValid /\ AdmissionsSound
===============================================================================
