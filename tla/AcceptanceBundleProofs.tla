------------------------ MODULE AcceptanceBundleProofs ------------------------
(***************************************************************************)
(* Of any number of collectors and versions, and however often others       *)
(* change the directory: no collector touches a directory that is another's *)
(* (NothingOverwritten), what a collector finished is not refused           *)
(* (FinishedVerifies), and what is declared valid is one collection of      *)
(* acceptable inputs (BundleIsGenuine), whose rows pass only with what they  *)
(* require and whose hosted receipt is one workflow's but for the live test *)
(* (NothingPassesUnproved).                                                *)
(***************************************************************************)
EXTENDS AcceptanceBundle, FiniteSetTheorems, SequenceTheorems, TLAPS

-------------------------------------------------------------------------------
(* Classes and contents.                                                   *)

AllClasses == {"source", "derived", "package", "hosted", "runtime", "results", "run", "manifest"}

\* The file to be treated next is one of those that are left.
LEMMA FirstIsOneOf ==
  ASSUME NEW classes, classes # {}, classes \subseteq AllClasses
  PROVE  First(classes) \in classes
<1> DEFINE Leads(class) ==
      \E i \in DOMAIN Order : Order[i] = class /\ \A j \in 1..(i - 1) : Order[j] \notin classes
<1>1. /\ Order[1] = "source" /\ Order[2] = "derived" /\ Order[3] = "package" /\ Order[4] = "hosted"
      /\ Order[5] = "runtime" /\ Order[6] = "results" /\ Order[7] = "run" /\ Order[8] = "manifest"
      /\ DOMAIN Order = 1..8
  BY DEF Order
<1>2. \E class \in classes : Leads(class)
  <2>1. CASE "source" \in classes
    <3>1. Leads("source") BY <1>1
    <3> QED BY <2>1, <3>1
  <2>2. CASE "source" \notin classes /\ "derived" \in classes
    <3>1. Leads("derived") BY <1>1, <2>2
    <3> QED BY <2>2, <3>1
  <2>3. CASE {"source", "derived"} \cap classes = {} /\ "package" \in classes
    <3>1. \A j \in 1..2 : Order[j] \notin classes BY <1>1, <2>3
    <3>2. Leads("package") BY <1>1, <3>1
    <3> QED BY <2>3, <3>2
  <2>4. CASE {"source", "derived", "package"} \cap classes = {} /\ "hosted" \in classes
    <3>1. \A j \in 1..3 : Order[j] \notin classes BY <1>1, <2>4
    <3>2. Leads("hosted") BY <1>1, <3>1
    <3> QED BY <2>4, <3>2
  <2>5. CASE {"source", "derived", "package", "hosted"} \cap classes = {} /\ "runtime" \in classes
    <3>1. \A j \in 1..4 : Order[j] \notin classes BY <1>1, <2>5
    <3>2. Leads("runtime") BY <1>1, <3>1
    <3> QED BY <2>5, <3>2
  <2>6. CASE {"source", "derived", "package", "hosted", "runtime"} \cap classes = {} /\ "results" \in classes
    <3>1. \A j \in 1..5 : Order[j] \notin classes BY <1>1, <2>6
    <3>2. Leads("results") BY <1>1, <3>1
    <3> QED BY <2>6, <3>2
  <2>7. CASE /\ {"source", "derived", "package", "hosted", "runtime", "results"} \cap classes = {}
             /\ "run" \in classes
    <3>1. \A j \in 1..6 : Order[j] \notin classes BY <1>1, <2>7
    <3>2. Leads("run") BY <1>1, <3>1
    <3> QED BY <2>7, <3>2
  <2>8. CASE /\ {"source", "derived", "package", "hosted", "runtime", "results", "run"} \cap classes = {}
             /\ "manifest" \in classes
    <3>1. \A j \in 1..7 : Order[j] \notin classes BY <1>1, <2>8
    <3>2. Leads("manifest") BY <1>1, <3>1
    <3> QED BY <2>8, <3>2
  <2> QED BY <2>1, <2>2, <2>3, <2>4, <2>5, <2>6, <2>7, <2>8 DEF AllClasses
<1>3. First(classes) = CHOOSE class \in classes : Leads(class) BY DEF First
<1> HIDE DEF Leads
<1> QED BY <1>2, <1>3

\* The manifest is none of the files a collector is to write.
LEMMA ClassesAre ==
  ASSUME NEW input
  PROVE  /\ Always \subseteq Classes(input)
         /\ Classes(input) \subseteq AllClasses \ {"manifest"}
         /\ "hosted" \in Classes(input) <=> input.hosted # {}
         /\ "runtime" \in Classes(input) <=> input.hosted # {} \/ input.runtime # {}
         /\ "package" \in Classes(input) <=> input.package # {}
BY DEF Classes, Receipts, Always, AllClasses

LEMMA ContentsAre ==
  ASSUME NEW input
  PROVE  /\ Content("source", input) = <<"source", input.version>>
         /\ Content("derived", input) = Derived(input.version, input.marker)
         /\ Content("package", input) = <<"package", input.package>>
         /\ Content("hosted", input) = <<"hosted", input.hosted>>
         /\ Content("runtime", input) =
              <<"runtime", input.runtime \cup {NestedRuntime(w) : w \in input.hosted}>>
         /\ Content("results", input) = <<"results", Classes(input) \ Always>>
         /\ Content("run", input) =
              RunManifest(Metadata(input.version, input.marker, input.early), Classes(input) \ Always)
BY DEF Content

\* Functions that hold, of each class they have, what some collection wrote.
Whole(files) ==
  /\ files = [class \in DOMAIN files |-> files[class]]
  /\ "source" \in DOMAIN files => files["source"] = <<"source", files["source"][2]>>
  /\ \A class \in {"hosted", "runtime"} \cap DOMAIN files :
       files[class] = <<class, files[class][2]>> /\ files[class][2] # {}

LEMMA WholeWith ==
  ASSUME NEW files, Whole(files), NEW input, NEW class \in Classes(input)
  PROVE  Whole(Added(class, Content(class, input), files))
<1> DEFINE more == Added(class, Content(class, input), files)
<1>1. /\ DOMAIN more = DOMAIN files \cup {class}
      /\ more = [other \in DOMAIN more |-> more[other]]
      /\ \A other \in DOMAIN more : more[other] = IF other = class THEN Content(class, input) ELSE files[other]
  BY DEF Added
<1> HIDE DEF more
<1> DEFINE parts == input.runtime \cup {NestedRuntime(w) : w \in input.hosted}
<1>2. /\ Content("source", input) = <<"source", input.version>>
      /\ Content("hosted", input) = <<"hosted", input.hosted>>
      /\ Content("runtime", input) = <<"runtime", parts>>
  BY ContentsAre
<1>3. /\ class = "hosted" => input.hosted # {}
      /\ class = "runtime" => parts # {}
  BY ClassesAre
<1> HIDE DEF parts
<1>4. "source" \in DOMAIN more => more["source"] = <<"source", more["source"][2]>>
  BY <1>1, <1>2 DEF Whole
<1>5. "hosted" \in DOMAIN more =>
        more["hosted"] = <<"hosted", more["hosted"][2]>> /\ more["hosted"][2] # {}
  BY <1>1, <1>2, <1>3 DEF Whole
<1>6. "runtime" \in DOMAIN more =>
        more["runtime"] = <<"runtime", more["runtime"][2]>> /\ more["runtime"][2] # {}
  BY <1>1, <1>2, <1>3 DEF Whole
<1>7. Whole(more) BY <1>1, <1>4, <1>5, <1>6 DEF Whole
<1> QED BY <1>7 DEF more

LEMMA WholeWithout ==
  ASSUME NEW files, Whole(files), NEW class
  PROVE  Whole(Dropping(class, files))
BY DEF Whole, Dropping

LEMMA WholeSealed ==
  ASSUME NEW files, Whole(files), NEW content
  PROVE  Whole(Added("manifest", content, files))
BY DEF Whole, Added

\* What a collector writes and its manifest.
LEMMA SealedIs ==
  ASSUME NEW input
  PROVE  LET seal == Sealed(Bundle(input))
         IN  /\ DOMAIN Bundle(input) = Classes(input)
             /\ DOMAIN seal = Classes(input) \cup {"manifest"}
             /\ seal["manifest"] = <<"manifest", Bundle(input)>>
             /\ \A class \in Classes(input) :
                  seal[class] = Content(class, input) /\ Bundle(input)[class] = Content(class, input)
             /\ Dropping("manifest", seal) = Bundle(input)
<1>1. DOMAIN Bundle(input) = Classes(input) /\ "manifest" \notin Classes(input)
  BY ClassesAre DEF Bundle
<1>2. Bundle(input) = [class \in Classes(input) |-> Content(class, input)] BY DEF Bundle
<1> QED BY <1>1, <1>2 DEF Sealed, Added, Dropping
-------------------------------------------------------------------------------
(* The directory.                                                          *)

\* The progress of the collectors, as records.
CollectorsShaped ==
  /\ collection = [c \in DOMAIN collection |-> collection[c]]
  /\ \A c \in DOMAIN collection :
       collection[c] = [pc |-> collection[c].pc, input |-> collection[c].input,
                        left |-> collection[c].left]

\* Whoever is at work made the directory, and nobody else has it.
Owned ==
  /\ \A c \in DOMAIN collection :
       collection[c].pc \in {"writing", "cleaning", "sealed", "done"} => made = {c}
  /\ made = {} \/ \E c \in DOMAIN collection :
       made = {c} /\ ~At(c, "started") /\ Acceptable(collection[c].input)
  /\ made = {} => DOMAIN tree = {}

\* Until it is sealed the directory holds what its collector has written.
Progress ==
  \A c \in DOMAIN collection :
    /\ At(c, "started") => collection[c].left = Classes(collection[c].input)
    /\ At(c, "writing") =>
         /\ collection[c].left \subseteq Classes(collection[c].input)
         /\ DOMAIN tree \subseteq Classes(collection[c].input)
         /\ Classes(collection[c].input) \subseteq DOMAIN tree \cup collection[c].left
         /\ \A class \in DOMAIN tree : tree[class] = Content(class, collection[c].input)
    /\ At(c, "cleaning") => "manifest" \notin DOMAIN tree

\* Whatever is in it, others' files too, some collection wrote.
TreeWhole ==
  /\ Whole(tree)
  /\ "manifest" \in DOMAIN tree =>
       tree["manifest"] = <<"manifest", tree["manifest"][2]>> /\ Whole(tree["manifest"][2])

\* Once sealed it stays as it is until others change it.
SealedWhole ==
  /\ meddled \in Nat
  /\ meddled = 0 =>
       /\ "manifest" \in DOMAIN tree => \A c \in made : tree = Sealed(Bundle(collection[c].input))
       /\ \A c \in DOMAIN collection :
            At(c, "sealed") \/ At(c, "done") => "manifest" \in DOMAIN tree
       /\ \A c \in DOMAIN collection : At(c, "done") =>
            LET input == collection[c].input
            IN  /\ Covers(Bundle(input), Classes(input))
                /\ Holds(Bundle(input), input.version, {input.marker})

Directory == CollectorsShaped /\ Owned /\ Progress /\ TreeWhole /\ SealedWhole

LEMMA DirectoryInit == BundleInit => Directory
<1> SUFFICES ASSUME BundleInit PROVE Directory OBVIOUS
<1>1. PICK given \in Inputs :
        collection = [c \in DOMAIN given |-> [pc |-> "started", input |-> given[c],
                                              left |-> Classes(given[c])]]
  BY DEF BundleInit
<1>2. \A c \in DOMAIN collection :
        collection[c] = [pc |-> "started", input |-> given[c], left |-> Classes(given[c])]
  BY <1>1
<1>3. made = {} /\ tree = <<>> /\ meddled = 0 /\ DOMAIN tree = {} BY DEF BundleInit
<1>4. CollectorsShaped BY <1>1, <1>2 DEF CollectorsShaped
<1>5. Owned BY <1>2, <1>3 DEF Owned
<1>6. Progress BY <1>2, <1>3 DEF Progress, At
<1>7. TreeWhole BY <1>3 DEF TreeWhole, Whole
<1>8. SealedWhole BY <1>2, <1>3 DEF SealedWhole, At
<1> QED BY <1>4, <1>5, <1>6, <1>7, <1>8 DEF Directory

\* What a step of one collector leaves of the others.
LEMMA ProceedIs ==
  ASSUME CollectorsShaped, NEW c \in DOMAIN collection, NEW pc, Proceed(c, pc)
  PROVE  /\ CollectorsShaped' /\ DOMAIN collection' = DOMAIN collection
         /\ collection'[c].pc = pc /\ collection'[c].input = collection[c].input
         /\ collection'[c].left = collection[c].left
         /\ \A d \in DOMAIN collection \ {c} : collection'[d] = collection[d]
<1>1. collection' = [d \in DOMAIN collection |->
                       IF d = c THEN [collection[c] EXCEPT !.pc = pc] ELSE collection[d]]
  BY DEF Proceed, CollectorsShaped
<1>2. [collection[c] EXCEPT !.pc = pc] =
        [pc |-> pc, input |-> collection[c].input, left |-> collection[c].left]
  BY DEF CollectorsShaped
<1>3. CollectorsShaped' BY <1>1, <1>2 DEF CollectorsShaped
<1> QED BY <1>1, <1>2, <1>3

LEMMA MakeDirectoryKeeps ==
  ASSUME Directory, NEW c \in DOMAIN collection, MakeDirectory(c)
  PROVE  Directory'
<1>1. CASE made # {} \/ ~Acceptable(collection[c].input)
  <2>1. Proceed(c, "raised") /\ UNCHANGED <<made, tree, verifier, meddled>> /\ At(c, "started")
    BY <1>1 DEF MakeDirectory
  <2>2. /\ CollectorsShaped' /\ DOMAIN collection' = DOMAIN collection
        /\ collection'[c].pc = "raised" /\ collection'[c].input = collection[c].input
        /\ \A d \in DOMAIN collection \ {c} : collection'[d] = collection[d]
    BY <2>1, ProceedIs DEF Directory
  <2>3. \A d \in made : d # c BY <2>1 DEF Directory, Owned, At
  <2>4. Owned' BY <2>1, <2>2, <2>3 DEF Directory, Owned, At
  <2>5. Progress' BY <2>1, <2>2 DEF Directory, Progress, At
  <2>6. SealedWhole'
    <3>1. /\ \A d \in made : collection'[d] = collection[d]
          /\ \A d \in DOMAIN collection : At(d, "sealed")' => At(d, "sealed")
          /\ \A d \in DOMAIN collection : At(d, "done")' => At(d, "done") /\ collection'[d] = collection[d]
      BY <2>2, <2>3 DEF At, Directory, Owned
    <3> QED BY <2>1, <2>2, <3>1 DEF Directory, SealedWhole
  <2> QED BY <2>1, <2>2, <2>4, <2>5, <2>6 DEF Directory, TreeWhole
<1>2. CASE made = {} /\ Acceptable(collection[c].input)
  <2>1. /\ Proceed(c, "writing") /\ made' = {c} /\ UNCHANGED <<tree, verifier, meddled>>
        /\ At(c, "started")
    BY <1>2 DEF MakeDirectory
  <2>2. /\ CollectorsShaped' /\ DOMAIN collection' = DOMAIN collection
        /\ collection'[c].pc = "writing" /\ collection'[c].input = collection[c].input
        /\ collection'[c].left = collection[c].left
        /\ \A d \in DOMAIN collection \ {c} : collection'[d] = collection[d]
    BY <2>1, ProceedIs DEF Directory
  <2>3. DOMAIN tree = {} BY <1>2 DEF Directory, Owned
  <2>4. \A d \in DOMAIN collection :
          collection[d].pc \notin {"writing", "cleaning", "sealed", "done"}
    BY <1>2 DEF Directory, Owned
  <2>5. Owned' BY <1>2, <2>1, <2>2, <2>4 DEF Owned, At
  <2>6. Progress' BY <2>1, <2>2, <2>3, <2>4 DEF Directory, Progress, At
  <2>7. SealedWhole' BY <2>1, <2>2, <2>3, <2>4 DEF Directory, SealedWhole, At
  <2> QED BY <2>1, <2>2, <2>5, <2>6, <2>7 DEF Directory, TreeWhole
<1> QED BY <1>1, <1>2

LEMMA WriteFileKeeps ==
  ASSUME Directory, NEW c \in DOMAIN collection, WriteFile(c)
  PROVE  Directory' /\ made = {c} /\ "manifest" \notin DOMAIN tree
                    /\ \A d \in DOMAIN collection \ {c} : collection'[d] = collection[d]
<1> DEFINE input == collection[c].input
           left  == collection[c].left
           class == First(left)
<1>1. /\ At(c, "writing") /\ left # {} /\ tree' = Added(class, Content(class, input), tree)
      /\ collection' = [collection EXCEPT ![c].left = @ \ {class}]
      /\ UNCHANGED <<made, verifier, meddled>>
  BY DEF WriteFile
<1>2. /\ made = {c} /\ left \subseteq Classes(input) /\ DOMAIN tree \subseteq Classes(input)
      /\ Classes(input) \subseteq DOMAIN tree \cup left
      /\ \A other \in DOMAIN tree : tree[other] = Content(other, input)
  BY <1>1 DEF Directory, Owned, Progress, At
<1>3. class \in left /\ "manifest" \notin Classes(input)
  <2>1. Classes(input) \subseteq AllClasses \ {"manifest"} BY ClassesAre
  <2> HIDE DEF left
  <2> QED BY <1>1, <1>2, <2>1, FirstIsOneOf
<1> HIDE DEF class
<1>4. /\ collection' = [d \in DOMAIN collection |->
            IF d = c THEN [pc |-> "writing", input |-> input, left |-> left \ {class}] ELSE collection[d]]
  <2>1. collection' = [d \in DOMAIN collection |->
                         IF d = c THEN [collection[c] EXCEPT !.left = left \ {class}] ELSE collection[d]]
    BY <1>1 DEF Directory, CollectorsShaped
  <2>2. collection[c] = [pc |-> "writing", input |-> input, left |-> left]
    BY <1>1 DEF Directory, CollectorsShaped, At
  <2>3. [collection[c] EXCEPT !.left = left \ {class}] =
          [pc |-> "writing", input |-> input, left |-> left \ {class}]
    BY <2>2
  <2> QED BY <2>1, <2>3
<1>5. /\ CollectorsShaped' /\ DOMAIN collection' = DOMAIN collection
      /\ collection'[c].pc = "writing" /\ collection'[c].input = input
      /\ collection'[c].left = left \ {class}
      /\ \A d \in DOMAIN collection \ {c} : collection'[d] = collection[d]
  BY <1>4 DEF Directory, CollectorsShaped
<1>6. /\ DOMAIN tree' = DOMAIN tree \cup {class}
      /\ \A other \in DOMAIN tree' :
           tree'[other] = IF other = class THEN Content(class, input) ELSE tree[other]
  BY <1>1 DEF Added
<1>7. \A d \in DOMAIN collection \ {c} :
        collection[d].pc \notin {"writing", "cleaning", "sealed", "done"}
  BY <1>2 DEF Directory, Owned
<1>8. Owned' BY <1>1, <1>2, <1>5, <1>7 DEF Directory, Owned, At
<1>9. Progress'
  <2>1. \A other \in DOMAIN tree' : tree'[other] = Content(other, input) BY <1>2, <1>6
  <2>2. DOMAIN tree' \subseteq Classes(input) /\ Classes(input) \subseteq DOMAIN tree' \cup (left \ {class})
    BY <1>2, <1>3, <1>6
  <2>3. left \ {class} \subseteq Classes(input) BY <1>2
  <2> HIDE DEF input, left
  <2> QED BY <1>5, <1>7, <2>1, <2>2, <2>3 DEF Directory, Progress, At
<1>10. "manifest" \notin DOMAIN tree' BY <1>2, <1>3, <1>6
<1>11. TreeWhole'
  <2>1. Whole(tree) BY DEF Directory, TreeWhole
  <2>2. class \in Classes(input) BY <1>2, <1>3
  <2> HIDE DEF input
  <2>3. Whole(tree') BY <2>1, <2>2, <1>1, WholeWith
  <2> QED BY <1>10, <2>3 DEF TreeWhole
<1>12. SealedWhole' BY <1>1, <1>5, <1>7, <1>10 DEF Directory, SealedWhole, At
<1> QED BY <1>2, <1>3, <1>5, <1>8, <1>9, <1>11, <1>12 DEF Directory

LEMMA WriteManifestKeeps ==
  ASSUME Directory, NEW c \in DOMAIN collection, WriteManifest(c)
  PROVE  Directory' /\ made = {c} /\ "manifest" \notin DOMAIN tree
                    /\ \A d \in DOMAIN collection \ {c} : collection'[d] = collection[d]
<1> DEFINE input == collection[c].input
           files == [class \in Classes(input) |-> tree[class]]
<1>1. /\ At(c, "writing") /\ collection[c].left = {}
      /\ tree' = Added("manifest", <<"manifest", files>>, tree)
      /\ Proceed(c, "sealed") /\ UNCHANGED <<made, verifier, meddled>>
  BY DEF WriteManifest
<1>2. /\ made = {c} /\ DOMAIN tree = Classes(input)
      /\ \A other \in DOMAIN tree : tree[other] = Content(other, input)
      /\ tree = [class \in DOMAIN tree |-> tree[class]]
  BY <1>1 DEF Directory, Owned, Progress, TreeWhole, Whole, At
<1>3. tree = Bundle(input) /\ files = tree BY <1>2 DEF Bundle
<1>4. tree' = Sealed(Bundle(input)) BY <1>1, <1>3 DEF Sealed
<1>5. /\ CollectorsShaped' /\ DOMAIN collection' = DOMAIN collection
      /\ collection'[c].pc = "sealed" /\ collection'[c].input = input
      /\ collection'[c].left = collection[c].left
      /\ \A d \in DOMAIN collection \ {c} : collection'[d] = collection[d]
  BY <1>1, ProceedIs DEF Directory
<1>6. "manifest" \notin DOMAIN tree BY <1>2, ClassesAre
<1>7. \A d \in DOMAIN collection \ {c} :
        collection[d].pc \notin {"writing", "cleaning", "sealed", "done"}
  BY <1>2 DEF Directory, Owned
<1>8. Owned' BY <1>1, <1>2, <1>5, <1>7 DEF Directory, Owned, At
<1>9. Progress' BY <1>5, <1>7 DEF Directory, Progress, At
<1>10. TreeWhole'
  <2>1. Whole(tree) BY DEF Directory, TreeWhole
  <2>2. Whole(tree') BY <2>1, <1>1, WholeSealed
  <2>3. tree'["manifest"] = <<"manifest", tree>> BY <1>1, <1>3 DEF Added
  <2> HIDE DEF files, input
  <2> QED BY <2>1, <2>2, <2>3 DEF TreeWhole
<1>11. SealedWhole'
  <2>1. "manifest" \in DOMAIN tree' BY <1>1 DEF Added
  <2> HIDE DEF files
  <2> QED BY <1>1, <1>2, <1>4, <1>5, <1>7, <2>1 DEF Directory, SealedWhole, At
<1> QED BY <1>2, <1>5, <1>6, <1>8, <1>9, <1>10, <1>11 DEF Directory

\* A step that leaves the directory and ends, or continues, one collector's work.
LEMMA RaiseKeeps ==
  ASSUME Directory, NEW c \in DOMAIN collection, Raise(c)
  PROVE  Directory' /\ UNCHANGED <<made, tree, meddled>>
<1>1. At(c, "writing") /\ Proceed(c, "cleaning") /\ UNCHANGED <<made, tree, verifier, meddled>>
  BY DEF Raise
<1>2. /\ CollectorsShaped' /\ DOMAIN collection' = DOMAIN collection
      /\ collection'[c].pc = "cleaning" /\ collection'[c].input = collection[c].input
      /\ \A d \in DOMAIN collection \ {c} : collection'[d] = collection[d]
  BY <1>1, ProceedIs DEF Directory
<1>3. made = {c} /\ DOMAIN tree \subseteq Classes(collection[c].input)
  BY <1>1 DEF Directory, Owned, Progress, At
<1>4. "manifest" \notin DOMAIN tree BY <1>3, ClassesAre
<1>5. \A d \in DOMAIN collection \ {c} :
        collection[d].pc \notin {"writing", "cleaning", "sealed", "done"}
  BY <1>3 DEF Directory, Owned
<1>6. Owned' BY <1>1, <1>2, <1>3, <1>5 DEF Directory, Owned, At
<1>7. Progress' BY <1>1, <1>2, <1>4, <1>5 DEF Directory, Progress, At
<1>8. SealedWhole' BY <1>1, <1>2, <1>4, <1>5 DEF Directory, SealedWhole, At
<1> QED BY <1>1, <1>2, <1>6, <1>7, <1>8 DEF Directory, TreeWhole

LEMMA CleanUpKeeps ==
  ASSUME Directory, NEW c \in DOMAIN collection, CleanUp(c)
  PROVE  /\ Directory' /\ made = {c} /\ At(c, "cleaning") /\ "manifest" \notin DOMAIN tree
         /\ \A d \in DOMAIN collection \ {c} : collection'[d] = collection[d]
<1>1. /\ At(c, "cleaning") /\ UNCHANGED <<verifier, meddled>>
      /\ \/ DOMAIN tree = {} /\ made' = {} /\ Proceed(c, "raised") /\ UNCHANGED tree
         \/ tree' = Dropping(First(DOMAIN tree), tree) /\ UNCHANGED <<made, collection>>
  BY DEF CleanUp
<1>2. made = {c} /\ "manifest" \notin DOMAIN tree
  BY <1>1 DEF Directory, Owned, Progress, At
<1>3. \A d \in DOMAIN collection \ {c} :
        collection[d].pc \notin {"writing", "cleaning", "sealed", "done"}
  BY <1>2 DEF Directory, Owned
<1>4. CASE DOMAIN tree = {} /\ made' = {} /\ Proceed(c, "raised") /\ UNCHANGED tree
  <2>1. /\ CollectorsShaped' /\ DOMAIN collection' = DOMAIN collection
        /\ collection'[c].pc = "raised" /\ collection'[c].input = collection[c].input
        /\ \A d \in DOMAIN collection \ {c} : collection'[d] = collection[d]
    BY <1>4, ProceedIs DEF Directory
  <2>2. Owned' BY <1>3, <1>4, <2>1 DEF Owned
  <2>3. Progress' BY <1>3, <1>4, <2>1 DEF Directory, Progress, At
  <2>4. SealedWhole' BY <1>1, <1>2, <1>3, <1>4, <2>1 DEF Directory, SealedWhole, At
  <2> QED BY <1>1, <1>2, <1>4, <2>1, <2>2, <2>3, <2>4 DEF Directory, TreeWhole
<1>5. CASE tree' = Dropping(First(DOMAIN tree), tree) /\ UNCHANGED <<made, collection>>
  <2>1. DOMAIN tree' \subseteq DOMAIN tree BY <1>5 DEF Dropping
  <2>2. Whole(tree') BY <1>5, WholeWithout DEF Directory, TreeWhole
  <2>3. Owned' BY <1>2, <1>5 DEF Directory, Owned, At
  <2>4. Progress' BY <1>1, <1>2, <1>3, <1>5, <2>1 DEF Directory, Progress, At
  <2>5. SealedWhole' BY <1>1, <1>2, <1>3, <1>5, <2>1 DEF Directory, SealedWhole, At
  <2> QED BY <1>1, <1>2, <1>5, <2>1, <2>2, <2>3, <2>4, <2>5
          DEF Directory, TreeWhole, CollectorsShaped
<1> QED BY <1>1, <1>2, <1>4, <1>5

LEMMA SelfVerifyKeeps ==
  ASSUME Directory, NEW c \in DOMAIN collection, SelfVerify(c)
  PROVE  Directory' /\ UNCHANGED <<made, tree, meddled>>
<1> DEFINE files == Dropping("manifest", tree)
           input == collection[c].input
           passes == /\ "manifest" \in DOMAIN tree
                     /\ tree["manifest"] = <<"manifest", files>> /\ Covers(files, DOMAIN files)
                     /\ Holds(files, input.version, {input.marker})
<1>1. /\ At(c, "sealed") /\ UNCHANGED <<made, tree, verifier, meddled>>
      /\ Proceed(c, IF passes THEN "done" ELSE "raised")
  BY DEF SelfVerify
<1>2. /\ CollectorsShaped' /\ DOMAIN collection' = DOMAIN collection
      /\ collection'[c].pc = (IF passes THEN "done" ELSE "raised") /\ collection'[c].input = input
      /\ \A d \in DOMAIN collection \ {c} : collection'[d] = collection[d]
  <2> DEFINE pc == IF passes THEN "done" ELSE "raised"
  <2>1. Proceed(c, pc) BY <1>1
  <2> HIDE DEF pc
  <2>2. /\ CollectorsShaped' /\ DOMAIN collection' = DOMAIN collection
        /\ collection'[c].pc = pc /\ collection'[c].input = input
        /\ \A d \in DOMAIN collection \ {c} : collection'[d] = collection[d]
    BY <2>1, ProceedIs DEF Directory
  <2> QED BY <2>2 DEF pc
<1>3. made = {c} BY <1>1 DEF Directory, Owned, At
<1>4. \A d \in DOMAIN collection \ {c} :
        collection[d].pc \notin {"writing", "cleaning", "sealed", "done"}
  BY <1>3 DEF Directory, Owned
<1>5. meddled = 0 => "manifest" \in DOMAIN tree /\ tree = Sealed(Bundle(input))
  BY <1>1, <1>3 DEF Directory, SealedWhole
<1>6. meddled = 0 /\ passes =>
        Covers(Bundle(input), Classes(input)) /\ Holds(Bundle(input), input.version, {input.marker})
  <2>1. meddled = 0 => files = Bundle(input) BY <1>5, SealedIs
  <2>2. DOMAIN Bundle(input) = Classes(input) BY SealedIs
  <2> HIDE DEF files, input
  <2> QED BY <2>1, <2>2
<1> HIDE DEF passes
<1>7. Owned' BY <1>1, <1>2, <1>3, <1>4 DEF Directory, Owned, At
<1>8. Progress' BY <1>2, <1>4 DEF Directory, Progress, At
<1>9. SealedWhole'
  <2> HIDE DEF input
  <2>1. \A d \in DOMAIN collection : ~At(d, "sealed")' BY <1>2, <1>4 DEF At
  <2>2. \A d \in DOMAIN collection : At(d, "done")' => d = c /\ passes BY <1>2, <1>4 DEF At
  <2>3. "manifest" \in DOMAIN tree' /\ meddled = 0 => \A d \in made' : tree' = Sealed(Bundle(collection'[d].input))
    BY <1>1, <1>2, <1>3, <1>5
  <2>4. meddled' = 0 => \A d \in DOMAIN collection' : At(d, "done")' =>
          /\ Covers(Bundle(collection'[d].input), Classes(collection'[d].input))
          /\ Holds(Bundle(collection'[d].input), collection'[d].input.version, {collection'[d].input.marker})
    BY <1>1, <1>2, <1>6, <2>2
  <2> QED BY <1>1, <1>2, <1>5, <2>1, <2>2, <2>3, <2>4 DEF Directory, SealedWhole
<1> QED BY <1>1, <1>2, <1>7, <1>8, <1>9 DEF Directory, TreeWhole

\* What others do to it changes nothing of who has it.
LEMMA MeddleKeeps ==
  ASSUME Directory, Meddle
  PROVE  Directory' /\ meddled' = meddled + 1 /\ UNCHANGED <<made, collection, verifier>>
<1>1. /\ "manifest" \in DOMAIN tree /\ meddled' = meddled + 1
      /\ UNCHANGED <<made, collection, verifier>>
  BY DEF Meddle
<1>2. \A d \in DOMAIN collection : collection[d].pc \notin {"writing", "cleaning"}
  <2>1. \A d \in DOMAIN collection : "manifest" \notin Classes(collection[d].input) BY ClassesAre
  <2> QED BY <1>1, <2>1 DEF Directory, Progress, At
<1>3. made # {} BY <1>1 DEF Directory, Owned
<1>4. Owned' BY <1>1, <1>3 DEF Directory, Owned, At
<1>5. Progress' BY <1>1, <1>2 DEF Directory, Progress, At
<1>6. meddled' \in Nat /\ meddled' # 0 BY <1>1 DEF Directory, SealedWhole
<1>7. SealedWhole' BY <1>1, <1>6 DEF SealedWhole
<1>8. TreeWhole'
  <2>1. Whole(tree) BY DEF Directory, TreeWhole
  <2>2. tree["manifest"] = <<"manifest", tree["manifest"][2]>> /\ Whole(tree["manifest"][2])
    BY <1>1 DEF Directory, TreeWhole
  <2>3. CASE \E input \in Foreign, c \in made : \E class \in Classes(input) \cap DOMAIN tree :
               tree' = [tree EXCEPT ![class] = Content(class, input)]
    <3>0. PICK input \in Foreign : \E class \in Classes(input) \cap DOMAIN tree :
            tree' = [tree EXCEPT ![class] = Content(class, input)]
      BY <2>3
    <3>1. PICK class \in Classes(input) \cap DOMAIN tree :
            tree' = [tree EXCEPT ![class] = Content(class, input)]
      BY <3>0
    <3>2. tree' = Added(class, Content(class, input), tree)
      <4>1. DOMAIN tree \cup {class} = DOMAIN tree OBVIOUS
      <4> QED BY <2>1, <3>1, <4>1 DEF Added, Whole
    <3>3. Whole(tree') BY <2>1, <3>2, WholeWith
    <3>4. class # "manifest" BY ClassesAre
    <3>5. tree'["manifest"] = tree["manifest"] BY <1>1, <3>1, <3>4
    <3> QED BY <2>2, <3>3, <3>5 DEF TreeWhole
  <2>4. CASE \E class \in DOMAIN tree : tree' = Dropping(class, tree)
    <3>1. PICK class \in DOMAIN tree : tree' = Dropping(class, tree) BY <2>4
    <3>2. Whole(tree') BY <2>1, <3>1, WholeWithout
    <3>3. "manifest" \in DOMAIN tree' => tree'["manifest"] = tree["manifest"] BY <3>1 DEF Dropping
    <3> QED BY <2>2, <3>2, <3>3 DEF TreeWhole
  <2>5. CASE tree' = Sealed(Dropping("manifest", tree))
    <3> DEFINE files == Dropping("manifest", tree)
    <3>1. Whole(files) BY <2>1, WholeWithout
    <3>2. tree' = Added("manifest", <<"manifest", files>>, files) BY <2>5 DEF Sealed
    <3> HIDE DEF files
    <3>3. Whole(tree') BY <3>1, <3>2, WholeSealed
    <3>4. tree'["manifest"] = <<"manifest", files>> BY <3>2 DEF Added
    <3> QED BY <3>1, <3>3, <3>4 DEF TreeWhole
  <2> QED BY <2>3, <2>4, <2>5 DEF Meddle
<1> QED BY <1>1, <1>4, <1>5, <1>7, <1>8 DEF Directory, CollectorsShaped

LEMMA VerifierLeaves ==
  ASSUME List \/ ReadManifest \/ ReadFile \/ JudgeFirst \/ Reproduce \/ JudgeSecond
  PROVE  UNCHANGED <<made, tree, collection, meddled>>
BY DEF List, ReadManifest, ReadFile, JudgeFirst, Reproduce, JudgeSecond, Step

LEMMA DirectoryUnchanged ==
  ASSUME Directory, UNCHANGED <<made, tree, collection, meddled>>
  PROVE  Directory'
<1>1. CollectorsShaped' BY DEF Directory, CollectorsShaped
<1>2. Owned' BY DEF Directory, Owned, At
<1>3. Progress' BY DEF Directory, Progress, At
<1>4. TreeWhole' BY DEF Directory, TreeWhole
<1>5. SealedWhole' BY DEF Directory, SealedWhole, At
<1> QED BY <1>1, <1>2, <1>3, <1>4, <1>5 DEF Directory

LEMMA DirectoryStep ==
  ASSUME Directory, [BundleNext]_bundleVars
  PROVE  Directory'
<1>1. ASSUME NEW c \in DOMAIN collection,
             \/ MakeDirectory(c) \/ WriteFile(c) \/ WriteManifest(c)
             \/ Raise(c) \/ CleanUp(c) \/ SelfVerify(c)
      PROVE  Directory'
  BY <1>1, MakeDirectoryKeeps, WriteFileKeeps, WriteManifestKeeps, RaiseKeeps, CleanUpKeeps,
     SelfVerifyKeeps
<1>2. CASE List \/ ReadManifest \/ ReadFile \/ JudgeFirst \/ Reproduce \/ JudgeSecond
  BY <1>2, VerifierLeaves, DirectoryUnchanged
<1>3. CASE Meddle BY <1>3, MeddleKeeps
<1>4. CASE UNCHANGED bundleVars BY <1>4, DirectoryUnchanged DEF bundleVars
<1> QED BY <1>1, <1>2, <1>3, <1>4 DEF BundleNext

LEMMA DirectoryHolds == BundleSpec => []Directory
<1>1. Directory /\ [BundleNext]_bundleVars => Directory' BY DirectoryStep
<1> QED BY DirectoryInit, <1>1, PTL DEF BundleSpec

\* No collector changes a directory it did not make, nor a sealed bundle: the
\* mkdir of collect_acceptance_evidence lets one collector in, and only its own
\* failure lets another follow.
OverwritesNothing ==
  tree' # tree /\ meddled' = meddled =>
    \E c \in DOMAIN collection :
      /\ made = {c} /\ collection[c].pc \in {"writing", "cleaning"}
      /\ \A other \in DOMAIN collection \ {c} : collection'[other] = collection[other]
      /\ "manifest" \notin DOMAIN tree \/ collection[c].pc = "cleaning" \/ meddled > 0

\* No collector changes a directory it did not make, nor a sealed one
\* (collect_acceptance_evidence: mkdir with exist_ok=False, rmtree on failure).
THEOREM DirectorySafety == BundleSpec => NothingOverwritten
<1>1. ASSUME Directory, [BundleNext]_bundleVars
      PROVE  OverwritesNothing
  <2>1. ASSUME NEW c \in DOMAIN collection, WriteFile(c) \/ WriteManifest(c)
        PROVE  OverwritesNothing
    <3>1. At(c, "writing") BY <2>1 DEF WriteFile, WriteManifest
    <3>2. /\ made = {c} /\ "manifest" \notin DOMAIN tree
          /\ \A d \in DOMAIN collection \ {c} : collection'[d] = collection[d]
      BY <1>1, <2>1, WriteFileKeeps, WriteManifestKeeps
    <3> QED BY <3>1, <3>2 DEF OverwritesNothing, At
  <2>2. ASSUME NEW c \in DOMAIN collection, CleanUp(c)
        PROVE  OverwritesNothing
    BY <1>1, <2>2, CleanUpKeeps DEF OverwritesNothing, At
  <2>3. ASSUME NEW c \in DOMAIN collection, MakeDirectory(c) \/ Raise(c) \/ SelfVerify(c)
        PROVE  OverwritesNothing
    BY <2>3 DEF MakeDirectory, Raise, SelfVerify, OverwritesNothing
  <2>4. CASE List \/ ReadManifest \/ ReadFile \/ JudgeFirst \/ Reproduce \/ JudgeSecond
    BY <2>4, VerifierLeaves DEF OverwritesNothing
  <2>5. CASE Meddle
    <3>1. meddled' = meddled + 1 /\ meddled \in Nat BY <1>1, <2>5, MeddleKeeps DEF Directory, SealedWhole
    <3>2. meddled' # meddled BY <3>1
    <3> QED BY <3>2 DEF OverwritesNothing
  <2>6. CASE UNCHANGED bundleVars BY <2>6 DEF bundleVars, OverwritesNothing
  <2> QED BY <1>1, <2>1, <2>2, <2>3, <2>4, <2>5, <2>6 DEF BundleNext
<1>2. Directory /\ [BundleNext]_bundleVars => [OverwritesNothing]_bundleVars BY <1>1
<1>3. BundleSpec => [][OverwritesNothing]_bundleVars
  BY <1>2, DirectoryHolds, PTL DEF BundleSpec
<1> QED BY <1>3 DEF NothingOverwritten, OverwritesNothing
-------------------------------------------------------------------------------
(* What a verified bundle shows.                                           *)

LEMMA RequiredAre ==
  ASSUME NEW files, DOMAIN files = Required(files)
  PROVE  /\ Always \subseteq DOMAIN files /\ DOMAIN files \subseteq AllClasses \ {"manifest"}
         /\ "hosted" \in DOMAIN files => "runtime" \in DOMAIN files
         /\ DOMAIN files \ Always \subseteq {"package", "hosted", "runtime"}
         /\ DOMAIN files \ Always \in Extras
         /\ files # <<>>
<1>1. /\ Always \subseteq DOMAIN files /\ DOMAIN files \subseteq AllClasses \ {"manifest"}
      /\ "hosted" \in DOMAIN files => "runtime" \in DOMAIN files
      /\ DOMAIN files \ Always \subseteq {"package", "hosted", "runtime"}
  BY DEF Required, Always, AllClasses
<1> DEFINE extras == DOMAIN files \ Always
<1>2. extras \in Extras
  <2> DEFINE package  == extras \cap {"package"}
             receipts == extras \cap {"runtime", "hosted"}
  <2>1. "hosted" \in extras => "runtime" \in extras BY <1>1 DEF Always
  <2>2. extras = package \cup receipts BY <1>1
  <2>3. package \in {{}, {"package"}} OBVIOUS
  <2>4. receipts \in {{}, {"runtime"}, {"runtime", "hosted"}} BY <2>1
  <2> HIDE DEF package, receipts, extras
  <2> QED BY <2>2, <2>3, <2>4 DEF Extras
<1>3. files # <<>>
  <2>1. "source" \in DOMAIN files BY <1>1 DEF Always
  <2>2. DOMAIN <<>> = {} OBVIOUS
  <2> QED BY <2>1, <2>2
<1> QED BY <1>1, <1>2, <1>3

\* What is coherent is what the collector would have written that was given what
\* the files say; and would have been let write it, but for the reproduction of
\* the receipt.
LEMMA CoherentIsABundle ==
  ASSUME NEW files, Whole(files), DOMAIN files = Required(files), Coherent(files)
  PROVE  LET input == Said(files)
         IN  /\ files = Bundle(input)
             /\ Acceptable([input EXCEPT !.runtime = {}])
             /\ (\A receipt \in input.runtime : Reproduces(receipt, input.version)) => Acceptable(input)
<1> DEFINE version == files["source"][2]
           marker  == files["run"][2].marker
           extras  == DOMAIN files \ Always
           package == IF "package" \in DOMAIN files THEN files["package"][2] ELSE {}
           hosted  == IF "hosted" \in DOMAIN files THEN files["hosted"][2] ELSE {}
           runtime == IF "runtime" \in DOMAIN files /\ "hosted" \notin DOMAIN files
                      THEN files["runtime"][2] ELSE {}
           input   == Said(files)
           nested  == {NestedRuntime(w) : w \in hosted}
<1>1. /\ version \in FoundationValid
      /\ files["derived"] = Derived(version, marker)
      /\ "package" \in extras => files["package"] = <<"package", {PackageReceipt(marker)}>>
      /\ "hosted" \in extras =>
           /\ \A w \in files["hosted"][2] : <<w, marker>> \in HostedValid
           /\ files["runtime"] = <<"runtime", {NestedRuntime(w) : w \in files["hosted"][2]}>>
      /\ "runtime" \in extras => \A receipt \in files["runtime"][2] : RuntimeValid(receipt, marker)
      /\ files["results"] = <<"results", extras>>
      /\ files["run"] = RunManifest(Metadata(version, marker, FALSE), extras)
  BY DEF Coherent
<1>2. input = [version |-> version, marker |-> marker, early |-> FALSE, package |-> package,
               hosted |-> hosted, runtime |-> runtime]
  BY DEF Said
<1>3. /\ "hosted" \in DOMAIN files => "runtime" \in DOMAIN files
      /\ Always \subseteq DOMAIN files /\ extras \subseteq {"package", "hosted", "runtime"}
  BY RequiredAre
<1>4. /\ \A class \in {"package", "hosted", "runtime"} : class \in extras <=> class \in DOMAIN files
  BY DEF Always
<1>5. /\ files["source"] = <<"source", version>>
      /\ "hosted" \in DOMAIN files => files["hosted"] = <<"hosted", hosted>> /\ hosted # {}
      /\ "hosted" \notin DOMAIN files => hosted = {}
  BY <1>3 DEF Whole, Always
<1>6. /\ "package" \in DOMAIN files =>
           files["package"] = <<"package", package>> /\ package = {PackageReceipt(marker)}
      /\ "package" \notin DOMAIN files => package = {}
  BY <1>1, <1>4
<1>7. "hosted" \in DOMAIN files => runtime = {} /\ files["runtime"] = <<"runtime", nested>>
  BY <1>1, <1>4
<1>8. "hosted" \notin DOMAIN files /\ "runtime" \in DOMAIN files =>
        files["runtime"] = <<"runtime", runtime>> /\ runtime # {}
  BY DEF Whole
<1>9. "runtime" \notin DOMAIN files => runtime = {} /\ hosted = {} BY <1>3
<1>10. Classes(input) = DOMAIN files
  <2>1. Receipts(input) = DOMAIN files \cap {"hosted", "runtime"}
    <3> HIDE DEF input, runtime, hosted, package
    <3> QED BY <1>2, <1>3, <1>5, <1>7, <1>8, <1>9 DEF Receipts
  <2>2. (IF input.package # {} THEN {"package"} ELSE {}) = DOMAIN files \cap {"package"}
    <3> HIDE DEF input, runtime, hosted, package
    <3> QED BY <1>2, <1>6
  <2> HIDE DEF input
  <2> QED BY <1>3, <2>1, <2>2 DEF Classes
<1>11. ASSUME NEW class \in DOMAIN files
       PROVE  files[class] = Content(class, input)
  <2> HIDE DEF input, runtime, hosted, package, marker, version
  <2>0. /\ Content("source", input) = <<"source", input.version>>
        /\ Content("derived", input) = Derived(input.version, input.marker)
        /\ Content("package", input) = <<"package", input.package>>
        /\ Content("hosted", input) = <<"hosted", input.hosted>>
        /\ Content("runtime", input) =
             <<"runtime", input.runtime \cup {NestedRuntime(w) : w \in input.hosted}>>
        /\ Content("results", input) = <<"results", Classes(input) \ Always>>
        /\ Content("run", input) =
             RunManifest(Metadata(input.version, input.marker, input.early), Classes(input) \ Always)
    BY ContentsAre
  <2>a. /\ input.version = version /\ input.marker = marker /\ input.early = FALSE
        /\ input.package = package /\ input.hosted = hosted /\ input.runtime = runtime
    BY <1>2
  <2>1. CASE class = "source"
    <3>1. Content("source", input) = <<"source", input.version>> BY <2>0
    <3> QED BY <1>5, <2>1, <2>a, <3>1
  <2>2. CASE class = "derived"
    <3>1. Content("derived", input) = Derived(input.version, input.marker) BY <2>0
    <3> QED BY <1>1, <2>2, <2>a, <3>1
  <2>3. CASE class = "package"
    <3>1. Content("package", input) = <<"package", input.package>> BY <2>0
    <3> QED BY <1>6, <2>3, <2>a, <3>1
  <2>4. CASE class = "hosted"
    <3>1. Content("hosted", input) = <<"hosted", input.hosted>> BY <2>0
    <3> QED BY <1>5, <2>4, <2>a, <3>1
  <2>5. CASE class = "runtime"
    <3>1. Content("runtime", input) = <<"runtime", runtime \cup nested>> BY <2>0, <2>a
    <3>2. CASE "hosted" \in DOMAIN files
      <4>1. runtime = {} /\ files["runtime"] = <<"runtime", nested>> BY <1>7, <3>2
      <4>2. {} \cup nested = nested OBVIOUS
      <4> HIDE DEF nested
      <4> QED BY <2>5, <3>1, <4>1, <4>2
    <3>3. CASE "hosted" \notin DOMAIN files
      <4>1. hosted = {} /\ files["runtime"] = <<"runtime", runtime>> BY <1>5, <1>8, <2>5, <3>3
      <4>2. runtime \cup nested = runtime BY <4>1
      <4> HIDE DEF nested
      <4> QED BY <2>5, <3>1, <4>1, <4>2
    <3> QED BY <3>2, <3>3
  <2>6. CASE class = "results"
    <3>1. Content("results", input) = <<"results", Classes(input) \ Always>> BY <2>0
    <3>2. files["results"] = <<"results", extras>> BY <1>1
    <3> QED BY <1>10, <2>6, <3>1, <3>2
  <2>7. CASE class = "run"
    <3>1. Content("run", input) =
            RunManifest(Metadata(input.version, input.marker, input.early), Classes(input) \ Always)
      BY <2>0
    <3>2. files["run"] = RunManifest(Metadata(version, marker, FALSE), extras) BY <1>1
    <3> QED BY <1>10, <2>7, <2>a, <3>1, <3>2
  <2> QED BY <1>3, <2>1, <2>2, <2>3, <2>4, <2>5, <2>6, <2>7 DEF Always
<1>12. files = Bundle(input)
  <2>1. files = [class \in DOMAIN files |-> files[class]] BY DEF Whole
  <2> HIDE DEF input
  <2> QED BY <1>10, <1>11, <2>1 DEF Bundle
<1>13. /\ \A receipt \in package : PackageValid(receipt, marker)
       /\ \A w \in hosted : <<w, marker>> \in HostedValid
       /\ hosted = {} \/ runtime = {}
       /\ \A receipt \in runtime : RuntimeValid(receipt, marker)
  <2>1. \A receipt \in package : PackageValid(receipt, marker) BY <1>6 DEF PackageValid
  <2>2. \A w \in hosted : <<w, marker>> \in HostedValid BY <1>1, <1>4
  <2>3. hosted = {} \/ runtime = {} BY <1>5, <1>7
  <2>4. \A receipt \in runtime : RuntimeValid(receipt, marker) BY <1>1, <1>4
  <2> QED BY <2>1, <2>2, <2>3, <2>4
<1> HIDE DEF input, runtime, hosted, package, marker, version
<1>14. Acceptable([input EXCEPT !.runtime = {}])
  <2> DEFINE early == FALSE
  <2>1. input = [version |-> version, marker |-> marker, early |-> early, package |-> package,
                 hosted |-> hosted, runtime |-> runtime]
    BY <1>2
  <2> HIDE DEF early
  <2>2. [input EXCEPT !.runtime = {}] =
          [version |-> version, marker |-> marker, early |-> early, package |-> package,
           hosted |-> hosted, runtime |-> {}]
    BY <2>1
  <2> QED BY <1>1, <1>13, <2>2 DEF Acceptable
<1>15. (\A receipt \in input.runtime : Reproduces(receipt, input.version)) => Acceptable(input)
  BY <1>1, <1>2, <1>13 DEF Acceptable
<1> QED BY <1>12, <1>14, <1>15 DEF input

\* What a collector has found whole itself, a verifier of its version finds whole.
LEMMA FinishedHolds ==
  ASSUME Directory, meddled = 0, NEW c \in DOMAIN collection, At(c, "done")
  PROVE  LET input == collection[c].input
             files == Bundle(input)
         IN  /\ made = {c} /\ Acceptable(input)
             /\ tree = Sealed(files) /\ DOMAIN files = Classes(input)
             /\ Covers(files, Classes(input)) /\ Coherent(files)
             /\ \A markers \in Asked :
                  input.version = Installed /\ markers \subseteq {input.marker} =>
                    Holds(files, Installed, markers)
<1> DEFINE input == collection[c].input
           files == Bundle(input)
<1>1. made = {c} /\ Acceptable(input)
  <2>1. made = {c} BY DEF Directory, Owned, At
  <2>2. PICK d \in DOMAIN collection : made = {d} /\ Acceptable(collection[d].input)
    BY <2>1 DEF Directory, Owned
  <2>3. d = c BY <2>1, <2>2
  <2> QED BY <2>1, <2>2, <2>3
<1>2. "manifest" \in DOMAIN tree BY DEF Directory, SealedWhole
<1>3. tree = Sealed(files) BY <1>1, <1>2 DEF Directory, SealedWhole
<1>4. DOMAIN files = Classes(input) BY SealedIs
<1>5. Covers(files, Classes(input)) /\ Holds(files, input.version, {input.marker})
  BY DEF Directory, SealedWhole
<1>6. /\ Coherent(files) /\ files["source"][2] = input.version
      /\ {input.marker} \subseteq {files["run"][2].marker}
  <2> HIDE DEF files, input
  <2> QED BY <1>5 DEF Holds, Provenance
<1>7. ASSUME NEW markers \in Asked, input.version = Installed, markers \subseteq {input.marker}
      PROVE  Holds(files, Installed, markers)
  <2> HIDE DEF files, input
  <2> QED BY <1>6, <1>7 DEF Holds, Provenance
<1> HIDE DEF files, input
<1>8. /\ made = {c} /\ Acceptable(input)
      /\ tree = Sealed(files) /\ DOMAIN files = Classes(input)
      /\ Covers(files, Classes(input)) /\ Coherent(files)
      /\ \A markers \in Asked :
           input.version = Installed /\ markers \subseteq {input.marker} =>
             Holds(files, Installed, markers)
  BY <1>1, <1>3, <1>4, <1>5, <1>6, <1>7
<1> QED BY <1>8 DEF files, input
-------------------------------------------------------------------------------
(* The rows.                                                               *)

\* The rows a receipt is admitted for lack nothing that comes with it.
LEMMA AdmittedRowsLackNothing ==
  ASSUME NEW classes \in Extras, NEW id \in AdmittedRows(classes)
  PROVE  /\ id \in RequirementIds /\ ~Local(id)
         /\ Missing(id, EvidencePaths(classes), PassingTests(classes)) = {}
<1> DEFINE paths == EvidencePaths(classes)
           tests == PassingTests(classes)
<1>1. "hosted" \in classes => "runtime" \in classes BY DEF Extras
<1>2. \A class \in {"hosted", "runtime"} : class \in classes => class \in paths
  BY DEF EvidencePaths
<1>3. "runtime" \in classes => "fragment" \in paths BY DEF EvidencePaths
<1>4. "hosted" \in classes => "live" \in tests BY DEF PassingTests
<1>5. "local" \in tests BY DEF PassingTests
<1> HIDE DEF paths, tests
<1>6. CASE "runtime" \in classes /\ id \in RuntimeRows
  <2>1. CASE id \in {<<3, "T", 3>>, <<3, "T", 4>>, <<3, "T", 5>>}
    <3>1. id \in RequirementIds BY <2>1 DEF RequirementIds, ArchitectureIds, Numbered
    <3>2. GateClass(id) = "runtime_observation" BY <2>1 DEF GateClass
    <3>3. Evidence(id) = {"runtime"} BY <2>1, <3>2 DEF Evidence, Qualification
    <3>4. Tests(id) \subseteq {"local"} BY <3>2 DEF Tests
    <3> QED BY <1>2, <1>5, <1>6, <3>1, <3>2, <3>3, <3>4 DEF Missing, Local, paths, tests
  <2>2. CASE id = <<3, "X", 1>>
    <3>1. id \in RequirementIds BY <2>2 DEF RequirementIds, ArchitectureIds
    <3>2. GateClass(id) = "runtime_observation" BY <2>2 DEF GateClass
    <3>3. Evidence(id) = {"runtime"} BY <2>2, <3>2 DEF Evidence, Qualification
    <3>4. Tests(id) = {} BY <2>2 DEF Tests, Testless
    <3> QED BY <1>2, <1>6, <3>1, <3>2, <3>3, <3>4 DEF Missing, Local, paths, tests
  <2>3. CASE id = Qualification("M3-OBSERVED")
    <3>1. id \in RequirementIds BY <2>3 DEF RequirementIds, QualificationIds
    <3>2. id = <<9, "M3-OBSERVED", 0>> BY <2>3 DEF Qualification
    <3>3. GateClass(id) = "runtime_observation"
      <4>1. QualificationGate("M3-OBSERVED") = "runtime_observation"
        BY DEF QualificationGate, LiveNames, MaterializedNames, TrustNames, MachineNames, BenchmarkNames
      <4> QED BY <3>2, <4>1 DEF GateClass
    <3>4. Evidence(id) = {"fragment"} BY <2>3, <3>2 DEF Evidence, Qualification
    <3>5. Tests(id) \subseteq {"local"} BY <3>3 DEF Tests
    <3> QED BY <1>3, <1>5, <1>6, <3>1, <3>3, <3>4, <3>5 DEF Missing, Local, paths, tests
  <2>4. RuntimeRows = {<<3, "T", 3>>, <<3, "T", 4>>, <<3, "T", 5>>} \cup
                        {<<3, "X", 1>>, Qualification("M3-OBSERVED")}
    BY DEF RuntimeRows
  <2> QED BY <1>6, <2>1, <2>2, <2>3, <2>4
<1>7. CASE "hosted" \in classes /\ id \in HostedRows
  <2>1. ASSUME GateClass(id) \in {"live_provider", "materialized_runtime"}, id \in RequirementIds,
               id # <<0, "C", 7>>, id # Qualification("M2-LIVE"), id # Qualification("M3-OBSERVED")
        PROVE  /\ ~Local(id) /\ Missing(id, paths, tests) = {}
    <3>1. Evidence(id) = {"hosted"} BY <2>1 DEF Evidence
    <3>2. Tests(id) \subseteq {"live"} BY <2>1 DEF Tests
    <3> QED BY <1>2, <1>4, <1>7, <2>1, <3>1, <3>2 DEF Missing, Local
  <2>2. CASE id \in Numbered(2, "W", 5)
    <3>1. PICK n \in 1..5 : id = <<2, "W", n>> BY <2>2 DEF Numbered
    <3>2. GateClass(id) = "live_provider" BY <3>1 DEF GateClass
    <3>3. id \in RequirementIds BY <2>2 DEF RequirementIds, ArchitectureIds
    <3> QED BY <2>1, <3>1, <3>2, <3>3 DEF Qualification, paths, tests
  <2>3. CASE id \in {<<m, "X", 1>> : m \in {2, 4, 5}}
    <3>1. PICK m \in {2, 4, 5} : id = <<m, "X", 1>> BY <2>3
    <3>2. GateClass(id) \in {"live_provider", "materialized_runtime"} BY <3>1 DEF GateClass
    <3>3. id \in RequirementIds BY <3>1 DEF RequirementIds, ArchitectureIds
    <3> QED BY <2>1, <3>1, <3>2, <3>3 DEF Qualification, paths, tests
  <2>4. CASE id \in {Qualification(name) : name \in MaterializedNames \cup {"M2-4WAY"}}
    <3>1. PICK name \in MaterializedNames \cup {"M2-4WAY"} : id = Qualification(name) BY <2>4
    <3>2. id = <<9, name, 0>> BY <3>1 DEF Qualification
    <3>3. QualificationGate(name) \in {"live_provider", "materialized_runtime"}
      BY <3>1 DEF QualificationGate, LiveNames, MaterializedNames, TrustNames, MachineNames, BenchmarkNames
    <3>4. GateClass(id) \in {"live_provider", "materialized_runtime"} BY <3>2, <3>3 DEF GateClass
    <3>5. id \in RequirementIds
      BY <3>1 DEF RequirementIds, QualificationIds, LiveNames, MaterializedNames
    <3> QED BY <2>1, <3>2, <3>4, <3>5 DEF Qualification, MaterializedNames, paths, tests
  <2> QED BY <1>7, <2>2, <2>3, <2>4 DEF HostedRows
<1> QED BY <1>6, <1>7 DEF AdmittedRows

\* Whatever receipts a bundle holds, its results pass nothing unproved.
LEMMA ResultsProved == Extras \subseteq Proved
<1> SUFFICES ASSUME NEW classes \in Extras PROVE classes \in Proved OBVIOUS
<1> DEFINE paths      == EvidencePaths(classes)
           tests      == PassingTests(classes)
           admissions == [id \in AdmittedRows(classes) |-> "receipt"]
           status     == [id \in RequirementIds |-> Status(id, paths, tests, admissions)]
<1>1. /\ ResultsOf[classes] = Results(paths, tests, admissions)
      /\ ResultsOf[classes].admissions = admissions /\ ResultsOf[classes].status = status
  BY DEF ResultsOf, Results
<1>2. ResultsOf[classes].eligible <=> \A id \in RequirementIds : status[id] = "PASS"
  BY <1>1 DEF Results
<1>3. \A id \in AdmittedRows(classes) :
        id \in RequirementIds /\ ~Local(id) /\ Missing(id, paths, tests) = {}
  BY AdmittedRowsLackNothing
<1>4. DOMAIN admissions = AdmittedRows(classes) OBVIOUS
<1>5. \A id \in RequirementIds : status[id] = Status(id, paths, tests, admissions) OBVIOUS
<1> HIDE DEF paths, tests, admissions, status
<1>6. Derivable(paths, tests, admissions) BY <1>3, <1>4 DEF Derivable
<1>7. ASSUME NEW id \in RequirementIds, status[id] = "PASS"
      PROVE  Missing(id, paths, tests) = {} /\ (Local(id) \/ id \in AdmittedRows(classes))
  BY <1>3, <1>4, <1>5, <1>7 DEF Status
<1>8. ~ResultsOf[classes].eligible
  <2> DEFINE id == Qualification("M2-LIVE")
  <2>1. id \in RequirementIds BY DEF RequirementIds, QualificationIds, LiveNames
  <2>2. id = <<9, "M2-LIVE", 0>> BY DEF Qualification
  <2>3. "absent" \in Evidence(id) BY DEF Evidence, Qualification
  <2>4. "absent" \notin paths BY DEF paths, EvidencePaths
  <2>5. Missing(id, paths, tests) # {} BY <2>3, <2>4 DEF Missing
  <2> HIDE DEF id
  <2> QED BY <1>2, <1>7, <2>1, <2>5
<1>9. classes \in Proved <=>
        /\ Derivable(paths, tests, ResultsOf[classes].admissions)
        /\ \A id \in RequirementIds : ResultsOf[classes].status[id] = "PASS" =>
             /\ Missing(id, paths, tests) = {}
             /\ Local(id) \/ id \in AdmittedRows(classes)
        /\ ~ResultsOf[classes].eligible
  BY DEF Proved, paths, tests
<1> QED BY <1>1, <1>6, <1>7, <1>8, <1>9
-------------------------------------------------------------------------------
(* The verifier.                                                           *)

\* It has found a sealed bundle.
Seen == verifier.pc \in {"reproduce", "second", "valid"} \/ verifier.names # {}

\* Then nobody is at work on it.
Quiet == made # {} /\ \A c \in DOMAIN collection : collection[c].pc \notin {"writing", "cleaning"}

\* What was listed is what a bundle has to hold.
VerifierShaped ==
  /\ verifier = [pc |-> verifier.pc, markers |-> verifier.markers, names |-> verifier.names,
                 listed |-> verifier.listed, read |-> verifier.read, before |-> verifier.before,
                 reproduced |-> verifier.reproduced, finished |-> verifier.finished]
  /\ verifier.pc \in {"first", "reproduce", "second", "valid", "invalid"}
  /\ verifier.markers \in Asked
  /\ verifier.listed # <<>> =>
       /\ verifier.names # {} /\ Whole(verifier.listed)
       /\ DOMAIN verifier.listed = Required(verifier.listed)
  /\ verifier.read # {} => verifier.listed # <<>>
  /\ verifier.pc = "reproduce" => verifier.names = {}
  /\ Seen => Quiet

\* The receipt is in the bundle as the collector wrote it until others replace it
\* once and for all.
Own(c) == Content("runtime", collection[c].input)
Remains(content, c) ==
  "runtime" \in DOMAIN tree => tree["runtime"] = content \/ content = Own(c)

\* So the receipt that is read, the one observed, and the one read before differ
\* only where the earlier is the collector's.
Observed ==
  /\ verifier.pc \in {"first", "reproduce"} => verifier.reproduced = <<>>
  /\ verifier.pc = "second" =>
       /\ verifier.reproduced = <<"runtime", verifier.reproduced[2]>>
       /\ \A receipt \in verifier.reproduced[2] : Reproduces(receipt, Installed)
  /\ \A c \in made :
       /\ verifier.pc = "first" /\ "runtime" \in verifier.read =>
            Remains(verifier.listed["runtime"], c)
       /\ verifier.pc = "reproduce" /\ "runtime" \in DOMAIN verifier.before =>
            Remains(verifier.before["runtime"], c)
       /\ verifier.pc = "second" =>
            /\ Remains(verifier.reproduced, c)
            /\ "runtime" \in DOMAIN verifier.before =>
                 \/ verifier.reproduced = verifier.before["runtime"]
                 \/ verifier.before["runtime"] = Own(c)
            /\ "runtime" \in verifier.read =>
                 \/ verifier.listed["runtime"] = verifier.reproduced
                 \/ verifier.reproduced = Own(c)

\* What the verdict rests on.
Judged ==
  verifier.pc = "valid" =>
    /\ verifier.listed # <<>> /\ Holds(verifier.listed, Installed, verifier.markers)
    /\ "runtime" \in DOMAIN verifier.listed =>
         \/ /\ verifier.reproduced = verifier.listed["runtime"]
            /\ \A receipt \in verifier.reproduced[2] : Reproduces(receipt, Installed)
         \/ verifier.reproduced = <<>> /\ meddled > 0

\* What nobody changed is read as the collector sealed it.
Untouched ==
  meddled = 0 /\ Seen =>
    /\ "manifest" \in DOMAIN tree
    /\ verifier.pc = "reproduce" => "runtime" \in DOMAIN tree
    /\ \A c \in made :
         /\ verifier.names \in {{}, Classes(collection[c].input) \cup {"manifest"}}
         /\ verifier.listed \in {<<>>, Bundle(collection[c].input)}
         /\ verifier.pc \in {"reproduce", "second"} => verifier.before = Bundle(collection[c].input)

\* Why a bundle that was finished may be refused.
Explained ==
  \E c \in made :
    LET input == collection[c].input
    IN  \/ input.version # Installed
        \/ ~(verifier.markers \subseteq {input.marker})
        \/ \E w \in input.hosted : ~Reproduces(NestedRuntime(w), Installed)

\* A bundle that was finished is refused for one of these reasons only.
Finishing ==
  /\ verifier.finished => Seen \/ verifier.pc = "invalid"
  /\ verifier.finished /\ meddled = 0 => \E c \in made : At(c, "done")
  /\ verifier.finished /\ meddled = 0 /\ verifier.pc = "invalid" => Explained

Verifying == VerifierShaped /\ Observed /\ Judged /\ Untouched /\ Finishing

LEMMA VerifyingInit == BundleInit => Verifying
<1> SUFFICES ASSUME BundleInit PROVE Verifying OBVIOUS
<1>1. PICK markers \in Asked :
        verifier = [pc |-> "first", markers |-> markers, names |-> {}, listed |-> <<>>,
                    read |-> {}, before |-> <<>>, reproduced |-> <<>>, finished |-> FALSE]
  BY DEF BundleInit
<1>2. /\ verifier.pc = "first" /\ verifier.markers = markers /\ verifier.names = {}
      /\ verifier.listed = <<>> /\ verifier.read = {} /\ verifier.before = <<>>
      /\ verifier.reproduced = <<>> /\ ~verifier.finished
  BY <1>1
<1>3. ~Seen BY <1>2 DEF Seen
<1>4. VerifierShaped
  <2>1. verifier = [pc |-> verifier.pc, markers |-> verifier.markers, names |-> verifier.names,
                 listed |-> verifier.listed, read |-> verifier.read, before |-> verifier.before,
                 reproduced |-> verifier.reproduced, finished |-> verifier.finished]
    BY <1>1
  <2> QED BY <1>2, <1>3, <2>1 DEF VerifierShaped
<1>5. Observed BY <1>2 DEF Observed
<1>6. Judged BY <1>2 DEF Judged
<1>7. Untouched BY <1>3 DEF Untouched
<1>8. Finishing BY <1>2 DEF Finishing
<1> QED BY <1>4, <1>5, <1>6, <1>7, <1>8 DEF Verifying

\* Once a bundle is sealed collectors change nothing, and others no more than a
\* receipt that is still as its collector wrote it.
LEMMA QuietSteps ==
  ASSUME Directory, Quiet,
         \/ \E c \in DOMAIN collection :
              \/ MakeDirectory(c) \/ WriteFile(c) \/ WriteManifest(c)
              \/ Raise(c) \/ CleanUp(c) \/ SelfVerify(c)
         \/ Meddle
  PROVE  /\ Quiet' /\ made' = made /\ DOMAIN collection' = DOMAIN collection
         /\ \A c \in made : Own(c)' = Own(c) /\ collection'[c].input = collection[c].input
         /\ \A c \in made : At(c, "done") => At(c, "done")'
         /\ \A c \in made : "runtime" \in DOMAIN tree' =>
              /\ "runtime" \in DOMAIN tree
              /\ tree'["runtime"] = tree["runtime"] \/ tree["runtime"] = Own(c)
         /\ meddled > 0 => meddled' > 0
         /\ meddled' = 0 => meddled = 0 /\ tree' = tree
<1>0. made \subseteq DOMAIN collection /\ \A c, d \in made : c = d BY DEF Directory, Owned
<1>1. ASSUME NEW c \in DOMAIN collection, MakeDirectory(c)
      PROVE  Proceed(c, "raised") /\ UNCHANGED <<made, tree, meddled>> /\ At(c, "started")
    BY <1>1 DEF MakeDirectory, Quiet
<1>2. ASSUME NEW c \in DOMAIN collection, SelfVerify(c)
      PROVE  /\ Proceed(c, "done") \/ Proceed(c, "raised")
             /\ UNCHANGED <<made, tree, meddled>> /\ At(c, "sealed")
  <2> DEFINE passes == /\ "manifest" \in DOMAIN tree
                       /\ tree["manifest"] = <<"manifest", Dropping("manifest", tree)>>
                       /\ Covers(Dropping("manifest", tree), DOMAIN Dropping("manifest", tree))
                       /\ Holds(Dropping("manifest", tree), collection[c].input.version,
                                {collection[c].input.marker})
  <2>1. Proceed(c, IF passes THEN "done" ELSE "raised") /\ UNCHANGED <<made, tree, meddled>>
        /\ At(c, "sealed")
    BY <1>2 DEF SelfVerify
  <2> HIDE DEF passes
  <2> QED BY <2>1
<1>3. ASSUME NEW c \in DOMAIN collection, NEW pc \in {"done", "raised"}, Proceed(c, pc),
             UNCHANGED <<made, tree, meddled>>, ~At(c, "done")
      PROVE  /\ Quiet' /\ DOMAIN collection' = DOMAIN collection
             /\ \A d \in made : Own(d)' = Own(d) /\ collection'[d].input = collection[d].input
             /\ \A d \in made : At(d, "done") => At(d, "done")'
  <2>1. /\ DOMAIN collection' = DOMAIN collection
        /\ collection'[c].pc = pc /\ collection'[c].input = collection[c].input
        /\ \A d \in DOMAIN collection \ {c} : collection'[d] = collection[d]
    BY <1>3, ProceedIs DEF Directory
  <2>2. \A d \in DOMAIN collection : collection'[d].input = collection[d].input BY <2>1
  <2> QED BY <1>0, <1>3, <2>1, <2>2 DEF Quiet, Own, At
<1>4. ASSUME NEW c \in DOMAIN collection,
             WriteFile(c) \/ WriteManifest(c) \/ Raise(c) \/ CleanUp(c)
      PROVE  FALSE
  BY <1>4 DEF WriteFile, WriteManifest, Raise, CleanUp, At, Quiet
<1>m. meddled \in Nat BY DEF Directory, SealedWhole
<1>5. CASE \E c \in DOMAIN collection : MakeDirectory(c) \/ SelfVerify(c)
  <2>1. PICK c \in DOMAIN collection : MakeDirectory(c) \/ SelfVerify(c) BY <1>5
  <2>2. /\ Proceed(c, "done") \/ Proceed(c, "raised")
        /\ UNCHANGED <<made, tree, meddled>> /\ ~At(c, "done")
    BY <1>1, <1>2, <2>1 DEF At
  <2>3. /\ Quiet' /\ DOMAIN collection' = DOMAIN collection
        /\ \A d \in made : Own(d)' = Own(d) /\ collection'[d].input = collection[d].input
        /\ \A d \in made : At(d, "done") => At(d, "done")'
    BY <1>3, <2>2
  <2> QED BY <2>2, <2>3
<1>6. CASE Meddle
  <2>1. meddled' = meddled + 1 /\ UNCHANGED <<made, collection, verifier>> BY <1>6 DEF Meddle
  <2>2. ASSUME NEW c \in made, "runtime" \in DOMAIN tree'
        PROVE  /\ "runtime" \in DOMAIN tree
               /\ tree'["runtime"] = tree["runtime"] \/ tree["runtime"] = Own(c)
    <3>0. tree = [class \in DOMAIN tree |-> tree[class]] BY DEF Directory, TreeWhole, Whole
    <3>1. CASE \E input \in Foreign, d \in made : \E class \in Classes(input) \cap DOMAIN tree :
                 /\ tree[class] = Content(class, collection[d].input)
                 /\ tree' = [tree EXCEPT ![class] = Content(class, input)]
      <4>1. PICK input \in Foreign, d \in made : \E class \in Classes(input) \cap DOMAIN tree :
                 /\ tree[class] = Content(class, collection[d].input)
                 /\ tree' = [tree EXCEPT ![class] = Content(class, input)]
        BY <3>1
      <4>2. PICK class \in Classes(input) \cap DOMAIN tree :
                 /\ tree[class] = Content(class, collection[d].input)
                 /\ tree' = [tree EXCEPT ![class] = Content(class, input)]
        BY <4>1
      <4>3. d = c BY <1>0
      <4>4. DOMAIN tree' = DOMAIN tree BY <3>0, <4>2
      <4>5. CASE class = "runtime" BY <2>2, <4>2, <4>3, <4>4, <4>5 DEF Own
      <4>6. CASE class # "runtime" BY <2>2, <3>0, <4>2, <4>4, <4>6
      <4> QED BY <4>5, <4>6
    <3>2. CASE \E class \in DOMAIN tree : tree' = Dropping(class, tree)
      BY <2>2, <3>2 DEF Dropping
    <3>3. CASE tree' = Sealed(Dropping("manifest", tree))
      BY <2>2, <3>3 DEF Sealed, Dropping, Added
    <3> QED BY <1>6, <3>1, <3>2, <3>3 DEF Meddle
  <2>3. Quiet' BY <2>1 DEF Quiet
  <2>4. \A c \in made : Own(c)' = Own(c) BY <2>1 DEF Own
  <2> QED BY <1>m, <2>1, <2>2, <2>3, <2>4 DEF At
<1> QED BY <1>4, <1>5, <1>6

\* The verifier is where it was when the others have done something.
LEMMA OutsideKeeps ==
  ASSUME Directory, Verifying, verifier' = verifier,
         \/ \E c \in DOMAIN collection :
              \/ MakeDirectory(c) \/ WriteFile(c) \/ WriteManifest(c)
              \/ Raise(c) \/ CleanUp(c) \/ SelfVerify(c)
         \/ Meddle
  PROVE  Verifying'
<1> USE DEF Verifying
<1>1. Quiet =>
        /\ Quiet' /\ made' = made /\ DOMAIN collection' = DOMAIN collection
        /\ \A c \in made : Own(c)' = Own(c) /\ collection'[c].input = collection[c].input
        /\ \A c \in made : At(c, "done") => At(c, "done")'
        /\ \A c \in made : "runtime" \in DOMAIN tree' =>
              /\ "runtime" \in DOMAIN tree
              /\ tree'["runtime"] = tree["runtime"] \/ tree["runtime"] = Own(c)
        /\ meddled > 0 => meddled' > 0
        /\ meddled' = 0 => meddled = 0 /\ tree' = tree
  <2> SUFFICES ASSUME Quiet
               PROVE  /\ Quiet' /\ made' = made /\ DOMAIN collection' = DOMAIN collection
                      /\ \A c \in made : Own(c)' = Own(c) /\ collection'[c].input = collection[c].input
                      /\ \A c \in made : At(c, "done") => At(c, "done")'
                      /\ \A c \in made : "runtime" \in DOMAIN tree' =>
                            /\ "runtime" \in DOMAIN tree
                            /\ tree'["runtime"] = tree["runtime"] \/ tree["runtime"] = Own(c)
                      /\ meddled > 0 => meddled' > 0
                      /\ meddled' = 0 => meddled = 0 /\ tree' = tree
    OBVIOUS
  <2> QED BY QuietSteps
<1>2. Seen' = Seen BY DEF Seen
<1>3. Seen => Quiet BY DEF VerifierShaped
<1>4. meddled' = 0 => meddled = 0
  <2>1. meddled \in Nat BY DEF Directory, SealedWhole
  <2>2. CASE Meddle BY <2>1, <2>2 DEF Meddle
  <2>3. CASE \E c \in DOMAIN collection :
               \/ MakeDirectory(c) \/ WriteFile(c) \/ WriteManifest(c)
               \/ Raise(c) \/ CleanUp(c) \/ SelfVerify(c)
    BY <2>3 DEF MakeDirectory, WriteFile, WriteManifest, Raise, CleanUp, SelfVerify
  <2> QED BY <2>2, <2>3
<1>5. VerifierShaped'
  <2>1. Seen' => Quiet' BY <1>1, <1>2, <1>3
  <2> QED BY <2>1 DEF VerifierShaped
<1>7. Observed'
  <2>1. CASE Seen
    <3>1. /\ made' = made /\ \A c \in made : Own(c)' = Own(c) BY <1>1, <1>3, <2>1
    <3>3. \A c \in made :
            /\ verifier.pc = "first" /\ "runtime" \in verifier.read =>
                 Remains(verifier.listed["runtime"], c)'
            /\ verifier.pc = "reproduce" /\ "runtime" \in DOMAIN verifier.before =>
                 Remains(verifier.before["runtime"], c)'
            /\ verifier.pc = "second" => Remains(verifier.reproduced, c)'
      <4> SUFFICES ASSUME NEW c \in made
                   PROVE  /\ verifier.pc = "first" /\ "runtime" \in verifier.read =>
                               Remains(verifier.listed["runtime"], c)'
                          /\ verifier.pc = "reproduce" /\ "runtime" \in DOMAIN verifier.before =>
                               Remains(verifier.before["runtime"], c)'
                          /\ verifier.pc = "second" => Remains(verifier.reproduced, c)'
        OBVIOUS
      <4>0. /\ verifier.listed' = verifier.listed /\ verifier.before' = verifier.before
            /\ verifier.reproduced' = verifier.reproduced
        OBVIOUS
      <4>1. Remains(verifier.listed["runtime"], c) => Remains(verifier.listed["runtime"], c)'
        BY <1>1, <1>3, <2>1, <4>0 DEF Remains
      <4>2. Remains(verifier.before["runtime"], c) => Remains(verifier.before["runtime"], c)'
        BY <1>1, <1>3, <2>1, <4>0 DEF Remains
      <4>3. Remains(verifier.reproduced, c) => Remains(verifier.reproduced, c)'
        BY <1>1, <1>3, <2>1, <4>0 DEF Remains
      <4> QED BY <4>1, <4>2, <4>3 DEF Observed
    <3> QED BY <3>1, <3>3 DEF Observed
  <2>2. CASE ~Seen
    <3>1. /\ verifier.pc \in {"first", "invalid"} /\ verifier.read = {}
      BY <2>2 DEF Seen, VerifierShaped
    <3> QED BY <3>1 DEF Observed
  <2> QED BY <2>1, <2>2
<1>8. Judged' BY <1>1, <1>3 DEF Judged, Seen
<1>9. Untouched'
  <2>1. CASE Seen /\ meddled' = 0
    <3>1. /\ made' = made /\ tree' = tree /\ meddled = 0
          /\ \A c \in made : collection'[c].input = collection[c].input
      BY <1>1, <1>3, <2>1
    <3> QED BY <2>1, <3>1 DEF Untouched
  <2> QED BY <1>2, <2>1 DEF Untouched
<1>10. Finishing'
  <2>1. CASE verifier.finished /\ meddled' = 0
    <3>1. PICK c \in made : At(c, "done") BY <1>4, <2>1 DEF Finishing
    <3>2. Quiet
      <4>1. made \subseteq DOMAIN collection /\ \A d \in made : d = c BY DEF Directory, Owned
      <4>2. \A d \in DOMAIN collection : collection[d].pc \in {"writing", "cleaning"} => d = c
        BY <3>1, <4>1 DEF Directory, Owned
      <4> QED BY <3>1, <4>1, <4>2 DEF Quiet, At
    <3>3. /\ made' = made /\ At(c, "done")'
          /\ \A d \in made : collection'[d].input = collection[d].input
      BY <1>1, <3>1, <3>2
    <3>4. Explained => Explained' BY <3>3 DEF Explained
    <3> QED BY <1>2, <1>4, <2>1, <3>1, <3>3, <3>4 DEF Finishing
  <2>2. CASE ~(verifier.finished /\ meddled' = 0) BY <1>2, <2>2 DEF Finishing
  <2> QED BY <2>1, <2>2
<1> QED BY <1>5, <1>7, <1>8, <1>9, <1>10

\* The verifier's record after a step, field by field.
LEMMA RecordRestarted ==
  ASSUME NEW pc, NEW markers, NEW names, NEW listed, NEW read, NEW before, NEW reproduced,
         NEW finished, NEW pc2, NEW names2, NEW listed2, NEW read2, NEW v, NEW w,
         v = [pc |-> pc, markers |-> markers, names |-> names, listed |-> listed, read |-> read,
              before |-> before, reproduced |-> reproduced, finished |-> finished],
         w = [v EXCEPT !.pc = pc2, !.names = names2, !.listed = listed2, !.read = read2]
  PROVE  w = [pc |-> pc2, markers |-> markers, names |-> names2, listed |-> listed2, read |-> read2,
              before |-> before, reproduced |-> reproduced, finished |-> finished]
OBVIOUS

LEMMA VerifierRestarted ==
  ASSUME NEW pc, NEW names, NEW listed, NEW read, NEW v,
         verifier = [pc |-> verifier.pc, markers |-> verifier.markers, names |-> verifier.names,
                     listed |-> verifier.listed, read |-> verifier.read, before |-> verifier.before,
                     reproduced |-> verifier.reproduced, finished |-> verifier.finished],
         v = [verifier EXCEPT !.pc = pc, !.names = names, !.listed = listed, !.read = read]
  PROVE  v = [pc |-> pc, markers |-> verifier.markers, names |-> names, listed |-> listed,
              read |-> read, before |-> verifier.before, reproduced |-> verifier.reproduced,
              finished |-> verifier.finished]
BY RecordRestarted

LEMMA RecordReproduced ==
  ASSUME NEW pc, NEW markers, NEW names, NEW listed, NEW read, NEW before, NEW reproduced,
         NEW finished, NEW pc2, NEW reproduced2, NEW v, NEW w,
         v = [pc |-> pc, markers |-> markers, names |-> names, listed |-> listed, read |-> read,
              before |-> before, reproduced |-> reproduced, finished |-> finished],
         w = [v EXCEPT !.pc = pc2, !.reproduced = reproduced2]
  PROVE  w = [pc |-> pc2, markers |-> markers, names |-> names, listed |-> listed, read |-> read,
              before |-> before, reproduced |-> reproduced2, finished |-> finished]
OBVIOUS

LEMMA VerifierReproduced ==
  ASSUME NEW pc, NEW reproduced, NEW v,
         verifier = [pc |-> verifier.pc, markers |-> verifier.markers, names |-> verifier.names,
                     listed |-> verifier.listed, read |-> verifier.read, before |-> verifier.before,
                     reproduced |-> verifier.reproduced, finished |-> verifier.finished],
         v = [verifier EXCEPT !.pc = pc, !.reproduced = reproduced]
  PROVE  v = [pc |-> pc, markers |-> verifier.markers, names |-> verifier.names,
              listed |-> verifier.listed, read |-> verifier.read, before |-> verifier.before,
              reproduced |-> reproduced, finished |-> verifier.finished]
BY RecordReproduced

LEMMA RestartedIs ==
  ASSUME VerifierShaped, NEW pc
  PROVE  Restarted(pc) =
           [pc |-> pc, markers |-> verifier.markers, names |-> {}, listed |-> <<>>, read |-> {},
            before |-> verifier.before, reproduced |-> verifier.reproduced,
            finished |-> verifier.finished]
<1>1. verifier = [pc |-> verifier.pc, markers |-> verifier.markers, names |-> verifier.names,
                  listed |-> verifier.listed, read |-> verifier.read, before |-> verifier.before,
                  reproduced |-> verifier.reproduced, finished |-> verifier.finished]
  BY DEF VerifierShaped
<1>2. Restarted(pc) = [verifier EXCEPT !.pc = pc, !.names = {}, !.listed = <<>>, !.read = {}]
  BY DEF Restarted
<1> QED BY <1>1, <1>2, VerifierRestarted, Zenon

LEMMA RefusedIs ==
  ASSUME VerifierShaped, Step(Refused)
  PROVE  /\ UNCHANGED <<made, tree, collection, meddled>>
         /\ verifier' = [pc |-> "invalid", markers |-> verifier.markers, names |-> {},
                         listed |-> <<>>, read |-> {}, before |-> <<>>, reproduced |-> <<>>,
                         finished |-> verifier.finished]
         /\ verifier'.pc = "invalid" /\ verifier'.markers = verifier.markers
         /\ verifier'.names = {} /\ verifier'.listed = <<>> /\ verifier'.read = {}
         /\ verifier'.before = <<>> /\ verifier'.reproduced = <<>>
         /\ verifier'.finished = verifier.finished
<1>1. /\ UNCHANGED <<made, tree, collection, meddled>>
      /\ verifier' = Refused
  BY DEF Step
<1> DEFINE v == Restarted("invalid")
           finished == verifier.finished
           none     == {}
           empty    == <<>>
<1>2. v = [pc |-> "invalid", markers |-> verifier.markers, names |-> none, listed |-> empty,
           read |-> none, before |-> verifier.before, reproduced |-> verifier.reproduced,
           finished |-> finished]
  BY RestartedIs
<1>3. verifier' = [v EXCEPT !.before = empty, !.reproduced = empty] BY <1>1 DEF Refused
<1> HIDE DEF v, finished, none, empty
<1>4. verifier' = [pc |-> "invalid", markers |-> verifier.markers, names |-> none,
                   listed |-> empty, read |-> none, before |-> empty, reproduced |-> empty,
                   finished |-> finished]
  BY <1>2, <1>3
<1>5. verifier' = [pc |-> "invalid", markers |-> verifier.markers, names |-> {},
                 listed |-> <<>>, read |-> {}, before |-> <<>>, reproduced |-> <<>>,
                 finished |-> verifier.finished]
  BY <1>4 DEF finished, none, empty
<1> QED BY <1>1, <1>5

\* An error decides the verdict.
LEMMA RefusalKeeps ==
  ASSUME Directory, Verifying, Step(Refused), verifier.finished /\ meddled = 0 => Explained
  PROVE  Verifying'
<1>1. VerifierShaped BY DEF Verifying
<1>2. /\ UNCHANGED <<made, tree, collection, meddled>>
      /\ verifier' = [pc |-> "invalid", markers |-> verifier.markers, names |-> {},
                      listed |-> <<>>, read |-> {}, before |-> <<>>, reproduced |-> <<>>,
                      finished |-> verifier.finished]
      /\ verifier'.pc = "invalid" /\ verifier'.markers = verifier.markers
      /\ verifier'.names = {} /\ verifier'.listed = <<>> /\ verifier'.read = {}
      /\ verifier'.before = <<>> /\ verifier'.reproduced = <<>>
      /\ verifier'.finished = verifier.finished
  BY <1>1, RefusedIs
<1>3. ~Seen' BY <1>2 DEF Seen
<1>4. VerifierShaped'
  <2>1. (verifier = [pc |-> verifier.pc, markers |-> verifier.markers, names |-> verifier.names,
                 listed |-> verifier.listed, read |-> verifier.read, before |-> verifier.before,
                 reproduced |-> verifier.reproduced, finished |-> verifier.finished])'
    BY <1>2
  <2> QED BY <1>1, <1>2, <1>3, <2>1 DEF VerifierShaped
<1>5. Observed' BY <1>2 DEF Observed
<1>6. Judged' BY <1>2 DEF Judged
<1>7. Untouched' BY <1>3 DEF Untouched
<1>8. Finishing'
  <2>1. verifier'.finished /\ meddled' = 0 => Explained' BY <1>2 DEF Explained
  <2>2. verifier'.finished /\ meddled' = 0 => (\E c \in made : At(c, "done"))'
    BY <1>2 DEF Verifying, Finishing, At
  <2> QED BY <1>2, <2>1, <2>2 DEF Finishing
<1> QED BY <1>4, <1>5, <1>6, <1>7, <1>8 DEF Verifying

\* A pass begins.
LEMMA ListKeeps ==
  ASSUME Directory, Verifying, List
  PROVE  Verifying'
<1> USE DEF Verifying
<1>1. verifier.pc \in {"first", "second"} /\ verifier.names = {} BY DEF List, Reading
<1>2. verifier.listed = <<>> /\ verifier.read = {} BY <1>1 DEF VerifierShaped
<1>3. CASE "manifest" \notin DOMAIN tree
  <2>1. Step(Refused) BY <1>3 DEF List
  <2>2. ~(verifier.finished /\ meddled = 0)
    <3>1. verifier.finished => Seen BY <1>1 DEF Finishing
    <3>2. ~(Seen /\ meddled = 0) BY <1>3 DEF Untouched
    <3> QED BY <3>1, <3>2
  <2> QED BY <2>1, <2>2, RefusalKeeps
<1>4. CASE "manifest" \in DOMAIN tree
  <2> DEFINE names    == DOMAIN tree
             found    == IF verifier.pc = "first" THEN \E c \in made : At(c, "done")
                         ELSE verifier.finished
  <2>1. /\ UNCHANGED <<made, tree, collection, meddled>>
        /\ verifier' = [verifier EXCEPT !.names = names, !.finished = found]
    BY <1>4 DEF List, Step
  <2> HIDE DEF found
  <2>2. /\ verifier' = [pc |-> verifier.pc, markers |-> verifier.markers, names |-> names,
                        listed |-> verifier.listed, read |-> verifier.read,
                        before |-> verifier.before, reproduced |-> verifier.reproduced,
                        finished |-> found]
    BY <2>1 DEF VerifierShaped
  <2>3. /\ verifier'.pc = verifier.pc /\ verifier'.markers = verifier.markers
        /\ verifier'.names = names /\ verifier'.listed = <<>> /\ verifier'.read = {}
        /\ verifier'.before = verifier.before /\ verifier'.reproduced = verifier.reproduced
        /\ verifier'.finished = found
    BY <1>2, <2>2
  <2>4. Quiet
    <3>1. made # {} BY <1>4 DEF Directory, Owned
    <3>2. \A c \in DOMAIN collection : "manifest" \notin Classes(collection[c].input) BY ClassesAre
    <3> QED BY <1>4, <3>1, <3>2 DEF Directory, Progress, Quiet, At
  <2>5. VerifierShaped'
    <3>1. (verifier = [pc |-> verifier.pc, markers |-> verifier.markers, names |-> verifier.names,
                   listed |-> verifier.listed, read |-> verifier.read, before |-> verifier.before,
                   reproduced |-> verifier.reproduced, finished |-> verifier.finished])'
      BY <2>2, <2>3
    <3>2. Quiet' BY <2>1, <2>4 DEF Quiet
    <3> QED BY <1>1, <2>3, <3>1, <3>2 DEF VerifierShaped
  <2>6. Observed' BY <1>1, <1>2, <2>1, <2>3 DEF Observed, Remains, Own
  <2>7. Judged' BY <1>1, <2>3 DEF Judged
  <2>8. Untouched'
    <3>1. ASSUME meddled = 0, NEW c \in made
          PROVE  names = Classes(collection[c].input) \cup {"manifest"}
      <4>1. tree = Sealed(Bundle(collection[c].input)) BY <1>4, <3>1 DEF Directory, SealedWhole
      <4> QED BY <4>1, SealedIs
    <3>2. meddled = 0 /\ verifier.pc = "second" =>
            \A c \in made : verifier.before = Bundle(collection[c].input)
      BY DEF Untouched, Seen
    <3> HIDE DEF names
    <3> QED BY <1>1, <1>4, <2>1, <2>3, <3>1, <3>2 DEF Untouched
  <2>9. Finishing'
    <3>1. Seen' BY <1>4, <2>3 DEF Seen
    <3>2. found /\ meddled = 0 => \E c \in made : At(c, "done") BY DEF found, Finishing
    <3> QED BY <1>1, <2>1, <2>3, <3>1, <3>2 DEF Finishing, At
  <2> QED BY <2>5, <2>6, <2>7, <2>8, <2>9
<1> QED BY <1>3, <1>4

\* The manifest is read.
LEMMA ReadManifestKeeps ==
  ASSUME Directory, Verifying, ReadManifest
  PROVE  Verifying'
<1> USE DEF Verifying
<1> DEFINE listed == tree["manifest"][2]
           fits   == /\ "manifest" \in DOMAIN tree
                     /\ Covers(listed, verifier.names \ {"manifest"})
<1>1. /\ verifier.pc \in {"first", "second"} /\ verifier.names # {} /\ verifier.listed = <<>>
      /\ \/ fits /\ Step([verifier EXCEPT !.listed = listed])
         \/ ~fits /\ Step(Refused)
  BY DEF ReadManifest, Reading
<1>2. Seen /\ Quiet /\ verifier.read = {} BY <1>1 DEF Seen, VerifierShaped
<1>3. ASSUME meddled = 0, NEW c \in made
      PROVE  /\ listed = Bundle(collection[c].input) /\ "manifest" \in DOMAIN tree
             /\ verifier.names = Classes(collection[c].input) \cup {"manifest"}
  <2>1. tree = Sealed(Bundle(collection[c].input)) /\ "manifest" \in DOMAIN tree
    BY <1>2, <1>3 DEF Directory, SealedWhole, Untouched
  <2>2. tree["manifest"] = <<"manifest", Bundle(collection[c].input)>> BY <2>1, SealedIs
  <2>3. verifier.names = Classes(collection[c].input) \cup {"manifest"}
    BY <1>1, <1>2, <1>3 DEF Untouched
  <2> QED BY <2>1, <2>2, <2>3
<1>4. CASE ~fits /\ Step(Refused)
  <2>1. ~(verifier.finished /\ meddled = 0)
    <3> SUFFICES ASSUME verifier.finished, meddled = 0 PROVE FALSE OBVIOUS
    <3>1. PICK c \in made : At(c, "done") BY DEF Finishing
    <3>2. c \in DOMAIN collection BY <3>1 DEF Directory, Owned
    <3>3. Covers(Bundle(collection[c].input), Classes(collection[c].input))
      BY <3>1, <3>2, FinishedHolds
    <3>4. "manifest" \notin Classes(collection[c].input) BY ClassesAre
    <3>5. verifier.names \ {"manifest"} = Classes(collection[c].input) BY <1>3, <3>1, <3>4
    <3>6. listed = Bundle(collection[c].input) /\ "manifest" \in DOMAIN tree BY <1>3, <3>1
    <3> HIDE DEF listed
    <3> QED BY <1>4, <3>3, <3>5, <3>6
  <2> QED BY <1>4, <2>1, RefusalKeeps
<1>5. CASE fits /\ Step([verifier EXCEPT !.listed = listed])
  <2>0. Whole(listed) /\ DOMAIN listed = Required(listed)
    BY <1>5 DEF Directory, TreeWhole, Covers
  <2>00. listed # <<>>
    <3> HIDE DEF listed
    <3> QED BY <2>0, RequiredAre
  <2> DEFINE finished == verifier.finished
             files    == listed
  <2>1. /\ UNCHANGED <<made, tree, collection, meddled>>
        /\ verifier' = [verifier EXCEPT !.listed = files]
    BY <1>5 DEF Step
  <2>a. verifier = [pc |-> verifier.pc, markers |-> verifier.markers, names |-> verifier.names,
                    listed |-> verifier.listed, read |-> verifier.read, before |-> verifier.before,
                    reproduced |-> verifier.reproduced, finished |-> finished]
    BY DEF VerifierShaped
  <2> HIDE DEF finished, files
  <2>2. verifier' = [pc |-> verifier.pc, markers |-> verifier.markers, names |-> verifier.names,
                     listed |-> files, read |-> verifier.read,
                     before |-> verifier.before, reproduced |-> verifier.reproduced,
                     finished |-> finished]
    BY <2>1, <2>a
  <2>3. /\ verifier'.pc = verifier.pc /\ verifier'.markers = verifier.markers
        /\ verifier'.names = verifier.names /\ verifier'.listed = files /\ verifier'.read = {}
        /\ verifier'.before = verifier.before /\ verifier'.reproduced = verifier.reproduced
        /\ verifier'.finished = verifier.finished
    BY <1>2, <2>2 DEF finished
  <2>4. /\ Whole(files) /\ DOMAIN files = Required(files)
        /\ \A c \in made : meddled = 0 => files = Bundle(collection[c].input)
    BY <2>0, <1>3 DEF files
  <2>5. VerifierShaped'
    <3>1. (verifier = [pc |-> verifier.pc, markers |-> verifier.markers, names |-> verifier.names,
                   listed |-> verifier.listed, read |-> verifier.read, before |-> verifier.before,
                   reproduced |-> verifier.reproduced, finished |-> verifier.finished])'
      BY <2>2, <2>3 DEF finished
    <3>2. Quiet' BY <1>2, <2>1 DEF Quiet
    <3> QED BY <1>1, <2>3, <2>4, <3>1, <3>2 DEF VerifierShaped
  <2>6. Observed' BY <1>1, <1>2, <2>1, <2>3 DEF Observed, Remains, Own
  <2>7. Judged' BY <1>1, <2>3 DEF Judged
  <2>8. Untouched' BY <1>1, <1>2, <2>1, <2>3, <2>4 DEF Untouched
  <2>9. Finishing'
    <3>1. Seen' BY <1>1, <2>3 DEF Seen
    <3> QED BY <1>1, <2>1, <2>3, <3>1 DEF Finishing, At
  <2> QED BY <2>5, <2>6, <2>7, <2>8, <2>9
<1> QED BY <1>1, <1>4, <1>5

\* One artifact is read.
LEMMA ReadFileKeeps ==
  ASSUME Directory, Verifying, ReadFile
  PROVE  Verifying'
<1> USE DEF Verifying
<1> DEFINE todo  == DOMAIN verifier.listed \ verifier.read
           class == First(todo)
           fits  == class \in DOMAIN tree /\ tree[class] = verifier.listed[class]
           more  == verifier.read \cup {class}
<1>1. /\ verifier.pc \in {"first", "second"} /\ verifier.listed # <<>> /\ todo # {}
      /\ \/ fits /\ Step([verifier EXCEPT !.read = more])
         \/ ~fits /\ Step(Refused)
  BY DEF ReadFile, Reading
<1>2. Seen /\ Quiet BY <1>1 DEF Seen, VerifierShaped
<1>3. CASE ~fits /\ Step(Refused)
  <2>1. ~(verifier.finished /\ meddled = 0)
    <3> SUFFICES ASSUME verifier.finished, meddled = 0 PROVE FALSE OBVIOUS
    <3>1. PICK c \in made : At(c, "done") BY DEF Finishing
    <3>2. c \in DOMAIN collection BY <3>1 DEF Directory, Owned
    <3> DEFINE input == collection[c].input
    <3>3. tree = Sealed(Bundle(input)) /\ DOMAIN Bundle(input) = Classes(input)
      BY <3>1, <3>2, FinishedHolds
    <3>4. verifier.listed = Bundle(input) BY <1>1, <1>2, <3>1 DEF Untouched
    <3>5. todo \subseteq Classes(input) /\ Classes(input) \subseteq AllClasses BY <3>3, <3>4, ClassesAre
    <3>6. class \in Classes(input)
      <4> HIDE DEF todo, input
      <4> QED BY <1>1, <3>5, FirstIsOneOf
    <3> HIDE DEF class, input
    <3>7. fits BY <3>3, <3>4, <3>6, SealedIs
    <3> QED BY <1>3, <3>7
  <2> QED BY <1>3, <2>1, RefusalKeeps
<1>4. CASE fits /\ Step([verifier EXCEPT !.read = more])
  <2> DEFINE finished == verifier.finished
  <2>1. /\ UNCHANGED <<made, tree, collection, meddled>>
        /\ verifier' = [verifier EXCEPT !.read = more]
    BY <1>4 DEF Step
  <2>a. verifier = [pc |-> verifier.pc, markers |-> verifier.markers, names |-> verifier.names,
                    listed |-> verifier.listed, read |-> verifier.read, before |-> verifier.before,
                    reproduced |-> verifier.reproduced, finished |-> finished]
    BY DEF VerifierShaped
  <2> HIDE DEF finished, more
  <2>2. verifier' = [pc |-> verifier.pc, markers |-> verifier.markers, names |-> verifier.names,
                     listed |-> verifier.listed, read |-> more,
                     before |-> verifier.before, reproduced |-> verifier.reproduced,
                     finished |-> finished]
    BY <2>1, <2>a
  <2>3. /\ verifier'.pc = verifier.pc /\ verifier'.markers = verifier.markers
        /\ verifier'.names = verifier.names /\ verifier'.listed = verifier.listed
        /\ verifier'.read = more
        /\ verifier'.before = verifier.before /\ verifier'.reproduced = verifier.reproduced
        /\ verifier'.finished = verifier.finished
    BY <2>2 DEF finished
  <2>4. "runtime" \in more =>
          \/ "runtime" \in verifier.read
          \/ ("runtime" \in DOMAIN tree /\ tree["runtime"] = verifier.listed["runtime"])
    BY <1>4 DEF more
  <2> HIDE DEF class, fits, todo
  <2>5. VerifierShaped'
    <3>1. (verifier = [pc |-> verifier.pc, markers |-> verifier.markers, names |-> verifier.names,
                   listed |-> verifier.listed, read |-> verifier.read, before |-> verifier.before,
                   reproduced |-> verifier.reproduced, finished |-> verifier.finished])'
      BY <2>2, <2>3 DEF finished
    <3>2. Quiet' BY <1>2, <2>1 DEF Quiet
    <3> QED BY <1>1, <2>3, <3>1, <3>2 DEF VerifierShaped
  <2>6. Observed'
    <3>1. ASSUME NEW c \in made, verifier.pc = "first", "runtime" \in more
          PROVE  Remains(verifier.listed["runtime"], c)
      BY <2>4, <3>1 DEF Observed, Remains
    <3>2. ASSUME NEW c \in made, verifier.pc = "second", "runtime" \in more
          PROVE  \/ verifier.listed["runtime"] = verifier.reproduced
                 \/ verifier.reproduced = Own(c)
      BY <2>4, <3>2 DEF Observed, Remains
    <3> QED BY <1>1, <2>1, <2>3, <3>1, <3>2 DEF Observed, Remains, Own
  <2>7. Judged' BY <1>1, <2>3 DEF Judged
  <2>8. Untouched' BY <1>1, <1>2, <2>1, <2>3 DEF Untouched
  <2>9. Finishing'
    <3>1. Seen' BY <1>2, <2>3 DEF Seen
    <3> QED BY <1>1, <2>1, <2>3, <3>1 DEF Finishing, At
  <2> QED BY <2>5, <2>6, <2>7, <2>8, <2>9
<1> QED BY <1>1, <1>3, <1>4

\* The first reading is judged.
LEMMA JudgeFirstKeeps ==
  ASSUME Directory, Verifying, JudgeFirst
  PROVE  Verifying'
<1> USE DEF Verifying
<1>1. /\ verifier.pc = "first" /\ verifier.listed # <<>>
      /\ verifier.read = DOMAIN verifier.listed
      /\ \/ ~PassHolds /\ Step(Refused)
         \/ /\ PassHolds /\ "runtime" \in DOMAIN tree
            /\ Step([Restarted("reproduce") EXCEPT !.before = verifier.listed])
         \/ /\ PassHolds /\ "runtime" \notin DOMAIN tree
            /\ Step([verifier EXCEPT !.pc = "valid"])
  BY DEF JudgeFirst, AllRead
<1>2. Seen /\ Quiet /\ verifier.names # {} BY <1>1 DEF Seen, VerifierShaped
<1>3. PassHolds <=> Holds(verifier.listed, Installed, verifier.markers) BY DEF PassHolds
<1> DEFINE finished == verifier.finished
           before   == verifier.listed
<1>a. verifier = [pc |-> verifier.pc, markers |-> verifier.markers, names |-> verifier.names,
                  listed |-> verifier.listed, read |-> verifier.read, before |-> verifier.before,
                  reproduced |-> verifier.reproduced, finished |-> finished]
  BY DEF VerifierShaped
<1>4. CASE ~PassHolds /\ Step(Refused)
  <2>1. verifier.finished /\ meddled = 0 => Explained
    <3> SUFFICES ASSUME verifier.finished, meddled = 0 PROVE Explained OBVIOUS
    <3>1. PICK c \in made : At(c, "done") BY DEF Finishing
    <3>2. c \in DOMAIN collection BY <3>1 DEF Directory, Owned
    <3> DEFINE input == collection[c].input
    <3>3. input.version = Installed /\ verifier.markers \subseteq {input.marker} =>
            Holds(Bundle(input), Installed, verifier.markers)
      BY <3>1, <3>2, FinishedHolds DEF VerifierShaped
    <3>4. verifier.listed = Bundle(input) BY <1>1, <1>2, <3>1 DEF Untouched
    <3>5. input.version # Installed \/ ~(verifier.markers \subseteq {input.marker})
      BY <1>3, <1>4, <3>3, <3>4
    <3> QED BY <3>1, <3>5 DEF Explained
  <2> QED BY <1>4, <2>1, RefusalKeeps
<1>5. CASE /\ PassHolds /\ "runtime" \in DOMAIN tree
           /\ Step([Restarted("reproduce") EXCEPT !.before = verifier.listed])
  <2> DEFINE v     == Restarted("reproduce")
             none  == {}
             empty == <<>>
  <2>1. /\ UNCHANGED <<made, tree, collection, meddled>>
        /\ verifier' = [v EXCEPT !.before = before]
    BY <1>5 DEF Step
  <2>2. v = [pc |-> "reproduce", markers |-> verifier.markers, names |-> none, listed |-> empty,
             read |-> none, before |-> verifier.before, reproduced |-> verifier.reproduced,
             finished |-> finished]
    BY RestartedIs DEF VerifierShaped
  <2> HIDE DEF v, finished, before, none, empty
  <2>3. verifier' = [pc |-> "reproduce", markers |-> verifier.markers, names |-> none,
                     listed |-> empty, read |-> none, before |-> before,
                     reproduced |-> verifier.reproduced, finished |-> finished]
    BY <2>1, <2>2
  <2>4. /\ verifier'.pc = "reproduce" /\ verifier'.markers = verifier.markers
        /\ verifier'.names = {} /\ verifier'.listed = <<>> /\ verifier'.read = {}
        /\ verifier'.before = verifier.listed /\ verifier'.reproduced = verifier.reproduced
        /\ verifier'.finished = verifier.finished
    BY <2>3 DEF finished, before, none, empty
  <2>5. VerifierShaped'
    <3>1. (verifier = [pc |-> verifier.pc, markers |-> verifier.markers, names |-> verifier.names,
                   listed |-> verifier.listed, read |-> verifier.read, before |-> verifier.before,
                   reproduced |-> verifier.reproduced, finished |-> verifier.finished])'
      BY <2>3, <2>4 DEF finished, before, none, empty
    <3>2. Quiet' BY <1>2, <2>1 DEF Quiet
    <3> QED BY <2>4, <3>1, <3>2 DEF VerifierShaped
  <2>6. Observed'
    <3>1. ASSUME NEW c \in made, "runtime" \in DOMAIN verifier.listed
          PROVE  Remains(verifier.listed["runtime"], c)
      BY <1>1, <3>1 DEF Observed
    <3> QED BY <1>1, <2>1, <2>4, <3>1 DEF Observed, Remains, Own
  <2>7. Judged' BY <2>4 DEF Judged
  <2>8. Untouched' BY <1>1, <1>2, <1>5, <2>1, <2>4 DEF Untouched
  <2>9. Finishing'
    <3>1. Seen' BY <2>4 DEF Seen
    <3> QED BY <1>1, <2>1, <2>4, <3>1 DEF Finishing, At
  <2> QED BY <2>5, <2>6, <2>7, <2>8, <2>9
<1>6. CASE /\ PassHolds /\ "runtime" \notin DOMAIN tree
           /\ Step([verifier EXCEPT !.pc = "valid"])
  <2>1. /\ UNCHANGED <<made, tree, collection, meddled>>
        /\ verifier' = [verifier EXCEPT !.pc = "valid"]
    BY <1>6 DEF Step
  <2> HIDE DEF finished
  <2>2. verifier' = [pc |-> "valid", markers |-> verifier.markers, names |-> verifier.names,
                     listed |-> verifier.listed, read |-> verifier.read,
                     before |-> verifier.before, reproduced |-> verifier.reproduced,
                     finished |-> finished]
    BY <1>a, <2>1
  <2>3. /\ verifier'.pc = "valid" /\ verifier'.markers = verifier.markers
        /\ verifier'.names = verifier.names /\ verifier'.listed = verifier.listed
        /\ verifier'.read = verifier.read
        /\ verifier'.before = verifier.before /\ verifier'.reproduced = verifier.reproduced
        /\ verifier'.finished = verifier.finished
    BY <2>2 DEF finished
  <2>4. "runtime" \in DOMAIN verifier.listed => verifier.reproduced = <<>> /\ meddled > 0
    <3> SUFFICES ASSUME "runtime" \in DOMAIN verifier.listed, meddled = 0 PROVE FALSE
      <4>1. meddled \in Nat BY DEF Directory, SealedWhole
      <4> QED BY <1>1, <4>1 DEF Observed
    <3>1. PICK c \in made : TRUE BY <1>2 DEF Quiet
    <3> DEFINE input == collection[c].input
    <3>2. tree = Sealed(Bundle(input)) BY <1>2, <3>1 DEF Untouched, Directory, SealedWhole
    <3>3. verifier.listed = Bundle(input) BY <1>1, <1>2, <3>1 DEF Untouched
    <3> HIDE DEF input
    <3>4. DOMAIN verifier.listed \subseteq DOMAIN tree BY <3>2, <3>3, SealedIs
    <3> QED BY <1>6, <3>4
  <2>5. VerifierShaped'
    <3>1. (verifier = [pc |-> verifier.pc, markers |-> verifier.markers, names |-> verifier.names,
                   listed |-> verifier.listed, read |-> verifier.read, before |-> verifier.before,
                   reproduced |-> verifier.reproduced, finished |-> verifier.finished])'
      BY <2>2, <2>3 DEF finished
    <3>2. Quiet' BY <1>2, <2>1 DEF Quiet
    <3> QED BY <2>3, <3>1, <3>2 DEF VerifierShaped
  <2>6. Observed' BY <2>3 DEF Observed
  <2>7. Judged' BY <1>1, <1>3, <1>6, <2>1, <2>3, <2>4 DEF Judged
  <2>8. Untouched' BY <1>1, <1>2, <2>1, <2>3 DEF Untouched
  <2>9. Finishing'
    <3>1. Seen' BY <2>3 DEF Seen
    <3> QED BY <1>1, <2>1, <2>3, <3>1 DEF Finishing, At
  <2> QED BY <2>5, <2>6, <2>7, <2>8, <2>9
<1> QED BY <1>1, <1>4, <1>5, <1>6

\* The receipt is observed again.
LEMMA ReproduceKeeps ==
  ASSUME Directory, Verifying, Reproduce
  PROVE  Verifying'
<1> USE DEF Verifying
<1> DEFINE holds == /\ "runtime" \in DOMAIN tree
                    /\ \A receipt \in tree["runtime"][2] :
                         /\ \A marker \in verifier.markers : RuntimeValid(receipt, marker)
                         /\ Reproduces(receipt, Installed)
           reproduced == tree["runtime"]
           finished == verifier.finished
<1>1. /\ verifier.pc = "reproduce"
      /\ \/ holds /\ Step([verifier EXCEPT !.pc = "second", !.reproduced = reproduced])
         \/ ~holds /\ Step(Refused)
  BY DEF Reproduce
<1>2. /\ Seen /\ Quiet /\ verifier.names = {} /\ verifier.listed = <<>> /\ verifier.read = {}
  BY <1>1 DEF Seen, VerifierShaped
<1>3. CASE ~holds /\ Step(Refused)
  <2>1. verifier.finished /\ meddled = 0 => Explained
    <3> SUFFICES ASSUME verifier.finished, meddled = 0, ~Explained PROVE FALSE OBVIOUS
    <3>1. PICK c \in made : At(c, "done") BY DEF Finishing
    <3>2. c \in DOMAIN collection BY <3>1 DEF Directory, Owned
    <3> DEFINE input == collection[c].input
               files == Bundle(input)
               parts == input.runtime \cup {NestedRuntime(w) : w \in input.hosted}
    <3>3. /\ Acceptable(input) /\ tree = Sealed(files) /\ Coherent(files)
          /\ DOMAIN files = Classes(input)
      BY <3>1, <3>2, FinishedHolds
    <3>4. /\ input.version = Installed /\ verifier.markers \subseteq {input.marker}
          /\ \A w \in input.hosted : Reproduces(NestedRuntime(w), Installed)
      BY <3>1 DEF Explained
    <3>5. "runtime" \in DOMAIN tree BY <1>1, <1>2 DEF Untouched
    <3>6. "runtime" \in Classes(input) /\ "run" \in Classes(input)
      <4>1. DOMAIN tree = Classes(input) \cup {"manifest"} BY <3>3, SealedIs
      <4>2. "run" \in Classes(input) BY ClassesAre DEF Always
      <4> QED BY <3>5, <4>1, <4>2
    <3>7. /\ tree["runtime"] = files["runtime"]
          /\ files["runtime"] = Content("runtime", input) /\ files["run"] = Content("run", input)
      BY <3>3, <3>6, SealedIs
    <3>8. files["runtime"] = <<"runtime", parts>> BY <3>7, ContentsAre
    <3>9. files["run"][2].marker = input.marker
      <4>1. Content("run", input) =
              RunManifest(Metadata(input.version, input.marker, input.early), Classes(input) \ Always)
        BY ContentsAre
      <4> HIDE DEF input, files
      <4> QED BY <3>7, <4>1 DEF RunManifest, Metadata
    <3>10. \A receipt \in parts : RuntimeValid(receipt, input.marker)
      <4>1. "runtime" \in DOMAIN files \ Always BY <3>3, <3>6 DEF Always
      <4> HIDE DEF files, input
      <4>2. \A receipt \in files["runtime"][2] : RuntimeValid(receipt, files["run"][2].marker)
        BY <3>3, <4>1 DEF Coherent
      <4> HIDE DEF parts
      <4> QED BY <3>8, <3>9, <4>2
    <3>11. \A receipt \in parts : Reproduces(receipt, Installed)
      <4>1. \A receipt \in input.runtime : Reproduces(receipt, Installed)
        BY <3>3, <3>4 DEF Acceptable
      <4> QED BY <3>4, <4>1
    <3>12. tree["runtime"][2] = parts BY <3>7, <3>8
    <3> HIDE DEF parts, input, files
    <3>13. holds BY <3>4, <3>5, <3>10, <3>11, <3>12
    <3> QED BY <1>3, <3>13
  <2> QED BY <1>3, <2>1, RefusalKeeps
<1>4. CASE holds /\ Step([verifier EXCEPT !.pc = "second", !.reproduced = reproduced])
  <2>1. /\ UNCHANGED <<made, tree, collection, meddled>>
        /\ verifier' = [verifier EXCEPT !.pc = "second", !.reproduced = reproduced]
    BY <1>4 DEF Step
  <2>a. verifier = [pc |-> verifier.pc, markers |-> verifier.markers, names |-> verifier.names,
                    listed |-> verifier.listed, read |-> verifier.read, before |-> verifier.before,
                    reproduced |-> verifier.reproduced, finished |-> finished]
    BY DEF VerifierShaped
  <2>b. /\ "runtime" \in DOMAIN tree
        /\ reproduced = <<"runtime", reproduced[2]>>
        /\ \A receipt \in reproduced[2] : Reproduces(receipt, Installed)
    BY <1>4 DEF Directory, TreeWhole, Whole
  <2>c. reproduced = tree["runtime"] OBVIOUS
  <2> HIDE DEF finished, reproduced, holds
  <2>2. verifier' = [pc |-> "second", markers |-> verifier.markers, names |-> verifier.names,
                     listed |-> verifier.listed, read |-> verifier.read,
                     before |-> verifier.before, reproduced |-> reproduced,
                     finished |-> finished]
    BY <2>1, <2>a, VerifierReproduced, Zenon DEF finished
  <2>3. /\ verifier'.pc = "second" /\ verifier'.markers = verifier.markers
        /\ verifier'.names = {} /\ verifier'.listed = <<>> /\ verifier'.read = {}
        /\ verifier'.before = verifier.before /\ verifier'.reproduced = reproduced
        /\ verifier'.finished = verifier.finished
    BY <1>2, <2>2 DEF finished
  <2>5. VerifierShaped'
    <3>1. (verifier = [pc |-> verifier.pc, markers |-> verifier.markers, names |-> verifier.names,
                   listed |-> verifier.listed, read |-> verifier.read, before |-> verifier.before,
                   reproduced |-> verifier.reproduced, finished |-> verifier.finished])'
      BY <1>2, <2>2, <2>3 DEF finished
    <3>2. Quiet' BY <1>2, <2>1 DEF Quiet
    <3> QED BY <2>3, <3>1, <3>2 DEF VerifierShaped
  <2>6. Observed'
    <3>1. \A c \in made : "runtime" \in DOMAIN verifier.before =>
            \/ reproduced = verifier.before["runtime"]
            \/ verifier.before["runtime"] = Own(c)
      BY <1>1, <2>b, <2>c DEF Observed, Remains
    <3>2. \A c \in made : Remains(reproduced, c) BY <2>c DEF Remains
    <3> QED BY <2>1, <2>b, <2>3, <3>1, <3>2 DEF Observed, Remains, Own
  <2>7. Judged' BY <2>3 DEF Judged
  <2>8. Untouched' BY <1>1, <1>2, <2>1, <2>3 DEF Untouched
  <2>9. Finishing'
    <3>1. Seen' BY <2>3 DEF Seen
    <3> QED BY <1>1, <2>1, <2>3, <3>1 DEF Finishing, At
  <2> QED BY <2>5, <2>6, <2>7, <2>8, <2>9
<1> QED BY <1>1, <1>3, <1>4

\* The second reading is judged: the receipt in it is the one observed, because a
\* receipt is not put back.
LEMMA JudgeSecondKeeps ==
  ASSUME Directory, Verifying, JudgeSecond
  PROVE  Verifying'
<1> USE DEF Verifying
<1> DEFINE holds == PassHolds /\ verifier.listed = verifier.before
           finished == verifier.finished
<1>1. /\ verifier.pc = "second" /\ verifier.listed # <<>>
      /\ verifier.read = DOMAIN verifier.listed
      /\ \/ holds /\ Step([verifier EXCEPT !.pc = "valid"])
         \/ ~holds /\ Step(Refused)
  BY DEF JudgeSecond, AllRead
<1>2. Seen /\ Quiet /\ verifier.names # {} BY <1>1 DEF Seen, VerifierShaped
<1>3. PassHolds <=> Holds(verifier.listed, Installed, verifier.markers) BY DEF PassHolds
<1>4. CASE ~holds /\ Step(Refused)
  <2>1. verifier.finished /\ meddled = 0 => Explained
    <3> SUFFICES ASSUME verifier.finished, meddled = 0 PROVE Explained OBVIOUS
    <3>1. PICK c \in made : At(c, "done") BY DEF Finishing
    <3>2. c \in DOMAIN collection BY <3>1 DEF Directory, Owned
    <3> DEFINE input == collection[c].input
    <3>3. input.version = Installed /\ verifier.markers \subseteq {input.marker} =>
            Holds(Bundle(input), Installed, verifier.markers)
      BY <3>1, <3>2, FinishedHolds DEF VerifierShaped
    <3>4. verifier.listed = Bundle(input) /\ verifier.before = Bundle(input)
      BY <1>1, <1>2, <3>1 DEF Untouched
    <3>5. input.version # Installed \/ ~(verifier.markers \subseteq {input.marker})
      BY <1>3, <1>4, <3>3, <3>4
    <3> QED BY <3>1, <3>5 DEF Explained
  <2> QED BY <1>4, <2>1, RefusalKeeps
<1>5. CASE holds /\ Step([verifier EXCEPT !.pc = "valid"])
  <2>1. /\ UNCHANGED <<made, tree, collection, meddled>>
        /\ verifier' = [verifier EXCEPT !.pc = "valid"]
    BY <1>5 DEF Step
  <2>a. verifier = [pc |-> verifier.pc, markers |-> verifier.markers, names |-> verifier.names,
                    listed |-> verifier.listed, read |-> verifier.read, before |-> verifier.before,
                    reproduced |-> verifier.reproduced, finished |-> finished]
    BY DEF VerifierShaped
  <2> HIDE DEF finished
  <2>2. verifier' = [pc |-> "valid", markers |-> verifier.markers, names |-> verifier.names,
                     listed |-> verifier.listed, read |-> verifier.read,
                     before |-> verifier.before, reproduced |-> verifier.reproduced,
                     finished |-> finished]
    BY <2>1, <2>a
  <2>3. /\ verifier'.pc = "valid" /\ verifier'.markers = verifier.markers
        /\ verifier'.names = verifier.names /\ verifier'.listed = verifier.listed
        /\ verifier'.read = verifier.read
        /\ verifier'.before = verifier.before /\ verifier'.reproduced = verifier.reproduced
        /\ verifier'.finished = verifier.finished
    BY <2>2 DEF finished
  <2>4. "runtime" \in DOMAIN verifier.listed =>
          verifier.reproduced = verifier.listed["runtime"]
    <3> SUFFICES ASSUME "runtime" \in DOMAIN verifier.listed
                 PROVE  verifier.reproduced = verifier.listed["runtime"]
      OBVIOUS
    <3>1. PICK c \in made : TRUE BY <1>2 DEF Quiet
    <3>2. \/ verifier.reproduced = verifier.before["runtime"]
          \/ verifier.before["runtime"] = Own(c)
      BY <1>1, <1>5, <3>1 DEF Observed
    <3>3. \/ verifier.listed["runtime"] = verifier.reproduced
          \/ verifier.reproduced = Own(c)
      BY <1>1, <3>1 DEF Observed
    <3> QED BY <1>5, <3>2, <3>3
  <2>5. VerifierShaped'
    <3>1. (verifier = [pc |-> verifier.pc, markers |-> verifier.markers, names |-> verifier.names,
                   listed |-> verifier.listed, read |-> verifier.read, before |-> verifier.before,
                   reproduced |-> verifier.reproduced, finished |-> verifier.finished])'
      BY <2>2, <2>3 DEF finished
    <3>2. Quiet' BY <1>2, <2>1 DEF Quiet
    <3> QED BY <2>3, <3>1, <3>2 DEF VerifierShaped
  <2>6. Observed' BY <2>3 DEF Observed
  <2>7. Judged'
    <3>1. \A receipt \in verifier.reproduced[2] : Reproduces(receipt, Installed)
      BY <1>1 DEF Observed
    <3> QED BY <1>1, <1>3, <1>5, <2>1, <2>3, <2>4, <3>1 DEF Judged
  <2>8. Untouched' BY <1>1, <1>2, <2>1, <2>3 DEF Untouched
  <2>9. Finishing'
    <3>1. Seen' BY <2>3 DEF Seen
    <3> QED BY <1>1, <2>1, <2>3, <3>1 DEF Finishing, At
  <2> QED BY <2>5, <2>6, <2>7, <2>8, <2>9
<1> QED BY <1>1, <1>4, <1>5
-------------------------------------------------------------------------------

LEMMA VerifyingStep ==
  ASSUME Directory, Verifying, [BundleNext]_bundleVars
  PROVE  Verifying'
<1>1. CASE \/ \E c \in DOMAIN collection :
                \/ MakeDirectory(c) \/ WriteFile(c) \/ WriteManifest(c)
                \/ Raise(c) \/ CleanUp(c) \/ SelfVerify(c)
           \/ Meddle
  <2>1. verifier' = verifier
    BY <1>1 DEF MakeDirectory, WriteFile, WriteManifest, Raise, CleanUp, SelfVerify, Meddle
  <2> QED BY <1>1, <2>1, OutsideKeeps
<1>2. CASE List BY <1>2, ListKeeps
<1>3. CASE ReadManifest BY <1>3, ReadManifestKeeps
<1>4. CASE ReadFile BY <1>4, ReadFileKeeps
<1>5. CASE JudgeFirst BY <1>5, JudgeFirstKeeps
<1>6. CASE Reproduce BY <1>6, ReproduceKeeps
<1>7. CASE JudgeSecond BY <1>7, JudgeSecondKeeps
<1>8. CASE UNCHANGED bundleVars
  <2>1. UNCHANGED <<made, tree, collection, verifier, meddled>> BY <1>8 DEF bundleVars
  <2>2. VerifierShaped'
    BY <2>1 DEF Verifying, VerifierShaped, Seen, Quiet
  <2>3. Observed' BY <2>1 DEF Verifying, Observed, Remains, Own
  <2>4. Judged' BY <2>1 DEF Verifying, Judged
  <2>5. Untouched' BY <2>1 DEF Verifying, Untouched, Seen
  <2>6. Finishing' BY <2>1 DEF Verifying, Finishing, Seen, Explained, At
  <2> QED BY <2>2, <2>3, <2>4, <2>5, <2>6 DEF Verifying
<1> QED BY <1>1, <1>2, <1>3, <1>4, <1>5, <1>6, <1>7, <1>8 DEF BundleNext

LEMMA VerifyingHolds == BundleSpec => [](Directory /\ Verifying)
<1>1. BundleInit => Directory /\ Verifying BY DirectoryInit, VerifyingInit
<1>2. Directory /\ Verifying /\ [BundleNext]_bundleVars => (Directory /\ Verifying)'
  BY DirectoryStep, VerifyingStep
<1> QED BY <1>1, <1>2, PTL DEF BundleSpec

\* Only one collection of acceptable inputs is declared valid, and with the
\* receipt that was observed again (verify_foundation_evidence).
THEOREM GenuineSafety == BundleSpec => []BundleIsGenuine
<1>1. ASSUME Directory, Verifying PROVE BundleIsGenuine
  <2> SUFFICES ASSUME verifier.pc = "valid"
               PROVE  LET input == Said(verifier.listed)
                      IN  /\ verifier.listed = Bundle(input)
                          /\ input.version = Installed /\ verifier.markers \subseteq {input.marker}
                          /\ \/ /\ Acceptable(input)
                                /\ "runtime" \in DOMAIN verifier.listed =>
                                     verifier.reproduced = verifier.listed["runtime"]
                             \/ /\ meddled > 0 /\ verifier.reproduced = <<>>
                                /\ Acceptable([input EXCEPT !.runtime = {}])
    BY DEF BundleIsGenuine
  <2> DEFINE files == verifier.listed
             input == Said(files)
  <2>1. /\ files # <<>> /\ Holds(files, Installed, verifier.markers)
        /\ "runtime" \in DOMAIN files =>
             \/ /\ verifier.reproduced = files["runtime"]
                /\ \A receipt \in verifier.reproduced[2] : Reproduces(receipt, Installed)
             \/ verifier.reproduced = <<>> /\ meddled > 0
    BY <1>1 DEF Verifying, Judged
  <2>2. Whole(files) /\ DOMAIN files = Required(files)
    BY <1>1, <2>1 DEF Verifying, VerifierShaped
  <2>3. Coherent(files) /\ Provenance(files, Installed, verifier.markers)
    BY <2>1 DEF Holds
  <2>4. /\ files = Bundle(input) /\ Acceptable([input EXCEPT !.runtime = {}])
        /\ (\A receipt \in input.runtime : Reproduces(receipt, input.version)) => Acceptable(input)
    <3> HIDE DEF files
    <3> QED BY <2>2, <2>3, CoherentIsABundle
  <2>5. input.version = Installed /\ verifier.markers \subseteq {input.marker}
    BY <2>3 DEF Provenance, Said
  <2>6. /\ "runtime" \notin DOMAIN files => input.runtime = {}
        /\ "runtime" \in DOMAIN files => input.runtime \subseteq files["runtime"][2]
    BY DEF Said
  <2> HIDE DEF files, input
  <2>7. CASE "runtime" \in DOMAIN files => verifier.reproduced = files["runtime"]
                 /\ \A receipt \in verifier.reproduced[2] : Reproduces(receipt, Installed)
    <3>1. \A receipt \in input.runtime : Reproduces(receipt, input.version)
      BY <2>5, <2>6, <2>7
    <3> QED BY <2>4, <2>5, <2>7, <3>1 DEF files, input
  <2>8. CASE verifier.reproduced = <<>> /\ meddled > 0
    BY <2>4, <2>5, <2>8 DEF files, input
  <2> QED BY <2>1, <2>7, <2>8
<1> QED BY <1>1, VerifyingHolds, PTL

\* What a collector finished and nobody changed is not refused
\* (collect_foundation_evidence, verify_foundation_evidence).
THEOREM FinishedSafety == BundleSpec => []FinishedVerifies
<1>1. Verifying => FinishedVerifies
  BY DEF Verifying, Finishing, FinishedVerifies, Explained
<1> QED BY <1>1, VerifyingHolds, PTL

\* In a bundle found valid no row passes without its tests, its evidence and,
\* beyond the local gates, its receipt; and the release is not eligible
\* (derive_acceptance_results).
THEOREM ResultsSafety ==
  BundleSpec => [](verifier.pc = "valid" => DOMAIN verifier.listed \ Always \in Proved)
<1>1. Verifying => (verifier.pc = "valid" => DOMAIN verifier.listed \ Always \in Proved)
  <2> SUFFICES ASSUME Verifying, verifier.pc = "valid"
               PROVE  DOMAIN verifier.listed \ Always \in Proved
    OBVIOUS
  <2>1. DOMAIN verifier.listed = Required(verifier.listed)
    BY DEF Verifying, Judged, VerifierShaped
  <2>2. DOMAIN verifier.listed \ Always \in Extras BY <2>1, RequiredAre
  <2> QED BY <2>2, ResultsProved
<1> QED BY <1>1, VerifyingHolds, PTL
-------------------------------------------------------------------------------
(* Counting.                                                               *)

\* A set has as many elements as it has images exactly when no two of them have
\* the same one.
LEMMA CountImages ==
  ASSUME NEW S, IsFiniteSet(S), NEW f, DOMAIN f = S, f = [x \in S |-> f[x]]
  PROVE  /\ IsFiniteSet({f[x] : x \in S})
         /\ Cardinality({f[x] : x \in S}) = Cardinality(S) <=>
              \A x, y \in S : f[x] = f[y] => x = y
<1> DEFINE T == {f[x] : x \in S}
<1>1. f \in Surjection(S, T)
  BY DEF Surjection
<1>2. f \in Injection(S, T) <=> \A x, y \in S : f[x] = f[y] => x = y
  <2>1. f \in [S -> T]
    BY DEF T
  <2> QED BY <2>1 DEF Injection, IsInjective
<1> HIDE DEF T
<1>3. IsFiniteSet(T) /\ (Cardinality(T) = Cardinality(S) <=> f \in Injection(S, T))
  BY <1>1, FS_Surjection
<1> QED BY <1>2, <1>3 DEF T

\* So many numbers.
LEMMA CountTo ==
  ASSUME NEW n \in Nat PROVE IsFiniteSet(1..n) /\ Cardinality(1..n) = n
<1>1. 1 \in Int /\ n \in Int /\ n - 1 + 1 = n
  OBVIOUS
<1> QED BY <1>1, FS_Interval

\* The ten runs of the composite (m5_plan).
LEMMA TenRuns == IsFiniteSet(RunNames) /\ Cardinality(RunNames) = 10
<1> DEFINE F == {CleanRun(i) : i \in CleanRoots}
           c == {ControlRun(n) : n \in ControlNames}
<1>1. IsFiniteSet(F) /\ Cardinality(F) = 5
  <2> DEFINE f == [i \in CleanRoots |-> CleanRun(i)]
  <2>1. IsFiniteSet(CleanRoots) /\ Cardinality(CleanRoots) = 5
    BY CountTo DEF CleanRoots
  <2>2. \A x, y \in CleanRoots : f[x] = f[y] => x = y
    BY DEF CleanRun
  <2>3. F = {f[i] : i \in CleanRoots}
    OBVIOUS
  <2>4. DOMAIN f = CleanRoots /\ f = [i \in CleanRoots |-> f[i]]
    OBVIOUS
  <2> HIDE DEF f, F
  <2> QED BY <2>1, <2>2, <2>3, <2>4, CountImages
<1>2. F \cup {PatchedRun} \cup c = ((((F \cup {PatchedRun}) \cup {ControlRun("masked_response")})
        \cup {ControlRun("mock_only_response")}) \cup {ControlRun("fresh_session")})
        \cup {ControlRun("same_tenant_document")}
  BY DEF ControlNames
<1>3. PatchedRun \notin F /\ \A n : n # "clean-root" => ControlRun(n) \notin F
  BY DEF PatchedRun, ControlRun, CleanRun
<1>4. /\ ControlRun("masked_response") \notin {PatchedRun}
      /\ ControlRun("mock_only_response") \notin {PatchedRun, ControlRun("masked_response")}
      /\ ControlRun("fresh_session") \notin
           {PatchedRun, ControlRun("masked_response"), ControlRun("mock_only_response")}
      /\ ControlRun("same_tenant_document") \notin
           {PatchedRun, ControlRun("masked_response"), ControlRun("mock_only_response"),
            ControlRun("fresh_session")}
  BY DEF PatchedRun, ControlRun
<1> HIDE DEF F
<1>5. IsFiniteSet(F \cup {PatchedRun}) /\ Cardinality(F \cup {PatchedRun}) = 6
  BY <1>1, <1>3, FS_AddElement
<1> DEFINE A == F \cup {PatchedRun}
           B == A \cup {ControlRun("masked_response")}
           C == B \cup {ControlRun("mock_only_response")}
           D == C \cup {ControlRun("fresh_session")}
           E == D \cup {ControlRun("same_tenant_document")}
<1>6. /\ ControlRun("masked_response") \notin A /\ ControlRun("mock_only_response") \notin B
      /\ ControlRun("fresh_session") \notin C /\ ControlRun("same_tenant_document") \notin D
  BY <1>3, <1>4
<1>7. E = RunNames
  BY <1>2 DEF RunNames, F
<1>8. IsFiniteSet(A) /\ Cardinality(A) = 6
  BY <1>5
<1> HIDE DEF A
<1>9. IsFiniteSet(B) /\ Cardinality(B) = 7
  BY <1>6, <1>8, FS_AddElement
<1> HIDE DEF B
<1>10. IsFiniteSet(C) /\ Cardinality(C) = 8
  BY <1>6, <1>9, FS_AddElement
<1> HIDE DEF C
<1>11. IsFiniteSet(D) /\ Cardinality(D) = 9
  BY <1>6, <1>10, FS_AddElement
<1> HIDE DEF D
<1>12. IsFiniteSet(E) /\ Cardinality(E) = 10
  BY <1>6, <1>11, FS_AddElement
<1> QED BY <1>7, <1>12

\* Each of them has two containers of its own.
LEMMA TwentyContainers ==
  ASSUME NEW w
  PROVE  Cardinality(UNION {{<<w, r, "app">>, <<w, r, "bridge">>} : r \in RunNames}) = 20
<1> DEFINE A == {<<w, r, "app">> : r \in RunNames}
           B == {<<w, r, "bridge">> : r \in RunNames}
           f == [r \in RunNames |-> <<w, r, "app">>]
           g == [r \in RunNames |-> <<w, r, "bridge">>]
<1>1. UNION {{<<w, r, "app">>, <<w, r, "bridge">>} : r \in RunNames} = A \cup B
  OBVIOUS
<1>2. /\ \A x, y \in RunNames : f[x] = f[y] => x = y
      /\ \A x, y \in RunNames : g[x] = g[y] => x = y
  OBVIOUS
<1>3. A = {f[x] : x \in RunNames} /\ B = {g[x] : x \in RunNames}
  OBVIOUS
<1>4. A \cap B = {}
  OBVIOUS
<1>5. /\ DOMAIN f = RunNames /\ f = [x \in RunNames |-> f[x]]
      /\ DOMAIN g = RunNames /\ g = [x \in RunNames |-> g[x]]
  OBVIOUS
<1> HIDE DEF A, B, f, g
<1>6. IsFiniteSet(A) /\ Cardinality(A) = 10
  BY <1>2, <1>3, <1>5, TenRuns, CountImages
<1>7. IsFiniteSet(B) /\ Cardinality(B) = 10
  BY <1>2, <1>3, <1>5, TenRuns, CountImages
<1>8. Cardinality(A \cup B) = 20
  <2>1. Cardinality(A \cap B) = 0
    BY <1>4, FS_EmptySet
  <2>2. Cardinality(A \cup B) = Cardinality(A) + Cardinality(B) - Cardinality(A \cap B)
    BY <1>6, <1>7, FS_Union
  <2> QED BY <1>6, <1>7, <2>1, <2>2
<1> QED BY <1>1, <1>8
-------------------------------------------------------------------------------
(* What a workflow leaves is taken.                                        *)

\* The clean runs are of one plan, one root and one verdict.
LEMMA CleanAlike ==
  ASSUME NEW i \in CleanRoots, NEW w
  PROVE  /\ CleanRun(i) \in RunNames /\ Mode(CleanRun(i)) = "vulnerable"
         /\ RunPlan(CleanRun(i), w) = RunPlan(PatchedRun, w)
         /\ Verdict(CleanRun(i)) = <<"VIOLATED", 200>>
<1>1. CleanRun(i) # PatchedRun /\ \A n : n # "clean-root" => CleanRun(i) # ControlRun(n)
  BY DEF CleanRun, PatchedRun, ControlRun
<1>2. /\ CleanRun(i) \notin {ControlRun(n) : n \in ControlNames}
      /\ PatchedRun \notin {ControlRun(n) : n \in ControlNames}
  BY <1>1 DEF ControlNames, PatchedRun, ControlRun
<1>3. CleanRun(i) \in RunNames
  BY DEF RunNames
<1>4. Mode(CleanRun(i)) = "vulnerable"
  BY <1>1 DEF Mode
<1>5. RunPlan(CleanRun(i), w) = RunPlan(PatchedRun, w)
  BY <1>2 DEF RunPlan
<1>6. /\ CleanRun(i) # ControlRun("fresh_session") /\ CleanRun(i) # ControlRun("mock_only_response")
      /\ CleanRun(i) \notin {ControlRun("masked_response"), ControlRun("same_tenant_document")}
  BY <1>1
<1>7. Verdict(CleanRun(i)) = <<"VIOLATED", 200>>
  BY <1>1, <1>6 DEF Verdict
<1> QED BY <1>3, <1>4, <1>5, <1>7

\* The live test of every workflow shows four siblings apart (M2).
LEMMA LiveIsValid == ASSUME NEW w PROVE LiveValid(LiveOf(w))
<1> PICK m : m = LiveOf(w)
  OBVIOUS
<1>1. \A s \in Siblings : \A p \in Providers :
        /\ m.worlds[s][p].restored = <<p, 0>> /\ m.worlds[s][p].baseline = <<p, 0>>
        /\ m.worlds[s][p].mutated = <<p, s>>
  BY DEF LiveOf
<1>2. \A s \in Siblings : \A p \in Providers : <<p, s>> # <<p, 0>>
  BY DEF Siblings
<1>3. ASSUME NEW p \in Providers
      PROVE  Cardinality({m.worlds[s][p].mutated : s \in Siblings}) = 4
  <2> DEFINE f == [s \in Siblings |-> m.worlds[s][p].mutated]
  <2>1. \A x, y \in Siblings : f[x] = f[y] => x = y
    BY <1>1
  <2>2. DOMAIN f = Siblings /\ f = [s \in Siblings |-> f[s]]
    OBVIOUS
  <2>3. IsFiniteSet(Siblings) /\ Cardinality(Siblings) = 4
    BY CountTo DEF Siblings
  <2>4. {m.worlds[s][p].mutated : s \in Siblings} = {f[s] : s \in Siblings}
    OBVIOUS
  <2> HIDE DEF f
  <2>5. Cardinality({f[s] : s \in Siblings}) = Cardinality(Siblings)
    BY <2>1, <2>2, <2>3, CountImages
  <2> QED BY <2>3, <2>4, <2>5, Zenon
<1>4. m.cases = CleanupCases /\ m.before = m.after /\ m.residue = {}
  BY DEF LiveOf
<1> QED BY <1>1, <1>2, <1>3, <1>4 DEF LiveValid

\* And every search has released what it allocated (M4).
LEMMA SearchIsValid ==
  ASSUME NEW w PROVE SearchValid(SearchOf(w), SearchView(SearchOf(w)), w.revision)
<1> PICK m : m = SearchOf(w)
  OBVIOUS
<1>1. Cardinality({<<w, "receipt", i>> : i \in 1..7}) = 7
  <2> DEFINE f == [i \in 1..7 |-> <<w, "receipt", i>>]
  <2>1. \A x, y \in 1..7 : f[x] = f[y] => x = y
    OBVIOUS
  <2>2. DOMAIN f = 1..7 /\ f = [i \in 1..7 |-> f[i]]
    OBVIOUS
  <2>3. {<<w, "receipt", i>> : i \in 1..7} = {f[i] : i \in 1..7}
    OBVIOUS
  <2> HIDE DEF f
  <2>4. IsFiniteSet(1..7) /\ Cardinality(1..7) = 7
    BY CountTo
  <2>5. Cardinality({f[i] : i \in 1..7}) = Cardinality(1..7)
    BY <2>1, <2>2, <2>4, CountImages
  <2> QED BY <2>3, <2>4, <2>5, Zenon
<1>2. Cardinality({<<w, i>> : i \in 1..7}) = 7
  <2> DEFINE f == [i \in 1..7 |-> <<w, i>>]
  <2>1. \A x, y \in 1..7 : f[x] = f[y] => x = y
    OBVIOUS
  <2>2. DOMAIN f = 1..7 /\ f = [i \in 1..7 |-> f[i]]
    OBVIOUS
  <2>3. {<<w, i>> : i \in 1..7} = {f[i] : i \in 1..7}
    OBVIOUS
  <2> HIDE DEF f
  <2>4. IsFiniteSet(1..7) /\ Cardinality(1..7) = 7
    BY CountTo
  <2>5. Cardinality({f[i] : i \in 1..7}) = Cardinality(1..7)
    BY <2>1, <2>2, <2>4, CountImages
  <2> QED BY <2>3, <2>4, <2>5, Zenon
<1>3. /\ m.revision = w.revision /\ m.residual = {} /\ m.chain = m.m3.chain
      /\ m.receipts = {<<w, "receipt", i>> : i \in 1..7} /\ m.released = {<<w, i>> : i \in 1..7}
  BY DEF SearchOf
<1> QED BY <1>1, <1>2, <1>3 DEF SearchValid

\* s is the run r of the workflow w.
WitnessIs(s, r, w) ==
  /\ s.run = r /\ s.plan = RunPlan(r, w) /\ s.root = RunRoot(r, w)
  /\ s.result = ProcessResult(r, w) /\ s.destroyed
  /\ s.request = [run |-> r, plan |-> RunPlan(r, w), root |-> RunRoot(r, w), mode |-> Mode(r)]
  /\ s.image = [source |-> w.revision, containers |-> {<<w, r, "app">>, <<w, r, "bridge">>}]
  /\ s.initial = CheckpointOf(r, w, 0) /\ s.final = CheckpointOf(r, w, 2)

\* t are the steps of such a run.
StepsAre(t, r, w) ==
  /\ t[1].call = <<RunPlan(r, w), 1>> /\ t[2].call = <<RunPlan(r, w), 2>>
  /\ t[1].before = CheckpointOf(r, w, 0) /\ t[1].after = CheckpointOf(r, w, 1)
  /\ t[2].before = CheckpointOf(r, w, 1) /\ t[2].after = CheckpointOf(r, w, 2)
  /\ t[1].answer = <<"NONE", 200>> /\ t[2].answer = Verdict(r)

\* The fields of one run (MaterializedRun).
LEMMA WitnessFields == ASSUME NEW r, NEW w PROVE WitnessIs(WitnessOf(r, w), r, w)
BY DEF WitnessOf, PlanLength, WitnessIs

\* Every checkpoint is held by all six providers.
LEMMA CheckpointIsValid == ASSUME NEW r, NEW w, NEW i PROVE CheckpointValid(CheckpointOf(r, w, i))
BY DEF CheckpointValid, CheckpointOf

\* The fields of the two steps.
LEMMA StepFields == ASSUME NEW r, NEW w PROVE StepsAre(WitnessOf(r, w).steps, r, w)
<1> PICK t : t = WitnessOf(r, w).steps
  OBVIOUS
<1> DEFINE u(i) == [call |-> <<RunPlan(r, w), i>>, before |-> CheckpointOf(r, w, i - 1),
                    after |-> CheckpointOf(r, w, i),
                    answer |-> IF i = 2 THEN Verdict(r) ELSE <<"NONE", 200>>]
<1>1. t = [i \in 1..2 |-> u(i)]
  BY DEF WitnessOf, PlanLength
<1>2. t[1] = u(1) /\ t[2] = u(2)
  <2> HIDE DEF u
  <2> QED BY <1>1
<1>3. 1 - 1 = 0 /\ 2 - 1 = 1 /\ 1 # 2
  OBVIOUS
<1>4. /\ u(1).call = <<RunPlan(r, w), 1>> /\ u(2).call = <<RunPlan(r, w), 2>>
      /\ u(1).before = CheckpointOf(r, w, 0) /\ u(1).after = CheckpointOf(r, w, 1)
      /\ u(2).before = CheckpointOf(r, w, 1) /\ u(2).after = CheckpointOf(r, w, 2)
      /\ u(1).answer = <<"NONE", 200>> /\ u(2).answer = Verdict(r)
  BY <1>3
<1> HIDE DEF u
<1> QED BY <1>2, <1>4 DEF StepsAre

\* One run chains its checkpoints (_validate_actual_m5_run).
LEMMA WitnessIsChained == ASSUME NEW r, NEW w PROVE WitnessChained(WitnessOf(r, w), r)
<1> PICK s : s = WitnessOf(r, w)
  OBVIOUS
<1>0. WitnessIs(s, r, w) /\ StepsAre(s.steps, r, w)
  BY WitnessFields, StepFields
<1>1. /\ s.initial = CheckpointOf(r, w, 0) /\ s.final = CheckpointOf(r, w, 2)
      /\ s.plan = RunPlan(r, w)
  BY <1>0 DEF WitnessIs
<1>2. /\ s.steps[1].call = <<RunPlan(r, w), 1>> /\ s.steps[2].call = <<RunPlan(r, w), 2>>
      /\ s.steps[1].before = CheckpointOf(r, w, 0) /\ s.steps[1].after = CheckpointOf(r, w, 1)
      /\ s.steps[2].before = CheckpointOf(r, w, 1) /\ s.steps[2].after = CheckpointOf(r, w, 2)
      /\ s.steps[2].answer = Verdict(r)
  BY <1>0 DEF StepsAre
<1>3. \A i : CheckpointValid(CheckpointOf(r, w, i))
  BY CheckpointIsValid
<1>4. ASSUME NEW i \in 1..2
      PROVE  /\ CheckpointValid(s.steps[i].before) /\ CheckpointValid(s.steps[i].after)
             /\ s.steps[i].before = IF i = 1 THEN s.initial ELSE s.steps[i - 1].after
             /\ s.steps[i].call = <<s.plan, i>>
  <2>1. CASE i = 1
    BY <1>1, <1>2, <1>3, <2>1
  <2>2. CASE i = 2
    <3>1. i - 1 = 1 /\ i # 1
      BY <2>2
    <3> QED BY <1>1, <1>2, <1>3, <2>2, <3>1
  <2> QED BY <2>1, <2>2
<1> QED BY <1>1, <1>2, <1>3, <1>4 DEF WitnessChained, PlanLength

\* p is the in-process receipt of w.
ProcessIs(p, w) ==
  /\ p.revision = w.revision /\ p.m4 = SearchOf(w) /\ p.plan = RunPlan(PatchedRun, w)
  /\ \A r \in RunNames : /\ p.plans[r] = RunPlan(r, w) /\ p.roots[r] = RunRoot(r, w)
                         /\ p.results[r] = ProcessResult(r, w)

\* The fields of the in-process receipt (m5_plan).
LEMMA ProcessFields == ASSUME NEW w PROVE ProcessIs(ProcessOf(w), w)
BY DEF ProcessOf, ProcessIs

\* m is the composite receipt of w.
CompositeIs(m, w) ==
  /\ m.revision = w.revision /\ m.m4 = SearchOf(w) /\ m.lineage = w /\ m.process = ProcessOf(w)
  /\ m.plan = RunPlan(PatchedRun, w) /\ m.runs = [r \in RunNames |-> WitnessOf(r, w)]
  /\ m.signatures = [i \in CleanRoots |-> ActualSignature(WitnessOf(CleanRun(i), w))]
  /\ m.image = WitnessOf(CleanRun(1), w).image
  /\ m.initial = WitnessOf(CleanRun(1), w).initial /\ m.cleanups = 10

\* The fields of the composite receipt (materialized_chain_qualification).
LEMMA CompositeFields == ASSUME NEW w PROVE CompositeIs(ActualOf(w), w)
<1> DEFINE runs == [r \in RunNames |-> WitnessOf(r, w)]
<1>1. \A i \in CleanRoots : runs[CleanRun(i)] = WitnessOf(CleanRun(i), w)
  BY CleanAlike
<1>2. 1 \in CleanRoots
  BY DEF CleanRoots
<1>3. [i \in CleanRoots |-> ActualSignature(runs[CleanRun(i)])] =
        [i \in CleanRoots |-> ActualSignature(WitnessOf(CleanRun(i), w))]
  BY <1>1
<1>4. Cardinality(RunNames) = 10
  BY TenRuns
<1>5. ActualOf(w) =
        [revision |-> w.revision, m4 |-> SearchOf(w), lineage |-> w, process |-> ProcessOf(w),
         plan |-> RunPlan(PatchedRun, w), runs |-> runs,
         signatures |-> [i \in CleanRoots |-> ActualSignature(runs[CleanRun(i)])],
         image |-> runs[CleanRun(1)].image, initial |-> runs[CleanRun(1)].initial,
         cleanups |-> Cardinality(RunNames)]
  BY DEF ActualOf
<1> HIDE DEF runs
<1>6. runs = [r \in RunNames |-> WitnessOf(r, w)]
  BY DEF runs
<1> QED BY <1>1, <1>2, <1>3, <1>4, <1>5, <1>6 DEF CompositeIs

\* What is compared of a run.
LEMMA SignatureFields ==
  ASSUME NEW s
  PROVE  /\ ActualSignature(s).request = [s.request EXCEPT !.run = PatchedRun]
         /\ ActualSignature(s).initial = s.initial /\ ActualSignature(s).steps = s.steps
         /\ ActualSignature(s).final = s.final
BY DEF ActualSignature

\* The steps of a run depend on its plan, its root and its verdict.
LEMMA StepsAlike ==
  ASSUME NEW r, NEW w, NEW s, NEW v, RunPlan(s, v) = RunPlan(r, w),
         RunRoot(s, v) = RunRoot(r, w), Verdict(s) = Verdict(r)
  PROVE  /\ WitnessOf(s, v).steps = WitnessOf(r, w).steps
         /\ WitnessOf(s, v).initial = WitnessOf(r, w).initial
         /\ WitnessOf(s, v).final = WitnessOf(r, w).final
<1>1. \A i : CheckpointOf(s, v, i) = CheckpointOf(r, w, i)
  BY DEF CheckpointOf
<1> DEFINE x(i) == [call |-> <<RunPlan(s, v), i>>, before |-> CheckpointOf(s, v, i - 1),
                    after |-> CheckpointOf(s, v, i),
                    answer |-> IF i = PlanLength THEN Verdict(s) ELSE <<"NONE", 200>>]
           y(i) == [call |-> <<RunPlan(r, w), i>>, before |-> CheckpointOf(r, w, i - 1),
                    after |-> CheckpointOf(r, w, i),
                    answer |-> IF i = PlanLength THEN Verdict(r) ELSE <<"NONE", 200>>]
<1>2. WitnessOf(s, v).steps = [i \in 1..PlanLength |-> x(i)]
  BY DEF WitnessOf
<1>3. WitnessOf(r, w).steps = [i \in 1..PlanLength |-> y(i)]
  BY DEF WitnessOf
<1>a. ASSUME NEW i PROVE x(i) = y(i)
  <2>1. CheckpointOf(s, v, i - 1) = CheckpointOf(r, w, i - 1)
    BY <1>1, Zenon
  <2>2. CheckpointOf(s, v, i) = CheckpointOf(r, w, i)
    BY <1>1, Zenon
  <2> QED BY <2>1, <2>2, Zenon
<1> HIDE DEF x, y
<1>4. WitnessOf(s, v).steps = WitnessOf(r, w).steps
  BY <1>2, <1>3, <1>a
<1>5. /\ WitnessIs(WitnessOf(s, v), s, v) /\ WitnessIs(WitnessOf(r, w), r, w)
  BY WitnessFields
<1> QED BY <1>1, <1>4, <1>5 DEF WitnessIs

\* The clean runs show the same (_validate_actual_m5_composite).
LEMMA CleanSignatures ==
  ASSUME NEW i \in CleanRoots, NEW j \in CleanRoots, NEW w
  PROVE  /\ ActualSignature(WitnessOf(CleanRun(i), w)) = ActualSignature(WitnessOf(CleanRun(j), w))
         /\ WitnessOf(CleanRun(i), w).initial = WitnessOf(CleanRun(j), w).initial
<1> DEFINE a == CleanRun(i)
           b == CleanRun(j)
<1>1. /\ RunPlan(a, w) = RunPlan(b, w) /\ RunRoot(a, w) = RunRoot(b, w)
      /\ Verdict(a) = Verdict(b) /\ Mode(a) = Mode(b)
  BY CleanAlike DEF RunRoot
<1> HIDE DEF a, b
<1>2. /\ WitnessOf(a, w).steps = WitnessOf(b, w).steps
      /\ WitnessOf(a, w).initial = WitnessOf(b, w).initial
      /\ WitnessOf(a, w).final = WitnessOf(b, w).final
  BY <1>1, StepsAlike
<1>3. [WitnessOf(a, w).request EXCEPT !.run = PatchedRun] =
        [WitnessOf(b, w).request EXCEPT !.run = PatchedRun]
  <2>1. /\ WitnessOf(a, w).request = [run |-> a, plan |-> RunPlan(a, w), root |-> RunRoot(a, w),
                                      mode |-> Mode(a)]
        /\ WitnessOf(b, w).request = [run |-> b, plan |-> RunPlan(b, w), root |-> RunRoot(b, w),
                                      mode |-> Mode(b)]
    BY WitnessFields DEF WitnessIs
  <2> QED BY <1>1, <2>1
<1>4. ActualSignature(WitnessOf(a, w)) = ActualSignature(WitnessOf(b, w))
  BY <1>2, <1>3 DEF ActualSignature
<1> QED BY <1>2, <1>4 DEF a, b

\* What a workflow leaves of its composite is bound to the rest and chained
\* (_validate_actual_m5_composite).
LEMMA CompositeIsValid ==
  ASSUME NEW w
  PROVE  /\ CompositeBound(ActualOf(w), SearchOf(w), ProcessOf(w), w.revision)
         /\ CompositeRuns(ActualOf(w), ActualView(ActualOf(w)), ProcessOf(w), w.revision)
<1> PICK m : m = ActualOf(w)
  OBVIOUS
<1> PICK p : p = ProcessOf(w)
  OBVIOUS
<1>0. CompositeIs(m, w) /\ ProcessIs(p, w)
  BY CompositeFields, ProcessFields
<1>1. SearchOf(w).winner = w
  BY DEF SearchOf
<1>2. CompositeBound(m, SearchOf(w), p, w.revision)
  BY <1>0, <1>1 DEF CompositeBound, CompositeIs, ProcessIs
<1>3. \A r \in RunNames : m.runs[r] = WitnessOf(r, w)
  BY <1>0 DEF CompositeIs
<1>4. ASSUME NEW r \in RunNames
      PROVE  WitnessBound(m.runs[r], r, p) /\ WitnessChained(m.runs[r], r)
             /\ m.runs[r].image = [source |-> w.revision,
                                   containers |-> {<<w, r, "app">>, <<w, r, "bridge">>}]
  <2>1. m.runs[r] = WitnessOf(r, w) /\ WitnessIs(m.runs[r], r, w)
    BY <1>3, WitnessFields
  <2>2. /\ p.plans[r] = RunPlan(r, w) /\ p.roots[r] = RunRoot(r, w)
        /\ p.results[r] = ProcessResult(r, w)
    BY <1>0 DEF ProcessIs
  <2>3. WitnessBound(m.runs[r], r, p)
    BY <2>1, <2>2 DEF WitnessBound, WitnessIs
  <2> QED BY <2>1, <2>3, WitnessIsChained DEF WitnessIs
<1>5. \A r \in RunNames : /\ m.runs[r].image.source = w.revision
                          /\ m.runs[r].image.containers = {<<w, r, "app">>, <<w, r, "bridge">>}
  <2> TAKE r \in RunNames
  <2> PICK x : x = m.runs[r].image
    OBVIOUS
  <2>1. x = [source |-> w.revision, containers |-> {<<w, r, "app">>, <<w, r, "bridge">>}]
    BY <1>4
  <2> QED BY <2>1
<1>6. Cardinality(UNION {m.runs[r].image.containers : r \in RunNames}) = 20
  <2>1. {m.runs[r].image.containers : r \in RunNames} =
          {{<<w, r, "app">>, <<w, r, "bridge">>} : r \in RunNames}
    BY <1>5
  <2> QED BY <2>1, TwentyContainers
<1>7. \A i \in CleanRoots : CleanRun(i) \in RunNames
  BY CleanAlike
<1>8. 1 \in CleanRoots
  BY DEF CleanRoots
<1>9. m.image = m.runs[CleanRun(1)].image /\ m.image.source = w.revision
  BY <1>0, <1>3, <1>5, <1>7, <1>8 DEF CompositeIs
<1>10. ASSUME NEW i \in CleanRoots
       PROVE  /\ m.runs[CleanRun(i)].initial.bytes = m.initial.bytes
              /\ m.signatures[i] = ActualSignature(m.runs[CleanRun(i)])
              /\ m.signatures[i] = m.signatures[1]
  <2>1. /\ m.runs[CleanRun(i)] = WitnessOf(CleanRun(i), w)
        /\ m.initial = WitnessOf(CleanRun(1), w).initial
        /\ m.signatures[i] = ActualSignature(WitnessOf(CleanRun(i), w))
        /\ m.signatures[1] = ActualSignature(WitnessOf(CleanRun(1), w))
    BY <1>0, <1>3, <1>7, <1>8 DEF CompositeIs
  <2>2. /\ ActualSignature(WitnessOf(CleanRun(i), w)) = ActualSignature(WitnessOf(CleanRun(1), w))
        /\ WitnessOf(CleanRun(i), w).initial = WitnessOf(CleanRun(1), w).initial
    BY <1>8, CleanSignatures
  <2> QED BY <2>1, <2>2
<1>11. \A r \in RunNames : m.runs[r].image.source = m.image.source
  BY <1>5, <1>9
<1>12. CompositeRuns(m, ActualView(m), p, w.revision)
  BY <1>4, <1>6, <1>9, <1>10, <1>11 DEF CompositeRuns
<1> QED BY <1>2, <1>12
-------------------------------------------------------------------------------
(* What is taken is of one revision.                                       *)

\* The four directories of a workflow.
LEMMA LeftFields ==
  ASSUME NEW w \in Workflows
  PROVE  /\ Left[w].m2 = LiveOf(w) /\ Left[w].m4 = SearchOf(w)
         /\ Left[w].process = ProcessOf(w) /\ Left[w].actual = ActualOf(w)
         /\ Left[w] = [m2 |-> LiveOf(w), m4 |-> SearchOf(w), process |-> ProcessOf(w),
                       actual |-> ActualOf(w)]
BY DEF Left, DirectoriesOf

\* The fields of a receipt.
LEMMA ReceiptFields ==
  ASSUME NEW d, NEW marker
  PROVE  LET q == Receipt(d, marker)
         IN  /\ q.revision = marker /\ q.m2 = d.m2 /\ q.m4 = d.m4
             /\ q.m4view = SearchView(d.m4) /\ q.process = d.process
             /\ q.actual = d.actual /\ q.view = ActualView(d.actual)
BY DEF Receipt

\* A search is known by its winner.
LEMMA OneSearch == ASSUME NEW v, NEW w, SearchOf(v) = SearchOf(w) PROVE v = w
<1>1. SearchOf(v).winner = v /\ SearchOf(w).winner = w
  BY DEF SearchOf
<1> QED BY <1>1

\* d holds the directories of w, the live test aside.
DirectoriesAre(d, w) ==
  d.m4 = SearchOf(w) /\ d.process = ProcessOf(w) /\ d.actual = ActualOf(w)

\* Receipts that name one search are of one workflow.
LEMMA OneWorkflow ==
  ASSUME NEW d, NEW b \in Workflows, NEW c \in Workflows, NEW e \in Workflows,
         d.m4 = SearchOf(b), d.process = ProcessOf(c), d.actual = ActualOf(e),
         d.process.m4 = d.m4, d.actual.m4 = d.m4
  PROVE  DirectoriesAre(d, b)
<1>1. ProcessOf(c).m4 = SearchOf(c) /\ ActualOf(e).m4 = SearchOf(e)
  BY ProcessFields, CompositeFields DEF ProcessIs, CompositeIs
<1>2. c = b /\ e = b
  BY <1>1, OneSearch
<1> QED BY <1>2 DEF DirectoriesAre

\* The receipt of one workflow says what it is meant to say.
LEMMA WorkflowAdmitted ==
  ASSUME NEW d, NEW a \in Workflows, NEW w \in Workflows, d.m2 = LiveOf(a), DirectoriesAre(d, w)
  PROVE  /\ ReceiptValid(Receipt(d, w.revision))
         /\ OneRevision(Receipt(d, w.revision))
<1> PICK q : q = Receipt(d, w.revision)
  OBVIOUS
<1>1. /\ q.revision = w.revision /\ q.m2 = LiveOf(a) /\ q.m4 = SearchOf(w)
      /\ q.m4view = SearchView(SearchOf(w)) /\ q.process = ProcessOf(w)
      /\ q.actual = ActualOf(w) /\ q.view = ActualView(ActualOf(w))
  BY ReceiptFields DEF DirectoriesAre
<1>2. ProcessIs(q.process, w) /\ CompositeIs(q.actual, w)
  BY <1>1, ProcessFields, CompositeFields
<1>3. /\ LiveValid(q.m2) /\ SearchValid(q.m4, q.m4view, q.revision)
      /\ CompositeBound(q.actual, q.m4, q.process, q.revision)
      /\ CompositeRuns(q.actual, q.view, q.process, q.revision)
  BY <1>1, LiveIsValid, SearchIsValid, CompositeIsValid
<1>4. q.process.revision = q.revision /\ q.process.m4 = q.m4
  BY <1>1, <1>2 DEF ProcessIs
<1>5. ReceiptValid(q)
  BY <1>3, <1>4 DEF ReceiptValid
<1>6. q.m4 = Left[w].m4 /\ q.process = Left[w].process /\ q.actual.lineage = w
  BY <1>1, <1>2, LeftFields DEF CompositeIs
<1>7. \A r \in RunNames : q.actual.runs[r] = WitnessOf(r, w)
  BY <1>2 DEF CompositeIs
<1>8. OneRevision(q)
  BY <1>1, <1>6, <1>7 DEF OneRevision
<1> QED BY <1>5, <1>8

\* Directories of several workflows put beside one another.
LEMMA MixturesSound ==
  ASSUME NEW d \in Mixtures, NEW marker
  PROVE  /\ Producible(d, marker) => ReceiptValid(Receipt(d, marker))
         /\ AdmissionValid(Admission(Receipt(d, marker), marker), marker) =>
              OneRevision(Receipt(d, marker))
<1>1. PICK a \in Workflows, b \in Workflows, c \in Workflows, e \in Workflows :
        d = [m2 |-> Left[a].m2, m4 |-> Left[b].m4, process |-> Left[c].process,
             actual |-> Left[e].actual]
  <2>1. PICK h \in Assemblies : d = Directories(h)
    BY DEF Mixtures
  <2>2. h.m2 \in Workflows /\ h.m4 \in Workflows /\ h.process \in Workflows /\ h.actual \in Workflows
    BY DEF Assemblies
  <2> QED BY <2>1, <2>2 DEF Directories
<1>2. /\ d.m2 = LiveOf(a) /\ d.m4 = SearchOf(b) /\ d.process = ProcessOf(c)
      /\ d.actual = ActualOf(e)
  BY <1>1, LeftFields
<1>3. SearchOf(b).revision = b.revision /\ ProcessOf(c).revision = c.revision
  BY ProcessFields DEF SearchOf, ProcessIs
<1>4. ASSUME d.process.m4 = d.m4, d.actual.m4 = d.m4, marker = b.revision
      PROVE  ReceiptValid(Receipt(d, marker)) /\ OneRevision(Receipt(d, marker))
  <2>1. DirectoriesAre(d, b)
    BY <1>2, <1>4, OneWorkflow
  <2> QED BY <1>2, <1>4, <2>1, WorkflowAdmitted
<1>5. ASSUME Producible(d, marker) PROVE ReceiptValid(Receipt(d, marker))
  <2>1. d.process.m4 = d.m4 /\ d.actual.m4 = d.m4 /\ d.process.revision = marker
    BY <1>5 DEF Producible
  <2>2. DirectoriesAre(d, b)
    BY <1>2, <2>1, OneWorkflow
  <2>3. ProcessOf(b).revision = b.revision
    BY ProcessFields DEF ProcessIs
  <2>4. marker = b.revision
    BY <2>1, <2>2, <2>3 DEF DirectoriesAre
  <2> QED BY <1>4, <2>1, <2>4
<1>6. ASSUME AdmissionValid(Admission(Receipt(d, marker), marker), marker)
      PROVE  OneRevision(Receipt(d, marker))
  <2> PICK q : q = Receipt(d, marker)
    OBVIOUS
  <2>1. ReceiptValid(q)
    BY <1>6 DEF AdmissionValid, Admission
  <2>2. /\ q.revision = marker /\ q.m4 = d.m4 /\ q.process = d.process /\ q.actual = d.actual
    BY ReceiptFields
  <2>3. d.process.m4 = d.m4 /\ d.actual.m4 = d.m4 /\ d.m4.revision = marker
    BY <2>1, <2>2 DEF ReceiptValid, CompositeBound, SearchValid
  <2> QED BY <1>2, <1>3, <1>4, <2>3
<1> QED BY <1>5, <1>6

\* The runs that are put together.
Mixed == {CleanRun(1), CleanRun(2), PatchedRun, ControlRun("fresh_session")}

\* x is the run r of w, in one part another run.
Patchwork(x, r, w) ==
  /\ r \in Mixed /\ r \in RunNames
  /\ \E s \in Mixed, v \in Workflows, part \in WitnessParts :
       x = [WitnessOf(r, w) EXCEPT ![part] = WitnessOf(s, v)[part]]

\* What a run put together of two must be, if it passes for the run r of w
\* (_validate_actual_m5_run).
LEMMA WitnessPassed ==
  ASSUME NEW r, NEW w, NEW x, Patchwork(x, r, w),
         WitnessBound(x, r, ProcessOf(w)), WitnessChained(x, r)
  PROVE  ActualSignature(x) = ActualSignature(WitnessOf(r, w))
<1>0. r \in Mixed /\ r \in RunNames
  BY DEF Patchwork
<1>p. PICK s \in Mixed, v \in Workflows, part \in WitnessParts :
        x = [WitnessOf(r, w) EXCEPT ![part] = WitnessOf(s, v)[part]]
  BY DEF Patchwork
<1> PICK y : y = WitnessOf(r, w)
  OBVIOUS
<1> PICK z : z = WitnessOf(s, v)
  OBVIOUS
<1>1. /\ WitnessIs(y, r, w) /\ StepsAre(y.steps, r, w)
      /\ WitnessIs(z, s, v) /\ StepsAre(z.steps, s, v)
  BY WitnessFields, StepFields
<1>2. DOMAIN y = {"run", "plan", "root", "result", "request", "image", "initial", "final",
                  "steps", "destroyed"}
  BY DEF WitnessOf
<1>3. /\ \A f \in DOMAIN y \ {part} : x[f] = y[f]
      /\ x[part] = z[part]
  BY <1>2, <1>p DEF WitnessParts
<1>4. x.request = y.request
  <2>1. x.request = [run |-> r, plan |-> x.plan, root |-> x.root, mode |-> Mode(r)]
    BY DEF WitnessBound
  <2>2. x.plan = RunPlan(r, w) /\ x.root = RunRoot(r, w)
    <3>1. ProcessIs(ProcessOf(w), w)
      BY ProcessFields
    <3> QED BY <1>0, <3>1 DEF WitnessBound, ProcessIs
  <2> QED BY <1>1, <2>1, <2>2 DEF WitnessIs
<1>5. /\ x.steps[1].before = x.initial /\ x.final = x.steps[2].after
      /\ x.steps[1].call = <<x.plan, 1>> /\ x.steps[2].answer[2] = Verdict(r)[2]
      /\ x.steps[2].answer[1] = "VIOLATED" <=> Verdict(r)[1] = "VIOLATED"
  BY DEF WitnessChained, PlanLength
<1>6. CASE part # "steps"
  <2>1. x.steps = y.steps
    BY <1>2, <1>3, <1>6
  <2>2. x.initial = y.initial /\ x.final = y.final
    BY <1>1, <1>5, <2>1 DEF WitnessIs, StepsAre
  <2> QED BY <1>4, <2>1, <2>2 DEF ActualSignature
<1>7. CASE part = "steps"
  <2>1. x.steps = z.steps /\ x.initial = y.initial /\ x.final = y.final /\ x.plan = y.plan
    BY <1>2, <1>3, <1>7
  <2>2. RunPlan(s, v) = RunPlan(r, w)
    BY <1>1, <1>5, <2>1 DEF WitnessIs, StepsAre
  <2>3. RunRoot(s, v) = RunRoot(r, w)
    <3>1. CheckpointOf(s, v, 0) = CheckpointOf(r, w, 0)
      BY <1>1, <1>5, <2>1 DEF WitnessIs, StepsAre
    <3>2. /\ CheckpointOf(s, v, 0).bytes = <<RunRoot(s, v), "seed", 0>>
          /\ CheckpointOf(r, w, 0).bytes = <<RunRoot(r, w), "seed", 0>>
      BY DEF CheckpointOf
    <3>3. <<RunRoot(s, v), "seed", 0>> = <<RunRoot(r, w), "seed", 0>>
      BY <3>1, <3>2
    <3> QED BY <3>3
  <2>4. Verdict(s) = Verdict(r)
    <3>1. x.steps[2].answer = Verdict(s)
      BY <1>1, <2>1 DEF StepsAre
    <3>2. ASSUME NEW t \in Mixed
          PROVE  Verdict(t) \in {<<"VIOLATED", 200>>, <<"SATISFIED", 403>>}
      <4>1. CASE t \in {CleanRun(1), CleanRun(2)}
        <5>1. 1 \in CleanRoots /\ 2 \in CleanRoots
          BY DEF CleanRoots
        <5>2. Verdict(CleanRun(1)) = <<"VIOLATED", 200>> /\ Verdict(CleanRun(2)) = <<"VIOLATED", 200>>
          BY <5>1, CleanAlike
        <5> QED BY <4>1, <5>2
      <4>2. CASE t = PatchedRun
        <5>1. PatchedRun # ControlRun("fresh_session") /\ PatchedRun # ControlRun("mock_only_response")
              /\ PatchedRun \notin {ControlRun("masked_response"), ControlRun("same_tenant_document")}
          BY DEF PatchedRun, ControlRun
        <5> QED BY <4>2, <5>1 DEF Verdict
      <4>3. CASE t = ControlRun("fresh_session")
        <5>1. ControlRun("fresh_session") # PatchedRun
          BY DEF ControlRun, PatchedRun
        <5>2. /\ ControlRun("fresh_session") # ControlRun("mock_only_response")
              /\ ControlRun("fresh_session") \notin
                   {ControlRun("masked_response"), ControlRun("same_tenant_document")}
          BY DEF ControlRun
        <5> QED BY <4>3, <5>1, <5>2 DEF Verdict
      <4> QED BY <4>1, <4>2, <4>3 DEF Mixed
    <3>3. /\ Verdict(s) \in {<<"VIOLATED", 200>>, <<"SATISFIED", 403>>}
          /\ Verdict(r) \in {<<"VIOLATED", 200>>, <<"SATISFIED", 403>>}
      BY <1>0, <1>p, <3>2
    <3>4. Verdict(s)[2] = Verdict(r)[2]
      BY <1>5, <3>1
    <3> QED BY <3>3, <3>4
  <2>5. z.steps = y.steps
    BY <2>2, <2>3, <2>4, StepsAlike
  <2> QED BY <1>4, <2>1, <2>5 DEF ActualSignature
<1> QED BY <1>6, <1>7

\* A composite with a run that is in part another one.
LEMMA PatchworksSound ==
  ASSUME NEW d \in Patchworks, NEW marker, ReceiptValid(Receipt(d, marker))
  PROVE  OneRevision(Receipt(d, marker))
<1>1. PICK w \in Workflows, v \in Workflows,
           r \in {CleanRun(1), CleanRun(2), PatchedRun, ControlRun("fresh_session")},
           s \in {CleanRun(1), PatchedRun, ControlRun("fresh_session")},
           part \in WitnessParts :
        d = [Left[w] EXCEPT !.actual.runs[r] = [@ EXCEPT ![part] = WitnessOf(s, v)[part]]]
  BY DEF Patchworks
<1> PICK m : m = ActualOf(w)
  OBVIOUS
<1> PICK q : q = Receipt(d, marker)
  OBVIOUS
<1>2. r \in RunNames
  <2>1. 1 \in CleanRoots /\ 2 \in CleanRoots
    BY DEF CleanRoots
  <2> QED BY <2>1 DEF RunNames, ControlNames
<1>3. CompositeIs(m, w)
  BY CompositeFields
<1> PICK x : x = [WitnessOf(r, w) EXCEPT ![part] = WitnessOf(s, v)[part]]
  OBVIOUS
<1> PICK n : n = [m EXCEPT !.runs = [m.runs EXCEPT ![r] = x]]
  OBVIOUS
<1>4. /\ DOMAIN m = {"revision", "m4", "lineage", "process", "plan", "runs", "signatures",
                     "image", "initial", "cleanups"}
      /\ DOMAIN m.runs = RunNames /\ m.runs[r] = WitnessOf(r, w)
  <2>1. DOMAIN m = {"revision", "m4", "lineage", "process", "plan", "runs", "signatures",
                    "image", "initial", "cleanups"}
    BY DEF ActualOf
  <2> QED BY <1>2, <1>3, <2>1 DEF CompositeIs
<1>5. /\ d.m4 = SearchOf(w) /\ d.process = ProcessOf(w) /\ d.actual = n
  <2>1. Left[w] = [m2 |-> LiveOf(w), m4 |-> SearchOf(w), process |-> ProcessOf(w), actual |-> m]
    BY LeftFields
  <2>2. Left[w].actual = m /\ Left[w].actual.runs[r] = WitnessOf(r, w)
    BY <1>4, <2>1
  <2>3. d = [Left[w] EXCEPT !.actual.runs[r] = x]
    BY <1>1, <2>2
  <2>4. d = [Left[w] EXCEPT !.actual = n]
    BY <2>2, <2>3
  <2> QED BY <2>1, <2>4
<1>6. /\ n.runs[r] = x /\ \A t \in RunNames \ {r} : n.runs[t] = WitnessOf(t, w)
      /\ n.lineage = w
  BY <1>2, <1>3, <1>4 DEF CompositeIs
<1>7. /\ q.revision = marker /\ q.m4 = SearchOf(w) /\ q.process = ProcessOf(w) /\ q.actual = n
  BY <1>5, ReceiptFields
<1>8. marker = w.revision
  <2>1. q.m4.revision = q.revision
    BY DEF ReceiptValid, SearchValid
  <2>2. SearchOf(w).revision = w.revision
    BY DEF SearchOf
  <2> QED BY <1>7, <2>1, <2>2
<1>9. WitnessBound(x, r, ProcessOf(w)) /\ WitnessChained(x, r)
  <2>1. CompositeRuns(q.actual, q.view, q.process, q.revision)
    BY DEF ReceiptValid
  <2>2. WitnessBound(q.actual.runs[r], r, q.process) /\ WitnessChained(q.actual.runs[r], r)
    BY <1>2, <2>1, Zenon DEF CompositeRuns
  <2>3. q.actual.runs[r] = x /\ q.process = ProcessOf(w)
    BY <1>6, <1>7
  <2> QED BY <2>2, <2>3, Zenon
<1>10. ActualSignature(x) = ActualSignature(WitnessOf(r, w))
  <2>1. Patchwork(x, r, w)
    <3>1. r \in Mixed /\ s \in Mixed
      BY DEF Mixed
    <3> QED BY <1>2, <3>1 DEF Patchwork
  <2> QED BY <1>9, <2>1, WitnessPassed
<1>11. ASSUME NEW t \in RunNames
       PROVE  ActualSignature(q.actual.runs[t]) = ActualSignature(WitnessOf(t, w))
  <2>1. CASE t = r
    BY <1>6, <1>7, <1>10, <2>1
  <2>2. CASE t # r
    BY <1>6, <1>7, <2>2
  <2> QED BY <2>1, <2>2
<1>12. q.m4 = Left[w].m4 /\ q.process = Left[w].process /\ q.actual.lineage = w
  BY <1>6, <1>7, LeftFields
<1> QED BY <1>7, <1>8, <1>11, <1>12 DEF OneRevision

\* What the consumer takes is in its search and its replays one workflow's, and with
\* the live test of the same revision if the producer built it
\* (validate_hosted_qualification_admission, build_hosted_docker_qualification).
LEMMA HostedIsWhole ==
  ASSUME NEW h, NEW marker, <<h, marker>> \in HostedValid
  PROVE  OneWorkflowAt(h, marker)
<1>1. /\ h \in Assemblies
      /\ AdmissionValid(Admission(Receipt(Directories(h), h.m4.revision), h.m4.revision), marker)
  BY DEF HostedValid
<1>2. h.m2 \in Workflows /\ h.m4 \in Workflows /\ h.process \in Workflows /\ h.actual \in Workflows
  BY <1>1 DEF Assemblies
<1> PICK d : d = Directories(h)
  OBVIOUS
<1> PICK q : q = Receipt(d, h.m4.revision)
  OBVIOUS
<1>3. /\ d.m2 = LiveOf(h.m2) /\ d.m4 = SearchOf(h.m4)
      /\ d.process = ProcessOf(h.process) /\ d.actual = ActualOf(h.actual)
  BY <1>2, LeftFields DEF Directories
<1>4. ReceiptValid(q) /\ q.revision = marker
  BY <1>1 DEF AdmissionValid, Admission
<1>5. /\ q.revision = h.m4.revision /\ q.m4 = d.m4 /\ q.process = d.process /\ q.actual = d.actual
  BY ReceiptFields
<1>6. d.process.m4 = d.m4 /\ d.actual.m4 = d.m4
  BY <1>4, <1>5 DEF ReceiptValid, CompositeBound
<1>7. ProcessOf(h.process).m4 = SearchOf(h.process) /\ ActualOf(h.actual).m4 = SearchOf(h.actual)
  BY ProcessFields, CompositeFields DEF ProcessIs, CompositeIs
<1>8. h.process = h.m4 /\ h.actual = h.m4
  BY <1>3, <1>6, <1>7, OneSearch
<1>9. Producible(d, marker) => h.m2.revision = marker
  BY <1>3 DEF Producible, LiveOf
<1> QED BY <1>4, <1>5, <1>8, <1>9 DEF OneWorkflowAt

\* The producer builds nothing the consumer refuses, and of nothing the consumer
\* takes are the search and the replays of two revisions.
LEMMA AdmissionsAreSound == AdmissionsSound
<1>1. ASSUME NEW w \in Workflows PROVE Producible(Left[w], w.revision)
  <2>1. /\ Left[w].m2 = LiveOf(w) /\ Left[w].m4 = SearchOf(w)
        /\ Left[w].process = ProcessOf(w) /\ Left[w].actual = ActualOf(w)
    BY LeftFields
  <2>2. ProcessIs(ProcessOf(w), w) /\ CompositeIs(ActualOf(w), w)
    BY ProcessFields, CompositeFields
  <2>3. /\ LiveOf(w).commit = w.revision /\ LiveOf(w).residue = {}
        /\ LiveOf(w).before = LiveOf(w).after /\ SearchOf(w).residual = {}
    BY DEF LiveOf, SearchOf
  <2> QED BY <2>1, <2>2, <2>3 DEF Producible, ProcessIs, CompositeIs
<1> QED BY <1>1, MixturesSound, PatchworksSound DEF AdmissionsSound
-------------------------------------------------------------------------------
(* Scenarios and their calls (_canonical_lab_actions,                      *)
(* _negative_control_actions).                                             *)

Named == {"expired_replay_window", "masked_response", "mock_only_response", "fresh_session",
          "same_tenant_document"}
Single == {Special("masked_response"), Special("mock_only_response"),
           Special("same_tenant_document")}

\* No two places of the document are the same.
LEMMA PlacesDiffer ==
  /\ \A a \in Attempts : Attempt(a) \in Positions /\ Attempt(a) \notin Controls
  /\ \A a \in Attempts : Attempt(a) # Patched
  /\ \A a, b \in Attempts : Attempt(a) = Attempt(b) => a = b
  /\ Patched \in Positions /\ Patched \notin Controls
  /\ <<"canonical", 0>> \notin Controls
  /\ Controls \subseteq Positions /\ Special("any") \notin Positions
<1>1. \A c \in Controls : c[1] \in {"missing_prerequisite"} \cup Named
  BY DEF Controls, Without, Special, Named
<1>2. \A a \in Attempts : Attempt(a)[1] = "attempt" /\ Attempt(a)[2] = a
  BY DEF Attempt
<1>3. Patched[1] = "patched" /\ <<"canonical", 0>>[1] = "canonical" /\ Special("any")[1] = "any"
  BY DEF Patched, Special
<1> QED BY <1>1, <1>2, <1>3 DEF Positions, Named

\* A place is that of an attempt, of the patched run or of a control.
LEMMA PlaceIsOf ==
  ASSUME NEW p \in Positions
  PROVE  p \in Controls \/ p = Patched \/ \E a \in Attempts : p = Attempt(a)
BY DEF Positions

\* A sequence is one shorter without one of its elements.
LEMMA OneShorter ==
  ASSUME NEW S, NEW s \in Seq(S), NEW p \in 1..Len(s)
  PROVE  RemoveAt(s, p) \in Seq(S) /\ Len(RemoveAt(s, p)) = Len(s) - 1
<1> DEFINE a == SubSeq(s, 1, p - 1)
           b == SubSeq(s, p + 1, Len(s))
<1>1. a \in Seq(S) /\ Len(a) = p - 1
  OBVIOUS
<1>2. b \in Seq(S) /\ Len(b) = Len(s) - p
  OBVIOUS
<1>3. RemoveAt(s, p) = a \o b
  BY DEF RemoveAt
<1> HIDE DEF a, b
<1>4. a \o b \in Seq(S) /\ Len(a \o b) = Len(a) + Len(b)
  BY <1>1, <1>2
<1> QED BY <1>1, <1>2, <1>3, <1>4

\* And without the last.
LEMMA WithoutLast ==
  ASSUME NEW S, NEW s \in Seq(S), Len(s) \in 1..Len(s)
  PROVE  Front(s) \in Seq(S) /\ Len(Front(s)) = Len(s) - 1
<1>1. \A p \in 1..Len(s) : SubSeq(s, 1, p - 1) \in Seq(S) /\ Len(SubSeq(s, 1, p - 1)) = p - 1
  OBVIOUS
<1> QED BY <1>1, Zenon DEF Front

\* And one longer with one more.
LEMMA OneLonger ==
  ASSUME NEW S, NEW s \in Seq(S), NEW e \in S
  PROVE  /\ Append(s, e) \in Seq(S) /\ Len(Append(s, e)) = Len(s) + 1
         /\ Append(s, e)[Len(s) + 1] = e
         /\ 1 \in 1..Len(s) => Append(s, e)[1] = s[1]
<1>1. Append(s, e) \in Seq(S)
  BY AppendProperties, Zenon
<1>2. Len(Append(s, e)) = Len(s) + 1
  BY AppendProperties, Zenon
<1>3. Append(s, e)[Len(s) + 1] = e
  BY AppendProperties, Zenon
<1>4. \A i \in 1..Len(s) : Append(s, e)[i] = s[i]
  OBVIOUS
<1> QED BY <1>1, <1>2, <1>3, <1>4, Zenon

\* The calls a scenario makes, and how many.
CallCount(p) == IF p \in Single THEN 1
                ELSE IF p \in {Without(i) : i \in Dropped} THEN 7 ELSE 8
Entries(v) ==
  {Setup(v)[i] : i \in 1..7} \cup {[call |-> <<"late clock", v.setup>>, write |-> TRUE]}
    \cup {Read(reader, what) : reader \in {"old editor", "fresh viewer"},
                               what \in {"protected", "masked", "mock", "own"}}
\* What holds of the calls of a scenario.
CallsAre(p, v) ==
  /\ Calls(p, v) \in Seq(Entries(v)) /\ Len(Calls(p, v)) = CallCount(p)
  /\ p \in Controls => Last(Calls(p, v)).call[2] = Profile(p).what
  /\ p \notin Controls => Calls(p, v)[1].call[3] = v.setup

\* The setup is seven calls.
LEMMA SetupIs ==
  ASSUME NEW v
  PROVE  /\ Setup(v) \in Seq(Entries(v)) /\ Len(Setup(v)) = 7
         /\ Setup(v)[1].call[3] = v.setup
<1> DEFINE E == Entries(v)
<1>1. Setup(v) \in [1..7 -> E]
  BY DEF Setup, SetupLength, Entries
<1>2. Setup(v)[1].call[3] = v.setup
  BY DEF Setup, SetupLength
<1> HIDE DEF E
<1> DEFINE f == Setup(v)
<1> HIDE DEF f
<1>3. f \in [1..7 -> E]
  BY <1>1 DEF f
<1>4. f \in Seq(E) /\ Len(f) = 7
  <2>1. f \in Seq(E)
    BY <1>3, SeqDef, 7 \in Nat, Zenon
  <2> QED BY <1>3, <2>1
<1> QED BY <1>2, <1>4 DEF E, f

\* Of every scenario.
LEMMA CallsOf ==
  ASSUME NEW p \in Positions, NEW v PROVE CallsAre(p, v)
<1> DEFINE E == Entries(v)
           s == Setup(v)
           late == [call |-> <<"late clock", v.setup>>, write |-> TRUE]
<1>1. s \in Seq(E)
  BY SetupIs
<1>15. Len(s) = 7
  BY SetupIs
<1>16. 7 - 1 = 6 /\ 6 + 1 = 7 /\ 7 + 1 = 8 /\ 7 \in Nat /\ 8 \in Nat /\ 7 \in 1..7 /\ 1 \in 1..7
  OBVIOUS
<1>14. s[1].call[3] = v.setup
  BY SetupIs
<1>2. /\ late \in E
      /\ \A reader \in {"old editor", "fresh viewer"},
            what \in {"protected", "masked", "mock", "own"} :
              Read(reader, what) \in E /\ Read(reader, what).call[2] = what
  BY DEF Entries, Read
<1> HIDE DEF E, s, late
<1>3. late \in E /\ \A reader \in {"old editor", "fresh viewer"},
              what \in {"protected", "masked", "mock", "own"} : Read(reader, what) \in E
  BY <1>2
<1>4. ASSUME NEW e \in E
      PROVE  <<e>> \in Seq(E) /\ Len(<<e>>) = 1 /\ <<e>>[1] = e
  OBVIOUS
<1>5. \A name \in Named : /\ Special(name) \notin {Without(i) : i \in Dropped}
                          /\ Special(name)[1] # "missing_prerequisite"
  BY DEF Special, Without, Named
<1>6. \A one, other \in Named : Special(one) = Special(other) => one = other
  BY DEF Special
<1>7. Controls = {Without(i) : i \in Dropped} \cup {Special(name) : name \in Named}
  BY DEF Controls, Named
<1>8. CASE p \in {Without(i) : i \in Dropped}
  <2>1. PICK i \in Dropped : p = Without(i)
    BY <1>8
  <2>2. p \in Controls /\ p[1] = "missing_prerequisite" /\ p[2] = i /\ i + 1 \in 1..7
    BY <1>7, <2>1 DEF Without, Dropped
  <2>3. Calls(p, v) = Append(RemoveAt(s, i + 1), Read("old editor", "protected"))
    <3>1. \A name \in Named : p # Special(name)
      BY <1>5, <1>8
    <3> QED BY <2>2, <3>1 DEF Calls, s, Named
  <2>4. i + 1 \in 1..Len(s)
    BY <1>15, <2>2
  <2>8. RemoveAt(s, i + 1) \in Seq(E)
    BY <1>1, <2>4, OneShorter, Zenon
  <2>9. Len(RemoveAt(s, i + 1)) = Len(s) - 1
    BY <1>1, <2>4, OneShorter, Zenon
  <2>5. Calls(p, v) \in Seq(E) /\ Len(Calls(p, v)) = 7
        /\ Calls(p, v)[7] = Read("old editor", "protected")
    <3>1. Len(RemoveAt(s, i + 1)) + 1 = 7
      BY <1>15, <1>16, <2>9, Zenon
    <3>2. Read("old editor", "protected") \in E
      BY <1>3
    <3>3. Append(RemoveAt(s, i + 1), Read("old editor", "protected")) \in Seq(E)
      BY <2>3, <2>8, <3>2, OneLonger, Zenon
    <3>4. Len(Append(RemoveAt(s, i + 1), Read("old editor", "protected"))) = Len(RemoveAt(s, i + 1)) + 1
      BY <2>3, <2>8, <3>2, OneLonger, Zenon
    <3>5. Append(RemoveAt(s, i + 1), Read("old editor", "protected"))[Len(RemoveAt(s, i + 1)) + 1] = Read("old editor", "protected")
      BY <2>3, <2>8, <3>2, OneLonger, Zenon
    <3> QED BY <2>3, <2>8, <3>1, <3>3, <3>4, <3>5, Zenon
  <2>6. \A name \in Named : p # Special(name)
    BY <1>5, <1>8
  <2>7. Profile(p).what = "protected" /\ CallCount(p) = 7
    BY <1>8, <2>6 DEF Profile, CallCount, Single, Named
  <2> QED BY <1>2, <2>2, <2>5, <2>7 DEF CallsAre, Last, E
<1>9. CASE p = Special("expired_replay_window")
  <2>1. p \in Controls /\ p[1] # "missing_prerequisite"
    BY <1>5, <1>7, <1>9 DEF Named
  <2>2. Calls(p, v) = Append(Append(Front(s), late), Read("old editor", "protected"))
    BY <1>6, <1>9, <2>1 DEF Calls, s, late, Named
  <2>3. Len(s) \in 1..Len(s)
    BY <1>15, <1>16, Zenon
  <2>4. Front(s) \in Seq(E)
    BY <1>1, <2>3, WithoutLast, Zenon
  <2>7. Len(Front(s)) = Len(s) - 1
    BY <1>1, <2>3, WithoutLast, Zenon
  <2>8. Len(Front(s)) + 1 = 7
    BY <1>15, <1>16, <2>7, Zenon
  <2>9. Append(Front(s), late) \in Seq(E)
    BY <1>3, <2>4, <2>8, OneLonger, Zenon
  <2>10. Len(Append(Front(s), late)) = 7
    <3>1. Len(Append(Front(s), late)) = Len(Front(s)) + 1
      BY <1>3, <2>4, OneLonger, Zenon
    <3> QED BY <2>8, <3>1, Zenon
  <2>5. Calls(p, v) \in Seq(E) /\ Len(Calls(p, v)) = 8
        /\ Calls(p, v)[8] = Read("old editor", "protected")
    <3>1. Len(Append(Front(s), late)) + 1 = 8
      BY <1>16, <2>10, Zenon
    <3>2. Read("old editor", "protected") \in E
      BY <1>3
    <3>3. Append(Append(Front(s), late), Read("old editor", "protected")) \in Seq(E)
      BY <2>2, <2>9, <3>2, OneLonger, Zenon
    <3>4. Len(Append(Append(Front(s), late), Read("old editor", "protected"))) = Len(Append(Front(s), late)) + 1
      BY <2>2, <2>9, <3>2, OneLonger, Zenon
    <3>5. Append(Append(Front(s), late), Read("old editor", "protected"))[Len(Append(Front(s), late)) + 1] = Read("old editor", "protected")
      BY <2>2, <2>9, <3>2, OneLonger, Zenon
    <3> QED BY <2>2, <2>9, <3>1, <3>3, <3>4, <3>5, Zenon
  <2>6. Profile(p).what = "protected" /\ CallCount(p) = 8
    BY <1>5, <1>6, <1>9 DEF Profile, CallCount, Single, Named
  <2> QED BY <1>2, <2>1, <2>5, <2>6 DEF CallsAre, Last, E
<1>10. CASE p = Special("fresh_session")
  <2>1. p \in Controls /\ p[1] # "missing_prerequisite"
    BY <1>5, <1>7, <1>10 DEF Named
  <2>2. Calls(p, v) = Append(s, Read("fresh viewer", "protected"))
    BY <1>6, <1>10, <2>1 DEF Calls, s, Named
  <2>3. Calls(p, v) \in Seq(E) /\ Len(Calls(p, v)) = 8
        /\ Calls(p, v)[8] = Read("fresh viewer", "protected")
    <3>1. Len(s) + 1 = 8
      BY <1>15, <1>16, Zenon
    <3>2. Read("fresh viewer", "protected") \in E
      BY <1>3
    <3>3. Append(s, Read("fresh viewer", "protected")) \in Seq(E)
      BY <1>1, <2>2, <3>2, OneLonger, Zenon
    <3>4. Len(Append(s, Read("fresh viewer", "protected"))) = Len(s) + 1
      BY <1>1, <2>2, <3>2, OneLonger, Zenon
    <3>5. Append(s, Read("fresh viewer", "protected"))[Len(s) + 1] = Read("fresh viewer", "protected")
      BY <1>1, <2>2, <3>2, OneLonger, Zenon
    <3> QED BY <1>1, <2>2, <3>1, <3>3, <3>4, <3>5, Zenon
  <2>4. Profile(p).what = "protected" /\ CallCount(p) = 8
    BY <1>5, <1>6, <1>10 DEF Profile, CallCount, Single, Named
  <2> QED BY <1>2, <2>1, <2>3, <2>4 DEF CallsAre, Last, E
<1>11. CASE p \in Single
  <2>1. p \in Controls /\ p[1] # "missing_prerequisite"
    BY <1>5, <1>7, <1>11 DEF Named, Single
  <2>2. PICK what \in {"masked", "mock", "own"} :
          Calls(p, v) = <<Read("old editor", what)>> /\ Profile(p).what = what
    BY <1>6, <1>11, <2>1 DEF Calls, Single, Profile, Named
  <2>3. Calls(p, v) \in Seq(E) /\ Len(Calls(p, v)) = 1
        /\ Calls(p, v)[1] = Read("old editor", what)
    BY <1>2, <1>4, <2>2
  <2>4. CallCount(p) = 1
    BY <1>11 DEF CallCount
  <2> QED BY <1>2, <2>1, <2>2, <2>3, <2>4 DEF CallsAre, Last, E
<1>12. CASE p \notin Controls
  <2>1. \A name \in Named : p # Special(name)
    BY <1>7, <1>12
  <2>2. Calls(p, v) = Append(s, Read("old editor", "protected"))
    BY <1>12, <2>1 DEF Calls, s, Named
  <2>3. Calls(p, v) \in Seq(E) /\ Len(Calls(p, v)) = 8 /\ Calls(p, v)[1] = s[1]
    <3>1. Len(s) + 1 = 8
      BY <1>15, <1>16, Zenon
    <3>2. Read("old editor", "protected") \in E
      BY <1>3
    <3>3. Append(s, Read("old editor", "protected")) \in Seq(E)
      BY <1>1, <2>2, <3>2, OneLonger, Zenon
    <3>4. Len(Append(s, Read("old editor", "protected"))) = Len(s) + 1
      BY <1>1, <2>2, <3>2, OneLonger, Zenon
    <3>5. Append(s, Read("old editor", "protected"))[Len(s) + 1] = Read("old editor", "protected")
      BY <1>1, <2>2, <3>2, OneLonger, Zenon
    <3>6. Append(s, Read("old editor", "protected"))[1] = s[1]
      <4>1. 1 \in 1..Len(s)
        BY <1>15, <1>16, Zenon
      <4> QED BY <1>1, <3>2, <4>1, OneLonger, Zenon
    <3> QED BY <1>1, <2>2, <3>1, <3>3, <3>4, <3>5, <3>6, Zenon
  <2>4. CallCount(p) = 8
    BY <1>7, <1>12, <2>1 DEF CallCount, Single, Named
  <2> QED BY <1>12, <1>14, <2>3, <2>4 DEF CallsAre, E
<1>13. \A name \in Named : \/ Special(name) = Special("expired_replay_window")
                           \/ Special(name) = Special("fresh_session")
                           \/ Special(name) \in Single
  BY DEF Named, Single
<1> QED BY <1>7, <1>8, <1>9, <1>10, <1>11, <1>12, <1>13
-------------------------------------------------------------------------------
(* What the program writes (_scenario_result, _scenario_projection,        *)
(* to_json).                                                               *)

\* A plan and a root.
LEMMA PlanFields ==
  ASSUME NEW p \in Positions, NEW v
  PROVE  /\ PlanOf(p, v).id = (IF p \in Controls THEN p ELSE <<"canonical", 0>>)
         /\ PlanOf(p, v).seed = v.root /\ PlanOf(p, v).steps = Calls(p, v)
         /\ RootOf(p, v).seed = v.root
         /\ RootOf(p, v).mode = (IF p = Patched THEN "patched" ELSE "vulnerable")
BY DEF PlanOf, RootOf

\* A replay result, and what it shows at last.
LastShown(p) == IF p \in Controls THEN Profile(p) ELSE IF p = Patched THEN Refusal ELSE Disclosure
ResultIs(s, p, v) ==
  /\ s.run = p /\ s.plan = PlanOf(p, v).id /\ s.root = RootOf(p, v) /\ s.log = Calls(p, v)
  /\ s.final = LastShown(p)
  /\ s.failed = IF p = Patched THEN Len(Calls(p, v)) ELSE 0
  /\ DOMAIN s = {"run", "plan", "root", "log", "final", "failed"}
LEMMA ResultFields ==
  ASSUME NEW p, NEW v PROVE ResultIs(ResultOf(p, v), p, v)
BY DEF ResultIs, ResultOf, LastShown

\* A scenario.
ScenarioIs(s, p, v) ==
  /\ s.plan = PlanOf(p, v) /\ s.root = RootOf(p, v) /\ s.result = ResultOf(p, v)
  /\ s.view = ViewOf(s.result) /\ s.records = RecordsOf(s.result)
  /\ DOMAIN s = Fields
LEMMA ScenarioFields ==
  ASSUME NEW p, NEW v
  PROVE  /\ ScenarioIs(ScenarioOf(p, v), p, v)
         /\ ScenarioOf(p, v) = [f \in Fields |-> ScenarioOf(p, v)[f]]
<1> DEFINE plan == PlanOf(p, v)
           root == RootOf(p, v)
           result == ResultOf(p, v)
           view == ViewOf(result)
           records == RecordsOf(result)
<1> HIDE DEF plan, root, result, view, records
<1>1. ScenarioOf(p, v) = [plan |-> plan, root |-> root, result |-> result, view |-> view,
                          records |-> records]
  BY DEF ScenarioOf, plan, root, result, view, records
<1>2. /\ ScenarioOf(p, v).plan = plan /\ ScenarioOf(p, v).root = root
      /\ ScenarioOf(p, v).result = result /\ ScenarioOf(p, v).view = view
      /\ ScenarioOf(p, v).records = records /\ DOMAIN ScenarioOf(p, v) = Fields
      /\ ScenarioOf(p, v) = [f \in Fields |-> ScenarioOf(p, v)[f]]
  BY <1>1 DEF Fields
<1> QED BY <1>2, Zenon DEF ScenarioIs, plan, root, result, view, records

\* The view of a result, and all of it but the run.
LEMMA ViewFields ==
  ASSUME NEW s
  PROVE  /\ ViewOf(s).signature = Signature(s) /\ ViewOf(s).log = s.log
         /\ ViewOf(s).final = s.final /\ ViewOf(s).failed = s.failed
<1> DEFINE sig == Signature(s)
<1> HIDE DEF sig
<1>1. ViewOf(s) = [signature |-> sig, log |-> s.log, final |-> s.final, failed |-> s.failed]
  BY DEF ViewOf, sig
<1>2. /\ ViewOf(s).signature = sig /\ ViewOf(s).log = s.log
      /\ ViewOf(s).final = s.final /\ ViewOf(s).failed = s.failed
  BY <1>1
<1> QED BY <1>2 DEF sig

\* The last answers differ as they must.
LEMMA LastAnswers ==
  /\ Disclosure.outcome = "VIOLATED" /\ Refusal.outcome # "VIOLATED" /\ Disclosure # Refusal
  /\ \A p : Profile(p).outcome # "VIOLATED" /\ Profile(p) # Disclosure
<1>1. Disclosure.outcome = "VIOLATED" /\ Refusal.outcome = "SATISFIED"
  BY DEF Disclosure, Refusal
<1>2. ASSUME NEW p PROVE Profile(p).outcome # "VIOLATED"
  <2>1. CASE p = Special("masked_response")
    BY <2>1 DEF Profile, Special
  <2>2. CASE p = Special("mock_only_response")
    BY <2>2 DEF Profile, Special
  <2>3. CASE p = Special("same_tenant_document")
    BY <2>3 DEF Profile, Special
  <2>4. CASE /\ p # Special("masked_response") /\ p # Special("mock_only_response")
             /\ p # Special("same_tenant_document")
    BY <2>4 DEF Profile
  <2> QED BY <2>1, <2>2, <2>3, <2>4
<1> QED BY <1>1, <1>2

\* What the program writes of a scenario is consistent.
LEMMA ScenarioPasses ==
  ASSUME NEW p \in Positions, NEW v PROVE ScenarioValid(ScenarioOf(p, v))
<1> DEFINE s == ScenarioOf(p, v)
<1>1. ScenarioIs(s, p, v)
  BY ScenarioFields
<1>2. ResultIs(s.result, p, v)
  BY <1>1, ResultFields DEF ScenarioIs
<1> HIDE DEF s
<1>3. /\ s.plan.seed = s.root.seed /\ s.result.plan = s.plan.id /\ s.result.root = s.root
      /\ s.result.log = s.plan.steps
  <2>1. s.plan = PlanOf(p, v) /\ s.root = RootOf(p, v)
    BY <1>1, Zenon DEF ScenarioIs
  <2>2. s.result.plan = PlanOf(p, v).id /\ s.result.root = RootOf(p, v) /\ s.result.log = Calls(p, v)
    BY <1>2, Zenon DEF ResultIs
  <2>3. /\ PlanOf(p, v).seed = v.root /\ PlanOf(p, v).steps = Calls(p, v)
        /\ RootOf(p, v).seed = v.root
    BY PlanFields
  <2> QED BY <2>1, <2>2, <2>3, Zenon
<1>4. OracleValid(s)
  <2>1. s.result.final = LastShown(p) /\ s.root.mode = IF p = Patched THEN "patched" ELSE "vulnerable"
    BY <1>1, <1>2, PlanFields DEF ScenarioIs, ResultIs
  <2>2. CASE p \in Controls
    BY <2>1, <2>2, LastAnswers, PlacesDiffer DEF OracleValid, LastShown
  <2>3. CASE p = Patched
    BY <2>1, <2>3, LastAnswers, PlacesDiffer DEF OracleValid, LastShown
  <2>4. CASE p \notin Controls /\ p # Patched
    BY <2>1, <2>4, LastAnswers, PlacesDiffer DEF OracleValid, LastShown
  <2> QED BY <2>2, <2>3, <2>4
<1>5. s.view = ViewOf(s.result) /\ s.records = RecordsOf(s.result)
  BY <1>1, Zenon DEF ScenarioIs
<1> QED BY <1>3, <1>4, <1>5, Zenon DEF ScenarioValid, s

\* A scenario is made of its plan and its root.
LEMMA SameScenario ==
  ASSUME NEW p, NEW v, NEW w, PlanOf(p, v) = PlanOf(p, w), RootOf(p, v) = RootOf(p, w)
  PROVE  ScenarioOf(p, v) = ScenarioOf(p, w)
<1>1. PlanOf(p, v).steps = Calls(p, v) /\ PlanOf(p, w).steps = Calls(p, w)
  BY DEF PlanOf
<1>2. Calls(p, v) = Calls(p, w)
  BY <1>1
<1>3. ResultOf(p, v) = ResultOf(p, w)
  BY <1>2, Zenon DEF ResultOf
<1> QED BY <1>3, Zenon DEF ScenarioOf

\* The attempts and the patched run replay one plan.
LEMMA OneCanonicalPlan ==
  ASSUME NEW p \in Positions, p \notin Controls, NEW v
  PROVE  PlanOf(p, v) = PlanOf(Patched, v) /\ Calls(p, v) = Calls(Patched, v)
<1>1. \A name \in Named : Special(name) \in Controls
  BY DEF Controls, Named
<1>2. ASSUME NEW q, q \notin Controls
      PROVE  Calls(q, v) = Append(Setup(v), Read("old editor", "protected"))
  BY <1>1, <1>2 DEF Calls, Named
<1> QED BY <1>2, PlacesDiffer, Zenon DEF PlanOf

\* No two plans of a proof have the same id.
LEMMA OnePlanAnId ==
  ASSUME NEW v, NEW p \in Positions, NEW q \in Positions, PlanOf(p, v).id = PlanOf(q, v).id
  PROVE  PlanOf(p, v) = PlanOf(q, v)
<1>1. CASE p \in Controls
  <2>1. PlanOf(p, v).id = p /\ PlanOf(q, v).id = IF q \in Controls THEN q ELSE <<"canonical", 0>>
    BY <1>1, PlanFields
  <2>2. p = q
    BY <1>1, <2>1, PlacesDiffer
  <2> QED BY <2>2, Zenon
<1>2. CASE p \notin Controls
  <2>1. q \notin Controls
    BY <1>2, PlanFields, PlacesDiffer
  <2>2. PlanOf(p, v) = PlanOf(Patched, v) /\ PlanOf(q, v) = PlanOf(Patched, v)
    BY <1>2, <2>1, OneCanonicalPlan, Zenon
  <2> QED BY <2>2, Zenon
<1> QED BY <1>1, <1>2

\* The parts of the document.
PlansOf(v) == {PlanOf(p, v) : p \in Positions}
ProofIs(d, v) ==
  /\ d.runs = [p \in Positions |-> ScenarioOf(p, v)]
  /\ d.plan = PlanOf(Patched, v) /\ d.root = RootOf(Attempt("a1"), v)
  /\ d.log = Calls(Patched, v)
  /\ d.decisions = [r \in References(PlansOf(v)) |-> Authorization(PlanNamed(PlansOf(v), r[1]), r[2])]
  /\ DOMAIN d = {"runs", "plan", "root", "log", "decisions"}
LEMMA ProofFields ==
  ASSUME NEW v PROVE ProofIs(ProofOf(v), v)
<1> DEFINE runs == [p \in Positions |-> ScenarioOf(p, v)]
           plan == PlanOf(Patched, v)
           root == RootOf(Attempt("a1"), v)
           log == Calls(Patched, v)
           decisions == [r \in References(PlansOf(v)) |->
                           Authorization(PlanNamed(PlansOf(v), r[1]), r[2])]
<1>1. ProofOf(v) = [runs |-> runs, plan |-> plan, root |-> root, log |-> log,
                    decisions |-> decisions]
  BY DEF ProofOf, PlansOf
<1> HIDE DEF runs, plan, root, log, decisions
<1>2. /\ ProofOf(v).runs = runs /\ ProofOf(v).plan = plan /\ ProofOf(v).root = root
      /\ ProofOf(v).log = log /\ ProofOf(v).decisions = decisions
      /\ DOMAIN ProofOf(v) = {"runs", "plan", "root", "log", "decisions"}
  BY <1>1
<1> QED BY <1>2, Zenon DEF ProofIs, runs, plan, root, log, decisions

\* The authorization of a step of a plan of the proof.
LEMMA DecisionOf ==
  ASSUME NEW v, NEW p \in Positions, NEW i \in DOMAIN PlanOf(p, v).steps
  PROVE  /\ <<PlanOf(p, v).id, i>> \in References(PlansOf(v))
         /\ ProofOf(v).decisions[<<PlanOf(p, v).id, i>>] = Authorization(PlanOf(p, v), i)
<1> DEFINE plan == PlanOf(p, v)
           r == <<plan.id, i>>
           named == PlanNamed(PlansOf(v), plan.id)
<1>1. plan \in PlansOf(v)
  BY DEF PlansOf
<1>2. named \in PlansOf(v) /\ named.id = plan.id
  BY <1>1 DEF PlanNamed
<1>3. named = plan
  <2>1. PICK q \in Positions : named = PlanOf(q, v)
    BY <1>2 DEF PlansOf
  <2> QED BY <1>2, <2>1, OnePlanAnId
<1>4. r \in References(PlansOf(v))
  BY <1>1 DEF References
<1>5. r[1] = plan.id /\ r[2] = i
  OBVIOUS
<1> HIDE DEF r, plan
<1>6. ProofOf(v).decisions[r] = Authorization(PlanNamed(PlansOf(v), r[1]), r[2])
  <2> DEFINE D == References(PlansOf(v))
             F(x) == Authorization(PlanNamed(PlansOf(v), x[1]), x[2])
  <2>1. ProofOf(v).decisions = [x \in D |-> F(x)]
    BY ProofFields, Zenon DEF ProofIs
  <2>2. r \in D
    BY <1>4
  <2> HIDE DEF D, F
  <2>3. ProofOf(v).decisions[r] = F(r)
    BY <2>1, <2>2
  <2> QED BY <2>3, Zenon DEF F
<1> QED BY <1>3, <1>4, <1>5, <1>6 DEF r, plan
\* There are five attempts, and not endlessly many controls.
LEMMA FewPlaces ==
  IsFiniteSet(Attempts) /\ Cardinality(Attempts) = 5 /\ IsFiniteSet(Controls)
<1> DEFINE A == {"a1"}
           B == A \cup {"a2"}
           C == B \cup {"a3"}
           D == C \cup {"a4"}
           E == D \cup {"a5"}
<1>1. E = Attempts /\ "a2" \notin A /\ "a3" \notin B /\ "a4" \notin C /\ "a5" \notin D
  BY DEF Attempts
<1>2. IsFiniteSet(A) /\ Cardinality(A) = 1
  BY FS_Singleton
<1> HIDE DEF A
<1>3. IsFiniteSet(B) /\ Cardinality(B) = 2
  BY <1>1, <1>2, FS_AddElement
<1> HIDE DEF B
<1>4. IsFiniteSet(C) /\ Cardinality(C) = 3
  BY <1>1, <1>3, FS_AddElement
<1> HIDE DEF C
<1>5. IsFiniteSet(D) /\ Cardinality(D) = 4
  BY <1>1, <1>4, FS_AddElement
<1> HIDE DEF D
<1>6. IsFiniteSet(E) /\ Cardinality(E) = 5
  BY <1>1, <1>5, FS_AddElement
<1>7. IsFiniteSet({Without(i) : i \in Dropped})
  <2>1. IsFiniteSet(Dropped)
    <3>1. Dropped \subseteq 0..6
      BY DEF Dropped
    <3>2. IsFiniteSet(0..6)
      <4>1. 0 \in Int /\ 6 \in Int
        OBVIOUS
      <4> QED BY <4>1, FS_Interval, Zenon
    <3> QED BY <3>1, <3>2, FS_Subset
  <2> DEFINE f == [i \in Dropped |-> Without(i)]
  <2>2. DOMAIN f = Dropped /\ f = [i \in Dropped |-> f[i]]
    OBVIOUS
  <2>3. {Without(i) : i \in Dropped} = {f[i] : i \in Dropped}
    OBVIOUS
  <2> HIDE DEF f
  <2> QED BY <2>1, <2>2, <2>3, CountImages
<1>8. IsFiniteSet({Special(name) : name \in Named})
  <2> DEFINE F == {"expired_replay_window", "masked_response"}
             G == F \cup {"mock_only_response"}
             H == G \cup {"fresh_session"}
  <2>1. IsFiniteSet(F)
    <3>1. F = {"expired_replay_window"} \cup {"masked_response"}
      OBVIOUS
    <3>2. IsFiniteSet({"expired_replay_window"})
      BY FS_Singleton
    <3>3. IsFiniteSet({"expired_replay_window"} \cup {"masked_response"})
      BY <3>2, FS_AddElement, Zenon
    <3> QED BY <3>1, <3>3
  <2>2. Named = H \cup {"same_tenant_document"}
    BY DEF Named
  <2> HIDE DEF F
  <2>3. IsFiniteSet(G)
    BY <2>1, FS_AddElement
  <2> HIDE DEF G
  <2>4. IsFiniteSet(H)
    BY <2>3, FS_AddElement
  <2> HIDE DEF H
  <2>5. IsFiniteSet(Named)
    BY <2>2, <2>4, FS_AddElement
  <2> DEFINE f == [name \in Named |-> Special(name)]
  <2>6. DOMAIN f = Named /\ f = [name \in Named |-> f[name]]
    OBVIOUS
  <2>7. {Special(name) : name \in Named} = {f[name] : name \in Named}
    OBVIOUS
  <2> HIDE DEF f
  <2> QED BY <2>5, <2>6, <2>7, CountImages
<1>9. Controls = {Without(i) : i \in Dropped} \cup {Special(name) : name \in Named}
  BY DEF Controls, Named
<1>10. IsFiniteSet(Controls)
  BY <1>7, <1>8, <1>9, FS_Union
<1> QED BY <1>1, <1>6, <1>10

\* Five attempts are five runs exactly when no two of them are one run.
LEMMA FiveRuns ==
  ASSUME NEW runs
  PROVE  Cardinality({runs[Attempt(a)].result.run : a \in Attempts}) = 5 <=>
           \A a, b \in Attempts : runs[Attempt(a)].result.run = runs[Attempt(b)].result.run => a = b
<1> DEFINE f == [a \in Attempts |-> runs[Attempt(a)].result.run]
           T == {f[a] : a \in Attempts}
<1>1. DOMAIN f = Attempts /\ f = [a \in Attempts |-> f[a]]
  OBVIOUS
<1>2. T = {runs[Attempt(a)].result.run : a \in Attempts}
  OBVIOUS
<1>3. (\A a, b \in Attempts : f[a] = f[b] => a = b) <=>
        \A a, b \in Attempts : runs[Attempt(a)].result.run = runs[Attempt(b)].result.run => a = b
  OBVIOUS
<1> HIDE DEF f
<1>4. Cardinality(T) = Cardinality(Attempts) <=> \A a, b \in Attempts : f[a] = f[b] => a = b
  BY <1>1, CountImages, FewPlaces
<1> HIDE DEF T
<1> QED BY <1>2, <1>3, <1>4, FewPlaces

\* And so for the plans and the runs of the controls.
LEMMA DistinctControls ==
  ASSUME NEW runs
  PROVE  /\ Cardinality({runs[p].plan.id : p \in Controls}) = Cardinality(Controls) <=>
              \A p, q \in Controls : runs[p].plan.id = runs[q].plan.id => p = q
         /\ Cardinality({runs[p].result.run : p \in Controls}) = Cardinality(Controls) <=>
              \A p, q \in Controls : runs[p].result.run = runs[q].result.run => p = q
<1> DEFINE f == [p \in Controls |-> runs[p].plan.id]
           g == [p \in Controls |-> runs[p].result.run]
           T == {f[p] : p \in Controls}
           U == {g[p] : p \in Controls}
<1>1. /\ DOMAIN f = Controls /\ f = [p \in Controls |-> f[p]]
      /\ DOMAIN g = Controls /\ g = [p \in Controls |-> g[p]]
  OBVIOUS
<1>2. T = {runs[p].plan.id : p \in Controls} /\ U = {runs[p].result.run : p \in Controls}
  OBVIOUS
<1>3. (\A p, q \in Controls : f[p] = f[q] => p = q) <=>
        \A p, q \in Controls : runs[p].plan.id = runs[q].plan.id => p = q
  OBVIOUS
<1>4. (\A p, q \in Controls : g[p] = g[q] => p = q) <=>
        \A p, q \in Controls : runs[p].result.run = runs[q].result.run => p = q
  OBVIOUS
<1> HIDE DEF f, g
<1>5. Cardinality(T) = Cardinality(Controls) <=> \A p, q \in Controls : f[p] = f[q] => p = q
  BY <1>1, CountImages, FewPlaces
<1>6. Cardinality(U) = Cardinality(Controls) <=> \A p, q \in Controls : g[p] = g[q] => p = q
  BY <1>1, CountImages, FewPlaces
<1> HIDE DEF T, U
<1> QED BY <1>2, <1>3, <1>4, <1>5, <1>6, Zenon

\* The parts of the document that the program writes of a version.
LEMMA RunFields ==
  ASSUME NEW v, NEW p \in Positions
  PROVE  /\ ProofOf(v).runs[p] = ScenarioOf(p, v)
         /\ ProofOf(v).runs[p].plan = PlanOf(p, v) /\ ProofOf(v).runs[p].root = RootOf(p, v)
         /\ ProofOf(v).runs[p].result = ResultOf(p, v)
         /\ ProofOf(v).runs[p].view = ViewOf(ResultOf(p, v))
         /\ ProofOf(v).runs[p].result.run = p
         /\ ProofOf(v).runs[p].result.final = LastShown(p)
         /\ ProofOf(v).runs[p].result.failed = (IF p = Patched THEN 8 ELSE 0)
         /\ ProofOf(v).runs[p].result.root = RootOf(p, v)
         /\ ProofOf(v).runs[p].result.log = Calls(p, v)
<1>1. ProofOf(v).runs[p] = ScenarioOf(p, v)
  <2>1. ProofOf(v).runs = [q \in Positions |-> ScenarioOf(q, v)]
    BY ProofFields, Zenon DEF ProofIs
  <2> QED BY <2>1
<1>2. ScenarioIs(ScenarioOf(p, v), p, v) /\ ResultIs(ResultOf(p, v), p, v)
  BY ScenarioFields, ResultFields
<1>3. p = Patched => Len(Calls(p, v)) = 8
  <2>1. CallCount(Patched) = 8
    BY DEF CallCount, Patched, Single, Special, Without
  <2> QED BY <2>1, CallsOf DEF CallsAre
<1> QED BY <1>1, <1>2, <1>3, Zenon DEF ScenarioIs, ResultIs

\* The authorizations bind it.
LEMMA ProofPolicy ==
  ASSUME NEW v, v.root \in Nat PROVE PolicyBound(ProofOf(v))
<1> DEFINE d == ProofOf(v)
           plans == {d.runs[p].plan : p \in Positions}
<1>1. plans = PlansOf(v)
  BY RunFields DEF PlansOf
<1>2. \A one, other \in plans : one.id = other.id => one = other
  <2>1. \A one, other \in PlansOf(v) : one.id = other.id => one = other
    BY OnePlanAnId DEF PlansOf
  <2> QED BY <1>1, <2>1
<1>3. DOMAIN d.decisions = References(plans)
  <2>1. DOMAIN d.decisions = References(PlansOf(v))
    BY ProofFields DEF ProofIs
  <2> QED BY <1>1, <2>1
<1>4. ASSUME NEW plan \in plans, NEW i \in DOMAIN plan.steps
      PROVE  /\ d.decisions[<<plan.id, i>>] = Authorization(plan, i)
             /\ \A p \in Positions : d.runs[p].plan = plan =>
                  Authorization(plan, i).at <= d.runs[p].root.seed
  <2>1. PICK p \in Positions : plan = PlanOf(p, v)
    BY <1>1 DEF PlansOf
  <2>2. Authorization(plan, i).at = v.root
    BY <2>1, PlanFields DEF Authorization
  <2>3. ASSUME NEW q \in Positions PROVE d.runs[q].root.seed = v.root
    <3>1. d.runs[q].root = RootOf(q, v)
      BY RunFields, Zenon
    <3>2. RootOf(q, v).seed = v.root
      BY PlanFields, Zenon
    <3> QED BY <3>1, <3>2, Zenon
  <2> HIDE DEF d
  <2>4. \A q \in Positions : Authorization(plan, i).at <= d.runs[q].root.seed
    BY <2>2, <2>3
  <2>5. d.decisions[<<plan.id, i>>] = Authorization(plan, i)
    BY <2>1, DecisionOf DEF d
  <2> QED BY <2>4, <2>5
<1>5. ASSUME NEW plan, NEW i
      PROVE  /\ Authorization(plan, i).step = plan.steps[i]
             /\ Authorization(plan, i).requests = i - 1
             /\ Authorization(plan, i).writes = WritesBefore(plan.steps, i)
  BY DEF Authorization
<1> HIDE DEF d
<1>6. \A plan \in plans : \A i \in DOMAIN plan.steps :
        /\ d.decisions[<<plan.id, i>>].step = plan.steps[i]
        /\ d.decisions[<<plan.id, i>>].requests = i - 1
        /\ d.decisions[<<plan.id, i>>].writes = WritesBefore(plan.steps, i)
        /\ \A p \in Positions : d.runs[p].plan = plan =>
             d.decisions[<<plan.id, i>>].at <= d.runs[p].root.seed
  <2> SUFFICES ASSUME NEW plan \in plans, NEW i \in DOMAIN plan.steps
               PROVE  /\ d.decisions[<<plan.id, i>>].step = plan.steps[i]
                      /\ d.decisions[<<plan.id, i>>].requests = i - 1
                      /\ d.decisions[<<plan.id, i>>].writes = WritesBefore(plan.steps, i)
                      /\ \A p \in Positions : d.runs[p].plan = plan =>
                           d.decisions[<<plan.id, i>>].at <= d.runs[p].root.seed
    BY Zenon
  <2>1. d.decisions[<<plan.id, i>>] = Authorization(plan, i)
    BY <1>4, Zenon
  <2>2. \A p \in Positions : d.runs[p].plan = plan =>
          Authorization(plan, i).at <= d.runs[p].root.seed
    BY <1>4, Zenon
  <2> QED BY <1>5, <2>1, <2>2, Zenon
<1> QED BY <1>2, <1>3, <1>6, Zenon DEF PolicyBound, d

\* A control shows what it is named for.
LEMMA ProofControls ==
  ASSUME NEW v, NEW p \in Controls
  PROVE  ControlValid(p, ProofOf(v).runs[p]) /\ ProofOf(v).runs[p].root = ProofOf(v).root
<1>1. p \in Positions /\ p # Patched /\ Attempt("a1") # Patched /\ Attempt("a1") \in Positions
  BY PlacesDiffer DEF Attempts
<1>2. Last(ProofOf(v).runs[p].plan.steps).call[2] = Profile(p).what
  <2>1. ProofOf(v).runs[p].plan.steps = Calls(p, v)
    <3>1. ProofOf(v).runs[p].plan = PlanOf(p, v)
      BY <1>1, RunFields, Zenon
    <3>2. PlanOf(p, v).steps = Calls(p, v)
      BY <1>1, PlanFields, Zenon
    <3> QED BY <3>1, <3>2, Zenon
  <2> QED BY <1>1, <2>1, CallsOf DEF CallsAre
<1>3. ProofOf(v).runs[p].result.final = Profile(p) /\ ProofOf(v).runs[p].result.failed = 0
  BY <1>1, RunFields DEF LastShown
<1>4. ProofOf(v).runs[p].root = RootOf(p, v) /\ ProofOf(v).root = RootOf(Attempt("a1"), v)
  BY <1>1, RunFields, ProofFields DEF ProofIs
<1>5. RootOf(p, v) = RootOf(Attempt("a1"), v)
  BY <1>1, Zenon DEF RootOf
<1> QED BY <1>2, <1>3, <1>4, <1>5, Zenon DEF ControlValid

\* The attempts are alike but for their runs.
LEMMA ProofAttempts ==
  ASSUME NEW v, NEW a \in Attempts
  PROVE  LET s == ProofOf(v).runs[Attempt(a)]
         IN  /\ s.plan = ProofOf(v).plan /\ s.root = ProofOf(v).root
             /\ s.result.final = Disclosure /\ s.result.failed = 0
             /\ s.view.signature = ProofOf(v).runs[Attempt("a1")].view.signature
             /\ s.result.root = ProofOf(v).root /\ s.result.log = ProofOf(v).log
             /\ s.result.run = Attempt(a)
<1> DEFINE p == Attempt(a)
           q == Attempt("a1")
<1>1. /\ p \in Positions /\ p \notin Controls /\ p # Patched
      /\ q \in Positions /\ q \notin Controls /\ q # Patched
  BY PlacesDiffer DEF Attempts
<1> HIDE DEF p, q
<1>2. /\ ProofOf(v).plan = PlanOf(Patched, v) /\ ProofOf(v).root = RootOf(q, v)
      /\ ProofOf(v).log = Calls(Patched, v)
  BY ProofFields, Zenon DEF ProofIs, q
<1>3. RootOf(p, v) = RootOf(q, v)
  BY <1>1, Zenon DEF RootOf
<1>4. PlanOf(p, v) = PlanOf(Patched, v) /\ Calls(p, v) = Calls(Patched, v)
  BY <1>1, OneCanonicalPlan
<1>5. PlanOf(q, v) = PlanOf(Patched, v) /\ Calls(q, v) = Calls(Patched, v)
  BY <1>1, OneCanonicalPlan
<1>6. Signature(ResultOf(p, v)) = Signature(ResultOf(q, v))
  <2> DEFINE one == ResultOf(p, v)
             other == ResultOf(q, v)
  <2>1. /\ one = [run |-> p, plan |-> PlanOf(p, v).id, root |-> RootOf(p, v),
                  log |-> Calls(p, v), final |-> Disclosure, failed |-> 0]
        /\ other = [run |-> q, plan |-> PlanOf(q, v).id, root |-> RootOf(q, v),
                    log |-> Calls(q, v), final |-> Disclosure, failed |-> 0]
    BY <1>1, Zenon DEF ResultOf
  <2> DEFINE id == PlanOf(Patched, v).id
             root == RootOf(q, v)
             log == Calls(Patched, v)
             any == Special("any")
  <2>2. /\ one = [run |-> p, plan |-> id, root |-> root, log |-> log, final |-> Disclosure,
                  failed |-> 0]
        /\ other = [run |-> q, plan |-> id, root |-> root, log |-> log, final |-> Disclosure,
                    failed |-> 0]
    BY <1>3, <1>4, <1>5, <2>1, Zenon
  <2> HIDE DEF one, other, id, root, log, any
  <2>3. [one EXCEPT !.run = any] = [other EXCEPT !.run = any]
    BY <2>2
  <2> QED BY <2>3, Zenon DEF Signature, one, other, any
<1>7. /\ ProofOf(v).runs[p].view.signature = Signature(ResultOf(p, v))
      /\ ProofOf(v).runs[q].view.signature = Signature(ResultOf(q, v))
  BY <1>1, RunFields, ViewFields
<1>8. /\ ProofOf(v).runs[p].result.final = Disclosure /\ ProofOf(v).runs[p].result.failed = 0
      /\ ProofOf(v).runs[p].result.run = p
  BY <1>1, RunFields DEF LastShown
<1>9. /\ ProofOf(v).runs[p].plan = PlanOf(p, v) /\ ProofOf(v).runs[p].root = RootOf(p, v)
      /\ ProofOf(v).runs[p].result.root = RootOf(p, v)
      /\ ProofOf(v).runs[p].result.log = Calls(p, v)
  BY <1>1, RunFields
<1> QED BY <1>2, <1>3, <1>4, <1>6, <1>7, <1>8, <1>9, Zenon DEF p, q

\* What the program writes is what the collector demands, and its own verdict.
LEMMA ProofsPass ==
  ASSUME NEW v, v.root \in Nat PROVE Accepted(ProofOf(v)) /\ ValidFoundation(ProofOf(v))
<1> DEFINE d == ProofOf(v)
<1>1. /\ d.plan = PlanOf(Patched, v) /\ d.root = RootOf(Attempt("a1"), v)
  BY ProofFields, Zenon DEF ProofIs
<1>2. /\ Patched \in Positions /\ Patched \notin Controls /\ "a1" \in Attempts
      /\ Attempt("a1") \in Positions /\ Attempt("a1") # Patched /\ Controls \subseteq Positions
  BY PlacesDiffer DEF Attempts
<1>3. /\ d.runs[Patched].plan = d.plan /\ d.runs[Patched].root = RootOf(Patched, v)
      /\ d.runs[Patched].result.final = Refusal /\ d.runs[Patched].result.failed = 8
  BY <1>1, <1>2, RunFields DEF LastShown
<1>4. \A p \in Positions : ScenarioValid(d.runs[p])
  BY RunFields, ScenarioPasses
<1>5. \A p \in Controls : d.runs[p].root = d.root /\ ControlValid(p, d.runs[p])
  BY ProofControls
<1>6. \A a \in Attempts :
        /\ d.runs[Attempt(a)].plan = d.plan /\ d.runs[Attempt(a)].root = d.root
        /\ d.runs[Attempt(a)].result.final = Disclosure /\ d.runs[Attempt(a)].result.failed = 0
        /\ d.runs[Attempt(a)].view.signature = d.runs[Attempt("a1")].view.signature
        /\ d.runs[Attempt(a)].result.root = d.root /\ d.runs[Attempt(a)].result.log = d.log
        /\ d.runs[Attempt(a)].result.run = Attempt(a)
  BY ProofAttempts, Zenon
<1>7. PolicyBound(d)
  BY ProofPolicy
<1>8. Cardinality({d.runs[Attempt(a)].result.run : a \in Attempts}) = 5
  <2>1. \A a, b \in Attempts :
          d.runs[Attempt(a)].result.run = d.runs[Attempt(b)].result.run => a = b
    BY <1>6, PlacesDiffer
  <2> QED BY <2>1, FiveRuns
<1>9. /\ Cardinality({d.runs[p].plan.id : p \in Controls}) = Cardinality(Controls)
      /\ Cardinality({d.runs[p].result.run : p \in Controls}) = Cardinality(Controls)
  <2>1. ASSUME NEW p \in Controls PROVE d.runs[p].plan.id = p /\ d.runs[p].result.run = p
    <3>1. p \in Positions
      BY <1>2
    <3>2. d.runs[p].plan = PlanOf(p, v) /\ d.runs[p].result.run = p
      BY <3>1, RunFields, Zenon
    <3>3. PlanOf(p, v).id = p
      BY <3>1, PlanFields
    <3> QED BY <3>2, <3>3, Zenon
  <2>2. /\ \A p, q \in Controls : d.runs[p].plan.id = d.runs[q].plan.id => p = q
        /\ \A p, q \in Controls : d.runs[p].result.run = d.runs[q].result.run => p = q
    BY <2>1, Zenon
  <2>3. Cardinality({d.runs[p].plan.id : p \in Controls}) = Cardinality(Controls) <=>
          \A p, q \in Controls : d.runs[p].plan.id = d.runs[q].plan.id => p = q
    BY DistinctControls, Zenon
  <2>4. Cardinality({d.runs[p].result.run : p \in Controls}) = Cardinality(Controls) <=>
          \A p, q \in Controls : d.runs[p].result.run = d.runs[q].result.run => p = q
    BY DistinctControls, Zenon
  <2> QED BY <2>2, <2>3, <2>4
<1>10. /\ d.plan.seed = v.root /\ d.root.seed = v.root /\ d.root.mode = "vulnerable"
       /\ d.runs[Patched].root.seed = v.root /\ d.runs[Patched].root.mode = "patched"
  BY <1>1, <1>2, <1>3, PlanFields
<1> HIDE DEF d
<1>11. RootsQualified(d)
  BY <1>6, <1>10 DEF RootsQualified
<1>12. \A p \in Controls : d.runs[p].result.final = Profile(p) /\ d.runs[p].result.failed = 0
  BY <1>5 DEF ControlValid
<1>13. Accepted(d)
  BY <1>3, <1>6, <1>12 DEF Accepted, SetupLength
<1>14. ValidFoundation(d)
  <2>1. d.plan.seed = d.root.seed /\ d.runs[Patched].root.seed = d.root.seed
    BY <1>10
  <2>2. d.log = d.runs[Attempt("a1")].result.log
    BY <1>2, <1>6
  <2>3. d.runs[Patched].result.failed # 0
    BY <1>3
  <2> QED BY <1>3, <1>4, <1>5, <1>6, <1>7, <1>8, <1>9, <1>11, <2>1, <2>2, <2>3, Zenon
          DEF ValidFoundation
<1> QED BY <1>13, <1>14 DEF d
-------------------------------------------------------------------------------
(* A scenario that is, whole or in part, of another proof                  *)
(* (_validate_foundation).                                                 *)

\* The document with another scenario at one place.
Placed(v, p, s) == [ProofOf(v) EXCEPT !.runs[p] = s]
PlacedIs(d, v, p, s) ==
  /\ d.runs[p] = s
  /\ \A q \in Positions \ {p} : d.runs[q] = ProofOf(v).runs[q]
  /\ d.plan = ProofOf(v).plan /\ d.root = ProofOf(v).root
  /\ d.log = ProofOf(v).log /\ d.decisions = ProofOf(v).decisions
  /\ s = ScenarioOf(p, v) => d = ProofOf(v)
LEMMA WithRun ==
  ASSUME NEW v, NEW p \in Positions, NEW s
  PROVE  PlacedIs(Placed(v, p, s), v, p, s)
<1> DEFINE e == ProofOf(v)
           runs == ProofOf(v).runs
           old == ScenarioOf(p, v)
<1>1. /\ DOMAIN e = {"runs", "plan", "root", "log", "decisions"}
      /\ DOMAIN runs = Positions
  <2>1. DOMAIN e = {"runs", "plan", "root", "log", "decisions"}
    BY ProofFields, Zenon DEF ProofIs
  <2>2. runs = [q \in Positions |-> ScenarioOf(q, v)]
    BY ProofFields, Zenon DEF ProofIs
  <2> QED BY <2>1, <2>2
<1>2. runs[p] = old
  BY RunFields, Zenon
<1>3. runs = [q \in Positions |-> runs[q]] /\ e.runs = runs
  <2>1. runs = [q \in Positions |-> ScenarioOf(q, v)]
    BY ProofFields, Zenon DEF ProofIs
  <2> HIDE DEF runs
  <2>2. runs = [q \in Positions |-> runs[q]]
    BY <2>1
  <2> QED BY <2>2 DEF runs
<1>4. e = [f \in {"runs", "plan", "root", "log", "decisions"} |-> e[f]]
  BY <1>1 DEF ProofOf
<1> HIDE DEF e, runs, old
<1>5. s = old => [runs EXCEPT ![p] = s] = runs
  BY <1>1, <1>2, <1>3
<1>6. [e EXCEPT !.runs[p] = s] = [e EXCEPT !.runs = [runs EXCEPT ![p] = s]]
  BY <1>3
<1>7. s = old => [e EXCEPT !.runs[p] = s] = e
  BY <1>1, <1>3, <1>4, <1>5, <1>6
<1>8. /\ [e EXCEPT !.runs[p] = s].runs = [runs EXCEPT ![p] = s]
      /\ [e EXCEPT !.runs[p] = s].plan = e.plan /\ [e EXCEPT !.runs[p] = s].root = e.root
      /\ [e EXCEPT !.runs[p] = s].log = e.log
      /\ [e EXCEPT !.runs[p] = s].decisions = e.decisions
  BY <1>1, <1>6
<1>9. /\ [runs EXCEPT ![p] = s][p] = s
      /\ \A q \in Positions \ {p} : [runs EXCEPT ![p] = s][q] = runs[q]
  BY <1>1
<1>10. Placed(v, p, s) = [e EXCEPT !.runs[p] = s]
  BY DEF Placed, e
<1>11. ProofOf(v) = e /\ ScenarioOf(p, v) = old
  BY DEF e, old
<1> QED BY <1>3, <1>7, <1>8, <1>9, <1>10, <1>11, Zenon DEF PlacedIs

\* What a scenario at one place of the proof of a version has to show.
Fits(v, p, s) ==
  /\ ScenarioValid(s)
  /\ p \in Controls =>
       /\ s.root = RootOf(Attempt("a1"), v) /\ ControlValid(p, s)
       /\ s.plan.id \notin Controls \ {p} /\ s.result.run \notin Controls \ {p}
       /\ \A i \in DOMAIN s.plan.steps :
            ProofOf(v).decisions[<<s.plan.id, i>>].step = s.plan.steps[i]
  /\ \A a \in Attempts : p = Attempt(a) =>
       /\ s.plan = PlanOf(Patched, v) /\ s.root = RootOf(Attempt("a1"), v)
       /\ s.result.final = Disclosure
       /\ \A b \in Attempts \ {a} : s.result.run # Attempt(b)
  /\ p = Patched =>
       /\ s.plan = PlanOf(Patched, v) /\ s.result.final = Refusal
       /\ s.root.seed = v.root /\ s.root.mode = "patched"

\* The collector demands it.
LEMMA ValidFits ==
  ASSUME NEW v, NEW p \in Positions, NEW s,
         ValidFoundation(Placed(v, p, s))
  PROVE  Fits(v, p, s)
<1> DEFINE d == Placed(v, p, s)
<1>10. PlacedIs(d, v, p, s)
  BY WithRun
<1>2. ValidFoundation(d)
  OBVIOUS
<1> HIDE DEF d
<1>1. /\ d.runs[p] = s /\ \A q \in Positions \ {p} : d.runs[q] = ProofOf(v).runs[q]
      /\ d.plan = ProofOf(v).plan /\ d.root = ProofOf(v).root
      /\ d.decisions = ProofOf(v).decisions
  BY <1>10, Zenon DEF PlacedIs
<1>3. d.plan = PlanOf(Patched, v) /\ d.root = RootOf(Attempt("a1"), v)
  BY <1>1, ProofFields, Zenon DEF ProofIs
<1>4. Attempt("a1") \in Positions /\ Attempt("a1") # Patched /\ Patched \in Positions
  BY PlacesDiffer DEF Attempts
<1>5. d.root.seed = v.root
  BY <1>3, <1>4, PlanFields
<1>6. ScenarioValid(s)
  BY <1>1, <1>2 DEF ValidFoundation
<1>7. CASE p \in Controls
  <2>1. s.root = RootOf(Attempt("a1"), v) /\ ControlValid(p, s)
    BY <1>1, <1>2, <1>3, <1>7 DEF ValidFoundation
  <2>2. s.plan.id \notin Controls \ {p}
    <3>1. Cardinality({d.runs[q].plan.id : q \in Controls}) = Cardinality(Controls)
      BY <1>2, Zenon DEF ValidFoundation
    <3>2. \A q \in Controls : d.runs[p].plan.id = d.runs[q].plan.id => p = q
      BY <1>7, <3>1, DistinctControls, Zenon
    <3>3. ASSUME NEW q \in Controls \ {p} PROVE d.runs[q].plan.id = q
      <4>1. q \in Positions /\ d.runs[q] = ProofOf(v).runs[q]
        BY <1>1, PlacesDiffer
      <4>2. d.runs[q].plan = PlanOf(q, v)
        <5>1. ProofOf(v).runs[q].plan = PlanOf(q, v)
          BY <4>1, RunFields, Zenon
        <5> QED BY <4>1, <5>1, Zenon
      <4>3. PlanOf(q, v).id = q
        BY <4>1, PlanFields
      <4> QED BY <4>2, <4>3, Zenon
    <3> QED BY <1>1, <3>2, <3>3
  <2>3. s.result.run \notin Controls \ {p}
    <3>1. Cardinality({d.runs[q].result.run : q \in Controls}) = Cardinality(Controls)
      BY <1>2, Zenon DEF ValidFoundation
    <3>2. \A q \in Controls : d.runs[p].result.run = d.runs[q].result.run => p = q
      BY <1>7, <3>1, DistinctControls, Zenon
    <3>3. ASSUME NEW q \in Controls \ {p} PROVE d.runs[q].result.run = q
      <4>1. q \in Positions /\ d.runs[q] = ProofOf(v).runs[q]
        BY <1>1, PlacesDiffer
      <4> QED BY <4>1, RunFields
    <3> QED BY <1>1, <3>2, <3>3
  <2>4. ASSUME NEW i \in DOMAIN s.plan.steps
        PROVE  ProofOf(v).decisions[<<s.plan.id, i>>].step = s.plan.steps[i]
    <3>1. PolicyBound(d)
      BY <1>2, Zenon DEF ValidFoundation
    <3>2. s.plan \in {d.runs[q].plan : q \in Positions}
      BY <1>1
    <3>3. \A plan \in {d.runs[q].plan : q \in Positions} : \A j \in DOMAIN plan.steps :
            d.decisions[<<plan.id, j>>].step = plan.steps[j]
      BY <3>1, Zenon DEF PolicyBound
    <3> QED BY <1>1, <3>2, <3>3, Zenon
  <2>5. \A a \in Attempts : p # Attempt(a)
    BY <1>7, PlacesDiffer
  <2>6. p # Patched
    BY <1>7, PlacesDiffer
  <2> QED BY <1>6, <2>1, <2>2, <2>3, <2>4, <2>5, <2>6, Zenon DEF Fits
<1>8. CASE p = Patched
  <2>1. s.plan = PlanOf(Patched, v) /\ s.result.final = Refusal
    BY <1>1, <1>2, <1>3, <1>8 DEF ValidFoundation
  <2>2. s.root.seed = v.root
    BY <1>1, <1>2, <1>5, <1>8 DEF ValidFoundation
  <2>3. s.root.mode = "patched"
    BY <1>1, <1>2, <1>8 DEF ValidFoundation, RootsQualified
  <2> QED BY <1>6, <1>8, <2>1, <2>2, <2>3, PlacesDiffer DEF Fits
<1>9. CASE \E a \in Attempts : p = Attempt(a)
  <2>1. PICK a \in Attempts : p = Attempt(a)
    BY <1>9
  <2>2. s.plan = PlanOf(Patched, v) /\ s.root = RootOf(Attempt("a1"), v)
        /\ s.result.final = Disclosure
    BY <1>1, <1>2, <1>3, <2>1 DEF ValidFoundation
  <2>3. ASSUME NEW b \in Attempts \ {a} PROVE s.result.run # Attempt(b)
    <3>1. Cardinality({d.runs[Attempt(c)].result.run : c \in Attempts}) = 5
      BY <1>2, Zenon DEF ValidFoundation
    <3>2. d.runs[Attempt(a)].result.run # d.runs[Attempt(b)].result.run
      BY <3>1, FiveRuns
    <3>3. Attempt(b) \in Positions /\ Attempt(b) # p
      BY <2>1, PlacesDiffer
    <3>4. d.runs[Attempt(b)].result.run = Attempt(b)
      BY <1>1, <3>3, RunFields
    <3> QED BY <1>1, <2>1, <3>2, <3>4
  <2>4. \A b \in Attempts : p = Attempt(b) => b = a
    BY <2>1, PlacesDiffer
  <2>5. p \notin Controls /\ p # Patched
    BY <2>1, PlacesDiffer
  <2> QED BY <1>6, <2>2, <2>3, <2>4, <2>5, Zenon DEF Fits
<1> QED BY <1>7, <1>8, <1>9, PlaceIsOf

\* One scenario for another fits only where they are the same.
LEMMA OtherScenario ==
  ASSUME NEW v, NEW w, NEW p \in Positions, NEW q \in Positions, Fits(v, p, ScenarioOf(q, w))
  PROVE  ScenarioOf(q, w) = ScenarioOf(p, v)
<1> DEFINE s == ScenarioOf(q, w)
<1>1. ScenarioIs(s, q, w) /\ ResultIs(s.result, q, w)
  BY ScenarioFields, ResultFields DEF ScenarioIs
<1>2. Fits(v, p, s)
  OBVIOUS
<1> HIDE DEF s
<1>3. s.plan = PlanOf(q, w) /\ s.root = RootOf(q, w) /\ s.result.run = q
      /\ s.result.final = LastShown(q)
  BY <1>1, Zenon DEF ScenarioIs, ResultIs
<1>4. /\ PlanOf(q, w).id = (IF q \in Controls THEN q ELSE <<"canonical", 0>>)
      /\ PlanOf(q, w).seed = w.root /\ PlanOf(q, w).steps = Calls(q, w)
      /\ RootOf(q, w).seed = w.root
      /\ RootOf(q, w).mode = IF q = Patched THEN "patched" ELSE "vulnerable"
  BY PlanFields
<1>5. /\ PlanOf(p, v).id = (IF p \in Controls THEN p ELSE <<"canonical", 0>>)
      /\ PlanOf(p, v).seed = v.root /\ PlanOf(p, v).steps = Calls(p, v)
      /\ RootOf(p, v).seed = v.root
      /\ RootOf(p, v).mode = IF p = Patched THEN "patched" ELSE "vulnerable"
  BY PlanFields
<1>6. Attempt("a1") \in Positions /\ Attempt("a1") # Patched
  BY PlacesDiffer DEF Attempts
<1>7. /\ RootOf(Attempt("a1"), v).seed = v.root /\ RootOf(Attempt("a1"), v).mode = "vulnerable"
  BY <1>6, PlanFields
<1>8. PlanOf(Patched, v).id = <<"canonical", 0>> /\ <<"canonical", 0>> \notin Controls
  BY PlacesDiffer, PlanFields
<1>9. p = q /\ w.root = v.root
  <2>1. CASE p \in Controls
    <3>1. s.root = RootOf(Attempt("a1"), v) /\ s.result.final = Profile(p)
          /\ s.plan.id \notin Controls \ {p}
      BY <1>2, <2>1 DEF Fits, ControlValid
    <3>2. q # Patched /\ w.root = v.root
      BY <1>3, <1>4, <1>7, <3>1
    <3>3. LastShown(q) # Disclosure
      BY <1>3, <3>1, LastAnswers
    <3>4. q \in Controls
      BY <3>2, <3>3 DEF LastShown
    <3> QED BY <1>3, <1>4, <3>1, <3>2, <3>4
  <2>2. CASE p = Patched
    <3>1. s.plan = PlanOf(Patched, v) /\ s.root.seed = v.root /\ s.root.mode = "patched"
      BY <1>2, <2>2 DEF Fits
    <3> QED BY <1>3, <1>4, <2>2, <3>1
  <2>3. CASE \E a \in Attempts : p = Attempt(a)
    <3>1. PICK a \in Attempts : p = Attempt(a)
      BY <2>3
    <3>2. /\ s.plan = PlanOf(Patched, v) /\ s.root = RootOf(Attempt("a1"), v)
          /\ \A b \in Attempts \ {a} : s.result.run # Attempt(b)
      BY <1>2, <3>1 DEF Fits
    <3>3. q # Patched /\ w.root = v.root
      BY <1>3, <1>4, <1>7, <3>2
    <3>4. q \notin Controls
      BY <1>3, <1>4, <1>8, <3>2
    <3>5. PICK b \in Attempts : q = Attempt(b)
      BY <3>3, <3>4, PlaceIsOf
    <3>6. b = a
      BY <1>3, <3>2, <3>5
    <3> QED BY <3>1, <3>3, <3>5, <3>6
  <2> QED BY <2>1, <2>2, <2>3, PlaceIsOf
<1>10. RootOf(p, w) = RootOf(p, v)
  BY <1>9, Zenon DEF RootOf
<1>11. PlanOf(p, w) = PlanOf(p, v)
  <2>1. CASE p \in Controls
    <3> DEFINE one == Calls(p, w)
               other == Calls(p, v)
    <3>1. s.plan.id = p /\ s.plan.steps = one
      BY <1>3, <1>4, <1>9, <2>1
    <3>2. DOMAIN one = 1..CallCount(p) /\ one \in Seq(Entries(w))
      BY CallsOf DEF CallsAre
    <3>3. DOMAIN other = 1..CallCount(p) /\ other \in Seq(Entries(v))
      BY CallsOf DEF CallsAre
    <3>4. ASSUME NEW i \in 1..CallCount(p) PROVE one[i] = other[i]
      <4>1. ProofOf(v).decisions[<<p, i>>].step = one[i]
        BY <1>2, <2>1, <3>1, <3>2 DEF Fits
      <4>2. i \in DOMAIN PlanOf(p, v).steps
        BY <1>5, <3>3
      <4>3. ProofOf(v).decisions[<<PlanOf(p, v).id, i>>] = Authorization(PlanOf(p, v), i)
        BY <4>2, DecisionOf, Zenon
      <4>4. Authorization(PlanOf(p, v), i).step = PlanOf(p, v).steps[i]
        BY DEF Authorization
      <4>5. PlanOf(p, v).id = p /\ PlanOf(p, v).steps = other
        BY <1>5, <2>1
      <4> QED BY <4>1, <4>3, <4>4, <4>5, Zenon
    <3> HIDE DEF one, other
    <3>5. one = other
      <4>1. one = [i \in 1..CallCount(p) |-> one[i]] /\ other = [i \in 1..CallCount(p) |-> other[i]]
        BY <3>2, <3>3
      <4> QED BY <3>4, <4>1
    <3> QED BY <1>9, <3>5, Zenon DEF PlanOf, one, other
  <2>2. CASE p \notin Controls
    <3>1. s.plan = PlanOf(Patched, v)
      BY <1>2, <2>2, PlaceIsOf DEF Fits
    <3>2. PlanOf(p, v) = PlanOf(Patched, v)
      BY <2>2, OneCanonicalPlan, Zenon
    <3> QED BY <1>3, <1>9, <3>1, <3>2
  <2> QED BY <2>1, <2>2
<1> QED BY <1>9, <1>10, <1>11, SameScenario DEF s

\* A scenario with one part changed to what it was.
LEMMA WithPart ==
  ASSUME NEW p, NEW v, NEW f \in Fields, NEW x
  PROVE  x = ScenarioOf(p, v)[f] => [ScenarioOf(p, v) EXCEPT ![f] = x] = ScenarioOf(p, v)
<1> DEFINE s == ScenarioOf(p, v)
<1>1. s = [g \in Fields |-> s[g]]
  BY ScenarioFields, Zenon
<1> HIDE DEF s
<1>2. DOMAIN s = Fields
  BY <1>1
<1> QED BY <1>1, <1>2 DEF s

\* Two results alike but for the run are the same when the run is.
LEMMA SameResult ==
  ASSUME NEW p, NEW v, NEW w, Signature(ResultOf(p, w)) = Signature(ResultOf(p, v))
  PROVE  ResultOf(p, w) = ResultOf(p, v)
<1> DEFINE one == ResultOf(p, w)
           other == ResultOf(p, v)
           any == Special("any")
           F == {"run", "plan", "root", "log", "final", "failed"}
<1>1. one = [f \in F |-> one[f]] /\ other = [f \in F |-> other[f]]
  BY DEF ResultOf
<1>2. one.run = p /\ other.run = p
  BY ResultFields DEF ResultIs
<1>3. [one EXCEPT !.run = any] = [other EXCEPT !.run = any]
  BY Zenon DEF Signature
<1> HIDE DEF one, other, any
<1>4. ASSUME NEW f \in F PROVE one[f] = other[f]
  <2>1. CASE f = "run"
    BY <1>2, <2>1
  <2>2. CASE f # "run"
    <3>1. /\ [one EXCEPT !.run = any][f] = one[f] /\ [other EXCEPT !.run = any][f] = other[f]
      BY <1>1, <2>2
    <3> QED BY <1>3, <3>1
  <2> QED BY <2>1, <2>2
<1>5. one = other
  BY <1>1, <1>4
<1> QED BY <1>5 DEF one, other

\* One part of another scenario fits only where it is the same.
LEMMA OtherPart ==
  ASSUME NEW v, NEW w, NEW p \in Positions, NEW q \in Positions, NEW f \in Fields,
         Fits(v, p, [ScenarioOf(p, v) EXCEPT ![f] = ScenarioOf(q, w)[f]])
  PROVE  ScenarioOf(q, w)[f] = ScenarioOf(p, v)[f]
<1> DEFINE s == ScenarioOf(p, v)
           t == ScenarioOf(q, w)
           x == [s EXCEPT ![f] = t[f]]
<1>1. ScenarioIs(s, p, v) /\ ScenarioIs(t, q, w)
  BY ScenarioFields
<1>2. ResultIs(s.result, p, v) /\ ResultIs(t.result, q, w)
  BY <1>1, ResultFields DEF ScenarioIs
<1>3. ScenarioValid(s)
  BY ScenarioPasses
<1>4. x[f] = t[f] /\ \A g \in Fields \ {f} : x[g] = s[g]
  <2>1. s = [g \in Fields |-> s[g]]
    BY ScenarioFields, Zenon
  <2> HIDE DEF s, t
  <2>2. DOMAIN s = Fields
    BY <2>1
  <2> QED BY <2>2
<1>5. Fits(v, p, x) /\ ScenarioValid(x)
  BY DEF Fits
<1>6. s.result = ResultOf(p, v) /\ t.result = ResultOf(q, w)
  BY <1>1, Zenon DEF ScenarioIs
<1>7. t.plan = PlanOf(q, w) /\ s.plan = PlanOf(p, v)
  BY <1>1, Zenon DEF ScenarioIs
<1> SUFFICES t[f] = s[f]
  OBVIOUS
<1> HIDE DEF s, t, x
<1>8. CASE f = "plan"
  <2>1. x.plan = t.plan /\ x.root = s.root /\ x.result = s.result
    BY <1>4, <1>8 DEF Fields
  <2>2. /\ t.plan.seed = s.root.seed /\ s.result.plan = t.plan.id /\ s.result.log = t.plan.steps
    BY <1>5, <2>1 DEF ScenarioValid
  <2>3. /\ s.plan.seed = s.root.seed /\ s.result.plan = s.plan.id /\ s.result.log = s.plan.steps
    BY <1>3 DEF ScenarioValid
  <2>4. /\ t.plan = [id |-> t.plan.id, seed |-> t.plan.seed, steps |-> t.plan.steps]
        /\ s.plan = [id |-> s.plan.id, seed |-> s.plan.seed, steps |-> s.plan.steps]
    BY <1>7 DEF PlanOf
  <2>5. /\ t.plan.id = s.plan.id /\ t.plan.seed = s.plan.seed /\ t.plan.steps = s.plan.steps
    BY <2>2, <2>3
  <2> QED BY <1>8, <2>4, <2>5
<1>9. CASE f = "root"
  <2>1. x.root = t.root /\ x.result = s.result
    BY <1>4, <1>9 DEF Fields
  <2> QED BY <1>3, <1>5, <1>9, <2>1 DEF ScenarioValid
<1>10. CASE f = "view"
  <2>1. x.view = t.view /\ x.result = s.result
    BY <1>4, <1>10 DEF Fields
  <2> QED BY <1>3, <1>5, <1>10, <2>1 DEF ScenarioValid
<1>11. CASE f = "records"
  <2>1. x.records = t.records /\ x.result = s.result
    BY <1>4, <1>11 DEF Fields
  <2> QED BY <1>3, <1>5, <1>11, <2>1 DEF ScenarioValid
<1>12. CASE f = "result"
  <2>1. x.result = t.result /\ x.plan = s.plan /\ x.root = s.root /\ x.view = s.view
    BY <1>4, <1>12 DEF Fields
  <2>2. /\ s.view = ViewOf(t.result) /\ s.view = ViewOf(s.result)
        /\ t.result.plan = s.plan.id /\ t.result.root = s.root
    BY <1>3, <1>5, <2>1, Zenon DEF ScenarioValid
  <2>3. Signature(t.result) = Signature(s.result)
    <3>1. ViewOf(t.result).signature = Signature(t.result)
      BY ViewFields
    <3>2. ViewOf(s.result).signature = Signature(s.result)
      BY ViewFields
    <3> QED BY <2>2, <3>1, <3>2
  <2>4. /\ t.result.run = q /\ t.result.plan = PlanOf(q, w).id /\ t.result.root = RootOf(q, w)
        /\ s.root = RootOf(p, v) /\ s.plan.id = PlanOf(p, v).id
    BY <1>1, <1>2, Zenon DEF ScenarioIs, ResultIs
  <2>5. /\ PlanOf(q, w).id = (IF q \in Controls THEN q ELSE <<"canonical", 0>>)
        /\ RootOf(q, w).mode = IF q = Patched THEN "patched" ELSE "vulnerable"
    BY PlanFields
  <2>6. /\ PlanOf(p, v).id = (IF p \in Controls THEN p ELSE <<"canonical", 0>>)
        /\ RootOf(p, v).mode = IF p = Patched THEN "patched" ELSE "vulnerable"
    BY PlanFields
  <2>7. q = p
    <3>1. CASE p \in Controls \/ p = Patched
      BY <2>2, <2>4, <2>5, <2>6, <3>1, PlacesDiffer
    <3>2. CASE \E a \in Attempts : p = Attempt(a)
      <4>1. PICK a \in Attempts : p = Attempt(a)
        BY <3>2
      <4>2. p \notin Controls /\ p # Patched
        BY <4>1, PlacesDiffer
      <4>3. q \notin Controls /\ q # Patched
        BY <2>2, <2>4, <2>5, <2>6, <4>2, PlacesDiffer
      <4>4. PICK b \in Attempts : q = Attempt(b)
        BY <4>3, PlaceIsOf
      <4>5. \A c \in Attempts \ {a} : x.result.run # Attempt(c)
        BY <1>5, <4>1, Zenon DEF Fits
      <4> QED BY <2>1, <2>4, <4>1, <4>4, <4>5
    <3> QED BY <3>1, <3>2, PlaceIsOf
  <2> QED BY <1>6, <1>12, <2>3, <2>7, SameResult
<1> QED BY <1>8, <1>9, <1>10, <1>11, <1>12 DEF Fields
-------------------------------------------------------------------------------
(* A part of the document that is of another proof.                        *)

DocumentParts == {"runs", "plan", "root", "log", "decisions"}

\* The calls of a scenario are those of the setup.
LEMMA SameCalls ==
  ASSUME NEW p \in Positions, NEW v, NEW w, v.setup = w.setup
  PROVE  Calls(p, v) = Calls(p, w)
<1>1. Setup(v) = Setup(w)
  BY Zenon DEF Setup
<1>2. \A name \in Named : /\ Special(name) \in Controls
                          /\ Special(name)[1] # "missing_prerequisite"
  BY DEF Controls, Named, Special
<1>3. \A one, other \in Named : Special(one) = Special(other) => one = other
  BY DEF Special
<1> DEFINE s == Setup(v)
           u == v.setup
           t == Setup(w)
           x == w.setup
<1>4. s = t /\ u = x
  BY <1>1
<1> HIDE DEF s, t, u, x
<1>5. CASE p \in Controls /\ p[1] = "missing_prerequisite"
  <2>1. \A name \in Named : p # Special(name)
    BY <1>2, <1>5
  <2> QED BY <1>4, <1>5, <2>1 DEF Calls, Named, s, t
<1>6. CASE p = Special("expired_replay_window")
  <2>1. /\ Calls(p, v) = Append(Append(Front(s), [call |-> <<"late clock", u>>, write |-> TRUE]),
                                Read("old editor", "protected"))
        /\ Calls(p, w) = Append(Append(Front(t), [call |-> <<"late clock", x>>, write |-> TRUE]),
                                Read("old editor", "protected"))
    BY <1>2, <1>3, <1>6 DEF Calls, Named, s, t, u, x
  <2> QED BY <1>4, <2>1, Zenon
<1>7. CASE p \in Single
  BY <1>2, <1>3, <1>7 DEF Calls, Named, Single
<1>8. CASE p = Special("fresh_session")
  <2>1. /\ Calls(p, v) = Append(s, Read("fresh viewer", "protected"))
        /\ Calls(p, w) = Append(t, Read("fresh viewer", "protected"))
    BY <1>2, <1>3, <1>8 DEF Calls, Named, s, t
  <2> QED BY <1>4, <2>1, Zenon
<1>9. CASE p \notin Controls
  <2>1. \A name \in Named : p # Special(name)
    BY <1>2, <1>9
  <2>2. /\ Calls(p, v) = Append(s, Read("old editor", "protected"))
        /\ Calls(p, w) = Append(t, Read("old editor", "protected"))
    BY <1>9, <2>1 DEF Calls, Named, s, t
  <2> QED BY <1>4, <2>2, Zenon
<1>10. p \in Controls => \/ p[1] = "missing_prerequisite" \/ p = Special("expired_replay_window")
                         \/ p \in Single \/ p = Special("fresh_session")
  BY DEF Controls, Single, Without
<1> QED BY <1>5, <1>6, <1>7, <1>8, <1>9, <1>10

\* A version is known by its root and its calls.
LEMMA SameVersion ==
  ASSUME NEW v, NEW w, PlanOf(Patched, v) = PlanOf(Patched, w)
  PROVE  ProofOf(v).runs = ProofOf(w).runs
<1>1. Patched \in Positions /\ Patched \notin Controls
  BY PlacesDiffer
<1>2. v.root = w.root /\ Calls(Patched, v) = Calls(Patched, w)
  <2>1. PlanOf(Patched, v).seed = v.root /\ PlanOf(Patched, v).steps = Calls(Patched, v)
    BY <1>1, PlanFields, Zenon
  <2>2. PlanOf(Patched, w).seed = w.root /\ PlanOf(Patched, w).steps = Calls(Patched, w)
    BY <1>1, PlanFields, Zenon
  <2> QED BY <2>1, <2>2, Zenon
<1>3. v.setup = w.setup
  <2>1. Calls(Patched, v)[1].call[3] = v.setup
    BY <1>1, CallsOf, Zenon DEF CallsAre
  <2>2. Calls(Patched, w)[1].call[3] = w.setup
    BY <1>1, CallsOf, Zenon DEF CallsAre
  <2> QED BY <1>2, <2>1, <2>2, Zenon
<1>4. ASSUME NEW p \in Positions PROVE ScenarioOf(p, v) = ScenarioOf(p, w)
  <2>1. Calls(p, v) = Calls(p, w)
    BY <1>3, SameCalls
  <2>2. PlanOf(p, v) = PlanOf(p, w) /\ RootOf(p, v) = RootOf(p, w)
    BY <1>2, <2>1, Zenon DEF PlanOf, RootOf
  <2> QED BY <2>2, SameScenario
<1> DEFINE F(p) == ScenarioOf(p, v)
           G(p) == ScenarioOf(p, w)
<1>5. ProofOf(v).runs = [p \in Positions |-> F(p)] /\ ProofOf(w).runs = [p \in Positions |-> G(p)]
  BY ProofFields, Zenon DEF ProofIs
<1>6. \A p \in Positions : F(p) = G(p)
  BY <1>4, Zenon
<1> HIDE DEF F, G
<1> QED BY <1>5, <1>6

\* The document with one part of another.
Exchanged(v, w, f) == [ProofOf(v) EXCEPT ![f] = ProofOf(w)[f]]
LEMMA WithAnother ==
  ASSUME NEW v, NEW w, NEW f \in DocumentParts
  PROVE  /\ Exchanged(v, w, f)[f] = ProofOf(w)[f]
         /\ \A g \in DocumentParts \ {f} : Exchanged(v, w, f)[g] = ProofOf(v)[g]
         /\ ProofOf(w)[f] = ProofOf(v)[f] => Exchanged(v, w, f) = ProofOf(v)
<1> DEFINE d == ProofOf(v)
           e == ProofOf(w)
<1>1. d = [g \in DocumentParts |-> d[g]]
  BY DEF ProofOf, DocumentParts
<1> HIDE DEF d, e
<1>2. DOMAIN d = DocumentParts
  BY <1>1
<1>3. Exchanged(v, w, f) = [d EXCEPT ![f] = e[f]]
  BY DEF Exchanged, d, e
<1>4. /\ [d EXCEPT ![f] = e[f]][f] = e[f]
      /\ \A g \in DocumentParts \ {f} : [d EXCEPT ![f] = e[f]][g] = d[g]
  BY <1>2
<1>5. e[f] = d[f] => [d EXCEPT ![f] = e[f]] = d
  BY <1>1, <1>2
<1> QED BY <1>3, <1>4, <1>5 DEF d, e

\* An authorization for a step is what the collector derives but for when it was
\* made.
LEMMA UndatedAuthorization ==
  ASSUME NEW one, NEW other, NEW i, NEW j,
         Authorization(one, i).step = Authorization(other, j).step,
         Authorization(one, i).requests = Authorization(other, j).requests,
         Authorization(one, i).writes = Authorization(other, j).writes
  PROVE  [Authorization(one, i) EXCEPT !.at = 0] = [Authorization(other, j) EXCEPT !.at = 0]
<1> DEFINE a == Authorization(one, i)
           b == Authorization(other, j)
<1>1. /\ a = [step |-> a.step, requests |-> a.requests, writes |-> a.writes, at |-> a.at]
      /\ b = [step |-> b.step, requests |-> b.requests, writes |-> b.writes, at |-> b.at]
  BY DEF Authorization
<1>2. a.step = b.step /\ a.requests = b.requests /\ a.writes = b.writes
  OBVIOUS
<1> HIDE DEF a, b
<1>3. /\ [a EXCEPT !.at = 0] = [step |-> a.step, requests |-> a.requests, writes |-> a.writes, at |-> 0]
      /\ [b EXCEPT !.at = 0] = [step |-> b.step, requests |-> b.requests, writes |-> b.writes, at |-> 0]
  BY <1>1
<1>4. [a EXCEPT !.at = 0] = [b EXCEPT !.at = 0]
  BY <1>2, <1>3
<1> QED BY <1>4 DEF a, b

\* The decisions of another proof bind the plans of this one only where they are
\* the same, undated.
LEMMA OtherDecisions ==
  ASSUME NEW v, NEW w, v.root \in Nat, ValidFoundation(Exchanged(v, w, "decisions"))
  PROVE  Undated(Exchanged(v, w, "decisions")) = Undated(ProofOf(v))
<1> DEFINE d == Exchanged(v, w, "decisions")
           e == ProofOf(v)
           mine == ProofOf(v).decisions
           theirs == ProofOf(w).decisions
<1>1. /\ d.decisions = theirs /\ d.runs = e.runs
  <2>1. "decisions" \in DocumentParts /\ "runs" \in DocumentParts \ {"decisions"}
    BY DEF DocumentParts
  <2>2. d["decisions"] = theirs /\ d["runs"] = e["runs"]
    BY <2>1, WithAnother
  <2> QED BY <2>2
<1>2. PolicyBound(d) /\ PolicyBound(e)
  BY ProofPolicy DEF ValidFoundation
<1>3. e.decisions = mine
  OBVIOUS
<1> DEFINE plans == {e.runs[p].plan : p \in Positions}
<1> HIDE DEF d, e, mine, theirs, plans
<1>4. /\ DOMAIN theirs = References(plans) /\ DOMAIN mine = References(plans)
      /\ \A plan \in plans : \A i \in DOMAIN plan.steps :
           /\ theirs[<<plan.id, i>>].step = plan.steps[i] /\ mine[<<plan.id, i>>].step = plan.steps[i]
           /\ theirs[<<plan.id, i>>].requests = i - 1 /\ mine[<<plan.id, i>>].requests = i - 1
           /\ theirs[<<plan.id, i>>].writes = WritesBefore(plan.steps, i)
           /\ mine[<<plan.id, i>>].writes = WritesBefore(plan.steps, i)
  <2>1. plans = {d.runs[p].plan : p \in Positions}
    BY <1>1, Zenon DEF plans
  <2> DEFINE Derives(c, plan, i) ==
               /\ c[<<plan.id, i>>].step = plan.steps[i]
               /\ c[<<plan.id, i>>].requests = i - 1
               /\ c[<<plan.id, i>>].writes = WritesBefore(plan.steps, i)
  <2>2. DOMAIN d.decisions = References({d.runs[p].plan : p \in Positions})
        /\ \A plan \in {d.runs[p].plan : p \in Positions} : \A i \in DOMAIN plan.steps :
             Derives(d.decisions, plan, i)
    BY <1>2, Zenon DEF PolicyBound
  <2>3. DOMAIN e.decisions = References({e.runs[p].plan : p \in Positions})
        /\ \A plan \in {e.runs[p].plan : p \in Positions} : \A i \in DOMAIN plan.steps :
             Derives(e.decisions, plan, i)
    BY <1>2, Zenon DEF PolicyBound
  <2>4. DOMAIN theirs = References(plans)
        /\ \A plan \in plans : \A i \in DOMAIN plan.steps : Derives(theirs, plan, i)
    <3> HIDE DEF Derives
    <3> QED BY <1>1, <2>1, <2>2
  <2>5. DOMAIN mine = References(plans)
        /\ \A plan \in plans : \A i \in DOMAIN plan.steps : Derives(mine, plan, i)
    <3> HIDE DEF Derives
    <3> QED BY <1>3, <2>3 DEF plans
  <2> QED BY <2>4, <2>5, Zenon
<1>5. ASSUME NEW r \in References(plans)
      PROVE  [theirs[r] EXCEPT !.at = 0] = [mine[r] EXCEPT !.at = 0]
  <2>0. PICK plan \in plans : r \in {<<plan.id, i>> : i \in DOMAIN plan.steps}
    BY DEF References
  <2>1. PICK i \in DOMAIN plan.steps : r = <<plan.id, i>>
    BY <2>0
  <2>2. /\ theirs[r].step = mine[r].step /\ theirs[r].requests = mine[r].requests
        /\ theirs[r].writes = mine[r].writes
    BY <1>4, <2>1, Zenon
  <2>3. mine = [x \in References(PlansOf(v)) |-> Authorization(PlanNamed(PlansOf(v), x[1]), x[2])]
    BY ProofFields, Zenon DEF ProofIs, mine
  <2>4. theirs = [x \in References(PlansOf(w)) |-> Authorization(PlanNamed(PlansOf(w), x[1]), x[2])]
    BY ProofFields, Zenon DEF ProofIs, theirs
  <2> DEFINE F(x) == Authorization(PlanNamed(PlansOf(v), x[1]), x[2])
             G(x) == Authorization(PlanNamed(PlansOf(w), x[1]), x[2])
             A == References(PlansOf(v))
             B == References(PlansOf(w))
  <2>5. mine = [x \in A |-> F(x)] /\ theirs = [x \in B |-> G(x)]
    BY <2>3, <2>4
  <2> HIDE DEF F, G, A, B
  <2>6. mine[r] = F(r) /\ theirs[r] = G(r)
    BY <1>4, <2>5
  <2>7. /\ mine[r] = Authorization(PlanNamed(PlansOf(v), r[1]), r[2])
        /\ theirs[r] = Authorization(PlanNamed(PlansOf(w), r[1]), r[2])
    BY <2>6 DEF F, G
  <2> QED BY <2>2, <2>7, UndatedAuthorization
<1> DEFINE F(r) == [theirs[r] EXCEPT !.at = 0]
           G(r) == [mine[r] EXCEPT !.at = 0]
           one == [r \in DOMAIN theirs |-> F(r)]
           other == [r \in DOMAIN mine |-> G(r)]
<1>6. one = other
  <2>1. \A r \in References(plans) : F(r) = G(r)
    BY <1>5
  <2> HIDE DEF F, G
  <2> QED BY <1>4, <2>1
<1>7. Undated(d) = [d EXCEPT !.decisions = one]
  BY <1>1, Zenon DEF Undated
<1>8. Undated(e) = [e EXCEPT !.decisions = other]
  BY <1>3, Zenon DEF Undated
<1>9. d = [e EXCEPT !.decisions = theirs]
  BY DEF d, e, theirs, Exchanged
<1>10. DOMAIN e = {"runs", "plan", "root", "log", "decisions"}
  BY ProofFields, Zenon DEF ProofIs, e
<1> HIDE DEF one, other
<1>11. [[e EXCEPT !.decisions = theirs] EXCEPT !.decisions = one] = [e EXCEPT !.decisions = one]
  BY <1>10
<1>12. Undated(d) = Undated(e)
  BY <1>6, <1>7, <1>8, <1>9, <1>11, Zenon
<1> QED BY <1>12 DEF d, e

\* A document put together of parts of two proofs that the collector takes is one
\* that the program wrote.
LEMMA SplicesFound == NoSpliceIsValid
<1>1. ASSUME NEW v \in Versions, NEW w \in Versions, NEW p \in Positions, NEW q \in Positions,
             NEW d \in SplicedRun(Proofs[v], p, Proofs[w].runs[q]), ValidFoundation(d)
      PROVE  Written(d)
  <2>1. Proofs[v] = ProofOf(v) /\ Proofs[w].runs[q] = ScenarioOf(q, w)
    BY RunFields DEF Proofs
  <2>2. ProofOf(v).runs[p] = ScenarioOf(p, v)
    BY RunFields, Zenon
  <2>3. d = ProofOf(v)
    <3>1. CASE d = Placed(v, p, ScenarioOf(q, w))
      <4>1. Fits(v, p, ScenarioOf(q, w))
        BY <1>1, <3>1, ValidFits
      <4>2. ScenarioOf(q, w) = ScenarioOf(p, v)
        BY <4>1, OtherScenario
      <4>3. PlacedIs(Placed(v, p, ScenarioOf(q, w)), v, p, ScenarioOf(q, w))
        BY WithRun
      <4> QED BY <3>1, <4>2, <4>3 DEF PlacedIs
    <3>2. ASSUME NEW f \in Fields,
                 d = Placed(v, p, [ScenarioOf(p, v) EXCEPT ![f] = ScenarioOf(q, w)[f]])
          PROVE  d = ProofOf(v)
      <4> DEFINE s == [ScenarioOf(p, v) EXCEPT ![f] = ScenarioOf(q, w)[f]]
      <4>1. Fits(v, p, s)
        BY <1>1, <3>2, ValidFits
      <4>2. s = ScenarioOf(p, v)
        BY <4>1, OtherPart, WithPart
      <4>3. PlacedIs(Placed(v, p, s), v, p, s)
        BY WithRun
      <4> HIDE DEF s
      <4> QED BY <3>2, <4>2, <4>3 DEF PlacedIs, s
    <3>3. \/ d = Placed(v, p, ScenarioOf(q, w))
          \/ \E f \in Fields :
               d = Placed(v, p, [ScenarioOf(p, v) EXCEPT ![f] = ScenarioOf(q, w)[f]])
      <4> DEFINE e == ProofOf(v)
                 s == ScenarioOf(p, v)
                 t == ScenarioOf(q, w)
      <4>1. d \in SplicedRun(e, p, t)
        BY <1>1, <2>1
      <4>2. e.runs[p] = s
        BY <2>2
      <4> HIDE DEF e, s, t
      <4>3. \/ d = [e EXCEPT !.runs[p] = t]
            \/ \E f \in Fields : d = [e EXCEPT !.runs[p] = [e.runs[p] EXCEPT ![f] = t[f]]]
        BY <4>1 DEF SplicedRun
      <4> QED BY <4>2, <4>3 DEF Placed, e, s, t
    <3> QED BY <3>1, <3>2, <3>3
  <2> QED BY <2>1, <2>3 DEF Written
<1>2. ASSUME NEW v \in Versions, NEW w \in Versions, NEW f \in DocumentParts,
             ValidFoundation(Exchanged(v, w, f))
      PROVE  Written(Exchanged(v, w, f))
  <2> DEFINE d == Exchanged(v, w, f)
             e == ProofOf(v)
             o == ProofOf(w)
  <2>1. d[f] = o[f] /\ \A g \in DocumentParts \ {f} : d[g] = e[g]
    BY WithAnother
  <2>2. o[f] = e[f] => d = e
    BY WithAnother
  <2>3. v.root \in Nat
    BY VersionsAssumption
  <2>4. ValidFoundation(d) /\ ValidFoundation(e)
    BY <1>2, <2>3, ProofsPass
  <2>5. "a1" \in Attempts
    BY DEF Attempts
  <2>6. CASE f = "decisions"
    <3>1. Undated(Exchanged(v, w, "decisions")) = Undated(ProofOf(v))
      BY <1>2, <2>3, <2>6, OtherDecisions
    <3> QED BY <2>6, <3>1 DEF Written, Proofs
  <2>7. ASSUME f # "decisions" PROVE d = e
    <3> HIDE DEF d, e, o
    <3>1. \A x \in {d, e} : /\ x.runs[Attempt("a1")].plan = x.plan
                            /\ x.runs[Attempt("a1")].root = x.root
                            /\ x.log = x.runs[Attempt("a1")].result.log
      BY <2>4, <2>5, Zenon DEF ValidFoundation
    <3>2. CASE f = "plan"
      <4>1. d.plan = o.plan /\ d.runs = e.runs
        BY <2>1, <3>2 DEF DocumentParts
      <4> QED BY <2>2, <3>1, <3>2, <4>1
    <3>3. CASE f = "root"
      <4>1. d.root = o.root /\ d.runs = e.runs
        BY <2>1, <3>3 DEF DocumentParts
      <4> QED BY <2>2, <3>1, <3>3, <4>1
    <3>4. CASE f = "log"
      <4>1. d.log = o.log /\ d.runs = e.runs
        BY <2>1, <3>4 DEF DocumentParts
      <4> QED BY <2>2, <3>1, <3>4, <4>1
    <3>5. CASE f = "runs"
      <4>1. d.runs = o.runs /\ d.plan = e.plan
        BY <2>1, <3>5 DEF DocumentParts
      <4>2. o.runs[Attempt("a1")].plan = e.plan
        BY <3>1, <4>1
      <4>3. Attempt("a1") \in Positions /\ Attempt("a1") \notin Controls
        BY <2>5, PlacesDiffer
      <4>4. o.runs[Attempt("a1")].plan = PlanOf(Attempt("a1"), w)
        BY <4>3, RunFields, Zenon DEF o
      <4>5. PlanOf(Attempt("a1"), w) = PlanOf(Patched, w)
        BY <4>3, OneCanonicalPlan, Zenon
      <4>6. e.plan = PlanOf(Patched, v)
        BY ProofFields, Zenon DEF ProofIs, e
      <4>7. e.runs = o.runs
        BY <4>2, <4>4, <4>5, <4>6, SameVersion DEF e, o
      <4> QED BY <2>2, <3>5, <4>7
    <3> QED BY <2>7, <3>2, <3>3, <3>4, <3>5 DEF DocumentParts
  <2>8. CASE f # "decisions"
    <3>1. Exchanged(v, w, f) = ProofOf(v)
      BY <2>7, <2>8
    <3> QED BY <3>1 DEF Written, Proofs
  <2> QED BY <2>6, <2>8
<1>3. \A v, w \in Versions : \A f \in DocumentParts :
        [Proofs[v] EXCEPT ![f] = Proofs[w][f]] = Exchanged(v, w, f)
  BY DEF Proofs, Exchanged
<1>4. ASSUME NEW v \in Versions, NEW w \in Versions
      PROVE  /\ \A p, q \in Positions : \A d \in SplicedRun(Proofs[v], p, Proofs[w].runs[q]) :
                  ValidFoundation(d) => Written(d)
             /\ \A f \in {"runs", "plan", "root", "log", "decisions"} :
                  LET d == [Proofs[v] EXCEPT ![f] = Proofs[w][f]]
                  IN  ValidFoundation(d) => Written(d)
  <2>1. \A p, q \in Positions : \A d \in SplicedRun(Proofs[v], p, Proofs[w].runs[q]) :
          ValidFoundation(d) => Written(d)
    BY <1>1, Zenon
  <2>2. ASSUME NEW f \in DocumentParts
        PROVE  LET d == [Proofs[v] EXCEPT ![f] = Proofs[w][f]]
               IN  ValidFoundation(d) => Written(d)
    <3>1. ValidFoundation(Exchanged(v, w, f)) => Written(Exchanged(v, w, f))
      BY <1>2, Zenon
    <3>2. [Proofs[v] EXCEPT ![f] = Proofs[w][f]] = Exchanged(v, w, f)
      BY <1>3, Zenon
    <3> QED BY <3>1, <3>2
  <2> QED BY <2>1, <2>2, Zenon DEF DocumentParts
<1> QED BY <1>4, Zenon DEF NoSpliceIsValid

\* The proof the program writes of a version is one it accepts, and one the
\* collector takes.
LEMMA ProofsAccepted == ProofsAreValid
BY ProofsPass, VersionsAssumption DEF ProofsAreValid, Proofs

\* The program writes no proof and no receipt that is refused.  No proof is taken
\* that no version could have written, and no receipt whose search and replays are
\* of two revisions (_validate_foundation, HostedDockerQualificationReceipt).
LEMMA PartsAreGenuine == PartsGenuine
BY ProofsAccepted, SplicesFound, AdmissionsAreSound, Zenon DEF PartsGenuine

\* What is declared valid has a hosted receipt for its own revision, if any
\* (verify_acceptance_evidence).
LEMMA GenuineIsWhole ==
  ASSUME BundleIsGenuine, verifier.pc = "valid"
  PROVE  LET input == Said(verifier.listed)
         IN  \A h \in input.hosted : OneWorkflowAt(h, input.marker)
<1> PICK input : input = Said(verifier.listed)
  OBVIOUS
<1>1. Acceptable(input) \/ Acceptable([input EXCEPT !.runtime = {}])
  BY DEF BundleIsGenuine
<1>2. \A h \in input.hosted : <<h, input.marker>> \in HostedValid
  <2>1. CASE Acceptable(input)
    BY <2>1 DEF Acceptable
  <2>2. CASE Acceptable([input EXCEPT !.runtime = {}])
    <3> PICK rest : rest = [input EXCEPT !.runtime = {}]
      OBVIOUS
    <3>1. rest.hosted = input.hosted /\ rest.marker = input.marker
      BY DEF Said
    <3>2. \A h \in rest.hosted : <<h, rest.marker>> \in HostedValid
      BY <2>2 DEF Acceptable
    <3> QED BY <3>1, <3>2
  <2> QED BY <1>1, <2>1, <2>2
<1> QED BY <1>2, HostedIsWhole

\* Whatever collectors, verifier and others do: in a bundle found valid no row
\* passes without its tests, its evidence and its receipt, and the hosted receipt
\* is in its search and its replays one workflow's, of the bundle's revision
\* (derive_acceptance_results, verify_acceptance_evidence).
THEOREM NothingUnprovedPasses == BundleSpec => []NothingPassesUnproved
<1>1. /\ BundleIsGenuine
      /\ (verifier.pc = "valid" => DOMAIN verifier.listed \ Always \in Proved)
      => NothingPassesUnproved
  BY PartsAreGenuine, GenuineIsWhole DEF NothingPassesUnproved
<1> QED BY <1>1, GenuineSafety, ResultsSafety, PTL
===============================================================================
