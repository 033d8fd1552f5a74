---------------------------- MODULE BundleProofs ----------------------------
(***************************************************************************)
(* Proofs, for any cells, microscopes and walkthroughs and any number of   *)
(* faults, of the microscope files (MicroscopeBundle): answers are true,   *)
(* files of others are kept, and as long as a command meets one fault at   *)
(* most and no other program writes, it takes effect as a whole or not at  *)
(* all, which is what MicroscopeStore promises.                            *)
(*                                                                         *)
(* A command knows the files it started from; each of its stages says      *)
(* what is written by now (Base, and what is done since).  A repair goes   *)
(* the same way back, from the files it wrote (Changed).                   *)
(***************************************************************************)
EXTENDS MicroscopeBundle, FiniteSetTheorems, TLAPS

-----------------------------------------------------------------------------
(* The inductive invariant. *)

Document == [cell : CellId, id : MicroscopeId, rev : 0 .. MaxRevision, w : Walkthrough]
Refs == UNION {[S -> 0 .. MaxRevision] : S \in SUBSET MicroscopeId}
Notebook == [CellId -> Refs]
Anything == {Absent, Alien} \cup Document \cup Source
Job ==
  [at : {"load", "check", "preflight", "write", "undo", "save", "observe",
         "done", "failed", "restored"},
   op : {"create", "set", "delete", "read"}, cell : CellId, id : MicroscopeId,
   w : Walkthrough, rev : 0 .. MaxRevision, goal : Notebook,
   stored : Document \cup {Absent}, old : Document \cup {Absent}, new : Document \cup {Absent},
   todo : Seq(Path), done : Seq(Path), backup : Seq(Anything),
   repair : BOOLEAN, restored : BOOLEAN, items : Notebook, files : [Path -> Anything]]

\* Content files hold documents, attachments sources.
Sorted(f) ==
  \A p \in Path : f[p] \in {Absent, Alien} \cup (IF p[3] = Content THEN Document ELSE Source)
Small(i) ==
  \A c \in CellId : IsFiniteSet(DOMAIN i[c]) /\ Cardinality(DOMAIN i[c]) <= MaxItems

\* Notebook i and files f belong together.
Whole(i, f) ==
  /\ \A c \in CellId : \A m \in DOMAIN i[c] :
       /\ f[Sidecar(c, m)] \in Document
       /\ f[Sidecar(c, m)].cell = c /\ f[Sidecar(c, m)].id = m /\ f[Sidecar(c, m)].rev = i[c][m]
       /\ \A p \in DOMAIN Bundle(f[Sidecar(c, m)]) : f[p] = Bundle(f[Sidecar(c, m)])[p]
  /\ \A p \in Path : f[p] # Absent =>
       \E c \in CellId : \E m \in DOMAIN i[c] : p \in DOMAIN Bundle(f[Sidecar(c, m)])

\* What a command was asked, and the document it is to store.
Side(j) == Sidecar(j.cell, j.id)
Goal(j) ==
  CASE j.op = "create" -> [j.items EXCEPT ![j.cell] = With(j.items[j.cell], j.id, 0)]
    [] j.op = "set" -> [j.items EXCEPT ![j.cell] = With(j.items[j.cell], j.id, j.rev + 1)]
    [] j.op = "delete" -> [j.items EXCEPT ![j.cell] = WithoutId(j.items[j.cell], j.id)]
    [] j.op = "read" -> j.items
Asked(j) ==
  /\ IF j.op = "create"
     THEN /\ j.id \notin DOMAIN j.items[j.cell] /\ j.rev = 0
          /\ Cardinality(DOMAIN j.items[j.cell]) < MaxItems
     ELSE j.id \in DOMAIN j.items[j.cell] /\ j.rev = j.items[j.cell][j.id]
  /\ j.op = "set" => j.rev < MaxRevision
  /\ j.goal = Goal(j)
Target(j) ==
  IF j.op = "create" THEN Doc(j.cell, j.id, j.rev, j.w)
  ELSE IF j.op = "set" THEN Doc(j.cell, j.id, j.rev + 1, j.w) ELSE Absent

\* The files of both documents, and all files when they are written.
Touched(j) == DOMAIN Bundle(j.stored) \cup DOMAIN Bundle(Target(j))
Changed(j) ==
  [p \in Path |-> IF p \in Touched(j) THEN Planned(Target(j), p) ELSE j.files[p]]
Base(j) == IF j.repair THEN Changed(j) ELSE j.files

\* The content was read, and is the document of the reference.
Loaded(j) ==
  /\ j.op # "read" /\ j.stored = j.files[Side(j)]
  /\ j.stored # Absent =>
       j.stored \in Document /\ j.stored.cell = j.cell /\ j.stored.id = j.id
       /\ j.stored.rev = j.rev
  /\ j.op = "create" => j.stored = Absent
  /\ j.op = "set" => j.stored # Absent

\* From the stored document to the target, or back.
Directed(j) ==
  /\ Loaded(j) /\ (j.op = "delete" => j.stored # Absent)
  /\ IF j.repair THEN j.old = Target(j) /\ j.new = j.stored
     ELSE j.old = j.stored /\ j.new = Target(j)

\* Files that were looked at were the bundle's.
Looked(j) ==
  \A i \in DOMAIN j.backup :
    /\ i <= Len(PathsOf(j.old, j.new))
    /\ j.backup[i] = Base(j)[PathsOf(j.old, j.new)[i]]
    /\ j.backup[i] \in {Absent, Planned(j.old, PathsOf(j.old, j.new)[i])}
\* The paths after the first n.
Rest(j, n) ==
  /\ n + Len(j.todo) = Len(PathsOf(j.old, j.new)) /\ Len(j.todo) >= 1
  /\ \A i \in DOMAIN j.todo : j.todo[i] = PathsOf(j.old, j.new)[n + i]
AllLooked(j) == Looked(j) /\ Len(j.backup) = Len(PathsOf(j.old, j.new))
AllOwned(j) == \A p \in Touched(j) : Base(j)[p] \in {Absent, Planned(j.old, p)}

\* What the files are at each stage.
StageLoad ==
  /\ files = job.files /\ items = job.items
  /\ ~job.repair /\ job.restored /\ job.stored = Absent
StageCheck ==
  /\ Directed(job) /\ files = Base(job) /\ job.done = <<>> /\ job.backup = <<>> /\ job.restored
StagePreflight ==
  /\ Directed(job) /\ files = Base(job) /\ job.done = <<>> /\ job.restored
  /\ Looked(job) /\ Rest(job, Len(job.backup))
StageWrite ==
  /\ Directed(job) /\ job.restored
  /\ AllLooked(job) /\ AllOwned(job) /\ Rest(job, Len(job.done))
  /\ \A i \in DOMAIN job.done : job.done[i] = PathsOf(job.old, job.new)[i]
  /\ \A p \in Path :
       files[p] = IF p \in ToSet(job.done) THEN Planned(job.new, p) ELSE Base(job)[p]
StageUndo ==
  /\ Directed(job)
  /\ AllLooked(job) /\ AllOwned(job) /\ ToSet(job.done) \subseteq Touched(job)
  /\ \A p \in Path :
       IF p \in Touched(job) THEN files[p] \in {Base(job)[p], Planned(job.new, p)}
       ELSE files[p] = Base(job)[p]
  /\ job.restored => \A p \in Path \ ToSet(job.done) : files[p] = Base(job)[p]
\* Every file of the target is written, and the others are as they were.
StageSave ==
  /\ Loaded(job) /\ ~job.repair /\ job.restored
  /\ files = Changed(job) /\ (Target(job) # Absent => job.new = Target(job))
  /\ \A p \in Touched(job) : job.files[p] \in {Absent, Planned(job.stored, p)}
StageDone ==
  IF job.op = "read" THEN files = job.files /\ items = job.items
  ELSE StageSave /\ items = job.goal

Unaltered == files = job.files /\ items = job.items
Stage ==
  /\ job.at = "load" => StageLoad
  /\ job.at = "check" => StageCheck
  /\ job.at = "preflight" => StagePreflight
  /\ job.at = "write" => StageWrite
  /\ job.at = "undo" => StageUndo
  /\ job.at \in {"save", "observe"} => StageSave
  /\ job.at = "done" => StageDone
  /\ job.at = "restored" => Unaltered
  /\ items \in {job.items, job.goal}
  /\ ~job.repair /\ job.at \notin {"observe", "done", "failed"} => items = job.items
\* What one fault, or none, can lead to.
Blamed ==
  /\ job.at \in {"undo", "observe"} \/ job.repair => faults >= 1
  /\ (job.repair /\ job.at = "undo") \/ ~job.restored => faults >= 2
  /\ job.repair /\ faults <= 1 => items = job.items
  /\ job.at = "failed" /\ faults <= 1 /\ Whole(job.items, job.files) => Unaltered
  /\ job.at = "failed" /\ faults = 0 /\ job.op = "delete" => job.files[Side(job)] # Absent

BundleTypes ==
  /\ items \in Notebook /\ Small(items)
  /\ files \in [Path -> Anything] /\ Sorted(files)
  /\ faults \in Nat /\ foreign \in Nat /\ intact \in BOOLEAN
  /\ intact => faults <= 1
JobTypes == job \in Job /\ Small(job.items) /\ Sorted(job.files)

BundleInvariant ==
  /\ BundleTypes
  /\ job # NoJob => JobTypes /\ Asked(job) /\ Stage /\ Blamed
  /\ intact => IF job = NoJob THEN Whole(items, files) ELSE Whole(job.items, job.files)

-----------------------------------------------------------------------------
(* Documents, their files and the order of their paths. *)

LEMMA DocumentHasFiles ==
  ASSUME NEW d \in Document
  PROVE  /\ d \notin {Absent, Alien} /\ IsDoc(d)
         /\ d = Doc(d.cell, d.id, d.rev, d.w)
         /\ Sidecar(d.cell, d.id) \in DOMAIN Bundle(d)
         /\ Bundle(d)[Sidecar(d.cell, d.id)] = d
<1>1. d = Doc(d.cell, d.id, d.rev, d.w)
  BY DEF Document, Doc
<1>2. d \notin {Absent, Alien}
  BY <1>1, BundleAssumption DEF Document
<1> QED
  BY <1>1, <1>2 DEF Bundle, IsDoc

LEMMA NoFiles == DOMAIN Bundle(Absent) = {} /\ \A p : Planned(Absent, p) = Absent
BY DEF Bundle, Planned

\* The paths of a document and what they hold.
LEMMA BundleFiles ==
  ASSUME NEW d \in Document, NEW p \in DOMAIN Bundle(d)
  PROVE  /\ p \in Path /\ p[1] = Locator[d.cell] /\ p[2] = d.id
         /\ p[3] = Content => p = Sidecar(d.cell, d.id) /\ Bundle(d)[p] = d
         /\ p[3] # Content => p[3] \in DOMAIN d.w /\ Bundle(d)[p] \in Source
<1> DEFINE side == Sidecar(d.cell, d.id)
<1>1. d # Absent
  BY DocumentHasFiles
<1>2. DOMAIN Bundle(d) = {side} \cup {Attachment(d.cell, d.id, a) : a \in DOMAIN d.w}
  BY <1>1 DEF Bundle
<1>3. Bundle(d)[p] = IF p = side THEN d ELSE d.w[p[3]]
  BY <1>1 DEF Bundle
<1>4. PICK S \in SUBSET Artifact : d.w \in [S -> Source]
  BY DEF Document, Walkthrough
<1>5. d.cell \in CellId /\ d.id \in MicroscopeId
  BY DEF Document
<1>6. CASE p = side
  BY <1>3, <1>5, <1>6 DEF Sidecar, Path
<1>7. CASE p # side
  <2>1. PICK a \in DOMAIN d.w : p = Attachment(d.cell, d.id, a)
    BY <1>2, <1>7
  <2>2. a \in Artifact /\ a # Content /\ d.w[a] \in Source
    BY <1>4, <2>1, BundleAssumption
  <2>3. p[1] = Locator[d.cell] /\ p[2] = d.id /\ p[3] = a
    BY <2>1 DEF Attachment
  <2> QED
    BY <1>3, <1>5, <1>7, <2>1, <2>2, <2>3 DEF Path
<1> QED
  BY <1>6, <1>7

LEMMA BundleSorted ==
  ASSUME NEW d \in Document \cup {Absent}, NEW p \in Path
  PROVE  /\ Planned(d, p) \in {Absent} \cup (IF p[3] = Content THEN Document ELSE Source)
         /\ Planned(d, p) \in Anything /\ Planned(d, p) # Alien
         /\ p \in DOMAIN Bundle(d) => Planned(d, p) = Bundle(d)[p] /\ Planned(d, p) # Absent
         /\ p \notin DOMAIN Bundle(d) => Planned(d, p) = Absent
         /\ p[3] = Content => Planned(d, p) \in {Absent, d}
<1>1. CASE d = Absent
  BY <1>1, NoFiles, BundleAssumption DEF Anything
<1>2. CASE d \in Document /\ p \notin DOMAIN Bundle(d)
  BY <1>2, BundleAssumption DEF Planned, Anything
<1>3. CASE d \in Document /\ p \in DOMAIN Bundle(d)
  <2>1. Planned(d, p) = Bundle(d)[p]
    BY <1>3 DEF Planned
  <2>2. d # Absent /\ d # Alien
    BY <1>3, DocumentHasFiles
  <2> QED
    BY <1>3, <2>1, <2>2, BundleFiles, BundleAssumption DEF Anything
<1> QED
  BY <1>1, <1>2, <1>3

LEMMA BundleFinite ==
  ASSUME NEW d \in Document \cup {Absent}
  PROVE  IsFiniteSet(DOMAIN Bundle(d))
<1>1. CASE d = Absent
  BY <1>1, NoFiles, FS_EmptySet
<1>2. CASE d \in Document
  <2> DEFINE attached == {Attachment(d.cell, d.id, a) : a \in DOMAIN d.w}
             name == [a \in DOMAIN d.w |-> Attachment(d.cell, d.id, a)]
  <2>1. PICK S \in SUBSET Artifact : d.w \in [S -> Source]
    BY <1>2 DEF Document, Walkthrough
  <2>2. IsFiniteSet(DOMAIN d.w)
    BY <2>1, BundleAssumption, FS_Subset
  <2>3. name \in Surjection(DOMAIN d.w, attached)
    BY DEF Surjection
  <2>4. IsFiniteSet(attached)
    <3> HIDE DEF attached, name
    <3> QED
      BY <2>2, <2>3, FS_Surjection
  <2>5. DOMAIN Bundle(d) = attached \cup {Sidecar(d.cell, d.id)}
    BY <1>2, DocumentHasFiles DEF Bundle
  <2> QED
    BY <2>4, <2>5, FS_AddElement
<1> QED
  BY <1>1, <1>2

\* A finite set as a sequence has its elements, each once.
LEMMA SetToSeqLists ==
  ASSUME NEW S, IsFiniteSet(S)
  PROVE  SetToSeq(S) \in Seq(S) /\ ToSet(SetToSeq(S)) = S
<1> DEFINE n == Cardinality(S)
           s == SetToSeq(S)
<1>1. n \in Nat /\ ExistsBijection(1 .. n, S)
  BY FS_CardinalityType
<1>2. \E f \in [1 .. n -> S] : IsInjective(f)
  BY <1>1 DEF ExistsBijection, Bijection, Injection
<1>3. s \in [1 .. n -> S] /\ IsInjective(s)
  BY <1>2 DEF SetToSeq
<1>4. IsFiniteSet(1 .. n) /\ Cardinality(1 .. n) = n
  BY <1>1, FS_Interval
<1>5. s \in Surjection(1 .. n, S)
  <2>1. s \in Injection(1 .. n, S)
    BY <1>3 DEF Injection
  <2> HIDE DEF s
  <2> QED
    BY <2>1, <1>4, FS_Injection
<1> HIDE DEF n, s
<1>6. s \in Seq(S)
  BY <1>1, <1>3
<1>7. ToSet(s) = S
  BY <1>3, <1>5 DEF ToSet, Surjection
<1> QED
  BY <1>6, <1>7 DEF s

\* The paths of two documents are those of either.
LEMMA PathsList ==
  ASSUME NEW old \in Document \cup {Absent}, NEW new \in Document \cup {Absent}
  PROVE  /\ PathsOf(old, new) \in Seq(Path)
         /\ ToSet(PathsOf(old, new)) = DOMAIN Bundle(old) \cup DOMAIN Bundle(new)
<1> DEFINE all == DOMAIN Bundle(old) \cup DOMAIN Bundle(new)
           side == {p \in all : p[3] = Content}
           s == SetToSeq(side)
           t == SetToSeq(all \ side)
<1>1. IsFiniteSet(all)
  BY BundleFinite, FS_Union
<1>2. all \subseteq Path
  BY BundleFiles, NoFiles
<1>3. IsFiniteSet(side) /\ IsFiniteSet(all \ side)
  <2> HIDE DEF all
  <2> QED
    BY <1>1, FS_Subset, FS_Difference
<1>4. /\ s \in Seq(side) /\ ToSet(s) = side
      /\ t \in Seq(all \ side) /\ ToSet(t) = all \ side
  BY <1>3, SetToSeqLists
<1>5. PathsOf(old, new) = s \o t
  BY DEF PathsOf
<1> HIDE DEF s, t
<1>6. side \subseteq all
  OBVIOUS
<1> HIDE DEF side, all
<1>7. s \in Seq(all) /\ t \in Seq(all)
  BY <1>4, <1>6
<1>8. ToSet(s \o t) = ToSet(s) \cup ToSet(t)
  <2>1. \A i \in DOMAIN s : i \in DOMAIN (s \o t) /\ (s \o t)[i] = s[i]
    BY <1>7
  <2>2. \A i \in DOMAIN t : Len(s) + i \in DOMAIN (s \o t) /\ (s \o t)[Len(s) + i] = t[i]
    BY <1>7
  <2>3. \A i \in DOMAIN (s \o t) : i \in DOMAIN s \/ (i - Len(s) \in DOMAIN t /\ i = Len(s) + (i - Len(s)))
    BY <1>7
  <2> QED
    BY <2>1, <2>2, <2>3 DEF ToSet
<1>9. s \o t \in Seq(Path)
  BY <1>2, <1>7
<1> QED
  BY <1>4, <1>5, <1>6, <1>8, <1>9 DEF all

LEMMA ToSetIndex ==
  ASSUME NEW S, NEW s \in Seq(S)
  PROVE  /\ \A x \in ToSet(s) : \E i \in 1 .. Len(s) : s[i] = x
         /\ \A i \in 1 .. Len(s) : s[i] \in ToSet(s) /\ s[i] \in S
BY DEF ToSet

LEMMA ToSetAppend ==
  ASSUME NEW S, NEW s \in Seq(S), NEW x \in S
  PROVE  s \o <<x>> \in Seq(S) /\ ToSet(s \o <<x>>) = ToSet(s) \cup {x}
<1>1. s \o <<x>> \in Seq(S) /\ Len(s \o <<x>>) = Len(s) + 1
  OBVIOUS
<1>2. \A i \in 1 .. Len(s) : (s \o <<x>>)[i] = s[i]
  OBVIOUS
<1>3. (s \o <<x>>)[Len(s) + 1] = x
  OBVIOUS
<1> QED
  BY <1>1, <1>2, <1>3 DEF ToSet

LEMMA ToSetFront ==
  ASSUME NEW S, NEW s \in Seq(S), s # <<>>
  PROVE  Front(s) \in Seq(S) /\ Last(s) \in S /\ ToSet(s) = ToSet(Front(s)) \cup {Last(s)}
<1>1. Len(s) \in Nat \ {0}
  OBVIOUS
<1>2. /\ Front(s) \in Seq(S) /\ Len(Front(s)) = Len(s) - 1
      /\ \A i \in 1 .. Len(s) - 1 : Front(s)[i] = s[i]
  <2>1. Front(s) = SubSeq(s, 1, Len(s) - 1)
    BY DEF Front
  <2>2. SubSeq(s, 1, Len(s) - 1) = [i \in 1 .. Len(s) - 1 |-> s[i]]
    BY <1>1
  <2>3. \A i \in 1 .. Len(s) - 1 : s[i] \in S
    BY <1>1
  <2>4. [i \in 1 .. Len(s) - 1 |-> s[i]] \in Seq(S)
    BY <1>1, <2>3
  <2>5. Len([i \in 1 .. Len(s) - 1 |-> s[i]]) = Len(s) - 1
    BY <1>1
  <2> QED
    BY <2>1, <2>2, <2>4, <2>5
<1>3. Last(s) = s[Len(s)]
  BY DEF Last
<1> QED
  BY <1>1, <1>2, <1>3 DEF ToSet

-----------------------------------------------------------------------------
(* References, what a command asks and which documents it stores. *)

LEMMA RefsWith ==
  ASSUME NEW r \in Refs, NEW id \in MicroscopeId, NEW rev \in 0 .. MaxRevision
  PROVE  With(r, id, rev) \in Refs
<1>1. PICK S \in SUBSET MicroscopeId : r \in [S -> 0 .. MaxRevision]
  BY DEF Refs
<1>2. With(r, id, rev) \in [S \cup {id} -> 0 .. MaxRevision]
  BY <1>1 DEF With
<1>3. S \cup {id} \in SUBSET MicroscopeId
  BY <1>1
<1> QED
  BY <1>2, <1>3 DEF Refs

LEMMA RefsWithout ==
  ASSUME NEW r \in Refs, NEW id \in MicroscopeId
  PROVE  /\ WithoutId(r, id) \in Refs
         /\ DOMAIN WithoutId(r, id) = DOMAIN r \ {id}
         /\ \A m \in DOMAIN r \ {id} : WithoutId(r, id)[m] = r[m]
<1>1. PICK S \in SUBSET MicroscopeId : r \in [S -> 0 .. MaxRevision]
  BY DEF Refs
<1>2. WithoutId(r, id) \in [S \ {id} -> 0 .. MaxRevision]
  BY <1>1 DEF WithoutId
<1>3. S \ {id} \in SUBSET MicroscopeId
  BY <1>1
<1> QED
  BY <1>1, <1>2, <1>3 DEF WithoutId, Refs

LEMMA RefsType ==
  ASSUME NEW i \in Notebook, NEW c \in CellId
  PROVE  i[c] \in Refs /\ DOMAIN i[c] \subseteq MicroscopeId
         /\ \A m \in DOMAIN i[c] : i[c][m] \in 0 .. MaxRevision
BY DEF Notebook, Refs

\* The notebook a command is to store.
LEMMA GoalIs ==
  ASSUME NEW j \in Job, Asked(j), Small(j.items)
  PROVE  /\ Goal(j) \in Notebook /\ Small(Goal(j))
         /\ \A c \in CellId \ {j.cell} : Goal(j)[c] = j.items[c]
         /\ \A m \in DOMAIN j.items[j.cell] \ {j.id} :
              m \in DOMAIN Goal(j)[j.cell] /\ Goal(j)[j.cell][m] = j.items[j.cell][m]
         /\ \A m \in DOMAIN Goal(j)[j.cell] : m # j.id => m \in DOMAIN j.items[j.cell]
         /\ j.op \in {"create", "set"} => j.id \in DOMAIN Goal(j)[j.cell]
                                          /\ Goal(j)[j.cell][j.id] = Target(j).rev
         /\ j.op = "delete" => j.id \notin DOMAIN Goal(j)[j.cell]
<1> DEFINE refs == j.items[j.cell]
<1>1. /\ j.items \in Notebook /\ j.cell \in CellId /\ j.id \in MicroscopeId
      /\ j.rev \in 0 .. MaxRevision /\ j.op \in {"create", "set", "delete", "read"}
  BY DEF Job
<1>2. refs \in Refs /\ IsFiniteSet(DOMAIN refs) /\ Cardinality(DOMAIN refs) \in Nat
      /\ Cardinality(DOMAIN refs) <= MaxItems
  BY <1>1, RefsType, FS_CardinalityType DEF Small
<1>3. CASE j.op = "create"
  <2>1. PICK rev : rev \in 0 .. MaxRevision /\ rev = 0
    BY BundleAssumption
  <2> DEFINE more == With(refs, j.id, rev)
  <2>2. more \in Refs /\ DOMAIN more = DOMAIN refs \cup {j.id} /\ more[j.id] = rev
        /\ \A m \in DOMAIN refs \ {j.id} : more[m] = refs[m]
    <3>1. more \in Refs
      BY <1>1, <1>2, <2>1, RefsWith
    <3> HIDE DEF refs
    <3> QED
      BY <3>1 DEF With
  <2>3. j.id \notin DOMAIN refs /\ Cardinality(DOMAIN refs) < MaxItems /\ j.rev = 0
    BY <1>3 DEF Asked
  <2>4. IsFiniteSet(DOMAIN more) /\ Cardinality(DOMAIN more) <= MaxItems
    <3> HIDE DEF more, refs
    <3>1. Cardinality(DOMAIN refs \cup {j.id}) = Cardinality(DOMAIN refs) + 1
          /\ IsFiniteSet(DOMAIN refs \cup {j.id})
      BY <1>2, <2>3, FS_AddElement
    <3> QED
      BY <1>2, <2>2, <2>3, <3>1, BundleAssumption
  <2>5. Goal(j) = [j.items EXCEPT ![j.cell] = more]
    BY <1>3, <2>1 DEF Goal
  <2>6. Target(j).rev = rev
    BY <1>3, <2>3, <2>1 DEF Target, Doc
  <2> HIDE DEF more
  <2> QED
    BY <1>1, <1>3, <2>2, <2>4, <2>5, <2>6 DEF Notebook, Small
<1>4. CASE j.op = "set"
  <2>1. j.id \in DOMAIN refs /\ j.rev < MaxRevision
    BY <1>4 DEF Asked
  <2>2. PICK rev : rev \in 0 .. MaxRevision /\ rev = j.rev + 1
    BY <1>1, <2>1, BundleAssumption
  <2> DEFINE more == With(refs, j.id, rev)
  <2>3. more \in Refs /\ DOMAIN more = DOMAIN refs \cup {j.id} /\ more[j.id] = rev
        /\ \A m \in DOMAIN refs \ {j.id} : more[m] = refs[m]
    <3>1. more \in Refs
      BY <1>1, <1>2, <2>2, RefsWith
    <3> HIDE DEF refs
    <3> QED
      BY <3>1 DEF With
  <2>4. IsFiniteSet(DOMAIN more) /\ Cardinality(DOMAIN more) <= MaxItems
    <3>1. DOMAIN more = DOMAIN refs
      BY <2>1, <2>3
    <3> QED
      BY <1>2, <3>1
  <2>5. Goal(j) = [j.items EXCEPT ![j.cell] = more]
    BY <1>4, <2>2 DEF Goal
  <2>6. Target(j).rev = rev
    BY <1>4, <2>2 DEF Target, Doc
  <2> HIDE DEF more
  <2> QED
    BY <1>1, <1>4, <2>3, <2>4, <2>5, <2>6 DEF Notebook, Small
<1>5. CASE j.op = "delete"
  <2> DEFINE less == WithoutId(refs, j.id)
  <2>1. less \in Refs /\ DOMAIN less = DOMAIN refs \ {j.id}
        /\ \A m \in DOMAIN refs \ {j.id} : less[m] = refs[m]
    BY <1>1, <1>2, RefsWithout
  <2>2. IsFiniteSet(DOMAIN less) /\ Cardinality(DOMAIN less) <= MaxItems
    <3> HIDE DEF less, refs
    <3>1. IsFiniteSet(DOMAIN refs \ {j.id})
          /\ Cardinality(DOMAIN refs \ {j.id}) <= Cardinality(DOMAIN refs)
          /\ Cardinality(DOMAIN refs \ {j.id}) \in Nat
      BY <1>2, FS_Subset, FS_CardinalityType
    <3> QED
      BY <1>2, <2>1, <3>1, BundleAssumption
  <2>3. Goal(j) = [j.items EXCEPT ![j.cell] = less]
    BY <1>5 DEF Goal
  <2> HIDE DEF less
  <2> QED
    BY <1>1, <1>5, <2>1, <2>2, <2>3 DEF Notebook, Small
<1>6. CASE j.op = "read"
  BY <1>1, <1>6 DEF Goal
<1> QED
  BY <1>1, <1>3, <1>4, <1>5, <1>6

\* The document to be stored is of the cell and the microscope of the command.
LEMMA TargetIs ==
  ASSUME NEW j \in Job, Asked(j)
  PROVE  /\ Target(j) \in Document \cup {Absent}
         /\ j.op \in {"create", "set"} =>
              Target(j) \in Document /\ Target(j).cell = j.cell /\ Target(j).id = j.id
         /\ j.op \notin {"create", "set"} => Target(j) = Absent
<1>1. /\ j.cell \in CellId /\ j.id \in MicroscopeId /\ j.w \in Walkthrough
      /\ j.rev \in 0 .. MaxRevision /\ j.op \in {"create", "set", "delete", "read"}
  BY DEF Job
<1>2. CASE j.op = "create"
  BY <1>1, <1>2 DEF Target, Doc, Document
<1>3. CASE j.op = "set"
  <2>1. j.rev + 1 \in 0 .. MaxRevision
    BY <1>1, <1>3, BundleAssumption DEF Asked
  <2> QED
    BY <1>1, <1>3, <2>1 DEF Target, Doc, Document
<1>4. CASE j.op \notin {"create", "set"}
  BY <1>4 DEF Target
<1> QED
  BY <1>2, <1>3, <1>4

\* The files of a command are all in one place, its content file among them.
LEMMA TouchedIs ==
  ASSUME NEW j \in Job, Asked(j), Loaded(j)
  PROVE  /\ Touched(j) \subseteq Path
         /\ \A p \in Touched(j) : p[1] = Locator[j.cell] /\ p[2] = j.id
         /\ j.stored # Absent => Side(j) \in Touched(j) /\ Planned(j.stored, Side(j)) = j.stored
         /\ Target(j) # Absent => Side(j) \in Touched(j) /\ Planned(Target(j), Side(j)) = Target(j)
         /\ ToSet(PathsOf(j.stored, Target(j))) = Touched(j)
         /\ ToSet(PathsOf(Target(j), j.stored)) = Touched(j)
<1>1. j.stored \in Document \cup {Absent} /\ Target(j) \in Document \cup {Absent}
  BY TargetIs DEF Job
<1>2. /\ j.stored # Absent => j.stored.cell = j.cell /\ j.stored.id = j.id
      /\ Target(j) # Absent => Target(j).cell = j.cell /\ Target(j).id = j.id
  BY TargetIs DEF Loaded
<1>3. ASSUME NEW d \in {j.stored, Target(j)}, NEW p \in DOMAIN Bundle(d)
      PROVE  p \in Path /\ p[1] = Locator[j.cell] /\ p[2] = j.id
  <2>1. d \in Document
    BY <1>1, NoFiles
  <2> QED
    BY <1>2, <2>1, BundleFiles, DocumentHasFiles
<1>4. ASSUME NEW d \in {j.stored, Target(j)}, d # Absent
      PROVE  Side(j) \in DOMAIN Bundle(d) /\ Planned(d, Side(j)) = d
  <2>1. d \in Document /\ d.cell = j.cell /\ d.id = j.id
    BY <1>1, <1>2, <1>4
  <2> QED
    BY <2>1, DocumentHasFiles DEF Side, Planned
<1>5. /\ ToSet(PathsOf(j.stored, Target(j))) = Touched(j)
      /\ ToSet(PathsOf(Target(j), j.stored)) = Touched(j)
  BY <1>1, PathsList DEF Touched
<1> QED
  BY <1>3, <1>4, <1>5 DEF Touched

LEMMA ChangedIs ==
  ASSUME NEW j \in Job, Asked(j), Loaded(j), Sorted(j.files)
  PROVE  /\ Changed(j) \in [Path -> Anything] /\ Sorted(Changed(j))
         /\ \A p \in Path : Changed(j)[p] =
              IF p \in Touched(j) THEN Planned(Target(j), p) ELSE j.files[p]
         /\ Target(j) # Absent => Changed(j)[Side(j)] = Target(j)
         /\ Target(j) = Absent /\ j.stored # Absent => Changed(j)[Side(j)] = Absent
<1>1. j.files \in [Path -> Anything] /\ Target(j) \in Document \cup {Absent}
  BY TargetIs DEF Job
<1>2. \A p \in Path : Changed(j)[p] = IF p \in Touched(j) THEN Planned(Target(j), p) ELSE j.files[p]
  BY DEF Changed
<1>3. Changed(j) \in [Path -> Anything]
  BY <1>1, BundleSorted DEF Changed
<1>4. Sorted(Changed(j))
  BY <1>1, <1>2, BundleSorted DEF Sorted
<1>5. Target(j) # Absent => Changed(j)[Side(j)] = Target(j)
  BY <1>2, TouchedIs
<1>6. Target(j) = Absent /\ j.stored # Absent => Changed(j)[Side(j)] = Absent
  BY <1>2, TouchedIs, NoFiles
<1> QED
  BY <1>2, <1>3, <1>4, <1>5, <1>6

-----------------------------------------------------------------------------
(* Notebook and files that belong together. *)

\* A reference whose files may meet the command's is the command's.
LEMMA WholeAlone ==
  ASSUME NEW j \in Job, Asked(j), Loaded(j), Whole(j.items, j.files),
         NEW c \in CellId, NEW m \in DOMAIN j.items[c],
         NEW p \in DOMAIN Bundle(j.files[Sidecar(c, m)]),
         p[1] = Locator[j.cell], p[2] = j.id
  PROVE  c = j.cell /\ m = j.id /\ Sidecar(c, m) = Side(j) /\ j.stored \in Document
<1> DEFINE f == j.files[Sidecar(c, m)]
<1>1. f \in Document /\ f.cell = c /\ f.id = m
  BY DEF Whole
<1>2. Locator[c] = Locator[j.cell] /\ m = j.id
  <2>1. p \in DOMAIN Bundle(f)
    OBVIOUS
  <2> HIDE DEF f
  <2> QED
    BY <1>1, <2>1, BundleFiles
<1>3. Sidecar(c, m) = Side(j)
  BY <1>2 DEF Sidecar, Side
<1>4. f = j.stored
  BY <1>3 DEF Loaded
<1>5. j.stored # Absent
  BY <1>1, <1>4, DocumentHasFiles
<1> QED
  BY <1>1, <1>2, <1>3, <1>4, <1>5 DEF Loaded

\* The files of a command are those of the document it found.
LEMMA WholeStored ==
  ASSUME NEW j \in Job, Asked(j), Loaded(j), Whole(j.items, j.files),
         NEW p \in Touched(j)
  PROVE  j.files[p] = Planned(j.stored, p)
<1>1. p \in Path /\ p[1] = Locator[j.cell] /\ p[2] = j.id
  BY TouchedIs
<1>2. CASE p \in DOMAIN Bundle(j.stored)
  <2>1. j.stored \in Document /\ j.stored = j.files[Sidecar(j.cell, j.id)]
    BY <1>2, NoFiles DEF Loaded, Side
  <2>2. j.cell \in CellId /\ j.id \in DOMAIN j.items[j.cell]
    <3>1. j.op # "create"
      BY <1>2, NoFiles DEF Loaded
    <3> QED
      BY <3>1 DEF Asked, Job
  <2> QED
    BY <1>2, <2>1, <2>2 DEF Whole, Planned
<1>3. CASE p \notin DOMAIN Bundle(j.stored)
  <2>1. SUFFICES ASSUME j.files[p] # Absent PROVE FALSE
    BY <1>3 DEF Planned
  <2>2. PICK c \in CellId : \E m \in DOMAIN j.items[c] :
             p \in DOMAIN Bundle(j.files[Sidecar(c, m)])
    BY <1>1, <2>1 DEF Whole
  <2>3. PICK m \in DOMAIN j.items[c] : p \in DOMAIN Bundle(j.files[Sidecar(c, m)])
    BY <2>2
  <2>4. j.files[Sidecar(c, m)] = j.stored
    BY <1>1, <2>3, WholeAlone DEF Loaded
  <2> QED
    BY <1>3, <2>3, <2>4
<1> QED
  BY <1>2, <1>3

\* All other references keep their files when the command's are written.
LEMMA WholeOthers ==
  ASSUME NEW j \in Job, Asked(j), Loaded(j), Sorted(j.files), Whole(j.items, j.files),
         NEW c \in CellId, NEW m \in DOMAIN j.items[c], <<c, m>> # <<j.cell, j.id>>
  PROVE  /\ Changed(j)[Sidecar(c, m)] = j.files[Sidecar(c, m)]
         /\ \A p \in DOMAIN Bundle(j.files[Sidecar(c, m)]) :
              p \in Path \ Touched(j) /\ Changed(j)[p] = j.files[p]
<1> DEFINE f == j.files[Sidecar(c, m)]
<1>1. f \in Document /\ f.cell = c /\ f.id = m
  BY DEF Whole
<1>2. Sidecar(c, m) \in DOMAIN Bundle(f)
  <2> HIDE DEF f
  <2> QED
    BY <1>1, DocumentHasFiles
<1>3. ASSUME NEW p \in DOMAIN Bundle(f)
      PROVE  p \in Path \ Touched(j) /\ Changed(j)[p] = j.files[p]
  <2>1. p \in Path
    <3> HIDE DEF f
    <3> QED
      BY <1>1, <1>3, BundleFiles
  <2>2. p \notin Touched(j)
    BY <1>3, WholeAlone, TouchedIs
  <2> QED
    BY <2>1, <2>2, ChangedIs
<1> QED
  BY <1>2, <1>3

\* A command that was done leaves a notebook and files that belong together.
LEMMA WholeChanged ==
  ASSUME NEW j \in Job, Asked(j), Loaded(j), Small(j.items), Sorted(j.files),
         Whole(j.items, j.files)
  PROVE  Whole(Goal(j), Changed(j))
<1> DEFINE goal == Goal(j)
           new == Changed(j)
           t == Target(j)
<1>1. /\ j.op \in {"create", "set", "delete"} /\ j.cell \in CellId
      /\ t \in Document \cup {Absent}
      /\ t # Absent => j.op \in {"create", "set"} /\ t.cell = j.cell /\ t.id = j.id
      /\ j.op \in {"create", "set"} => t \in Document
  BY TargetIs DEF Job, Loaded
\* The reference of the command.
<1>2. ASSUME t # Absent
      PROVE  /\ j.id \in DOMAIN goal[j.cell] /\ goal[j.cell][j.id] = t.rev
             /\ new[Sidecar(j.cell, j.id)] = t
             /\ \A p \in DOMAIN Bundle(t) : new[p] = Bundle(t)[p]
  <2>1. j.id \in DOMAIN goal[j.cell] /\ goal[j.cell][j.id] = t.rev
    BY <1>1, <1>2, GoalIs
  <2>2. new[Sidecar(j.cell, j.id)] = t
    BY <1>2, ChangedIs DEF Side
  <2>3. ASSUME NEW p \in DOMAIN Bundle(t) PROVE new[p] = Bundle(t)[p]
    <3>1. p \in Touched(j) /\ p \in Path
      BY TouchedIs DEF Touched
    <3> QED
      BY <3>1, ChangedIs DEF Planned
  <2> QED
    BY <2>1, <2>2, <2>3
\* Every other one.
<1>3. ASSUME NEW c \in CellId, NEW m \in DOMAIN goal[c], <<c, m>> # <<j.cell, j.id>>
      PROVE  m \in DOMAIN j.items[c] /\ goal[c][m] = j.items[c][m]
  <2>1. CASE c = j.cell
    BY <1>3, <2>1, GoalIs
  <2>2. CASE c # j.cell
    BY <2>2, GoalIs
  <2> QED
    BY <2>1, <2>2
<1>4. ASSUME NEW c \in CellId, NEW m \in DOMAIN j.items[c], <<c, m>> # <<j.cell, j.id>>
      PROVE  m \in DOMAIN goal[c]
  <2>1. CASE c = j.cell
    BY <1>4, <2>1, GoalIs
  <2>2. CASE c # j.cell
    BY <2>2, GoalIs
  <2> QED
    BY <2>1, <2>2
<1>5. ASSUME NEW c \in CellId, NEW m \in DOMAIN goal[c]
      PROVE  /\ new[Sidecar(c, m)] \in Document
             /\ new[Sidecar(c, m)].cell = c /\ new[Sidecar(c, m)].id = m
             /\ new[Sidecar(c, m)].rev = goal[c][m]
             /\ \A p \in DOMAIN Bundle(new[Sidecar(c, m)]) : new[p] = Bundle(new[Sidecar(c, m)])[p]
  <2>1. CASE <<c, m>> = <<j.cell, j.id>>
    <3>1. c = j.cell /\ m = j.id
      BY <2>1
    <3>2. t # Absent
      BY <1>1, <3>1, GoalIs, TargetIs, DocumentHasFiles
    <3> QED
      BY <1>1, <1>2, <3>1, <3>2
  <2>2. CASE <<c, m>> # <<j.cell, j.id>>
    <3>1. m \in DOMAIN j.items[c] /\ goal[c][m] = j.items[c][m]
      BY <1>3, <2>2
    <3>2. /\ new[Sidecar(c, m)] = j.files[Sidecar(c, m)]
          /\ \A p \in DOMAIN Bundle(j.files[Sidecar(c, m)]) : new[p] = j.files[p]
      BY <2>2, <3>1, WholeOthers
    <3> QED
      BY <3>1, <3>2 DEF Whole
  <2> QED
    BY <2>1, <2>2
\* No file is left over.
<1>6. ASSUME NEW p \in Path, new[p] # Absent
      PROVE  \E c \in CellId : \E m \in DOMAIN goal[c] : p \in DOMAIN Bundle(new[Sidecar(c, m)])
  <2>1. CASE p \in Touched(j)
    <3>1. Planned(t, p) # Absent
      BY <1>6, <2>1, ChangedIs
    <3>2. t # Absent /\ p \in DOMAIN Bundle(t)
      BY <3>1, NoFiles DEF Planned
    <3> QED
      BY <1>1, <1>2, <3>2
  <2>2. CASE p \notin Touched(j)
    <3>1. j.files[p] # Absent
      BY <1>6, <2>2, ChangedIs
    <3>2. PICK c \in CellId : \E m \in DOMAIN j.items[c] :
               p \in DOMAIN Bundle(j.files[Sidecar(c, m)])
      BY <3>1 DEF Whole
    <3>3. PICK m \in DOMAIN j.items[c] : p \in DOMAIN Bundle(j.files[Sidecar(c, m)])
      BY <3>2
    <3>4. <<c, m>> # <<j.cell, j.id>>
      BY <2>2, <3>3 DEF Touched, Loaded, Side
    <3>5. new[Sidecar(c, m)] = j.files[Sidecar(c, m)]
      BY <3>4, WholeOthers
    <3>6. m \in DOMAIN goal[c]
      BY <1>4, <3>4
    <3> QED
      BY <3>3, <3>5, <3>6
  <2> QED
    BY <2>1, <2>2
<1> QED
  BY <1>5, <1>6 DEF Whole

-----------------------------------------------------------------------------
(* The steps of a command. *)

\* What a step may not change: what was asked, and where it began.
SameOrder(j, k) ==
  /\ k.op = j.op /\ k.cell = j.cell /\ k.id = j.id /\ k.w = j.w /\ k.rev = j.rev
  /\ k.goal = j.goal /\ k.items = j.items /\ k.files = j.files

LEMMA OrderKept ==
  ASSUME NEW j, NEW k, SameOrder(j, k)
  PROVE  /\ Asked(j) => Asked(k)
         /\ Target(k) = Target(j) /\ Side(k) = Side(j) /\ Goal(k) = Goal(j)
         /\ k.stored = j.stored =>
              Touched(k) = Touched(j) /\ Changed(k) = Changed(j) /\ (Loaded(j) => Loaded(k))
BY DEF SameOrder, Asked, Target, Side, Goal, Touched, Changed, Loaded

NextIntact == intact' = (intact /\ faults' <= 1 /\ foreign' = 0)
Going == job \in Job /\ BundleInvariant

LEMMA GoingIs ==
  ASSUME BundleInvariant, job # NoJob
  PROVE  Going
BY DEF BundleInvariant, JobTypes, Going

LEMMA GoingHas ==
  ASSUME Going
  PROVE  /\ BundleTypes /\ JobTypes /\ Asked(job) /\ Stage /\ Blamed /\ job # NoJob
         /\ intact => Whole(job.items, job.files)
<1>1. job.at # "none"
  BY DEF Going, Job
<1>2. job # NoJob
  BY <1>1 DEF NoJob
<1> QED
  BY <1>2 DEF Going, BundleInvariant

\* What is left to show of a step of a command.
LEMMA GoesOn ==
  ASSUME Going, NextIntact, job' \in Job, SameOrder(job, job'),
         items' \in Notebook, Small(items'), files' \in [Path -> Anything], Sorted(files'),
         faults' \in Nat, foreign' = foreign, Stage', Blamed'
  PROVE  BundleInvariant'
<1>1. BundleTypes'
  BY DEF NextIntact, BundleTypes, Going, BundleInvariant
<1>2. JobTypes'
  BY GoingHas DEF JobTypes, SameOrder
<1>3. Asked(job')
  BY GoingHas, OrderKept
<1>4. intact' => Whole(job'.items, job'.files)
  BY GoingHas DEF NextIntact, SameOrder
<1>5. (job # NoJob)'
  <2>1. job'.at # "none"
    BY DEF Job
  <2> QED
    BY <2>1 DEF NoJob
<1> QED
  BY <1>1, <1>2, <1>3, <1>4, <1>5 DEF BundleInvariant

LEMMA InitBundle ==
  ASSUME Init
  PROVE  BundleInvariant
<1>1. <<>> \in [{} -> 0 .. MaxRevision]
  OBVIOUS
<1>2. <<>> \in Refs
  BY <1>1 DEF Refs
<1>3. items \in Notebook /\ \A c \in CellId : DOMAIN items[c] = {}
  BY <1>2 DEF Init, Notebook
<1>4. Small(items)
  BY <1>3, FS_EmptySet, BundleAssumption DEF Small
<1>5. files \in [Path -> Anything] /\ Sorted(files)
  BY DEF Init, Anything, Sorted
<1>6. Whole(items, files)
  BY <1>3 DEF Init, Whole
<1> QED
  BY <1>3, <1>4, <1>5, <1>6 DEF Init, BundleInvariant, BundleTypes

\* A command that is not carried out further, or not at all.
LEMMA Refused ==
  ASSUME Going, NextIntact, job' = [job EXCEPT !.at = "failed"],
         UNCHANGED <<items, files, foreign>>, faults' \in {faults, faults + 1},
         Unaltered \/ faults' >= 2,
         faults' = 0 /\ job.op = "delete" => job.files[Side(job)] # Absent
  PROVE  BundleInvariant'
<1>1. /\ job' \in Job /\ SameOrder(job, job') /\ job'.at = "failed"
      /\ job'.repair = job.repair /\ job'.restored = job.restored /\ job'.stored = job.stored
  BY DEF Going, Job, SameOrder
<1>2. Side(job') = Side(job)
  BY <1>1, OrderKept
<1>3. /\ items \in Notebook /\ Small(items) /\ files \in [Path -> Anything] /\ Sorted(files)
      /\ faults \in Nat
  BY GoingHas DEF BundleTypes
<1>4. Stage'
  BY <1>1, GoingHas DEF Stage, SameOrder
<1>5. Blamed'
  <2>1. (job.repair => faults' >= 1) /\ (~job.restored => faults' >= 2)
        /\ (job.repair /\ faults' <= 1 => items = job.items)
    BY <1>3, GoingHas DEF Blamed
  <2> QED
    BY <1>1, <1>2, <1>3, <2>1 DEF Blamed, Unaltered, SameOrder
<1> QED
  BY <1>1, <1>3, <1>4, <1>5, GoesOn

LEMMA BeginKeeps ==
  ASSUME BundleInvariant, NextIntact, NEW op \in {"create", "set", "delete", "read"},
         NEW c \in CellId, NEW m \in MicroscopeId, NEW w \in Walkthrough, Begin(op, c, m, w)
  PROVE  BundleInvariant'
<1>1. /\ items \in Notebook /\ Small(items) /\ files \in [Path -> Anything] /\ Sorted(files)
      /\ BundleTypes
  BY DEF BundleInvariant, BundleTypes
<1>2. job'.rev \in 0 .. MaxRevision
  <2>1. op # "create" => m \in DOMAIN items[c]
    BY DEF Begin, Preparable
  <2>2. 0 \in 0 .. MaxRevision
    BY BundleAssumption
  <2> QED
    BY <1>1, <2>1, <2>2, RefsType DEF Begin
<1>3. /\ job'.at = "load" /\ job'.op = op /\ job'.cell = c /\ job'.id = m /\ job'.w = w
      /\ job'.items = items /\ job'.files = files /\ job'.goal = Prepared(op, c, m)
      /\ job'.rev = (IF op = "create" THEN 0 ELSE items[c][m])
      /\ ~job'.repair /\ job'.restored /\ job'.stored = Absent
  BY DEF Begin
<1>4. Goal(job') = Prepared(op, c, m)
  BY <1>3 DEF Goal, Prepared
<1>5. Asked(job')
  <2>1. op = "create" => m \notin DOMAIN items[c] /\ Cardinality(DOMAIN items[c]) < MaxItems
    BY DEF Begin, Preparable
  <2>2. op # "create" => m \in DOMAIN items[c]
    BY DEF Begin, Preparable
  <2>3. op = "set" => items[c][m] < MaxRevision
    BY DEF Begin
  <2> QED
    BY <1>3, <1>4, <2>1, <2>2, <2>3 DEF Asked
<1>6. Prepared(op, c, m) \in Notebook
  <2>1. items[c] \in Refs
    BY <1>1, RefsType
  <2>2. CASE op = "create"
    <3>1. \A rev \in 0 .. MaxRevision : With(items[c], m, rev) \in Refs
      BY <2>1, RefsWith
    <3>2. With(items[c], m, 0) \in Refs
      BY <3>1, BundleAssumption
    <3> QED
      BY <1>1, <2>2, <3>2 DEF Prepared, Notebook
  <2>3. CASE op = "set"
    <3>1. items[c][m] + 1 \in 0 .. MaxRevision
      BY <1>2, <1>3, <2>3, BundleAssumption DEF Begin
    <3> QED
      BY <1>1, <2>1, <2>3, <3>1, RefsWith DEF Prepared, Notebook
  <2>4. CASE op = "delete"
    BY <1>1, <2>1, <2>4, RefsWithout DEF Prepared, Notebook
  <2>5. CASE op = "read"
    BY <1>1, <2>5 DEF Prepared
  <2> QED
    BY <2>2, <2>3, <2>4, <2>5
<1>7. job' \in Job
  <2>1. <<>> \in Seq(Path) /\ <<>> \in Seq(Anything)
    OBVIOUS
  <2> QED
    BY <1>1, <1>2, <1>3, <1>6, <2>1 DEF Begin, Job
<1>8. JobTypes'
  BY <1>1, <1>3, <1>7 DEF JobTypes
<1>9. Stage'
  BY <1>3 DEF Stage, StageLoad, Begin
<1>10. Blamed'
  BY <1>3 DEF Blamed
<1>11. BundleTypes'
  BY <1>1 DEF Begin, BundleTypes, NextIntact
<1>12. intact' => Whole(job'.items, job'.files)
  BY <1>3 DEF NextIntact, BundleInvariant, Begin
<1>13. (job # NoJob)'
  BY <1>3 DEF NoJob
<1> QED
  BY <1>5, <1>8, <1>9, <1>10, <1>11, <1>12, <1>13 DEF BundleInvariant

\* A step that goes on to write the files of two documents.
Heads(old, new, stored, repair) ==
  /\ job'.at = "check" /\ job'.old = old /\ job'.new = new /\ job'.stored = stored
  /\ job'.repair = repair /\ job'.restored = job.restored
  /\ job'.done = <<>> /\ job'.backup = <<>>

LEMMA BundleBegun ==
  ASSUME Going, NEW old \in Document \cup {Absent}, NEW new \in Document \cup {Absent},
         NEW stored \in Document \cup {Absent}, NEW repair \in BOOLEAN,
         \/ /\ job' = ToBundle(old, new)
            /\ stored = job.stored /\ repair = job.repair
         \/ /\ job' = [ToBundle(old, new) EXCEPT !.stored = stored]
            /\ repair = job.repair
         \/ /\ job' = [ToBundle(old, new) EXCEPT !.repair = repair]
            /\ stored = job.stored
  PROVE  job' \in Job /\ SameOrder(job, job') /\ Heads(old, new, stored, repair)
<1>1. <<>> \in Seq(Path) /\ <<>> \in Seq(Anything)
  OBVIOUS
<1>2. ToBundle(old, new) \in Job
  BY <1>1 DEF Going, Job, ToBundle
<1>3. CASE /\ job' = ToBundle(old, new)
           /\ stored = job.stored /\ repair = job.repair
  BY <1>2, <1>3 DEF Going, Job, ToBundle, SameOrder, Heads
<1>4. CASE /\ job' = [ToBundle(old, new) EXCEPT !.stored = stored]
           /\ repair = job.repair
  <2>1. job' \in Job
    BY <1>2, <1>4 DEF Job
  <2> QED
    BY <1>4, <2>1 DEF Going, Job, ToBundle, SameOrder, Heads
<1>5. CASE /\ job' = [ToBundle(old, new) EXCEPT !.repair = repair]
           /\ stored = job.stored
  <2>1. job' \in Job
    BY <1>2, <1>5 DEF Job
  <2> QED
    BY <1>5, <2>1 DEF Going, Job, ToBundle, SameOrder, Heads
<1> QED
  BY <1>3, <1>4, <1>5

LEMMA LoadKeeps ==
  ASSUME BundleInvariant, NextIntact, Load
  PROVE  BundleInvariant'
<1>1. job.at = "load" /\ UNCHANGED <<items, files, foreign>>
  BY DEF Load, Unchanged
<1>2. Going
  BY <1>1, GoingIs DEF NoJob
<1>3. /\ StageLoad /\ Unaltered /\ Asked(job) /\ job \in Job /\ Blamed
      /\ faults \in Nat /\ items \in Notebook /\ Small(items)
      /\ files \in [Path -> Anything] /\ Sorted(files)
  BY <1>1, <1>2, GoingHas DEF Stage, StageLoad, Unaltered, BundleTypes, Going
<1> DEFINE stored == files[Here]
<1>4. /\ Here = Side(job) /\ Here \in Path /\ Here[3] = Content
      /\ job.op \in {"create", "set", "delete", "read"}
  BY <1>3 DEF Here, Side, Sidecar, Path, Job
<1>5. stored \in {Absent, Alien} \cup Document
  BY <1>3, <1>4 DEF Sorted
\* Refused.
<1>6. ASSUME Refuse, faults' \in {faults, faults + 1},
             faults' = 0 /\ job.op = "delete" => stored # Absent
      PROVE  BundleInvariant'
  <2>1. job' = [job EXCEPT !.at = "failed"]
    BY <1>6 DEF Refuse, Finish
  <2>2. files = job.files
    BY <1>3 DEF Unaltered
  <2> QED
    BY <1>1, <1>2, <1>3, <1>4, <1>6, <2>1, <2>2, Refused
\* The files are going to be written.
<1>7. ASSUME NEW old \in Document \cup {Absent}, NEW new \in Document \cup {Absent},
             job' \in Job, SameOrder(job, job'), Heads(old, new, old, FALSE),
             NoFault, stored = old, new = Target(job), job.op # "read",
             old # Absent => Identity(old, job.rev),
             job.op = "create" => old = Absent, job.op \in {"set", "delete"} => old # Absent
      PROVE  BundleInvariant'
  <2>1. job' \in Job /\ SameOrder(job, job') /\ Heads(old, new, old, FALSE)
    BY <1>7
  <2>2. Loaded(job')
    <3>1. /\ job'.stored = old /\ job'.op = job.op /\ job'.cell = job.cell
          /\ job'.id = job.id /\ job'.rev = job.rev
      BY <2>1 DEF Heads, SameOrder
    <3>2. job'.files[Side(job')] = old
      BY <1>3, <1>4, <1>7, <2>1, OrderKept DEF SameOrder, Unaltered
    <3>3. old # Absent => old \in Document /\ old.cell = job.cell /\ old.id = job.id
                          /\ old.rev = job.rev
      BY <1>7 DEF Identity
    <3> QED
      BY <1>7, <3>1, <3>2, <3>3 DEF Loaded
  <2>3. Directed(job')
    BY <1>7, <2>1, <2>2, OrderKept DEF Directed, Heads, SameOrder
  <2>4. StageCheck'
    BY <1>1, <1>3, <2>1, <2>3 DEF StageCheck, StageLoad, Heads, SameOrder, Base
  <2>5. Stage'
    BY <1>1, <1>3, <2>1, <2>4 DEF Stage, Heads, SameOrder, Unaltered
  <2>6. Blamed'
    BY <1>3, <2>1 DEF Blamed, Heads, StageLoad
  <2> QED
    BY <1>1, <1>2, <1>3, <1>7, <2>1, <2>5, <2>6, GoesOn DEF NoFault
<1>8. CASE Fault /\ Refuse
  BY <1>3, <1>6, <1>8 DEF Fault
<1>9. CASE NoFault /\ ~Readable(job.rev) /\ Refuse
  BY <1>3, <1>6, <1>9 DEF NoFault, Readable
<1>10. CASE NoFault /\ Readable(job.rev) /\ job.op = "read"
            /\ Finish(IF stored = Absent THEN "failed" ELSE "done")
  <2>1. CASE stored = Absent
    BY <1>3, <1>6, <1>10, <2>1 DEF NoFault, Refuse
  <2>2. CASE stored # Absent
    <3>1. job' = [job EXCEPT !.at = "done"]
      BY <1>10, <2>2 DEF Finish
    <3>2. /\ job' \in Job /\ SameOrder(job, job') /\ job'.at = "done"
          /\ job'.repair = job.repair /\ job'.restored = job.restored
      BY <1>3, <3>1 DEF Job, SameOrder
    <3>3. Stage'
      BY <1>1, <1>3, <1>10, <3>2 DEF Stage, StageDone, SameOrder, Unaltered, StageLoad
    <3>4. Blamed'
      BY <1>3, <3>2 DEF Blamed, StageLoad
    <3> QED
      BY <1>1, <1>2, <1>3, <1>10, <3>2, <3>3, <3>4, GoesOn DEF NoFault
  <2> QED
    BY <2>1, <2>2
<1>11. job.stored = Absent /\ job.repair = FALSE /\ job.op # "set" /\ job.op # "create" =>
         Target(job) = Absent
  BY <1>3, TargetIs DEF StageLoad
<1>12. CASE NoFault /\ Readable(job.rev) /\ job.op = "create"
            /\ IF stored # Absent THEN Refuse ELSE job' = ToBundle(Absent, Current)
  <2>1. CASE stored # Absent
    BY <1>3, <1>6, <1>12, <2>1 DEF NoFault
  <2>2. CASE stored = Absent
    <3>1. Target(job) = Current /\ Target(job) \in Document
      BY <1>3, <1>12, TargetIs DEF Target, Current
    <3>2. job' \in Job /\ SameOrder(job, job') /\ Heads(Absent, Current, Absent, FALSE)
      <4>1. job' = ToBundle(Absent, Current) /\ job.stored = Absent /\ job.repair = FALSE
        BY <1>3, <1>12, <2>2 DEF StageLoad, Job
      <4>2. Current \in Document \cup {Absent}
        BY <3>1
      <4> HIDE DEF stored
      <4> QED
        BY <1>2, <4>1, <4>2, BundleBegun
    <3> QED
      BY <1>7, <1>12, <2>2, <3>1, <3>2
  <2> QED
    BY <2>1, <2>2
<1>13. CASE NoFault /\ Readable(job.rev) /\ job.op = "set"
            /\ IF stored = Absent THEN Refuse
               ELSE job' = [ToBundle(stored, Updated) EXCEPT !.stored = stored]
  <2>1. CASE stored = Absent
    BY <1>3, <1>6, <1>13, <2>1 DEF NoFault
  <2>2. CASE stored # Absent
    <3>1. Target(job) = Updated /\ Target(job) \in Document
      BY <1>3, <1>13, TargetIs DEF Target, Current, Updated, Doc
    <3>2. Identity(stored, job.rev) /\ stored \in Document
      BY <1>5, <1>13, <2>2 DEF Readable, Identity, IsDoc
    <3>3. job' \in Job /\ SameOrder(job, job') /\ Heads(stored, Updated, stored, FALSE)
      <4>1. job' = [ToBundle(stored, Updated) EXCEPT !.stored = stored] /\ job.repair = FALSE
        BY <1>3, <1>13, <2>2 DEF StageLoad, Job
      <4>2. Updated \in Document \cup {Absent} /\ stored \in Document \cup {Absent}
        BY <3>1, <3>2
      <4> HIDE DEF stored
      <4> QED
        BY <1>2, <4>1, <4>2, BundleBegun
    <3> HIDE DEF stored
    <3> QED
      BY <1>7, <1>13, <2>2, <3>1, <3>2, <3>3 DEF stored
  <2> QED
    BY <2>1, <2>2
<1>14. CASE NoFault /\ Readable(job.rev) /\ job.op = "delete" /\ Deletes(stored)
  <2>1. CASE stored = Absent
    <3>1. job' = [job EXCEPT !.at = "save"]
      BY <1>14, <2>1 DEF Deletes
    <3>2. /\ job' \in Job /\ SameOrder(job, job') /\ job'.at = "save" /\ job'.stored = job.stored
          /\ job'.repair = job.repair /\ job'.restored = job.restored
      BY <1>3, <3>1 DEF Job, SameOrder
    <3>3. Loaded(job')
      BY <1>3, <1>4, <1>14, <2>1, <3>2, OrderKept DEF Loaded, SameOrder, StageLoad
    <3>4. Target(job') = Absent /\ Touched(job') = {}
      BY <1>3, <1>11, <1>14, <3>2, OrderKept, NoFiles DEF Touched, StageLoad
    <3>5. Changed(job') = job'.files /\ job'.files = files
      BY <1>3, <3>2, <3>4 DEF Changed, SameOrder, StageLoad
    <3>6. StageSave'
      BY <1>1, <1>3, <3>2, <3>3, <3>4, <3>5 DEF StageSave, StageLoad
    <3>7. Stage'
      BY <1>1, <1>3, <3>2, <3>6 DEF Stage, SameOrder, Unaltered
    <3>8. Blamed'
      BY <1>3, <3>2 DEF Blamed, StageLoad
    <3> QED
      BY <1>1, <1>2, <1>3, <1>14, <3>2, <3>7, <3>8, GoesOn DEF NoFault
  <2>2. CASE stored # Absent
    <3>1. Target(job) = Absent
      BY <1>3, <1>11, <1>14 DEF StageLoad
    <3>2. Identity(stored, job.rev) /\ stored \in Document
      BY <1>5, <1>14, <2>2 DEF Readable, Identity, IsDoc
    <3>3. job' \in Job /\ SameOrder(job, job') /\ Heads(stored, Absent, stored, FALSE)
      <4>1. job' = [ToBundle(stored, Absent) EXCEPT !.stored = stored] /\ job.repair = FALSE
        BY <1>3, <1>14, <2>2 DEF StageLoad, Job, Deletes
      <4>2. stored \in Document \cup {Absent}
        BY <3>2
      <4> HIDE DEF stored
      <4> QED
        BY <1>2, <4>1, <4>2, BundleBegun
    <3> QED
      BY <1>7, <1>14, <2>2, <3>1, <3>2, <3>3
  <2> QED
    BY <2>1, <2>2
<1> QED
  BY <1>4, <1>8, <1>9, <1>10, <1>12, <1>13, <1>14 DEF Load

\* A command that writes files, in either direction, finds those of `old`.
LEMMA DirectedIs ==
  ASSUME NEW j \in Job, Asked(j), Directed(j), Sorted(j.files)
  PROVE  /\ j.old \in Document \cup {Absent} /\ j.new \in Document \cup {Absent}
         /\ j.old # Absent \/ j.new # Absent
         /\ j.old # Absent => j.old.cell = j.cell /\ j.old.id = j.id
         /\ j.new # Absent => j.new.cell = j.cell /\ j.new.id = j.id
         /\ Side(j) \in Path /\ Side(j)[3] = Content
         /\ Base(j) \in [Path -> Anything] /\ Sorted(Base(j))
         /\ Base(j)[Side(j)] = j.old
         /\ j.repair => \A p \in Touched(j) : Base(j)[p] = Planned(j.old, p)
         /\ j.op = "delete" => j.files[Side(j)] # Absent
         /\ PathsOf(j.old, j.new) \in Seq(Path) /\ Len(PathsOf(j.old, j.new)) \in Nat \ {0}
         /\ ToSet(PathsOf(j.old, j.new)) = Touched(j) /\ Touched(j) \subseteq Path
<1>1. Loaded(j) /\ j.stored \in Document \cup {Absent} /\ Target(j) \in Document \cup {Absent}
  BY TargetIs DEF Directed, Job
<1>2. /\ j.stored # Absent => j.stored.cell = j.cell /\ j.stored.id = j.id
      /\ Target(j) # Absent => Target(j).cell = j.cell /\ Target(j).id = j.id
      /\ j.stored # Absent \/ Target(j) # Absent
      /\ j.op = "delete" => j.files[Side(j)] # Absent
  <2>1. j.op \in {"create", "set", "delete"}
    BY <1>1 DEF Loaded, Job
  <2>2. j.op = "delete" => j.stored # Absent
    BY DEF Directed
  <2>3. j.op \in {"create", "set"} => Target(j) # Absent /\ Target(j).cell = j.cell /\ Target(j).id = j.id
    BY TargetIs, DocumentHasFiles
  <2>4. j.op = "delete" => Target(j) = Absent
    BY TargetIs
  <2> QED
    BY <1>1, <2>1, <2>2, <2>3, <2>4 DEF Loaded
<1>3. Side(j) \in Path /\ Side(j)[3] = Content
  BY DEF Side, Sidecar, Path, Job
<1>4. {j.old, j.new} = {j.stored, Target(j)}
  BY DEF Directed
<1>5. Base(j) \in [Path -> Anything] /\ Sorted(Base(j)) /\ Base(j)[Side(j)] = j.old
  <2>1. CASE j.repair
    <3>1. Base(j) = Changed(j) /\ j.old = Target(j)
      BY <2>1 DEF Base, Directed
    <3>2. Changed(j)[Side(j)] = Target(j)
      BY <1>1, <1>2, ChangedIs
    <3> QED
      BY <1>1, <3>1, <3>2, ChangedIs
  <2>2. CASE ~j.repair
    BY <1>1, <2>2 DEF Base, Directed, Loaded, Job
  <2> QED
    BY <2>1, <2>2
<1>6. ASSUME j.repair, NEW p \in Touched(j) PROVE Base(j)[p] = Planned(j.old, p)
  BY <1>1, <1>6, ChangedIs, TouchedIs DEF Base, Directed
<1>7. /\ ToSet(PathsOf(j.old, j.new)) = Touched(j) /\ Touched(j) \subseteq Path
      /\ Side(j) \in Touched(j)
  BY <1>1, <1>2, TouchedIs DEF Directed
<1>8. PathsOf(j.old, j.new) \in Seq(Path)
  BY <1>1, PathsList DEF Directed
<1>9. Len(PathsOf(j.old, j.new)) \in Nat \ {0}
  <2>1. \E i \in 1 .. Len(PathsOf(j.old, j.new)) : TRUE
    BY <1>7, <1>8, ToSetIndex
  <2> QED
    BY <1>8, <2>1
<1>10. /\ j.old \in Document \cup {Absent} /\ j.new \in Document \cup {Absent}
       /\ j.old # Absent \/ j.new # Absent
       /\ j.old # Absent => j.old.cell = j.cell /\ j.old.id = j.id
       /\ j.new # Absent => j.new.cell = j.cell /\ j.new.id = j.id
  BY <1>1, <1>2 DEF Directed
<1> QED
  BY <1>2, <1>3, <1>5, <1>6, <1>7, <1>8, <1>9, <1>10

\* An unchanged direction.
LEMMA DirectionKept ==
  ASSUME NEW j, NEW k, SameOrder(j, k), k.stored = j.stored, k.old = j.old, k.new = j.new,
         k.repair = j.repair
  PROVE  /\ Directed(j) => Directed(k)
         /\ Base(k) = Base(j) /\ Touched(k) = Touched(j)
         /\ AllOwned(j) => AllOwned(k)
BY OrderKept DEF SameOrder, Directed, Base, AllOwned

\* A request of the first stages went wrong.
LEMMA EarlyFault ==
  ASSUME Going, NextIntact, job.at \in {"check", "preflight"}, Directed(job), files = Base(job),
         Fault, Refuse, Unchanged
  PROVE  BundleInvariant'
<1>1. job' = [job EXCEPT !.at = "failed"] /\ UNCHANGED <<items, files, foreign>>
  BY DEF Refuse, Finish, Unchanged
<1>2. faults' = faults + 1 /\ faults \in Nat /\ (job.repair => faults >= 1)
  BY GoingHas DEF Fault, Blamed, BundleTypes
<1>3. Unaltered \/ faults' >= 2
  <2>1. CASE job.repair
    BY <1>2, <2>1
  <2>2. CASE ~job.repair
    BY <2>2, GoingHas DEF Unaltered, Base, Stage
  <2> QED
    BY <2>1, <2>2
<1> QED
  BY <1>1, <1>2, <1>3, Refused

LEMMA CheckKeeps ==
  ASSUME BundleInvariant, NextIntact, Check
  PROVE  BundleInvariant'
<1>1. job.at = "check" /\ Unchanged
  BY DEF Check
<1>2. Going
  BY <1>1, GoingIs DEF NoJob
<1>3. /\ StageCheck /\ Asked(job) /\ job \in Job /\ Blamed /\ Sorted(job.files)
      /\ faults \in Nat /\ items \in Notebook /\ Small(items)
      /\ files \in [Path -> Anything] /\ Sorted(files)
  BY <1>1, <1>2, GoingHas DEF Stage, BundleTypes, JobTypes, Going
<1>4. Directed(job) /\ files = Base(job)
  BY <1>3 DEF StageCheck
<1> DEFINE rev == IF job.old = Absent THEN job.new.rev ELSE job.old.rev
           gone == job.new = Absent /\ files[Here] = Absent
<1>5. files[Here] = job.old /\ Here = Side(job)
  BY <1>3, <1>4, DirectedIs DEF Here, Side
\* Nothing changed since the content was read.
<1>6. Readable(rev) /\ ~gone
  <2>1. CASE job.old = Absent
    BY <1>3, <1>4, <1>5, <2>1, DirectedIs DEF Readable
  <2>2. CASE job.old # Absent
    <3>1. job.old \in Document /\ job.old.cell = job.cell /\ job.old.id = job.id
      BY <1>3, <1>4, <2>2, DirectedIs
    <3> QED
      BY <1>5, <2>2, <3>1, DocumentHasFiles DEF Readable, Identity
  <2> QED
    BY <2>1, <2>2
<1>7. CASE Fault /\ Refuse
  BY <1>1, <1>2, <1>4, <1>7, EarlyFault
<1>8. CASE NoFault /\ job' = [job EXCEPT !.at = "preflight", !.todo = PathsOf(job.old, job.new)]
  <2> DEFINE paths == PathsOf(job.old, job.new)
  <2>1. paths \in Seq(Path) /\ Len(paths) \in Nat \ {0}
    BY <1>3, <1>4, DirectedIs
  <2>2. /\ job' \in Job /\ SameOrder(job, job') /\ job'.at = "preflight" /\ job'.todo = paths
        /\ job'.stored = job.stored /\ job'.old = job.old /\ job'.new = job.new
        /\ job'.repair = job.repair /\ job'.restored = job.restored
        /\ job'.done = job.done /\ job'.backup = job.backup
    BY <1>3, <1>8, <2>1 DEF Job, SameOrder
  <2>3. Directed(job') /\ Base(job') = Base(job)
    BY <1>4, <2>2, DirectionKept
  <2>4. Looked(job') /\ Rest(job', Len(job'.backup))
    BY <1>3, <2>1, <2>2 DEF Looked, Rest, StageCheck
  <2>5. StagePreflight'
    BY <1>1, <1>3, <2>2, <2>3, <2>4 DEF StagePreflight, StageCheck, Unchanged
  <2>6. Stage'
    BY <1>1, <1>2, <2>2, <2>5, GoingHas DEF Stage, SameOrder, Unchanged
  <2>7. Blamed'
    BY <1>1, <1>3, <1>8, <2>2 DEF Blamed, NoFault, SameOrder, Unchanged
  <2> QED
    BY <1>1, <1>2, <1>3, <1>8, <2>2, <2>6, <2>7, GoesOn DEF NoFault, Unchanged
<1> QED
  BY <1>5, <1>6, <1>7, <1>8 DEF Check

\* The next path of the list, and what is left after it.
LEMMA RestIs ==
  ASSUME NEW j \in Job, Asked(j), Directed(j), Sorted(j.files), NEW n \in Nat, Rest(j, n)
  PROVE  LET paths == PathsOf(j.old, j.new)
         IN /\ n + 1 \in 1 .. Len(paths) /\ Head(j.todo) = paths[n + 1]
            /\ Head(j.todo) \in Touched(j) /\ Head(j.todo) \in Path
            /\ Tail(j.todo) \in Seq(Path)
            /\ ~(Len(j.todo) > 1) => n + 1 = Len(paths)
            /\ Len(j.todo) > 1 => \A k : k.todo = Tail(j.todo) /\ k.old = j.old /\ k.new = j.new
                                    => Rest(k, n + 1)
<1> DEFINE paths == PathsOf(j.old, j.new)
<1>1. /\ paths \in Seq(Path) /\ ToSet(paths) = Touched(j) /\ Touched(j) \subseteq Path
      /\ Len(paths) \in Nat
  BY DirectedIs
<1>2. j.todo \in Seq(Path) /\ Len(j.todo) \in Nat /\ Len(j.todo) >= 1
      /\ n + Len(j.todo) = Len(paths) /\ \A i \in 1 .. Len(j.todo) : j.todo[i] = paths[n + i]
  BY DEF Rest, Job
<1> HIDE DEF paths
<1>3. Head(j.todo) = j.todo[1] /\ j.todo # <<>>
  BY <1>2
<1>4. n + 1 \in 1 .. Len(paths) /\ Head(j.todo) = paths[n + 1]
  BY <1>1, <1>2, <1>3
<1>5. Head(j.todo) \in Touched(j) /\ Head(j.todo) \in Path
  BY <1>1, <1>4, ToSetIndex
<1>6. Tail(j.todo) \in Seq(Path) /\ Len(Tail(j.todo)) = Len(j.todo) - 1
      /\ \A i \in 1 .. Len(j.todo) - 1 : Tail(j.todo)[i] = j.todo[i + 1]
  BY <1>2, <1>3
<1>7. ~(Len(j.todo) > 1) => n + 1 = Len(paths)
  BY <1>1, <1>2
<1>8. ASSUME Len(j.todo) > 1, NEW k, k.todo = Tail(j.todo), k.old = j.old, k.new = j.new
      PROVE  Rest(k, n + 1)
  <2>1. PathsOf(k.old, k.new) = paths
    BY <1>8 DEF paths
  <2>2. n + 1 + Len(k.todo) = Len(paths) /\ Len(k.todo) >= 1
    <3>1. Len(k.todo) = Len(j.todo) - 1
      BY <1>6, <1>8
    <3>2. Len(j.todo) > 1 /\ Len(j.todo) \in Nat /\ n + Len(j.todo) = Len(paths)
      BY <1>2, <1>8
    <3>3. \A a, b, c \in Nat : a > 1 /\ n + a = c /\ b = a - 1 => n + 1 + b = c /\ b >= 1
      OBVIOUS
    <3>4. Len(k.todo) \in Nat /\ Len(paths) \in Nat
      BY <1>1, <3>1, <3>2
    <3> HIDE DEF paths
    <3> QED
      BY <3>1, <3>2, <3>3, <3>4
  <2>3. ASSUME NEW i \in DOMAIN k.todo PROVE k.todo[i] = paths[n + 1 + i]
    <3>1. i \in 1 .. Len(j.todo) - 1
      BY <1>2, <1>6, <1>8
    <3>2. k.todo[i] = j.todo[i + 1] /\ i + 1 \in 1 .. Len(j.todo)
      BY <1>2, <1>6, <1>8, <3>1
    <3>3. j.todo[i + 1] = paths[n + (i + 1)]
      BY <1>2, <3>2
    <3>4. n + (i + 1) = n + 1 + i
      BY <3>1
    <3> QED
      BY <3>2, <3>3, <3>4
  <2> QED
    BY <2>1, <2>2, <2>3 DEF Rest
<1> QED
  BY <1>4, <1>5, <1>6, <1>7, <1>8 DEF paths

LEMMA PreflightKeeps ==
  ASSUME BundleInvariant, NextIntact, Preflight
  PROVE  BundleInvariant'
<1>1. job.at = "preflight" /\ Unchanged
  BY DEF Preflight
<1>2. Going
  BY <1>1, GoingIs DEF NoJob
<1>3. /\ StagePreflight /\ Asked(job) /\ job \in Job /\ Blamed /\ Sorted(job.files)
      /\ faults \in Nat /\ items \in Notebook /\ Small(items)
      /\ files \in [Path -> Anything] /\ Sorted(files)
  BY <1>1, <1>2, GoingHas DEF Stage, BundleTypes, JobTypes, Going
<1>4. /\ Directed(job) /\ files = Base(job) /\ job.done = <<>> /\ job.restored
      /\ Looked(job) /\ Rest(job, Len(job.backup))
  BY <1>3 DEF StagePreflight
<1> DEFINE paths == PathsOf(job.old, job.new)
           n == Len(job.backup)
           seen == job.backup \o <<files[NextFile]>>
<1>5. job.backup \in Seq(Anything) /\ n \in Nat
  BY <1>3 DEF Job
<1>6. /\ n + 1 \in 1 .. Len(paths) /\ NextFile = paths[n + 1]
      /\ NextFile \in Touched(job) /\ NextFile \in Path
      /\ Tail(job.todo) \in Seq(Path)
      /\ ~(Len(job.todo) > 1) => n + 1 = Len(paths)
  BY <1>3, <1>4, <1>5, RestIs DEF NextFile
<1>7. /\ paths \in Seq(Path) /\ Len(paths) \in Nat \ {0}
      /\ ToSet(paths) = Touched(job) /\ Touched(job) \subseteq Path
  BY <1>3, <1>4, DirectedIs
<1>8. CASE Fault /\ Refuse
  BY <1>1, <1>2, <1>4, <1>8, EarlyFault
\* The file of a program that was faster: only the first pass meets one.
<1>9. CASE NoFault /\ ~Owned(NextFile) /\ Refuse
  <2>1. ~job.repair
    BY <1>3, <1>4, <1>6, <1>9, DirectedIs DEF Owned
  <2>2. Unaltered
    BY <1>1, <1>2, <1>4, <2>1, GoingHas DEF Unaltered, Base, Stage
  <2>3. job.op = "delete" => job.files[Side(job)] # Absent
    BY <1>3, <1>4, DirectedIs
  <2>4. job' = [job EXCEPT !.at = "failed"] /\ UNCHANGED <<items, files, foreign>>
        /\ faults' \in {faults, faults + 1}
    BY <1>1, <1>9 DEF Refuse, Finish, Unchanged, NoFault
  <2> QED
    BY <1>2, <2>2, <2>3, <2>4, Refused
\* The file is the bundle's.
<1>10. ASSUME Owned(NextFile)
       PROVE  /\ seen \in Seq(Anything) /\ Len(seen) = n + 1
              /\ \A i \in 1 .. n + 1 : seen[i] = Base(job)[paths[i]]
                                       /\ seen[i] \in {Absent, Planned(job.old, paths[i])}
  <2>1. files[NextFile] \in Anything /\ files[NextFile] = Base(job)[paths[n + 1]]
        /\ files[NextFile] \in {Absent, Planned(job.old, paths[n + 1])}
    BY <1>3, <1>4, <1>6, <1>10 DEF Owned
  <2>2. /\ seen \in Seq(Anything) /\ Len(seen) = n + 1 /\ seen[n + 1] = files[NextFile]
        /\ \A i \in 1 .. n : seen[i] = job.backup[i]
    BY <1>5, <2>1
  <2>3. \A i \in 1 .. n : job.backup[i] = Base(job)[paths[i]]
                          /\ job.backup[i] \in {Absent, Planned(job.old, paths[i])}
    BY <1>4, <1>5 DEF Looked
  <2> HIDE DEF seen, paths
  <2>4. \A i \in 1 .. n + 1 : i \in 1 .. n \/ i = n + 1
    BY <1>5
  <2> QED
    BY <2>1, <2>2, <2>3, <2>4
<1>11. CASE NoFault /\ Owned(NextFile) /\ Len(job.todo) > 1
            /\ job' = [job EXCEPT !.todo = Tail(@), !.backup = seen]
  <2>1. /\ job' \in Job /\ SameOrder(job, job') /\ job'.at = "preflight"
        /\ job'.todo = Tail(job.todo) /\ job'.backup = seen
        /\ job'.stored = job.stored /\ job'.old = job.old /\ job'.new = job.new
        /\ job'.repair = job.repair /\ job'.restored = job.restored /\ job'.done = job.done
    BY <1>1, <1>3, <1>6, <1>10, <1>11 DEF Job, SameOrder
  <2>2. Directed(job') /\ Base(job') = Base(job)
    BY <1>4, <2>1, DirectionKept
  <2>3. Looked(job')
    <3>1. PathsOf(job'.old, job'.new) = paths /\ job'.backup = seen /\ job'.old = job.old
      BY <2>1
    <3>2. /\ DOMAIN seen = 1 .. n + 1
          /\ \A i \in 1 .. n + 1 : /\ seen[i] = Base(job)[paths[i]] /\ i <= Len(paths)
                                    /\ seen[i] \in {Absent, Planned(job.old, paths[i])}
      <4>1. /\ seen \in Seq(Anything) /\ Len(seen) = n + 1
            /\ \A i \in 1 .. n + 1 : seen[i] = Base(job)[paths[i]]
                                     /\ seen[i] \in {Absent, Planned(job.old, paths[i])}
        BY <1>10, <1>11
      <4> HIDE DEF paths, seen
      <4>2. \A i \in 1 .. n + 1 : i <= Len(paths)
        BY <1>5, <1>6, <1>7
      <4> QED
        BY <4>1, <4>2
    <3> HIDE DEF paths, seen
    <3> QED
      BY <2>2, <3>1, <3>2 DEF Looked
  <2>4. Rest(job', Len(job'.backup))
    <3>1. \A k : k.todo = Tail(job.todo) /\ k.old = job.old /\ k.new = job.new => Rest(k, n + 1)
      BY <1>3, <1>4, <1>5, <1>11, RestIs
    <3>2. Rest(job', n + 1)
      BY <2>1, <3>1
    <3>3. Len(job'.backup) = n + 1
      BY <1>10, <1>11, <2>1
    <3> QED
      BY <3>2, <3>3
  <2>5. StagePreflight'
    BY <1>1, <1>4, <2>1, <2>2, <2>3, <2>4 DEF StagePreflight, Unchanged
  <2>6. Stage'
    BY <1>1, <1>2, <2>1, <2>5, GoingHas DEF Stage, SameOrder, Unchanged
  <2>7. Blamed'
    BY <1>1, <1>3, <1>11, <2>1 DEF Blamed, NoFault, SameOrder, Unchanged
  <2> QED
    BY <1>1, <1>2, <1>3, <1>11, <2>1, <2>6, <2>7, GoesOn DEF NoFault, Unchanged
<1>12. CASE NoFault /\ Owned(NextFile) /\ ~(Len(job.todo) > 1)
            /\ job' = [job EXCEPT !.at = "write", !.backup = seen,
                                  !.todo = PathsOf(job.old, job.new)]
  <2>1. /\ job' \in Job /\ SameOrder(job, job') /\ job'.at = "write"
        /\ job'.todo = paths /\ job'.backup = seen
        /\ job'.stored = job.stored /\ job'.old = job.old /\ job'.new = job.new
        /\ job'.repair = job.repair /\ job'.restored = job.restored /\ job'.done = job.done
    BY <1>1, <1>3, <1>7, <1>10, <1>12 DEF Job, SameOrder
  <2>2. Directed(job') /\ Base(job') = Base(job) /\ Touched(job') = Touched(job)
    BY <1>4, <2>1, DirectionKept
  <2>3. Looked(job') /\ Len(job'.backup) = Len(paths)
    <3>1. PathsOf(job'.old, job'.new) = paths /\ job'.backup = seen /\ job'.old = job.old
      BY <2>1
    <3>2. /\ seen \in Seq(Anything) /\ Len(seen) = n + 1
          /\ \A i \in 1 .. n + 1 : seen[i] = Base(job)[paths[i]]
                                   /\ seen[i] \in {Absent, Planned(job.old, paths[i])}
      BY <1>10, <1>12
    <3> HIDE DEF paths, seen
    <3>3. n + 1 = Len(paths)
      BY <1>5, <1>6, <1>7, <1>12
    <3>4. DOMAIN seen = 1 .. Len(paths) /\ \A i \in 1 .. Len(paths) : i <= Len(paths)
      BY <1>5, <3>2, <3>3
    <3> QED
      BY <2>2, <3>1, <3>2, <3>3, <3>4 DEF Looked
  <2>4. AllOwned(job')
    <3>1. ASSUME NEW p \in Touched(job)
          PROVE  Base(job)[p] \in {Absent, Planned(job.old, p)}
      <4>1. PICK i \in 1 .. Len(paths) : paths[i] = p
        BY <1>7, ToSetIndex
      <4> HIDE DEF paths, seen
      <4>2. i \in 1 .. n + 1
        BY <1>6, <1>12
      <4> QED
        BY <1>10, <1>12, <4>1, <4>2
    <3> QED
      BY <2>1, <2>2, <3>1 DEF AllOwned
  <2>5. Rest(job', Len(job'.done)) /\ job'.done = <<>>
    BY <1>4, <1>7, <2>1 DEF Rest
  <2>6. StageWrite'
    <3>1. ToSet(job'.done) = {} /\ DOMAIN job'.done = {}
      BY <2>5 DEF ToSet
    <3>2. \A p \in Path : files'[p] = Base(job')[p]
      BY <1>1, <1>4, <2>2 DEF Unchanged
    <3> QED
      BY <1>4, <2>1, <2>2, <2>3, <2>4, <2>5, <3>1, <3>2 DEF StageWrite, AllLooked
  <2>7. Stage'
    BY <1>1, <1>2, <2>1, <2>6, GoingHas DEF Stage, SameOrder, Unchanged
  <2>8. Blamed'
    BY <1>1, <1>3, <1>12, <2>1 DEF Blamed, NoFault, SameOrder, Unchanged
  <2> QED
    BY <1>1, <1>2, <1>3, <1>12, <2>1, <2>7, <2>8, GoesOn DEF NoFault, Unchanged
<1> QED
  BY <1>8, <1>9, <1>11, <1>12 DEF Preflight

LEMMA PutSorted ==
  ASSUME NEW f \in [Path -> Anything], Sorted(f), NEW p \in Path,
         NEW x \in {Absent, Alien} \cup (IF p[3] = Content THEN Document ELSE Source)
  PROVE  [f EXCEPT ![p] = x] \in [Path -> Anything] /\ Sorted([f EXCEPT ![p] = x])
<1>1. x \in Anything
  BY DEF Anything
<1> QED
  BY <1>1 DEF Sorted

LEMMA WriteKeeps ==
  ASSUME BundleInvariant, NextIntact, WriteFile
  PROVE  BundleInvariant'
<1>1. job.at = "write" /\ UNCHANGED <<items, foreign>>
  BY DEF WriteFile
<1>2. Going
  BY <1>1, GoingIs DEF NoJob
<1>3. /\ StageWrite /\ Asked(job) /\ job \in Job /\ Blamed /\ Sorted(job.files)
      /\ faults \in Nat /\ items \in Notebook /\ Small(items)
      /\ files \in [Path -> Anything] /\ Sorted(files)
  BY <1>1, <1>2, GoingHas DEF Stage, BundleTypes, JobTypes, Going
<1>4. /\ Directed(job) /\ job.restored /\ AllLooked(job) /\ AllOwned(job)
      /\ Rest(job, Len(job.done))
      /\ \A p \in Path :
           files[p] = IF p \in ToSet(job.done) THEN Planned(job.new, p) ELSE Base(job)[p]
  BY <1>3 DEF StageWrite
<1> DEFINE paths == PathsOf(job.old, job.new)
           n == Len(job.done)
           p0 == NextFile
           done == job.done \o <<NextFile>>
<1>5. job.done \in Seq(Path) /\ n \in Nat
  BY <1>3 DEF Job
<1>6. /\ n + 1 \in 1 .. Len(paths) /\ p0 = paths[n + 1] /\ p0 \in Touched(job) /\ p0 \in Path
      /\ Tail(job.todo) \in Seq(Path)
      /\ ~(Len(job.todo) > 1) => n + 1 = Len(paths)
  BY <1>3, <1>4, <1>5, RestIs DEF NextFile
<1>7. /\ paths \in Seq(Path) /\ Len(paths) \in Nat \ {0}
      /\ ToSet(paths) = Touched(job) /\ Touched(job) \subseteq Path
      /\ job.new \in Document \cup {Absent}
  BY <1>3, <1>4, DirectedIs
<1>8. /\ done \in Seq(Path) /\ ToSet(done) = ToSet(job.done) \cup {p0}
      /\ Len(done) = n + 1 /\ \A i \in 1 .. n + 1 : done[i] = paths[i]
  <2>1. done \in Seq(Path) /\ ToSet(done) = ToSet(job.done) \cup {p0}
    BY <1>5, <1>6, ToSetAppend
  <2>2. Len(done) = n + 1 /\ done[n + 1] = p0 /\ \A i \in 1 .. n : done[i] = job.done[i]
    BY <1>5, <1>6
  <2>3. \A i \in 1 .. n : job.done[i] = paths[i]
    BY <1>3, <1>5 DEF StageWrite
  <2>4. \A i \in 1 .. n + 1 : i \in 1 .. n \/ i = n + 1
    BY <1>5
  <2> HIDE DEF done, paths, p0
  <2> QED
    BY <1>6, <2>1, <2>2, <2>3, <2>4
<1>9. ToSet(done) \subseteq Touched(job)
  <2>1. ASSUME NEW i \in 1 .. n + 1 PROVE paths[i] \in Touched(job)
    <3> HIDE DEF paths
    <3>1. i \in 1 .. Len(paths)
      BY <1>5, <1>6, <1>7
    <3> QED
      BY <1>7, <3>1, ToSetIndex
  <2> HIDE DEF done, paths
  <2> QED
    BY <1>8, <2>1 DEF ToSet
<1>10. /\ Planned(job.new, p0) \in {Absent, Alien} \cup (IF p0[3] = Content THEN Document ELSE Source)
       /\ [files EXCEPT ![p0] = Planned(job.new, p0)] \in [Path -> Anything]
       /\ Sorted([files EXCEPT ![p0] = Planned(job.new, p0)])
  <2>1. Planned(job.new, p0) \in {Absent, Alien} \cup (IF p0[3] = Content THEN Document ELSE Source)
    BY <1>6, <1>7, BundleSorted
  <2> HIDE DEF p0
  <2> QED
    BY <1>3, <1>6, <2>1, PutSorted
\* The file is written.
<1>11. ASSUME NoFault, Put(p0, Planned(job.new, p0))
       PROVE  \A p \in Path :
                files'[p] = IF p \in ToSet(done) THEN Planned(job.new, p) ELSE Base(job)[p]
  BY <1>3, <1>4, <1>6, <1>8, <1>11 DEF Put
<1>12. CASE NoFault /\ Put(p0, Planned(job.new, p0)) /\ Len(job.todo) > 1
            /\ job' = [job EXCEPT !.todo = Tail(@), !.done = @ \o <<NextFile>>]
  <2>1. /\ job' \in Job /\ SameOrder(job, job') /\ job'.at = "write"
        /\ job'.todo = Tail(job.todo) /\ job'.done = done
        /\ job'.stored = job.stored /\ job'.old = job.old /\ job'.new = job.new
        /\ job'.repair = job.repair /\ job'.restored = job.restored /\ job'.backup = job.backup
    BY <1>1, <1>3, <1>6, <1>8, <1>12 DEF Job, SameOrder
  <2>2. Directed(job') /\ Base(job') = Base(job) /\ Touched(job') = Touched(job) /\ AllOwned(job')
    BY <1>4, <2>1, DirectionKept
  <2>3. AllLooked(job')
    BY <1>4, <2>1, <2>2 DEF AllLooked, Looked
  <2>4. Rest(job', Len(job'.done))
    <3>1. \A k : k.todo = Tail(job.todo) /\ k.old = job.old /\ k.new = job.new => Rest(k, n + 1)
      BY <1>3, <1>4, <1>5, <1>12, RestIs
    <3>2. Rest(job', n + 1)
      BY <2>1, <3>1
    <3> QED
      BY <1>8, <2>1, <3>2
  <2>5. \A i \in DOMAIN job'.done : job'.done[i] = PathsOf(job'.old, job'.new)[i]
    <3>1. DOMAIN done = 1 .. n + 1
      BY <1>8
    <3> QED
      BY <1>8, <2>1, <3>1
  <2>6. StageWrite'
    BY <1>4, <1>11, <1>12, <2>1, <2>2, <2>3, <2>4, <2>5 DEF StageWrite
  <2>7. Stage'
    BY <1>1, <1>2, <2>1, <2>6, GoingHas DEF Stage, SameOrder
  <2>8. Blamed'
    BY <1>1, <1>3, <1>12, <2>1 DEF Blamed, NoFault, SameOrder
  <2> QED
    BY <1>1, <1>2, <1>3, <1>10, <1>12, <2>1, <2>7, <2>8, GoesOn DEF NoFault, Put
\* The last file is.
<1>13. CASE NoFault /\ Put(p0, Planned(job.new, p0)) /\ ~(Len(job.todo) > 1)
            /\ job' = [job EXCEPT !.todo = Tail(@), !.done = @ \o <<NextFile>>, !.at = Written]
  <2>1. /\ job' \in Job /\ SameOrder(job, job')
        /\ job'.at = (IF job.repair THEN "failed" ELSE "save")
        /\ job'.stored = job.stored /\ job'.old = job.old /\ job'.new = job.new
        /\ job'.repair = job.repair /\ job'.restored = job.restored
    BY <1>3, <1>6, <1>8, <1>13 DEF Job, SameOrder, Written
  <2>2. /\ Directed(job') /\ Loaded(job') /\ Touched(job') = Touched(job)
        /\ Changed(job') = Changed(job) /\ Target(job') = Target(job) /\ Side(job') = Side(job)
    BY <1>4, <2>1, DirectionKept, OrderKept DEF Directed
  <2>3. Touched(job) \subseteq ToSet(done)
    <3>1. ASSUME NEW p \in Touched(job) PROVE p \in ToSet(done)
      <4>1. PICK i \in 1 .. Len(paths) : paths[i] = p
        BY <1>7, ToSetIndex
      <4>2. i \in 1 .. n + 1
        BY <1>6, <1>13
      <4> HIDE DEF paths, done
      <4>3. done[i] = p /\ i \in 1 .. Len(done)
        BY <1>8, <4>1, <4>2
      <4> QED
        BY <1>8, <4>3, ToSetIndex
    <3> QED
      BY <3>1
  <2>4. \A p \in Path :
          files'[p] = IF p \in Touched(job) THEN Planned(job.new, p) ELSE Base(job)[p]
    BY <1>9, <1>11, <1>13, <2>3
  <2>5. files' \in [Path -> Anything] /\ Sorted(files') /\ job.files \in [Path -> Anything]
    BY <1>3, <1>10, <1>13 DEF Put, Job
  <2>6. CASE job.repair
    <3>1. job.new = job.stored /\ Base(job) = Changed(job) /\ Loaded(job)
      BY <1>4, <2>6 DEF Directed, Base
    <3>2. ASSUME Whole(job.items, job.files) PROVE files' = job.files
      <4>1. ASSUME NEW p \in Path PROVE files'[p] = job.files[p]
        BY <1>3, <2>4, <3>1, <3>2, WholeStored, ChangedIs
      <4> QED
        BY <2>5, <4>1
    <3>3. Stage'
      BY <1>1, <1>2, <2>1, <2>6, GoingHas DEF Stage, SameOrder
    <3>4. Blamed'
      <4>1. faults >= 1 /\ faults' = faults
        BY <1>3, <1>13, <2>6 DEF Blamed, NoFault
      <4>2. job'.at = "failed" /\ (faults <= 1 => items = job.items)
        BY <1>3, <2>1, <2>6 DEF Blamed
      <4> QED
        BY <1>1, <1>3, <1>4, <2>1, <2>6, <3>2, <4>1, <4>2 DEF Blamed, Unaltered, SameOrder
    <3> QED
      BY <1>1, <1>2, <1>3, <1>13, <2>1, <2>5, <3>3, <3>4, GoesOn DEF NoFault
  <2>7. CASE ~job.repair
    <3>1. /\ job.new = Target(job) /\ job.old = job.stored /\ Base(job) = job.files
          /\ Loaded(job)
      BY <1>4, <2>7 DEF Directed, Base
    <3>2. files' = Changed(job)
      <4>1. ASSUME NEW p \in Path PROVE files'[p] = Changed(job)[p]
        BY <1>3, <2>4, <3>1, ChangedIs
      <4>2. Changed(job) \in [Path -> Anything]
        BY <1>3, <3>1, ChangedIs
      <4> QED
        BY <2>5, <4>1, <4>2
    <3>3. StageSave'
      BY <1>4, <2>1, <2>2, <2>7, <3>1, <3>2 DEF StageSave, AllOwned, SameOrder
    <3>4. Stage'
      BY <1>1, <1>2, <2>1, <2>7, <3>3, GoingHas DEF Stage, SameOrder
    <3>5. Blamed'
      BY <1>1, <1>3, <1>4, <1>13, <2>1, <2>7 DEF Blamed, NoFault
    <3> QED
      BY <1>1, <1>2, <1>3, <1>13, <2>1, <2>5, <3>4, <3>5, GoesOn DEF NoFault
  <2> QED
    BY <2>6, <2>7
\* The request went wrong, with the file written or not.
<1>14. CASE Fault /\ (files' = files \/ Put(p0, Planned(job.new, p0)))
            /\ job' = [job EXCEPT !.at = "undo", !.done = Attempted]
  <2>1. /\ job' \in Job /\ SameOrder(job, job') /\ job'.at = "undo" /\ job'.done = done
        /\ job'.stored = job.stored /\ job'.old = job.old /\ job'.new = job.new
        /\ job'.repair = job.repair /\ job'.restored = job.restored /\ job'.backup = job.backup
    BY <1>3, <1>8, <1>14 DEF Job, SameOrder, Attempted
  <2>2. Directed(job') /\ Base(job') = Base(job) /\ Touched(job') = Touched(job) /\ AllOwned(job')
    BY <1>4, <2>1, DirectionKept
  <2>3. AllLooked(job')
    BY <1>4, <2>1, <2>2 DEF AllLooked, Looked
  <2>4. files' \in [Path -> Anything] /\ Sorted(files')
    BY <1>3, <1>10, <1>14 DEF Put
  <2>5. ASSUME NEW p \in Path
        PROVE  /\ IF p \in Touched(job) THEN files'[p] \in {Base(job)[p], Planned(job.new, p)}
                  ELSE files'[p] = Base(job)[p]
               /\ p \notin ToSet(done) => files'[p] = Base(job)[p]
    <3>1. files'[p] = files[p] \/ (p = p0 /\ files'[p] = Planned(job.new, p))
      BY <1>3, <1>6, <1>14 DEF Put
    <3>2. ToSet(job.done) \subseteq ToSet(done) /\ p0 \in ToSet(done)
      BY <1>8
    <3> HIDE DEF done, p0
    <3> QED
      BY <1>4, <1>6, <1>9, <3>1, <3>2
  <2>6. StageUndo'
    BY <1>9, <2>1, <2>2, <2>3, <2>5 DEF StageUndo
  <2>7. Stage'
    BY <1>1, <1>2, <2>1, <2>6, GoingHas DEF Stage, SameOrder
  <2>8. Blamed'
    BY <1>1, <1>3, <1>4, <1>14, <2>1 DEF Blamed, Fault, SameOrder
  <2> QED
    BY <1>1, <1>2, <1>3, <1>14, <2>1, <2>4, <2>7, <2>8, GoesOn DEF Fault
<1>15. CASE NoFault /\ Put(p0, Planned(job.new, p0))
            /\ job' = [job EXCEPT !.todo = Tail(@), !.done = @ \o <<NextFile>>,
                                  !.at = IF Len(job.todo) > 1 THEN @ ELSE Written]
  <2>1. CASE Len(job.todo) > 1
    <3>1. job' = [job EXCEPT !.todo = Tail(@), !.done = @ \o <<NextFile>>]
      BY <1>3, <1>15, <2>1 DEF Job
    <3> QED
      BY <1>12, <1>15, <2>1, <3>1
  <2>2. CASE ~(Len(job.todo) > 1)
    <3>1. job' = [job EXCEPT !.todo = Tail(@), !.done = @ \o <<NextFile>>, !.at = Written]
      BY <1>15, <2>2
    <3> QED
      BY <1>13, <1>15, <2>2, <3>1
  <2> QED
    BY <2>1, <2>2
<1> QED
  BY <1>14, <1>15 DEF WriteFile

\* What is written back is what was there before the pass.
LEMMA BackupIs ==
  ASSUME Going, Directed(job), AllLooked(job), NEW p \in Touched(job)
  PROVE  Backup(p) = Base(job)[p]
<1> DEFINE paths == PathsOf(job.old, job.new)
           i == CHOOSE n \in DOMAIN paths : paths[n] = p
<1>1. /\ paths \in Seq(Path) /\ ToSet(paths) = Touched(job) /\ Len(paths) \in Nat
  BY GoingHas, DirectedIs DEF Going, JobTypes
<1>2. job.backup \in Seq(Anything) /\ Len(job.backup) = Len(paths)
  BY DEF Going, Job, AllLooked
<1>3. \E n \in DOMAIN paths : paths[n] = p
  <2> HIDE DEF paths
  <2> QED
    BY <1>1, ToSetIndex
<1>4. i \in DOMAIN paths /\ paths[i] = p
  <2> HIDE DEF paths
  <2> QED
    BY <1>3
<1>5. i \in DOMAIN job.backup
  <2> HIDE DEF paths
  <2>1. i \in 1 .. Len(paths)
    <3> HIDE DEF i
    <3> QED
      BY <1>1, <1>4
  <2> HIDE DEF i
  <2> QED
    BY <1>2, <2>1
<1>6. job.backup[i] = Base(job)[paths[i]]
  BY <1>5 DEF AllLooked, Looked
<1>7. Backup(p) = job.backup[i]
  BY DEF Backup
<1> QED
  BY <1>4, <1>6, <1>7

LEMMA UndoKeeps ==
  ASSUME BundleInvariant, NextIntact, Undo
  PROVE  BundleInvariant'
<1>1. job.at = "undo" /\ UNCHANGED <<items, foreign>>
  BY DEF Undo
<1>2. Going
  BY <1>1, GoingIs DEF NoJob
<1>3. /\ StageUndo /\ Asked(job) /\ job \in Job /\ Blamed /\ Sorted(job.files)
      /\ faults \in Nat /\ items \in Notebook /\ Small(items)
      /\ files \in [Path -> Anything] /\ Sorted(files)
  BY <1>1, <1>2, GoingHas DEF Stage, BundleTypes, JobTypes, Going
<1>4. /\ Directed(job) /\ AllLooked(job) /\ AllOwned(job) /\ ToSet(job.done) \subseteq Touched(job)
      /\ \A p \in Path :
           IF p \in Touched(job) THEN files[p] \in {Base(job)[p], Planned(job.new, p)}
           ELSE files[p] = Base(job)[p]
      /\ job.restored => \A p \in Path \ ToSet(job.done) : files[p] = Base(job)[p]
  BY <1>3 DEF StageUndo
<1>5. /\ Base(job) \in [Path -> Anything] /\ Sorted(Base(job)) /\ Touched(job) \subseteq Path
      /\ job.done \in Seq(Path)
  BY <1>3, <1>4, DirectedIs DEF Job
\* All is written back that could be.
<1>6. CASE job.done = <<>> /\ NoFault /\ UNCHANGED files
           /\ Finish(IF job.repair \/ ~job.restored THEN "failed" ELSE "restored")
  <2>1. CASE job.repair \/ ~job.restored
    <3>1. job' = [job EXCEPT !.at = "failed"]
      BY <1>6, <2>1 DEF Finish
    <3>2. faults >= 2 /\ faults' = faults
      BY <1>1, <1>3, <1>6, <2>1 DEF Blamed, NoFault
    <3>3. UNCHANGED <<items, files, foreign>>
      BY <1>1, <1>6
    <3> QED
      BY <1>2, <1>3, <3>1, <3>2, <3>3, Refused
  <2>2. CASE ~job.repair /\ job.restored
    <3>1. job' = [job EXCEPT !.at = "restored"]
      BY <1>6, <2>2 DEF Finish
    <3>2. /\ job' \in Job /\ SameOrder(job, job') /\ job'.at = "restored"
          /\ job'.repair = job.repair /\ job'.restored = job.restored
      BY <1>3, <3>1 DEF Job, SameOrder
    <3>3. files = job.files
      <4>1. Base(job) = job.files
        BY <2>2 DEF Base
      <4>2. ToSet(job.done) = {}
        BY <1>6 DEF ToSet
      <4>3. \A p \in Path : files[p] = job.files[p]
        BY <1>4, <2>2, <4>1, <4>2
      <4> QED
        BY <1>3, <1>5, <4>1, <4>3
    <3>4. items = job.items
      BY <1>1, <1>2, <2>2, GoingHas DEF Stage
    <3>5. Stage'
      BY <1>1, <1>6, <3>2, <3>3, <3>4 DEF Stage, Unaltered, SameOrder
    <3>6. Blamed'
      BY <2>2, <3>2 DEF Blamed
    <3> QED
      BY <1>1, <1>2, <1>3, <1>6, <3>2, <3>5, <3>6, GoesOn DEF NoFault
  <2> QED
    BY <2>1, <2>2
\* One more file is.
<1>7. ASSUME job.done # <<>>, NEW b \in BOOLEAN, NEW x \in BOOLEAN,
             job'.at = "undo", job'.done = Front(job.done), job'.restored = b,
             job' \in Job, SameOrder(job, job'), job'.stored = job.stored, job'.old = job.old,
             job'.new = job.new, job'.repair = job.repair, job'.backup = job.backup,
             IF x THEN Put(Last(job.done), Backup(Last(job.done))) ELSE files' = files,
             b => job.restored /\ x, faults' \in {faults, faults + 1},
             ~b => ~job.restored \/ faults' = faults + 1
      PROVE  BundleInvariant'
  <2> DEFINE p0 == Last(job.done)
  <2>1. /\ Front(job.done) \in Seq(Path) /\ p0 \in Path
        /\ ToSet(job.done) = ToSet(Front(job.done)) \cup {p0}
    BY <1>5, <1>7, ToSetFront
  <2>2. p0 \in Touched(job) /\ ToSet(Front(job.done)) \subseteq Touched(job)
    BY <1>4, <2>1
  <2> HIDE DEF p0
  <2>3. Backup(p0) = Base(job)[p0]
    BY <1>2, <1>4, <2>2, BackupIs
  <2>4. files' = files \/ files' = [files EXCEPT ![p0] = Base(job)[p0]]
    BY <1>7, <2>3 DEF Put, p0
  <2>5. x => files' = [files EXCEPT ![p0] = Base(job)[p0]]
    BY <1>7, <2>3 DEF Put, p0
  <2>6. files' \in [Path -> Anything] /\ Sorted(files')
    BY <1>3, <1>5, <2>1, <2>4, PutSorted DEF Sorted
  <2>7. /\ Directed(job') /\ Base(job') = Base(job) /\ Touched(job') = Touched(job)
        /\ AllOwned(job')
    BY <1>4, <1>7, DirectionKept
  <2>8. AllLooked(job')
    BY <1>4, <1>7, <2>7 DEF AllLooked, Looked
  <2>9. ASSUME NEW p \in Path
        PROVE  /\ IF p \in Touched(job) THEN files'[p] \in {Base(job)[p], Planned(job.new, p)}
                  ELSE files'[p] = Base(job)[p]
               /\ b /\ p \notin ToSet(Front(job.done)) => files'[p] = Base(job)[p]
    BY <1>3, <1>4, <1>7, <2>1, <2>4, <2>5
  <2>10. StageUndo'
    BY <1>7, <2>2, <2>7, <2>8, <2>9 DEF StageUndo
  <2>11. Stage'
    BY <1>1, <1>2, <1>7, <2>10, GoingHas DEF Stage, SameOrder
  <2>12. Blamed'
    <3>1. /\ faults >= 1 /\ (job.repair => faults >= 2) /\ (~job.restored => faults >= 2)
          /\ (job.repair /\ faults <= 1 => items = job.items)
      BY <1>1, <1>3 DEF Blamed
    <3> QED
      BY <1>1, <1>3, <1>7, <3>1 DEF Blamed, SameOrder
  <2>13. faults' \in Nat
    BY <1>3, <1>7
  <2> QED
    BY <1>1, <1>2, <1>3, <1>7, <2>6, <2>11, <2>12, <2>13, GoesOn
<1>8. job.done # <<>> => Front(job.done) \in Seq(Path)
  BY <1>5, ToSetFront
<1>9. CASE job.done # <<>> /\ NoFault /\ Put(Last(job.done), Backup(Last(job.done)))
           /\ job' = [job EXCEPT !.done = Front(@)]
  <2>1. /\ job'.at = "undo" /\ job'.done = Front(job.done) /\ job'.restored = job.restored
        /\ job' \in Job /\ SameOrder(job, job') /\ job'.stored = job.stored /\ job'.old = job.old
        /\ job'.new = job.new /\ job'.repair = job.repair /\ job'.backup = job.backup
    BY <1>1, <1>3, <1>8, <1>9 DEF Job, SameOrder
  <2>2. faults' \in {faults, faults + 1} /\ job.restored \in BOOLEAN
    BY <1>3, <1>9 DEF NoFault, Job
  <2> QED
    BY <1>7, <1>9, <2>1, <2>2
<1>10. CASE job.done # <<>> /\ Fault
            /\ (files' = files \/ Put(Last(job.done), Backup(Last(job.done))))
            /\ job' = [job EXCEPT !.done = Front(@), !.restored = FALSE]
  <2>1. /\ job'.at = "undo" /\ job'.done = Front(job.done) /\ job'.restored = FALSE
        /\ job' \in Job /\ SameOrder(job, job') /\ job'.stored = job.stored /\ job'.old = job.old
        /\ job'.new = job.new /\ job'.repair = job.repair /\ job'.backup = job.backup
    BY <1>1, <1>3, <1>8, <1>10 DEF Job, SameOrder
  <2>2. faults' \in {faults, faults + 1} /\ faults' = faults + 1
    BY <1>10 DEF Fault
  <2>3. CASE files' = files
    BY <1>7, <1>10, <2>1, <2>2, <2>3
  <2>4. CASE Put(Last(job.done), Backup(Last(job.done)))
    BY <1>7, <1>10, <2>1, <2>2, <2>4
  <2> QED
    BY <1>10, <2>3, <2>4
<1> QED
  BY <1>6, <1>9, <1>10 DEF Undo

LEMMA SaveKeeps ==
  ASSUME BundleInvariant, NextIntact, Save
  PROVE  BundleInvariant'
<1>1. job.at = "save" /\ UNCHANGED <<files, foreign>>
  BY DEF Save
<1>2. Going
  BY <1>1, GoingIs DEF NoJob
<1>3. /\ StageSave /\ Asked(job) /\ job \in Job /\ Blamed /\ Small(job.items)
      /\ faults \in Nat /\ items \in Notebook /\ Small(items)
      /\ files \in [Path -> Anything] /\ Sorted(files) /\ items = job.items
  BY <1>1, <1>2, GoingHas DEF Stage, BundleTypes, JobTypes, Going, StageSave
<1>4. job.goal = Goal(job) /\ job.goal \in Notebook /\ Small(job.goal)
  BY <1>3, GoalIs DEF Asked
<1>5. ASSUME NEW at \in {"done", "observe"}, job' = [job EXCEPT !.at = at]
      PROVE  /\ job' \in Job /\ SameOrder(job, job') /\ job'.at = at
             /\ ~job'.repair /\ job'.restored
             /\ StageSave'
  <2>1. /\ job' \in Job /\ SameOrder(job, job') /\ job'.at = at
        /\ job'.stored = job.stored /\ job'.new = job.new
        /\ job'.repair = job.repair /\ job'.restored = job.restored
    BY <1>3, <1>5 DEF Job, SameOrder
  <2>2. /\ Loaded(job') /\ Touched(job') = Touched(job)
        /\ Changed(job') = Changed(job) /\ Target(job') = Target(job)
    BY <1>3, <2>1, OrderKept DEF StageSave
  <2>3. StageSave'
    BY <1>1, <1>3, <2>1, <2>2 DEF StageSave, SameOrder
  <2> QED
    BY <1>3, <2>1, <2>3 DEF StageSave
<1>6. CASE NoFault /\ items' = job.goal /\ Finish("done")
  <2>1. /\ job' \in Job /\ SameOrder(job, job') /\ job'.at = "done"
        /\ ~job'.repair /\ job'.restored /\ StageSave'
    BY <1>5, <1>6 DEF Finish
  <2>2. Stage'
    BY <1>3, <1>6, <2>1 DEF Stage, StageDone, SameOrder, StageSave, Loaded
  <2>3. Blamed'
    BY <2>1 DEF Blamed
  <2> QED
    BY <1>1, <1>2, <1>3, <1>4, <1>6, <2>1, <2>2, <2>3, GoesOn DEF NoFault
<1>7. CASE Fault /\ items' \in {items, job.goal} /\ job' = [job EXCEPT !.at = "observe"]
  <2>1. /\ job' \in Job /\ SameOrder(job, job') /\ job'.at = "observe"
        /\ ~job'.repair /\ job'.restored /\ StageSave'
    BY <1>5, <1>7
  <2>2. Stage'
    BY <1>3, <1>7, <2>1 DEF Stage, SameOrder
  <2>3. Blamed'
    BY <1>3, <1>7, <2>1 DEF Blamed, Fault
  <2>4. items' \in Notebook /\ Small(items') /\ faults' \in Nat
    BY <1>3, <1>4, <1>7 DEF Fault
  <2> QED
    BY <1>1, <1>2, <1>3, <2>1, <2>2, <2>3, <2>4, GoesOn
<1> QED
  BY <1>6, <1>7 DEF Save

LEMMA ObserveKeeps ==
  ASSUME BundleInvariant, NextIntact, Observe
  PROVE  BundleInvariant'
<1>1. job.at = "observe" /\ UNCHANGED <<items, files, foreign>> /\ faults' \in {faults, faults + 1}
  BY DEF Observe, Unchanged, NoFault, Fault
<1>2. Going
  BY <1>1, GoingIs DEF NoJob
<1>3. /\ StageSave /\ Asked(job) /\ job \in Job /\ Blamed /\ Sorted(job.files)
      /\ faults \in Nat /\ items \in Notebook /\ Small(items)
      /\ files \in [Path -> Anything] /\ Sorted(files)
      /\ items \in {job.items, job.goal}
  BY <1>1, <1>2, GoingHas DEF Stage, BundleTypes, JobTypes, Going
<1>4. /\ Loaded(job) /\ ~job.repair /\ job.restored
      /\ files = Changed(job) /\ (Target(job) # Absent => job.new = Target(job))
      /\ job.op \in {"create", "set", "delete"}
  BY <1>3 DEF StageSave, Loaded, Job
<1>5. /\ job.stored \in Document \cup {Absent} /\ Target(job) \in Document \cup {Absent}
      /\ job.op \in {"create", "set"} => job.new = Target(job)
      /\ job.op = "delete" => Target(job) = Absent
      /\ job.op = "create" => job.stored = Absent
      /\ faults >= 1
  BY <1>1, <1>3, <1>4, TargetIs, DocumentHasFiles DEF Job, Loaded, Blamed
<1>6. CASE NoFault /\ Saved /\ Finish("done")
  <2>1. /\ job' \in Job /\ SameOrder(job, job') /\ job'.at = "done"
        /\ job'.stored = job.stored /\ job'.new = job.new
        /\ job'.repair = job.repair /\ job'.restored = job.restored
    BY <1>3, <1>6 DEF Job, SameOrder, Finish
  <2>2. /\ Loaded(job') /\ Touched(job') = Touched(job)
        /\ Changed(job') = Changed(job) /\ Target(job') = Target(job)
    BY <1>4, <2>1, OrderKept
  <2>3. StageSave'
    BY <1>1, <1>3, <2>1, <2>2 DEF StageSave, SameOrder
  <2>4. Stage'
    BY <1>1, <1>3, <1>4, <1>6, <2>1, <2>3 DEF Stage, StageDone, SameOrder, Saved
  <2>5. Blamed'
    BY <1>4, <2>1 DEF Blamed
  <2> QED
    BY <1>1, <1>2, <1>3, <1>6, <2>1, <2>4, <2>5, GoesOn DEF NoFault
\* The files are put back.
<1>7. ASSUME Repair(Target(job), job.stored), job.op = "delete" => job.stored # Absent,
             faults' <= 1 => ~Saved
      PROVE  BundleInvariant'
  <2>1. job' \in Job /\ SameOrder(job, job') /\ Heads(Target(job), job.stored, job.stored, TRUE)
    <3>1. job' = [ToBundle(Target(job), job.stored) EXCEPT !.repair = TRUE]
      BY <1>7 DEF Repair
    <3> QED
      BY <1>2, <1>5, <3>1, BundleBegun
  <2>2. /\ Loaded(job') /\ Changed(job') = Changed(job) /\ Target(job') = Target(job)
    BY <1>4, <2>1, OrderKept DEF Heads
  <2>3. Directed(job')
    BY <1>7, <2>1, <2>2 DEF Directed, Heads, SameOrder
  <2>4. StageCheck'
    BY <1>1, <1>4, <2>1, <2>2, <2>3 DEF StageCheck, Heads, Base
  <2>5. Stage'
    BY <1>1, <1>3, <2>1, <2>4 DEF Stage, Heads, SameOrder
  <2>6. Blamed'
    BY <1>1, <1>3, <1>4, <1>5, <1>7, <2>1 DEF Blamed, Heads, SameOrder, Saved
  <2>7. faults' \in Nat
    BY <1>1, <1>3
  <2> QED
    BY <1>1, <1>2, <1>3, <2>1, <2>5, <2>6, <2>7, GoesOn
\* Or cannot be.
<1>8. ASSUME Finish("failed"), faults' >= 2 \/ (job.op = "delete" /\ job.stored = Absent)
      PROVE  BundleInvariant'
  <2>1. /\ job' \in Job /\ SameOrder(job, job') /\ job'.at = "failed"
        /\ job'.repair = job.repair /\ job'.restored = job.restored
    BY <1>3, <1>8 DEF Job, SameOrder, Finish
  <2>2. Stage'
    BY <1>1, <1>3, <2>1 DEF Stage, SameOrder
  <2>3. ASSUME job.op = "delete", job.stored = Absent, Whole(job.items, job.files)
        PROVE  FALSE
    <3>1. job.cell \in CellId /\ job.id \in DOMAIN job.items[job.cell]
      BY <1>3, <2>3 DEF Asked, Job
    <3>2. job.files[Sidecar(job.cell, job.id)] = Absent
      BY <1>4, <2>3 DEF Loaded, Side
    <3> QED
      BY <2>3, <3>1, <3>2, DocumentHasFiles DEF Whole
  <2>4. Blamed'
    BY <1>1, <1>3, <1>4, <1>5, <1>8, <2>1, <2>3 DEF Blamed, SameOrder
  <2>5. faults' \in Nat
    BY <1>1, <1>3
  <2> QED
    BY <1>1, <1>2, <1>3, <2>1, <2>2, <2>4, <2>5, GoesOn
<1>9. ASSUME \/ NoFault /\ ~Saved
             \/ Fault,
             CASE job.op = "create" /\ faults' = faults -> Repair(job.new, Absent)
               [] job.op = "set" /\ faults' = faults -> Repair(job.new, job.stored)
               [] job.op = "delete" /\ job.stored # Absent -> Repair(Absent, job.stored)
               [] OTHER -> Finish("failed")
      PROVE  BundleInvariant'
  <2>1. (faults' <= 1 => ~Saved) /\ (faults' # faults => faults' >= 2)
    BY <1>3, <1>5, <1>9 DEF NoFault, Fault
  <2>2. CASE job.op = "create" /\ faults' = faults
    BY <1>5, <1>7, <1>9, <2>1, <2>2
  <2>3. CASE job.op = "set" /\ faults' = faults
    BY <1>5, <1>7, <1>9, <2>1, <2>3
  <2>4. CASE job.op = "delete" /\ job.stored # Absent
    BY <1>5, <1>7, <1>9, <2>1, <2>4
  <2>5. CASE /\ ~(job.op = "create" /\ faults' = faults)
             /\ ~(job.op = "set" /\ faults' = faults)
             /\ ~(job.op = "delete" /\ job.stored # Absent)
    <3>1. Finish("failed")
      BY <1>9, <2>5
    <3>2. faults' >= 2 \/ (job.op = "delete" /\ job.stored = Absent)
      <4>1. job.op \in {"create", "set", "delete"}
        BY <1>4
      <4>2. CASE faults' = faults
        BY <2>5, <4>1, <4>2
      <4>3. CASE faults' # faults
        BY <2>1, <4>3
      <4> QED
        BY <4>2, <4>3
    <3> QED
      BY <1>8, <3>1, <3>2
  <2> QED
    BY <2>2, <2>3, <2>4, <2>5
<1> QED
  BY <1>6, <1>9 DEF Observe

LEMMA AnswerKeeps ==
  ASSUME BundleInvariant, NextIntact, Answer
  PROVE  BundleInvariant'
<1>1. job.at \in {"done", "failed", "restored"} /\ job' = NoJob
      /\ UNCHANGED <<items, files, faults, foreign>>
  BY DEF Answer, Answered, Answers
<1>2. Going
  BY <1>1, GoingIs DEF NoJob
<1>3. /\ Stage /\ Blamed /\ Asked(job) /\ job \in Job /\ Small(job.items) /\ Sorted(job.files)
      /\ BundleTypes
  BY <1>2, GoingHas DEF JobTypes, Going
<1>4. BundleTypes'
  BY <1>1, <1>3 DEF BundleTypes, NextIntact
<1>5. ASSUME intact PROVE Whole(items, files)
  <2>1. Whole(job.items, job.files) /\ faults <= 1
    BY <1>2, <1>3, <1>5, GoingHas DEF BundleTypes
  <2>2. CASE Unaltered
    BY <2>1, <2>2 DEF Unaltered
  <2>3. CASE job.at = "done" /\ job.op # "read"
    <3>1. items = Goal(job) /\ files = Changed(job) /\ Loaded(job)
      BY <1>3, <2>3 DEF Stage, StageDone, StageSave, Asked
    <3> QED
      BY <1>3, <2>1, <3>1, WholeChanged
  <2>4. Unaltered \/ (job.at = "done" /\ job.op # "read")
    BY <1>1, <1>3, <2>1 DEF Stage, StageDone, Blamed, Unaltered
  <2> QED
    BY <2>2, <2>3, <2>4
<1> QED
  BY <1>1, <1>4, <1>5 DEF BundleInvariant, NextIntact

LEMMA ForeignKeeps ==
  ASSUME BundleInvariant, NextIntact, ForeignWrite
  PROVE  BundleInvariant'
<1>1. job = NoJob /\ foreign' = foreign + 1 /\ UNCHANGED <<items, job, faults>>
  BY DEF ForeignWrite
<1>2. BundleTypes
  BY DEF BundleInvariant
<1>3. PICK p \in Path, x \in {Absent, Alien} : files' = [files EXCEPT ![p] = x]
  BY DEF ForeignWrite, Put
<1>4. files' \in [Path -> Anything] /\ Sorted(files')
  BY <1>2, <1>3, PutSorted DEF BundleTypes
<1>5. foreign' # 0 /\ foreign' \in Nat
  BY <1>1, <1>2 DEF BundleTypes
<1>6. ~intact'
  BY <1>5 DEF NextIntact
<1>7. BundleTypes'
  BY <1>1, <1>2, <1>4, <1>5, <1>6 DEF BundleTypes, NextIntact
<1> QED
  BY <1>1, <1>6, <1>7 DEF BundleInvariant

LEMMA BundleStep ==
  ASSUME BundleInvariant, [Next]_vars
  PROVE  BundleInvariant'
<1>1. CASE UNCHANGED vars
  BY <1>1 DEF vars, BundleInvariant, BundleTypes, JobTypes, Stage, Blamed, StageLoad, StageCheck,
              StagePreflight, StageWrite, StageUndo, StageSave, StageDone, Unaltered
<1>2. CASE Next
  <2>1. NextIntact
    BY <1>2 DEF Next, NextIntact
  <2>2. CASE Command
    BY <2>1, <2>2, BeginKeeps DEF Command
  <2>3. CASE Step
    BY <2>1, <2>3, LoadKeeps, CheckKeeps, PreflightKeeps, WriteKeeps, UndoKeeps, SaveKeeps,
       ObserveKeeps, AnswerKeeps DEF Step
  <2>4. CASE ForeignWrite
    BY <2>1, <2>4, ForeignKeeps
  <2> QED
    BY <1>2, <2>2, <2>3, <2>4 DEF Next
<1> QED
  BY <1>1, <1>2

\* The inductive invariant holds of every behaviour.
THEOREM BundleInvariance == Spec => []BundleInvariant
<1> QED
  BY InitBundle, BundleStep, PTL DEF Spec

-----------------------------------------------------------------------------
(* What it implies. *)

LEMMA InvariantTypes ==
  ASSUME BundleInvariant
  PROVE  BundleTypeOK
<1>1. items \in Notebook /\ Small(items) /\ files \in [Path -> Anything] /\ Sorted(files)
  BY DEF BundleInvariant, BundleTypes
<1>2. ASSUME NEW p \in Path
      PROVE  files[p] \in {Absent, Alien} \/
               (IF p[3] = Content THEN files[p].cell \in CellId ELSE files[p] \in Source)
  BY <1>1, <1>2 DEF Sorted, Document
<1> QED
  BY <1>1, <1>2, RefsType DEF BundleTypeOK, Small

LEMMA InvariantPaired ==
  ASSUME BundleInvariant
  PROVE  Paired
<1> SUFFICES ASSUME intact, job = NoJob
             PROVE  /\ \A r \in Referred : /\ IsDoc(FileOf(r[1], r[2]))
                                           /\ FileOf(r[1], r[2]).cell = r[1]
                                           /\ FileOf(r[1], r[2]).rev = items[r[1]][r[2]]
                    /\ \A p \in Path : files[p] # Absent =>
                         \E r \in Referred : Planned(FileOf(r[1], r[2]), p) = files[p]
                    /\ \A r \in Referred : \A p \in DOMAIN Bundle(FileOf(r[1], r[2])) :
                         files[p] # Absent
  BY DEF Paired
<1>1. Whole(items, files) /\ items \in Notebook
  BY DEF BundleInvariant, BundleTypes
<1>2. ASSUME NEW r \in Referred
      PROVE  /\ r[1] \in CellId /\ r[2] \in DOMAIN items[r[1]]
             /\ FileOf(r[1], r[2]) \in Document
             /\ FileOf(r[1], r[2]).cell = r[1] /\ FileOf(r[1], r[2]).rev = items[r[1]][r[2]]
             /\ \A p \in DOMAIN Bundle(FileOf(r[1], r[2])) :
                  p \in Path /\ files[p] = Bundle(FileOf(r[1], r[2]))[p] /\ files[p] # Absent
  <2>1. r[1] \in CellId /\ r[2] \in DOMAIN items[r[1]]
    BY DEF Referred
  <2>2. /\ FileOf(r[1], r[2]) \in Document
        /\ FileOf(r[1], r[2]).cell = r[1] /\ FileOf(r[1], r[2]).rev = items[r[1]][r[2]]
        /\ \A p \in DOMAIN Bundle(FileOf(r[1], r[2])) :
             files[p] = Bundle(FileOf(r[1], r[2]))[p]
    BY <1>1, <2>1 DEF Whole, FileOf
  <2>3. ASSUME NEW p \in DOMAIN Bundle(FileOf(r[1], r[2]))
        PROVE  p \in Path /\ files[p] # Absent
    <3> DEFINE d == FileOf(r[1], r[2])
    <3>1. p \in Path
      BY <2>2, BundleFiles
    <3>2. Planned(d, p) = Bundle(d)[p] /\ Planned(d, p) # Absent
      BY <2>2, <3>1, BundleSorted
    <3> QED
      BY <2>2, <3>1, <3>2
  <2> QED
    BY <2>1, <2>2, <2>3
<1>3. ASSUME NEW p \in Path, files[p] # Absent
      PROVE  \E r \in Referred : Planned(FileOf(r[1], r[2]), p) = files[p]
  <2>1. PICK c \in CellId : \E m \in DOMAIN items[c] : p \in DOMAIN Bundle(files[Sidecar(c, m)])
    BY <1>1, <1>3 DEF Whole
  <2>2. PICK m \in DOMAIN items[c] : p \in DOMAIN Bundle(files[Sidecar(c, m)])
    BY <2>1
  <2>3. <<c, m>> \in Referred
    BY <1>1, <2>1, <2>2, RefsType DEF Referred
  <2>4. Planned(FileOf(c, m), p) = files[p]
    BY <1>1, <2>2 DEF Whole, FileOf, Planned
  <2> QED
    BY <2>3, <2>4
<1> QED
  BY <1>2, <1>3, DocumentHasFiles

LEMMA InvariantAnswers ==
  ASSUME BundleInvariant
  PROVE  SuccessIsComplete /\ RestoredIsRestored /\ MissingCanBeDeleted
<1>1. CASE job = NoJob
  BY <1>1 DEF NoJob, SuccessIsComplete, RestoredIsRestored, MissingCanBeDeleted
<1>2. CASE job # NoJob
  <2>1. Going
    BY <1>2, GoingIs
  <2>2. /\ Stage /\ Blamed /\ Asked(job) /\ job \in Job /\ Sorted(job.files)
    BY <2>1, GoingHas DEF JobTypes, Going
  <2>3. Here = Side(job) /\ Side(job) \in Path
    BY <2>2 DEF Here, Side, Sidecar, Path, Job
  <2>4. ASSUME job.at = "done", job.op # "read"
        PROVE  /\ items = job.goal
               /\ job.op \in {"create", "set"} =>
                    \A p \in DOMAIN Bundle(job.new) : files[p] = Bundle(job.new)[p]
               /\ job.op = "delete" => files[Here] = Absent
    <3>1. StageSave /\ items = job.goal
      BY <2>2, <2>4 DEF Stage, StageDone
    <3>2. Loaded(job) /\ files = Changed(job)
      BY <3>1 DEF StageSave
    <3>3. ASSUME job.op \in {"create", "set"}, NEW p \in DOMAIN Bundle(job.new)
          PROVE  files[p] = Bundle(job.new)[p]
      <4>1. job.new = Target(job)
        BY <2>2, <3>1, <3>3, TargetIs, DocumentHasFiles DEF StageSave
      <4>2. p \in Touched(job) /\ p \in Path
        BY <2>2, <3>2, <3>3, <4>1, TouchedIs DEF Touched
      <4> QED
        BY <2>2, <3>2, <3>3, <4>1, <4>2, ChangedIs DEF Planned
    <3>4. ASSUME job.op = "delete" PROVE files[Here] = Absent
      <4>1. Target(job) = Absent
        BY <2>2, <3>4, TargetIs
      <4>2. CASE job.stored = Absent
        <5>1. Touched(job) = {}
          BY <4>1, <4>2, NoFiles DEF Touched
        <5> QED
          BY <2>2, <2>3, <3>2, <4>2, <5>1, ChangedIs DEF Loaded
      <4>3. CASE job.stored # Absent
        BY <2>2, <2>3, <3>2, <4>1, <4>3, ChangedIs
      <4> QED
        BY <4>2, <4>3
    <3> QED
      BY <3>1, <3>3, <3>4
  <2>5. RestoredIsRestored
    BY <2>2 DEF RestoredIsRestored, Stage, Unaltered
  <2>6. MissingCanBeDeleted
    BY <2>2, <2>3 DEF MissingCanBeDeleted, Blamed
  <2> QED
    BY <2>4, <2>5, <2>6 DEF SuccessIsComplete
<1> QED
  BY <1>1, <1>2

\* Between commands that met one fault at most, references and files belong
\* together; and however many requests went wrong, a command that reports
\* success did all of it, one that reports that the files are restored restored
\* them, and a microscope without content can be deleted (server.rs, run;
\* artifacts.rs, write_microscope_bundle).
THEOREM BundleInvHolds == Spec => []BundleInv
<1>1. BundleInvariant => BundleInv
  BY InvariantTypes, InvariantPaired, InvariantAnswers DEF BundleInv
<1> QED
  BY <1>1, BundleInvariance, PTL

\* Files of this command only are written, and it owns what was there.
LEMMA WritesOwned ==
  ASSUME NEW j \in Job, Asked(j), Sorted(j.files), Directed(j), AllOwned(j),
         NEW p \in Touched(j), NEW x \in {Base(j)[p], Planned(j.new, p)}
  PROVE  x # Alien /\ (IsDoc(x) /\ p[3] = Content => x.cell = j.cell)
<1>1. /\ j.old \in Document \cup {Absent} /\ j.new \in Document \cup {Absent} /\ p \in Path
      /\ j.old # Absent => j.old.cell = j.cell
      /\ j.new # Absent => j.new.cell = j.cell
  BY DirectedIs
<1>2. x \in {Absent, Planned(j.old, p), Planned(j.new, p)}
  BY DEF AllOwned
<1>3. ASSUME NEW d \in {j.old, j.new}, x = Planned(d, p)
      PROVE  x # Alien /\ (IsDoc(x) /\ p[3] = Content => x.cell = j.cell)
  BY <1>1, <1>3, BundleSorted DEF IsDoc
<1> QED
  BY <1>2, <1>3, BundleAssumption DEF IsDoc

LEMMA OthersStay ==
  ASSUME BundleInvariant, Next, job # NoJob, NEW p \in Path, Theirs(p)
  PROVE  files'[p] = files[p]
<1>1. Going
  BY GoingIs
<1>2. /\ Stage /\ Asked(job) /\ job \in Job /\ Sorted(job.files) /\ files \in [Path -> Anything]
  BY <1>1, GoingHas DEF JobTypes, Going, BundleTypes
<1>3. ASSUME Directed(job), AllOwned(job), NEW q \in Touched(job),
             files[q] \in {Base(job)[q], Planned(job.new, q)},
             NEW x, files' = [files EXCEPT ![q] = x]
      PROVE  files'[p] = files[p]
  <2>1. ~Theirs(q)
    BY <1>2, <1>3, WritesOwned DEF Theirs
  <2> QED
    BY <1>2, <1>3, <2>1
<1>4. CASE UNCHANGED files
  BY <1>4
<1>5. CASE WriteFile
  <2>1. StageWrite /\ (files' = files \/ Put(NextFile, Planned(job.new, NextFile)))
    BY <1>2, <1>5 DEF WriteFile, Stage
  <2>2. Directed(job) /\ AllOwned(job) /\ Rest(job, Len(job.done)) /\ Len(job.done) \in Nat
    BY <1>2, <2>1 DEF StageWrite, Job
  <2>3. NextFile \in Touched(job) /\ NextFile \in Path
    BY <1>2, <2>2, RestIs DEF NextFile
  <2>4. files[NextFile] \in {Base(job)[NextFile], Planned(job.new, NextFile)}
    BY <2>1, <2>3 DEF StageWrite
  <2>5. PICK q : q = NextFile
    OBVIOUS
  <2>6. files' = files \/ \E x : files' = [files EXCEPT ![q] = x]
    BY <2>1, <2>5 DEF Put
  <2> QED
    BY <1>3, <2>2, <2>3, <2>4, <2>5, <2>6
<1>6. CASE Undo
  <2>1. StageUndo
    BY <1>2, <1>6 DEF Undo, Stage
  <2>2. CASE job.done = <<>>
    BY <1>6, <2>2 DEF Undo
  <2>3. CASE job.done # <<>>
    <3>1. PICK q : q = Last(job.done)
      OBVIOUS
    <3>2. job.done \in Seq(Path)
      BY <1>2 DEF Job
    <3>3. q \in Touched(job) /\ q \in Path
      <4>1. q \in ToSet(job.done) /\ q \in Path
        <5>1. ToSet(job.done) = ToSet(Front(job.done)) \cup {Last(job.done)} /\ Last(job.done) \in Path
          BY <2>3, <3>2, ToSetFront
        <5> QED
          BY <3>1, <5>1
      <4> QED
        BY <2>1, <4>1 DEF StageUndo
    <3>4. files[q] \in {Base(job)[q], Planned(job.new, q)}
      BY <2>1, <3>3 DEF StageUndo
    <3>5. files' = files \/ \E x : files' = [files EXCEPT ![q] = x]
      BY <1>6, <2>3, <3>1 DEF Undo, Put
    <3> QED
      BY <1>3, <2>1, <3>3, <3>4, <3>5 DEF StageUndo
  <2> QED
    BY <2>2, <2>3
<1> QED
  BY <1>4, <1>5, <1>6 DEF Next, Command, Begin, Step, Load, Check, Preflight, Save, Observe, Answer,
                          ForeignWrite, Unchanged

\* No command touches a file of another program, or of a microscope of another
\* cell whose files have the same names, in its repairs neither (artifacts.rs,
\* write_microscope_bundle).
THEOREM OthersKeptHolds == Spec => OthersKept
<1>1. BundleInvariant /\ [Next]_vars =>
        [job # NoJob => \A p \in Path : Theirs(p) => files'[p] = files[p]]_vars
  BY OthersStay
<1> QED
  BY <1>1, BundleInvariance, PTL DEF Spec, OthersKept

-----------------------------------------------------------------------------
(* The store of microscopes. *)

\* The microscopes of a notebook and files that belong together.
Held(i, f) ==
  {d \in Document : d.id \in DOMAIN i[d.cell] /\ f[Sidecar(d.cell, d.id)] = d}
Listed(i, f) ==
  UNION {{IF IsDoc(f[Sidecar(c, m)]) /\ f[Sidecar(c, m)].cell = c /\ f[Sidecar(c, m)].rev = i[c][m]
          THEN f[Sidecar(c, m)] ELSE Absent : m \in DOMAIN i[c]} : c \in CellId}
Microscopes == UNION {{Content_(c, m) : m \in DOMAIN Shown.i[c]} : c \in CellId}

LEMMA ListedIsHeld ==
  ASSUME NEW i, NEW f, Whole(i, f)
  PROVE  Listed(i, f) = Held(i, f)
<1>1. ASSUME NEW c \in CellId, NEW m \in DOMAIN i[c]
      PROVE  /\ f[Sidecar(c, m)] \in Document /\ IsDoc(f[Sidecar(c, m)])
             /\ f[Sidecar(c, m)].cell = c /\ f[Sidecar(c, m)].id = m
             /\ f[Sidecar(c, m)].rev = i[c][m]
  BY DocumentHasFiles DEF Whole
<1>2. ASSUME NEW d \in Listed(i, f) PROVE d \in Held(i, f)
  BY <1>1 DEF Listed, Held
<1>3. ASSUME NEW d \in Held(i, f) PROVE d \in Listed(i, f)
  <2>1. /\ d \in Document /\ d.cell \in CellId /\ d.id \in DOMAIN i[d.cell]
        /\ f[Sidecar(d.cell, d.id)] = d
    BY DEF Held, Document
  <2> QED
    BY <1>1, <2>1 DEF Listed
<1> QED
  BY <1>2, <1>3

\* What a command changes of the store, once it is done.
LEMMA HeldChanges ==
  ASSUME NEW j \in Job, Asked(j), Loaded(j), Small(j.items), Sorted(j.files),
         Whole(j.items, j.files)
  PROVE  LET old == Held(j.items, j.files)
             new == Held(Goal(j), Changed(j))
         IN /\ j.op = "create" =>
                 /\ Target(j) \in Document /\ Target(j).rev = 0
                 /\ \A d \in old : <<d.cell, d.id>> # <<Target(j).cell, Target(j).id>>
                 /\ new = old \cup {Target(j)}
            /\ j.op = "set" =>
                 /\ j.stored \in Document /\ j.stored \in old /\ j.stored.rev < MaxRevision
                 /\ Target(j) = Doc(j.stored.cell, j.stored.id, j.stored.rev + 1, j.w)
                 /\ new = (old \ {j.stored}) \cup {Target(j)}
            /\ j.op = "delete" =>
                 j.stored \in Document /\ j.stored \in old /\ new = old \ {j.stored}
<1> DEFINE old == Held(j.items, j.files)
           new == Held(Goal(j), Changed(j))
           t == Target(j)
<1>1. /\ j.cell \in CellId /\ j.id \in MicroscopeId /\ j.w \in Walkthrough
      /\ j.op \in {"create", "set", "delete"} /\ j.items \in Notebook
      /\ j.op \in {"create", "set"} => t \in Document /\ t.cell = j.cell /\ t.id = j.id
      /\ Side(j) = Sidecar(j.cell, j.id)
  BY TargetIs DEF Job, Loaded, Side
\* The others.
<1>2. ASSUME NEW d \in Document, <<d.cell, d.id>> # <<j.cell, j.id>>
      PROVE  d \in new <=> d \in old
  <2>1. d.cell \in CellId
    BY DEF Document
  <2>2. d.id \in DOMAIN Goal(j)[d.cell] <=> d.id \in DOMAIN j.items[d.cell]
    <3>1. CASE d.cell = j.cell
      BY <1>2, <3>1, GoalIs
    <3>2. CASE d.cell # j.cell
      BY <2>1, <3>2, GoalIs
    <3> QED
      BY <3>1, <3>2
  <2>3. d.id \in DOMAIN j.items[d.cell] =>
          Changed(j)[Sidecar(d.cell, d.id)] = j.files[Sidecar(d.cell, d.id)]
    BY <1>2, <2>1, WholeOthers
  <2> QED
    BY <2>2, <2>3 DEF Held
\* Its own.
<1>3. ASSUME NEW d \in Document, <<d.cell, d.id>> = <<j.cell, j.id>>
      PROVE  /\ d \in old <=> j.op # "create" /\ d = j.stored
             /\ d \in new <=> j.op # "delete" /\ d = t
  <2>1. d.cell = j.cell /\ d.id = j.id
    BY <1>3
  <2>2. d \in old <=> j.id \in DOMAIN j.items[j.cell] /\ j.stored = d
    BY <1>1, <2>1 DEF Held, Loaded
  <2>3. j.op = "create" <=> j.id \notin DOMAIN j.items[j.cell]
    BY <1>1 DEF Asked
  <2>4. j.op # "delete" => j.id \in DOMAIN Goal(j)[j.cell] /\ Changed(j)[Side(j)] = t
    BY <1>1, GoalIs, ChangedIs, DocumentHasFiles
  <2>5. j.op = "delete" => j.id \notin DOMAIN Goal(j)[j.cell]
    BY GoalIs
  <2> QED
    BY <1>1, <2>1, <2>2, <2>3, <2>4, <2>5 DEF Held
<1>4. ASSUME j.op # "create"
      PROVE  j.stored \in Document /\ j.stored.cell = j.cell /\ j.stored.id = j.id
             /\ j.stored.rev = j.rev
  <2>1. j.id \in DOMAIN j.items[j.cell]
    BY <1>1, <1>4 DEF Asked
  <2>2. j.stored \in Document
    BY <1>1, <2>1 DEF Whole, Loaded
  <2> QED
    BY <2>2, DocumentHasFiles DEF Loaded
<1>5. old \subseteq Document /\ new \subseteq Document
  BY DEF Held
<1> HIDE DEF old, new
<1>6. CASE j.op = "create"
  <2>1. t.rev = 0
    BY <1>6 DEF Target, Doc, Asked
  <2> QED
    BY <1>1, <1>2, <1>3, <1>5, <1>6, <2>1 DEF old, new
<1>7. CASE j.op = "set"
  <2>1. t = Doc(j.stored.cell, j.stored.id, j.stored.rev + 1, j.w) /\ j.stored.rev < MaxRevision
    BY <1>4, <1>7 DEF Target, Asked
  <2>2. j.stored \in old /\ t \in new
    BY <1>1, <1>3, <1>4, <1>7
  <2>3. new = (old \ {j.stored}) \cup {t}
    BY <1>1, <1>2, <1>3, <1>4, <1>5, <1>7
  <2> QED
    BY <1>4, <1>7, <2>1, <2>2, <2>3 DEF old, new
<1>8. CASE j.op = "delete"
  <2>1. j.stored \in old
    BY <1>3, <1>4, <1>8
  <2>2. new = old \ {j.stored}
    BY <1>2, <1>3, <1>4, <1>5, <1>8
  <2> QED
    BY <1>4, <1>8, <2>1, <2>2 DEF old, new
<1> QED
  BY <1>1, <1>6, <1>7, <1>8

LEMMA MicroscopesListed ==
  /\ Microscopes = Listed(Shown.i, Shown.f)
  /\ Microscopes' = Listed(Shown'.i, Shown'.f)
BY DEF Microscopes, Listed, Content_

\* A command remembers what it started from; it is done when it has read its
\* document or the notebook is saved.
GoesAlong ==
  /\ job.at # "done" /\ job'.at # "none"
  /\ job'.items = job.items /\ job'.files = job.files
  /\ job'.at = "done" =>
       \/ job.at = "load" /\ job.op = "read" /\ UNCHANGED <<items, files>>
       \/ job.at \in {"save", "observe"} /\ items' = job.goal /\ UNCHANGED files

LEMMA StepGoesAlong ==
  ASSUME job \in Job, Step, ~Answer
  PROVE  GoesAlong
<1>1. CASE Load
  <2>1. CASE Refuse
    BY <1>1, <2>1 DEF Load, Refuse, Finish, Job, GoesAlong
  <2>2. CASE job.op = "read" /\ (Finish("failed") \/ Finish("done"))
    BY <1>1, <2>2 DEF Load, Unchanged, Finish, Job, GoesAlong
  <2>3. CASE \E old, new : job' = ToBundle(old, new)
    BY <1>1, <2>3 DEF Load, ToBundle, Job, GoesAlong
  <2>4. CASE \E old, new, st : job' = [ToBundle(old, new) EXCEPT !.stored = st]
    BY <1>1, <2>4 DEF Load, ToBundle, Job, GoesAlong
  <2>5. CASE job' = [job EXCEPT !.at = "save"]
    BY <1>1, <2>5 DEF Load, Job, GoesAlong
  <2>6. \/ Refuse
        \/ job.op = "read" /\ (Finish("failed") \/ Finish("done"))
        \/ \E old, new : job' = ToBundle(old, new)
        \/ \E old, new, st : job' = [ToBundle(old, new) EXCEPT !.stored = st]
        \/ job' = [job EXCEPT !.at = "save"]
    <3>1. job.op \in {"create", "set", "delete", "read"}
      BY DEF Job
    <3>2. CASE ~Refuse /\ ~(job.op = "read" /\ (Finish("failed") \/ Finish("done")))
               /\ job' # [job EXCEPT !.at = "save"]
      <4>1. Readable(job.rev) /\ job.op # "read"
        BY <1>1, <3>1, <3>2 DEF Load
      <4>2. CASE job.op = "create"
        BY <1>1, <3>2, <4>1, <4>2 DEF Load
      <4>3. CASE job.op = "set"
        BY <1>1, <3>2, <4>1, <4>3 DEF Load
      <4>4. CASE job.op = "delete"
        BY <1>1, <3>2, <4>1, <4>4 DEF Load, Deletes, Refuse
      <4> QED
        BY <3>1, <4>1, <4>2, <4>3, <4>4
    <3> QED
      BY <3>2
  <2> QED
    BY <2>1, <2>2, <2>3, <2>4, <2>5, <2>6
<1>2. CASE Check
  BY <1>2 DEF Check, Refuse, Finish, Job, GoesAlong
<1>3. CASE Preflight
  BY <1>3 DEF Preflight, Refuse, Finish, Job, GoesAlong
<1>4. CASE WriteFile
  BY <1>4 DEF WriteFile, Written, Job, GoesAlong
<1>5. CASE Undo
  BY <1>5 DEF Undo, Finish, Job, GoesAlong
<1>6. CASE Save
  BY <1>6 DEF Save, Finish, Job, GoesAlong
<1>7. CASE Observe
  <2>1. CASE Saved /\ Finish("done")
    BY <1>7, <2>1 DEF Observe, Unchanged, Saved, Finish, Job, GoesAlong
  <2>2. CASE \E old, new : Repair(old, new)
    BY <1>7, <2>2 DEF Observe, Repair, ToBundle, Job, GoesAlong
  <2>3. CASE Finish("failed")
    BY <1>7, <2>3 DEF Observe, Finish, Job, GoesAlong
  <2> QED
    BY <1>7, <2>1, <2>2, <2>3 DEF Observe
<1> QED
  BY <1>1, <1>2, <1>3, <1>4, <1>5, <1>6, <1>7 DEF Step

\* Every step but the last of a command leaves the store as it is shown.
LEMMA StoreStep ==
  ASSUME BundleInvariant, Next, intact'
  PROVE  \/ Microscopes' = Microscopes
         \/ \E d \in Document : \/ Store!Create(d)
                                \/ Store!Remove(d)
                                \/ \E w \in Walkthrough : Store!SetWalkthrough(d, w)
<1>1. intact /\ faults' <= 1 /\ foreign' = 0
  BY DEF Next
<1>2. Shown' = Shown => Microscopes' = Microscopes
  BY MicroscopesListed
<1>3. CASE Command
  <2>1. job = NoJob /\ job'.at = "load" /\ job'.items = items /\ job'.files = files
    BY <1>3 DEF Command, Begin
  <2>2. job' # NoJob
    BY <2>1 DEF NoJob
  <2> QED
    BY <1>2, <2>1, <2>2 DEF Shown
<1>4. CASE ForeignWrite
  <2>1. foreign' # 0
    BY <1>4 DEF ForeignWrite, BundleInvariant, BundleTypes
  <2> QED
    BY <1>1, <2>1
<1>5. CASE Step
  <2>1. job # NoJob
    <3>1. job.at # "none"
      BY <1>5 DEF Step, Load, Check, Preflight, WriteFile, Undo, Save, Observe, Answer, Answered,
                  Answers
    <3> QED
      BY <3>1 DEF NoJob
  <2>2. Going
    BY <2>1, GoingIs
  <2>3. /\ Stage /\ Blamed /\ Asked(job) /\ job \in Job /\ Small(job.items) /\ Sorted(job.files)
        /\ Whole(job.items, job.files)
    BY <1>1, <2>2, GoingHas DEF JobTypes, Going
  <2>4. CASE Answer
    <3>1. job' = NoJob /\ job.at \in {"done", "failed", "restored"}
          /\ UNCHANGED <<items, files, faults>>
      BY <2>4 DEF Answer, Answered, Answers
    <3>2. job.at # "done" => Unaltered
      BY <1>1, <2>3, <3>1 DEF Stage, Blamed, Unaltered
    <3> QED
      BY <1>2, <2>1, <3>1, <3>2 DEF Shown, Unaltered
\* The last step.
  <2>5. CASE GoesAlong /\ job'.at = "done"
    <3>1. job' # NoJob /\ job.at # "done"
      BY <2>5 DEF GoesAlong, NoJob
    <3>2. /\ Shown = [i |-> job.items, f |-> job.files] /\ Shown' = [i |-> items', f |-> files']
      BY <2>1, <2>5, <3>1 DEF Shown
    <3>3. CASE job.at = "load"
      <4>1. items' = job.items /\ files' = job.files
        BY <2>3, <2>5, <3>3 DEF Stage, StageLoad, GoesAlong
      <4> QED
        BY <1>2, <3>2, <4>1
    <3>4. CASE job.at # "load"
      <4>1. /\ StageSave /\ Loaded(job) /\ items' = Goal(job) /\ files' = Changed(job)
            /\ job.op \in {"create", "set", "delete"}
        BY <2>3, <2>5, <3>4 DEF Stage, StageSave, Asked, Loaded, Job, GoesAlong
      <4>2. /\ Microscopes = Held(job.items, job.files)
            /\ Microscopes' = Held(Goal(job), Changed(job))
        <5>1. Whole(Goal(job), Changed(job))
          BY <2>3, <4>1, WholeChanged
        <5> QED
          BY <2>3, <3>2, <4>1, <5>1, MicroscopesListed, ListedIsHeld
      <4>3. CASE job.op = "create"
        <5> PICK d : d = Target(job)
          OBVIOUS
        <5>1. Store!Create(d) /\ d \in Document
          BY <2>3, <4>1, <4>2, <4>3, HeldChanges DEF Store!Create, Microscopes
        <5> QED
          BY <5>1
      <4>4. CASE job.op = "set"
        <5> PICK d : d = job.stored
          OBVIOUS
        <5> PICK w : w = job.w
          OBVIOUS
        <5>1. Store!SetWalkthrough(d, w) /\ d \in Document
          BY <2>3, <4>1, <4>2, <4>4, HeldChanges
             DEF Store!SetWalkthrough, Microscopes, Store!Doc, Doc
        <5>2. w \in Walkthrough
          BY <2>3 DEF Job
        <5> QED
          BY <5>1, <5>2
      <4>5. CASE job.op = "delete"
        <5> PICK d : d = job.stored
          OBVIOUS
        <5>1. Store!Remove(d) /\ d \in Document
          BY <2>3, <4>1, <4>2, <4>5, HeldChanges DEF Store!Remove, Microscopes
        <5> QED
          BY <5>1
      <4> QED
        BY <4>1, <4>3, <4>4, <4>5
    <3> QED
      BY <3>3, <3>4
  <2>6. CASE ~Answer
    <3>1. GoesAlong /\ job' # NoJob
      BY <1>5, <2>3, <2>6, StepGoesAlong DEF GoesAlong, NoJob
    <3> QED
      BY <1>2, <2>1, <2>5, <3>1 DEF Shown, GoesAlong
  <2> QED
    BY <2>4, <2>6
<1> QED
  BY <1>3, <1>4, <1>5 DEF Next

\* Every microscope is one thing, whatever goes wrong once in a command: it is
\* created, changed or deleted as a whole when the command is answered, or not at
\* all (server.rs, run).
THEOREM ImplementsStoreHolds == Spec => ImplementsStore
<1>1. Init => Store!StoreInit
  <2> SUFFICES ASSUME Init PROVE Microscopes = {} /\ intact = TRUE
    BY DEF Store!StoreInit, Microscopes
  <2>1. intact = TRUE /\ Shown.i = [c \in CellId |-> <<>>]
    BY DEF Init, Shown
  <2>2. \A c \in CellId : DOMAIN Shown.i[c] = {}
    BY <2>1
  <2> QED
    BY <2>1, <2>2 DEF Microscopes
<1>2. BundleInvariant /\ [Next]_vars => [Store!StoreNext]_<<Microscopes, intact>>
  <2> SUFFICES ASSUME BundleInvariant, [Next]_vars
               PROVE  Store!StoreNext \/ UNCHANGED <<Microscopes, intact>>
    OBVIOUS
  <2>1. CASE UNCHANGED vars
    BY <2>1, MicroscopesListed DEF vars, Shown
  <2>2. CASE Next /\ ~intact'
    BY <2>2 DEF Store!StoreNext
  <2>3. CASE Next /\ intact'
    <3>1. Document = Store!Docs
      BY DEF Document, Store!Docs
    <3> QED
      BY <2>3, <3>1, StoreStep DEF Store!StoreNext, Store!Kept, Microscopes
  <2> QED
    BY <2>1, <2>2, <2>3
<1> QED
  BY <1>1, <1>2, BundleInvariance, PTL DEF Spec, ImplementsStore, Store!StoreSpec, Microscopes

=============================================================================
