---------------------------- MODULE MicroscopeBundle ----------------------------
(***************************************************************************)
(* Microscopes in the gateway (server.rs, artifacts.rs, microscope.rs).     *)
(*                                                                         *)
(* A microscope is a reference in the metadata of its cell, a content file  *)
(* (the sidecar) and one file for each graphics artifact of its             *)
(* walkthrough.  Jupyter Contents has no transaction: a command reads the   *)
(* files it is about to change, writes them one by one, saves the notebook, *)
(* and makes up for a failure by writing back what was there.  Every        *)
(* request may be refused, or done without an acknowledgement.              *)
(*                                                                         *)
(* Commands are serialized (artifact_lock); other programs change files     *)
(* between commands.  A file is named after a 28-bit hash of its cell, so   *)
(* two cells may share the names of their files.                            *)
(***************************************************************************)
EXTENDS Naturals, Sequences, SequencesExt, FiniteSets

CONSTANTS
  CellId, MicroscopeId,
  Locator,      \* [CellId -> hash]
  Artifact,     \* names of graphics artifacts
  Source,       \* their contents
  Absent,       \* no file
  Alien,        \* what another program wrote
  MaxItems,     \* microscopes of one cell (16)
  MaxRevision, MaxFaults, MaxForeign   \* bounds of the model; faults of one command

VARIABLES
  items,    \* [CellId -> function from the ids of its references to revisions]
  files,    \* Jupyter: content of each path
  job,      \* the command under way
  faults,   \* requests of it that went wrong
  foreign,  \* changes made by other programs
  intact    \* history: no other program did, no command met two faults

vars == <<items, files, job, faults, foreign, intact>>

\* A walkthrough is what it derives: the artifacts and their sources.
Walkthrough == UNION {[names -> Source] : names \in SUBSET Artifact}
Doc(cell, id, rev, w) == [cell |-> cell, id |-> id, rev |-> rev, w |-> w]

Content == "content"

\* The contents of files can be told apart, and from no content.
ASSUME BundleAssumption ==
  /\ DOMAIN Locator = CellId
  /\ MaxItems \in Nat /\ MaxRevision \in Nat /\ MaxFaults \in Nat /\ MaxForeign \in Nat
  /\ IsFiniteSet(Artifact) /\ Content \notin Artifact
  /\ Absent # Alien /\ {Absent, Alien} \cap Source = {}
  /\ {Absent, Alien} \cap {Doc(c, m, rev, w) : c \in CellId, m \in MicroscopeId,
                                             rev \in 0 .. MaxRevision, w \in Walkthrough} = {}

Sidecar(cell, id) == <<Locator[cell], id, Content>>
Attachment(cell, id, name) == <<Locator[cell], id, name>>
Path == {Sidecar(c, m) : c \in CellId, m \in MicroscopeId}
        \cup {Attachment(c, m, a) : c \in CellId, m \in MicroscopeId, a \in Artifact}

\* The files of a document; none for no document.
Bundle(doc) ==
  IF doc = Absent THEN <<>>
  ELSE [p \in {Sidecar(doc.cell, doc.id)}
              \cup {Attachment(doc.cell, doc.id, a) : a \in DOMAIN doc.w} |->
          IF p = Sidecar(doc.cell, doc.id) THEN doc ELSE doc.w[p[3]]]
Planned(doc, p) == IF p \in DOMAIN Bundle(doc) THEN Bundle(doc)[p] ELSE Absent

\* The paths of two bundles, in the order of their names: the sidecar is first.
PathsOf(old, new) ==
  LET all == DOMAIN Bundle(old) \cup DOMAIN Bundle(new)
      side == {p \in all : p[3] = Content}
  IN SetToSeq(side) \o SetToSeq(all \ side)

NoJob == [at |-> "none"]
Init ==
  /\ items = [c \in CellId |-> <<>>]
  /\ files = [p \in Path |-> Absent]
  /\ job = NoJob /\ faults = 0 /\ foreign = 0 /\ intact = TRUE

-----------------------------------------------------------------------------
(* A command begins: the notebook is read and the change prepared on it. *)

With(refs, id, rev) == [m \in DOMAIN refs \cup {id} |-> IF m = id THEN rev ELSE refs[m]]
WithoutId(refs, id) == [m \in DOMAIN refs \ {id} |-> refs[m]]

\* microscope::prepare
Prepared(op, cell, id) ==
  LET refs == items[cell] IN
  CASE op = "create" -> [items EXCEPT ![cell] = With(refs, id, 0)]
    [] op = "set"    -> [items EXCEPT ![cell] = With(refs, id, refs[id] + 1)]
    [] op = "delete" -> [items EXCEPT ![cell] = WithoutId(refs, id)]
    [] op = "read"   -> items

Preparable(op, cell, id) ==
  IF op = "create" THEN id \notin DOMAIN items[cell] /\ Cardinality(DOMAIN items[cell]) < MaxItems
  ELSE id \in DOMAIN items[cell]

Begin(op, cell, id, w) ==
  /\ job = NoJob
  /\ Preparable(op, cell, id)
  /\ op = "set" => items[cell][id] < MaxRevision
  /\ faults' = 0
  /\ job' = [at |-> "load", op |-> op, cell |-> cell, id |-> id, w |-> w,
             rev |-> IF op = "create" THEN 0 ELSE items[cell][id],
             goal |-> Prepared(op, cell, id), stored |-> Absent,
             old |-> Absent, new |-> Absent, todo |-> <<>>, done |-> <<>>,
             backup |-> <<>>, repair |-> FALSE, restored |-> TRUE,
             items |-> items, files |-> files]
  /\ UNCHANGED <<items, files, foreign>>

Fault == faults < MaxFaults /\ faults' = faults + 1
NoFault == faults' = faults
Finish(answer) == job' = [job EXCEPT !.at = answer]
Unchanged == UNCHANGED <<items, files, foreign>>

\* read_microscope: what is there must be the document the notebook refers to.
Here == Sidecar(job.cell, job.id)
IsDoc(x) == x # Absent /\ x # Alien
Identity(x, rev) == IsDoc(x) /\ x.cell = job.cell /\ x.id = job.id /\ x.rev = rev
Readable(rev) == files[Here] = Absent \/ Identity(files[Here], rev)

-----------------------------------------------------------------------------
(* write_microscope_bundle: from the files of `old` to the files of `new`. *)

ToBundle(old, new) ==
  [job EXCEPT !.at = "check", !.old = old, !.new = new, !.done = <<>>, !.backup = <<>>]

\* The answer of a bundle that was not written.
Refuse == Finish("failed")

\* create, replace and delete look at the sidecar once more.
Check ==
  /\ job.at = "check"
  /\ LET rev == IF job.old = Absent THEN job.new.rev ELSE job.old.rev
         stored == files[Here]
         gone == job.new = Absent /\ stored = Absent
     IN \/ Fault /\ Refuse
        \/ /\ NoFault
           /\ IF ~Readable(rev) \/ (~gone /\ stored # job.old) THEN Refuse
              ELSE IF gone THEN job' = [job EXCEPT !.at = IF job.repair THEN "failed" ELSE "save"]
              ELSE job' = [job EXCEPT !.at = "preflight", !.todo = PathsOf(job.old, job.new)]
  /\ Unchanged

NextFile == Head(job.todo)

\* Mutant: only files the bundle does not own yet are looked at.
OwnedUnseen(p) == files[p] = Absent \/ Planned(job.old, p) # Absent

\* A file that is there must be the old bundle's.
Owned(p) == files[p] \in {Absent, Planned(job.old, p)}

\* Every file is read before any is written.
Preflight ==
  /\ job.at = "preflight"
  /\ \/ Fault /\ Refuse
     \/ /\ NoFault
        /\ IF ~Owned(NextFile) THEN Refuse
           ELSE LET seen == job.backup \o <<files[NextFile]>> IN
                IF Len(job.todo) > 1
                THEN job' = [job EXCEPT !.todo = Tail(@), !.backup = seen]
                ELSE job' = [job EXCEPT !.at = "write", !.backup = seen,
                                        !.todo = PathsOf(job.old, job.new)]
  /\ Unchanged

Put(p, content) == files' = [files EXCEPT ![p] = content]
Written == IF job.repair THEN "failed" ELSE "save"

\* Mutant: the file whose write failed is not written back.
AttemptedDone == job.done

\* What is written back after a failure, the last file first.
Attempted == job.done \o <<NextFile>>

WriteFile ==
  /\ job.at = "write"
  /\ \/ /\ NoFault
        /\ Put(NextFile, Planned(job.new, NextFile))
        /\ job' = [job EXCEPT !.todo = Tail(@), !.done = @ \o <<NextFile>>,
                              !.at = IF Len(job.todo) > 1 THEN @ ELSE Written]
     \/ /\ Fault
        /\ files' = files \/ Put(NextFile, Planned(job.new, NextFile))
        /\ job' = [job EXCEPT !.at = "undo", !.done = Attempted]
  /\ UNCHANGED <<items, foreign>>

Backup(p) ==
  LET paths == PathsOf(job.old, job.new)
  IN job.backup[CHOOSE i \in DOMAIN paths : paths[i] = p]

Undo ==
  /\ job.at = "undo"
  /\ IF job.done = <<>>
     THEN Finish(IF job.repair \/ ~job.restored THEN "failed" ELSE "restored")
          /\ NoFault /\ UNCHANGED files
     ELSE LET p == Last(job.done) IN
          \/ /\ NoFault /\ Put(p, Backup(p))
             /\ job' = [job EXCEPT !.done = Front(@)]
          \/ /\ Fault /\ (files' = files \/ Put(p, Backup(p)))
             /\ job' = [job EXCEPT !.done = Front(@), !.restored = FALSE]
  /\ UNCHANGED <<items, foreign>>

-----------------------------------------------------------------------------
(* The commands (server.rs, run). *)

Current == Doc(job.cell, job.id, job.rev, job.w)
Updated == [Current EXCEPT !.rev = @ + 1]

\* A microscope whose content is missing can still be deleted.
Deletes(stored) ==
  IF stored = Absent THEN job' = [job EXCEPT !.at = "save"]
  ELSE job' = [ToBundle(stored, Absent) EXCEPT !.stored = stored]

Load ==
  /\ job.at = "load"
  /\ LET stored == files[Here] IN
     \/ Fault /\ Refuse
     \/ /\ NoFault
        /\ CASE ~Readable(job.rev) -> Refuse
             [] Readable(job.rev) /\ job.op = "read" ->
                  Finish(IF stored = Absent THEN "failed" ELSE "done")
             [] Readable(job.rev) /\ job.op = "create" ->
                  IF stored # Absent THEN Refuse ELSE job' = ToBundle(Absent, Current)
             [] Readable(job.rev) /\ job.op = "set" ->
                  IF stored = Absent THEN Refuse
                  ELSE job' = [ToBundle(stored, Updated) EXCEPT !.stored = stored]
             [] Readable(job.rev) /\ job.op = "delete" -> Deletes(stored)
  /\ Unchanged

\* The notebook is saved with the new references.
Save ==
  /\ job.at = "save"
  /\ \/ NoFault /\ items' = job.goal /\ Finish("done")
     \/ Fault /\ items' \in {items, job.goal} /\ job' = [job EXCEPT !.at = "observe"]
  /\ UNCHANGED <<files, foreign>>

Repair(old, new) == job' = [ToBundle(old, new) EXCEPT !.repair = TRUE]

\* Mutants: the notebook read again is not compared; an unacknowledged save
\* counts as failed.
SavedAnyway == TRUE
SavedNever == FALSE

\* Was the save done after all?
Saved == items = job.goal

\* A save without acknowledgement: the notebook is read again. Confirmed, it
\* counts; otherwise the files are put back, a deletion's even if unconfirmed.
Observe ==
  /\ job.at = "observe"
  /\ \/ NoFault /\ Saved /\ Finish("done")
     \/ /\ \/ NoFault /\ ~Saved
           \/ Fault
        /\ LET confirmed == faults' = faults IN
           CASE job.op = "create" /\ confirmed -> Repair(job.new, Absent)
             [] job.op = "set" /\ confirmed -> Repair(job.new, job.stored)
             [] job.op = "delete" /\ job.stored # Absent -> Repair(Absent, job.stored)
             [] OTHER -> Finish("failed")
  /\ Unchanged

Answers == {"done", "failed", "restored"}
Answered == job.at \in Answers
Answer ==
  /\ Answered
  /\ job' = NoJob
  /\ UNCHANGED <<items, files, faults, foreign>>

\* Another program replaces or removes a file, or writes one of that name.
ForeignWrite ==
  /\ job = NoJob /\ foreign < MaxForeign
  /\ foreign' = foreign + 1
  /\ \E p \in Path, x \in {Absent, Alien} : x # files[p] /\ Put(p, x)
  /\ UNCHANGED <<items, job, faults>>

Command == \E op \in {"create", "set", "delete", "read"}, c \in CellId, m \in MicroscopeId,
              w \in Walkthrough : Begin(op, c, m, w)
Step == Load \/ Check \/ Preflight \/ WriteFile \/ Undo \/ Save \/ Observe \/ Answer
Next ==
  /\ Command \/ Step \/ ForeignWrite
  /\ intact' = (intact /\ faults' <= 1 /\ foreign' = 0)
Spec == Init /\ [][Next]_vars

-----------------------------------------------------------------------------
(* Properties. *)

BundleTypeOK ==
  /\ \A c \in CellId : /\ DOMAIN items[c] \subseteq MicroscopeId
                       /\ \A m \in DOMAIN items[c] : items[c][m] \in 0..MaxRevision
                       /\ Cardinality(DOMAIN items[c]) <= MaxItems
  /\ DOMAIN files = Path
  /\ \A p \in Path : files[p] \in {Absent, Alien} \/
       (IF p[3] = Content THEN files[p].cell \in CellId ELSE files[p] \in Source)

\* As long as at most one request of each command goes wrong: between commands each
\* reference has its content, at its revision, with exactly its attachments,
\* and there is no other file.
Referred == {r \in CellId \X MicroscopeId : r[2] \in DOMAIN items[r[1]]}
FileOf(c, m) == files[Sidecar(c, m)]
Paired ==
  intact /\ job = NoJob =>
    /\ \A r \in Referred : /\ IsDoc(FileOf(r[1], r[2]))
                           /\ FileOf(r[1], r[2]).cell = r[1]
                           /\ FileOf(r[1], r[2]).rev = items[r[1]][r[2]]
    /\ \A p \in Path : files[p] # Absent =>
         \E r \in Referred : Planned(FileOf(r[1], r[2]), p) = files[p]
    /\ \A r \in Referred : \A p \in DOMAIN Bundle(FileOf(r[1], r[2])) : files[p] # Absent

\* The same as a refinement: a command takes effect as a whole, when it is
\* answered, or not at all.
Shown == IF job = NoJob THEN [i |-> items, f |-> files]
         ELSE IF job.at = "done" THEN [i |-> items, f |-> files]
         ELSE [i |-> job.items, f |-> job.files]
\* A reference whose content is not there, or is another's or of another revision,
\* is no microscope.
Content_(cell, id) ==
  LET f == Shown.f[Sidecar(cell, id)]
  IN IF IsDoc(f) /\ f.cell = cell /\ f.rev = Shown.i[cell][id] THEN f ELSE Absent
Store == INSTANCE MicroscopeStore WITH
  docs <- UNION {{Content_(c, m) : m \in DOMAIN Shown.i[c]} : c \in CellId}
ImplementsStore == Store!StoreSpec

\* However many requests went wrong: a command that reports success left the
\* notebook and the files as it was asked to.
SuccessIsComplete ==
  job.at = "done" /\ job.op # "read" =>
    /\ items = job.goal
    /\ job.op \in {"create", "set"} => \A p \in DOMAIN Bundle(job.new) : files[p] = Bundle(job.new)[p]
    /\ job.op = "delete" => files[Here] = Absent

\* "Prior files restored" is said only when they are, and the notebook is as it
\* was.
RestoredIsRestored ==
  job.at = "restored" => files = job.files /\ items = job.items

\* A file another program put there, or that belongs to a microscope of another
\* cell with the same hash, is not touched by any command, in repair neither.
Theirs(p) == files[p] = Alien \/ (IsDoc(files[p]) /\ p[3] = Content /\ files[p].cell # job.cell)
OthersKept == [][job # NoJob => \A p \in Path : Theirs(p) => files'[p] = files[p]]_vars

\* "A missing file [...] can be removed with the human delete action"
\* (docs/microscope.md): when nothing goes wrong.
MissingCanBeDeleted ==
  job.at = "failed" /\ job.op = "delete" /\ faults = 0 => job.files[Here] # Absent

\* References and files belong together, and every answer says what was done.
BundleInv ==
  BundleTypeOK /\ Paired /\ SuccessIsComplete /\ RestoredIsRestored /\ MissingCanBeDeleted

\* "Human microscope deletion removes them too" (docs/walkthrough-graphics.md):
\* after a deletion no attachment is left. Without the content file the gateway
\* does not know the names of the attachments.
DeletionRemovesAttachments ==
  job.at = "done" /\ job.op = "delete" =>
    \A a \in Artifact : files[Attachment(job.cell, job.id, a)] \in {Absent, Alien}
=============================================================================
