---------------------------- MODULE ProjectItems ----------------------------
(***************************************************************************)
(* Items of a research project (editions bound to it) and their notes:     *)
(* project-binding-store.ts and project-item-note-store.ts, one statement  *)
(* per action.  Writers run at READ COMMITTED, where every statement sees  *)
(* what is committed when it starts, and rely on the row locks they take;  *)
(* readers take one REPEATABLE READ snapshot.  Nothing is retried and      *)
(* there is no idempotency key.                                            *)
(*                                                                         *)
(* One project is modelled.  Every id is a random UUID drawn by the call   *)
(* that inserts the row, so a call stands for the binding, the note and    *)
(* the revision it makes; one call never makes two of a kind.              *)
(***************************************************************************)
EXTENDS Naturals

CONSTANTS Calls,    \* the HTTP calls
          Editions, \* the editions that catalog books are promoted to
          None

VARIABLES
  command,      \* command[c]: what the caller asked, None before it arrives
  pc,           \* the statement c is about to run
  seen,         \* seen[c]: what c's transaction has read and will act on
  answer,       \* answer[c]: the response, None while there is none
  bound,        \* bound[e]: the EDITION binding of edition e
  noteRow,      \* core.notes: [current, next]; a note and its NOTE binding are one
  revision,     \* core.note_revisions with their parents: [note, no, parent]
  projectState, editionState,
  open, holder, missed

dbVars == <<open, holder, missed>>
itemVars == <<bound, noteRow, revision>>
lifecycle == <<projectState, editionState>>
vars == <<command, pc, seen, answer, itemVars, lifecycle, dbVars>>

ItemRow(b) == <<"binding", b>>
NoteLock(n) == <<"note", n>>
Rows == {ItemRow(b) : b \in Calls} \cup {NoteLock(n) : n \in Calls}

Db == INSTANCE Postgres WITH Tx <- Calls, Row <- Rows

Commands == [op : {"add"}, edition : Editions]
              \cup [op : {"remove", "create", "get"}, item : Calls]
              \cup [op : {"append"}, item : Calls, base : Calls]

Steps == {"idle", "check", "begin", "project", "edition", "insert", "item",
          "lockItem", "notes", "subject", "lockSubject", "noNote", "findNote",
          "lockNote", "readNote", "readHistory", "commit", "done"}
InTransaction == Steps \ {"idle", "check", "begin", "done"}

\* "readOnly" stands for the answers about an archived project or edition (409),
\* "corrupt" is the integrity error (500) of a reader that cannot make sense of a note.
Refusals == {"readOnly", "notFound", "hasNote", "exists", "stale", "unavailable", "corrupt"}
Outcomes == {"created", "existing", "removed", "found"} \cup Refusals

NoteRows == [current : Calls, next : Nat]
Revisions == [note : Calls, no : Nat, parent : Calls \cup {None}]
Snapshots == [noteRow : [Calls -> NoteRows \cup {None}],
              revision : [Calls -> Revisions \cup {None}]]

ASSUME NoneIsNothing ==
  None \notin Calls \cup Outcomes \cup Commands \cup NoteRows \cup Revisions

\* The binding that was added, the edition it binds, the notes it is the subject of.
Bound(b) == \E e \in Editions : bound[e] = b
EditionOf(b) == command[b].edition
NotesIn(rows, b) == {n \in Calls : rows[n] # None /\ command[n].item = b}
NotesOf(b) == NotesIn(noteRow, b)
HistoryIn(revs, n) == {q \in Calls : revs[q] # None /\ revs[q].note = n}

Writable(b) == projectState = "ACTIVE" /\ editionState[EditionOf(b)] = "ACTIVE"

Init ==
  /\ command = [c \in Calls |-> None]
  /\ pc = [c \in Calls |-> "idle"]
  /\ seen = [c \in Calls |-> None]
  /\ answer = [c \in Calls |-> None]
  /\ bound = [e \in Editions |-> None]
  /\ noteRow = [n \in Calls |-> None]
  /\ revision = [q \in Calls |-> None]
  /\ projectState = "ACTIVE"
  /\ editionState = [e \in Editions |-> "ACTIVE"]
  /\ Db!DbInit

-----------------------------------------------------------------------------
(* How a call starts, goes on and ends. *)

\* A caller names a binding somebody asked to add and a revision of its note.
Arrive(c) ==
  /\ pc[c] = "idle"
  /\ \E m \in Commands :
       /\ m.op # "add" => pc[m.item] = "done" /\ command[m.item].op = "add"
       /\ m.op = "append" => \E n \in NotesOf(m.item) : m.base \in HistoryIn(revision, n)
       /\ command' = [command EXCEPT ![c] = m]
       /\ pc' = [pc EXCEPT ![c] = IF m.op \in {"add", "remove"} THEN "check" ELSE "begin"]
  /\ UNCHANGED <<seen, answer, itemVars, lifecycle, dbVars>>

\* The next statement of c is s, and v is what it has read so far.
GoOn(c, s, v) ==
  /\ pc' = [pc EXCEPT ![c] = s]
  /\ seen' = [seen EXCEPT ![c] = v]
  /\ UNCHANGED <<command, answer, itemVars, lifecycle>>

Finish(c, kind) ==
  /\ answer' = [answer EXCEPT ![c] = kind]
  /\ pc' = [pc EXCEPT ![c] = "done"]
  /\ seen' = [seen EXCEPT ![c] = None]
  /\ UNCHANGED <<command, lifecycle>>

\* An error is thrown: ROLLBACK, and the caller is told.
Refuse(c, kind) == Finish(c, kind) /\ Db!End(c, {}) /\ UNCHANGED itemVars

\* COMMIT.  Its reply may be lost, and then the caller is told 503 although what
\* was asked for is done.
Succeed(c, kind) ==
  /\ \E told \in {kind, "unavailable"} : Finish(c, told)
  /\ Db!End(c, {})

\* requireActiveProject of the items service: a query of its own.
CheckProject(c) ==
  /\ pc[c] = "check"
  /\ IF projectState = "ACTIVE"
       THEN GoOn(c, "begin", None)
       ELSE Finish(c, "readOnly") /\ UNCHANGED itemVars
  /\ UNCHANGED dbVars

BeginTransaction(c) ==
  /\ pc[c] = "begin"
  /\ Db!Begin(c)
  /\ GoOn(c, CASE command[c].op = "add" -> "project"
               [] command[c].op = "remove" -> "lockItem"
               [] OTHER -> "subject", None)

-----------------------------------------------------------------------------
(* addEdition. *)

Adding(d, steps) == command[d] # None /\ command[d].op = "add" /\ pc[d] \in steps

\* Whose FOR SHARE lock an operator who archives has to wait for.
SharesProject(d) == Adding(d, {"edition", "insert", "item", "commit"})
SharesEdition(d, e) == Adding(d, {"insert", "item", "commit"}) /\ command[d].edition = e

\* The project row, then the edition row, FOR SHARE: they stay active to the COMMIT.
ShareProject(c) ==
  /\ pc[c] = "project"
  /\ IF projectState = "ACTIVE"
       THEN GoOn(c, "edition", None) /\ UNCHANGED dbVars
       ELSE Refuse(c, "readOnly")

ShareEdition(c) ==
  /\ pc[c] = "edition"
  /\ IF editionState[command[c].edition] = "ACTIVE"
       THEN GoOn(c, "insert", None) /\ UNCHANGED dbVars
       ELSE Refuse(c, "readOnly")

\* d has inserted its binding and not committed.
Inserting(d) == Adding(d, {"item", "commit"}) /\ seen[d] = d

\* d has inserted or deleted the binding of e and not committed.
Unsettles(d, e) ==
  \/ Inserting(d) /\ command[d].edition = e
  \/ pc[d] = "commit" /\ command[d].op = "remove" /\ bound[e] = command[d].item

Unsettled(e, c) == \E d \in Calls \ {c} : Unsettles(d, e)

\* Wrong: an add that was answered 503 went without ROLLBACK, and its insert is still
\* there for the others to wait for.
WrongInsertBinding(c) ==
  LET e == command[c].edition
      Left(d) == Adding(d, {"done"}) /\ answer[d] = "unavailable" /\ bound[e] # d
  IN
  /\ pc[c] = "insert"
  /\ ~ Unsettled(e, c)
  /\ \A d \in Calls : ~ (Left(d) /\ command[d].edition = e)
  /\ GoOn(c, "item", IF bound[e] = None THEN c ELSE None)
  /\ UNCHANGED dbVars

\* INSERT ... ON CONFLICT DO NOTHING waits for them and then inserts or does nothing.
InsertBinding(c) ==
  LET e == command[c].edition IN
  /\ pc[c] = "insert"
  /\ ~ Unsettled(e, c)
  /\ GoOn(c, "item", IF bound[e] = None THEN c ELSE None)
  /\ UNCHANGED dbVars

\* The projection is a later statement: the conflicting binding may be gone by now.
ReadItem(c) ==
  /\ pc[c] = "item"
  /\ IF seen[c] = c \/ bound[command[c].edition] # None
       THEN GoOn(c, "commit", seen[c]) /\ UNCHANGED dbVars
       ELSE Refuse(c, "unavailable")

CommitAdd(c) ==
  /\ pc[c] = "commit" /\ command[c].op = "add"
  /\ IF seen[c] = c
       THEN bound' = [bound EXCEPT ![command[c].edition] = c] /\ Succeed(c, "created")
       ELSE UNCHANGED bound /\ Succeed(c, "existing")
  /\ UNCHANGED <<noteRow, revision>>

-----------------------------------------------------------------------------
(* removeEdition. *)

\* Wrong on purpose, as is every Wrong... below: the binding is not locked.
WrongItemNotLocked(c) ==
  /\ pc[c] = "lockItem"
  /\ IF Bound(command[c].item)
       THEN UNCHANGED dbVars /\ GoOn(c, "notes", None)
       ELSE Succeed(c, "notFound") /\ UNCHANGED itemVars

\* SELECT the binding FOR UPDATE; after a wait it may be gone, which is no error.
LockItem(c) ==
  LET b == command[c].item IN
  /\ pc[c] = "lockItem"
  /\ IF Bound(b)
       THEN Db!Lock(c, ItemRow(b)) /\ GoOn(c, "notes", None)
       ELSE Succeed(c, "notFound") /\ UNCHANGED itemVars

\* A binding that has a note stays; otherwise it is deleted, not yet committed.
CheckNotes(c) ==
  /\ pc[c] = "notes"
  /\ IF NotesOf(command[c].item) = {}
       THEN GoOn(c, "commit", None) /\ UNCHANGED dbVars
       ELSE Refuse(c, "hasNote")

CommitRemove(c) ==
  /\ pc[c] = "commit" /\ command[c].op = "remove"
  /\ bound' = [e \in Editions |-> IF bound[e] = command[c].item THEN None ELSE bound[e]]
  /\ Succeed(c, "removed")
  /\ UNCHANGED <<noteRow, revision>>

-----------------------------------------------------------------------------
(* Notes: readSubject and what follows it. *)

\* What a reader sees from its first statement on.
Snapshot == [noteRow |-> noteRow, revision |-> revision]

\* readSubject: binding, project and edition in one statement.  A creator waits
\* for the binding with what it has seen of the others; a reader fixes its
\* snapshot here and may read archived projects.
ReadSubject(c) ==
  LET b == command[c].item IN
  /\ pc[c] = "subject"
  /\ CASE ~ Bound(b) -> Refuse(c, "notFound")
       [] Bound(b) /\ command[c].op = "create" ->
            GoOn(c, "lockSubject", Writable(b)) /\ UNCHANGED dbVars
       [] Bound(b) /\ command[c].op = "append" ->
            IF Writable(b) THEN GoOn(c, "findNote", None) /\ UNCHANGED dbVars
                           ELSE Refuse(c, "readOnly")
       [] OTHER ->
            IF editionState[EditionOf(b)] = "ACTIVE"
              THEN GoOn(c, "readNote", [from |-> Snapshot, row |-> None]) /\ UNCHANGED dbVars
              ELSE Refuse(c, "readOnly")

\* Wrong: what was seen of project and edition is forgotten while waiting.
WrongGateForgotten(c) ==
  LET b == command[c].item IN
  /\ pc[c] = "lockSubject"
  /\ IF Bound(b) THEN Db!Lock(c, ItemRow(b)) /\ GoOn(c, "noNote", None)
                 ELSE ~ Db!Waits(c, ItemRow(b)) /\ Refuse(c, "notFound")

LockSubject(c) ==
  LET b == command[c].item IN
  /\ pc[c] = "lockSubject"
  /\ ~ Db!Waits(c, ItemRow(b))
  /\ CASE ~ Bound(b) -> Refuse(c, "notFound")
       [] Bound(b) /\ ~ seen[c] -> Refuse(c, "readOnly")
       [] OTHER -> Db!Lock(c, ItemRow(b)) /\ GoOn(c, "noNote", None)

\* create: no NOTE binding may refer to the item; a new statement, it sees all
\* that was committed before the lock was given.
CheckNoNote(c) ==
  /\ pc[c] = "noNote"
  /\ IF NotesOf(command[c].item) = {}
       THEN GoOn(c, "commit", None) /\ UNCHANGED dbVars
       ELSE Refuse(c, "exists")

\* Wrong: the new note is not advanced to its first revision.
WrongNoteNotAdvanced(c) ==
  /\ pc[c] = "commit" /\ command[c].op = "create"
  /\ noteRow' = [noteRow EXCEPT ![c] = [current |-> None, next |-> 1]]
  /\ revision' = [revision EXCEPT ![c] = [note |-> c, no |-> 1, parent |-> None]]
  /\ Succeed(c, "created")
  /\ UNCHANGED bound

CommitCreate(c) ==
  /\ pc[c] = "commit" /\ command[c].op = "create"
  /\ noteRow' = [noteRow EXCEPT ![c] = [current |-> c, next |-> 2]]
  /\ revision' = [revision EXCEPT ![c] = [note |-> c, no |-> 1, parent |-> None]]
  /\ Succeed(c, "created")
  /\ UNCHANGED bound

\* appendRevision: the note of the item ...
FindNote(c) ==
  LET ns == NotesOf(command[c].item) IN
  /\ pc[c] = "findNote"
  /\ CASE ns = {} -> Refuse(c, "notFound")
       [] \E n \in ns : ns = {n} ->
            GoOn(c, "lockNote", CHOOSE n \in ns : TRUE) /\ UNCHANGED dbVars
       [] OTHER -> Refuse(c, "corrupt")

\* Wrong: the base revision is not compared.
WrongBaseNotCompared(c, row) == TRUE
BaseIsCurrent(c, row) == command[c].base = row.current

\* ... is locked, which at READ COMMITTED returns its latest row.
LockNote(c) ==
  LET n == seen[c] IN
  /\ pc[c] = "lockNote"
  /\ ~ Db!Waits(c, NoteLock(n))
  /\ IF BaseIsCurrent(c, noteRow[n])
       THEN Db!Lock(c, NoteLock(n)) /\ GoOn(c, "commit", [note |-> n, row |-> noteRow[n]])
       ELSE Refuse(c, "stale")

\* The revision, its parent and the advanced note, then COMMIT.
CommitAppend(c) ==
  LET n == seen[c].note
      row == seen[c].row
  IN
  /\ pc[c] = "commit" /\ command[c].op = "append"
  /\ revision' = [revision EXCEPT ![c] = [note |-> n, no |-> row.next, parent |-> row.current]]
  /\ noteRow' = [noteRow EXCEPT ![n] = [current |-> c, next |-> row.next + 1]]
  /\ Succeed(c, "created")
  /\ UNCHANGED bound

-----------------------------------------------------------------------------
(* Reading a note: two more statements. *)

\* Wrong: each statement of a reader sees what is committed when it starts.
WrongLatest(c) == Snapshot
Visible(c) == seen[c].from

ReadNote(c) ==
  LET ns == NotesIn(Visible(c).noteRow, command[c].item) IN
  /\ pc[c] = "readNote"
  /\ CASE ns = {} -> Succeed(c, "found") /\ UNCHANGED itemVars
       [] \E n \in ns : ns = {n} ->
            GoOn(c, "readHistory",
                 [seen[c] EXCEPT !.row = Visible(c).noteRow[CHOOSE n \in ns : TRUE]])
            /\ UNCHANGED dbVars
       [] OTHER -> Refuse(c, "corrupt")

\* projectNote: the current revision must be the last one, and the note one ahead.
ReadHistory(c) ==
  LET row == seen[c].row
      revs == Visible(c).revision
      history == HistoryIn(revs, revs[row.current].note)
  IN
  /\ pc[c] = "readHistory"
  /\ IF /\ \A q \in history : revs[q].no <= revs[row.current].no
        /\ row.next = revs[row.current].no + 1
       THEN Succeed(c, "found") /\ UNCHANGED itemVars
       ELSE Refuse(c, "corrupt")

-----------------------------------------------------------------------------
(* What the environment does. *)

ConnectionLost(c) == pc[c] \in InTransaction /\ Refuse(c, "unavailable")

ConnectFails(c) ==
  /\ pc[c] \in {"check", "begin"}
  /\ Finish(c, "unavailable")
  /\ UNCHANGED <<itemVars, dbVars>>

\* An operator archives a row, waiting for whoever holds it FOR SHARE.
ArchiveProject ==
  /\ projectState = "ACTIVE"
  /\ ~ \E d \in Calls : SharesProject(d)
  /\ projectState' = "ARCHIVED"
  /\ UNCHANGED <<command, pc, seen, answer, itemVars, editionState, dbVars>>

ArchiveEdition(e) ==
  /\ editionState[e] = "ACTIVE"
  /\ ~ \E d \in Calls : SharesEdition(d, e)
  /\ editionState' = [editionState EXCEPT ![e] = "ARCHIVED"]
  /\ UNCHANGED <<command, pc, seen, answer, itemVars, projectState, dbVars>>

-----------------------------------------------------------------------------
Add(c) == ShareProject(c) \/ ShareEdition(c) \/ InsertBinding(c) \/ ReadItem(c) \/ CommitAdd(c)
Remove(c) == LockItem(c) \/ CheckNotes(c) \/ CommitRemove(c)
Write(c) == LockSubject(c) \/ CheckNoNote(c) \/ CommitCreate(c)
              \/ FindNote(c) \/ LockNote(c) \/ CommitAppend(c)
Read(c) == ReadNote(c) \/ ReadHistory(c)
Serve(c) == CheckProject(c) \/ BeginTransaction(c) \/ ReadSubject(c)
              \/ Add(c) \/ Remove(c) \/ Write(c) \/ Read(c)

Next ==
  \/ \E c \in Calls : Arrive(c) \/ Serve(c) \/ ConnectionLost(c) \/ ConnectFails(c)
  \/ ArchiveProject
  \/ \E e \in Editions : ArchiveEdition(e)

Spec == Init /\ [][Next]_vars

\* A statement that can run is run; callers, failures and archiving are free.
Fairness == \A c \in Calls : WF_vars(Serve(c))

-----------------------------------------------------------------------------
(* Correctness. *)

TypeOK ==
  /\ command \in [Calls -> Commands \cup {None}]
  /\ pc \in [Calls -> Steps]
  /\ answer \in [Calls -> Outcomes \cup {None}]
  /\ bound \in [Editions -> Calls \cup {None}]
  /\ Snapshot \in Snapshots
  /\ projectState \in {"ACTIVE", "ARCHIVED"}
  /\ editionState \in [Editions -> {"ACTIVE", "ARCHIVED"}]
  /\ Db!DbTypeOK

\* No note outlives its item and an item has at most one note, although creating
\* the first note, removing the item and adding the edition again may run together.
NoteHasItsItem ==
  \A n \in Calls : noteRow[n] # None =>
    Bound(command[n].item) /\ NotesOf(command[n].item) = {n}

\* The revisions of a note form one line, numbered from 1, that ends at the
\* note's current revision; whoever appended one had the revision before it in
\* hand, so no text is overwritten unseen.
RevisionsFormOneLine ==
  \A n \in Calls : noteRow[n] # None =>
    LET history == HistoryIn(revision, n) IN
    /\ noteRow[n].current \in history
    /\ noteRow[n].next = revision[noteRow[n].current].no + 1
    /\ \A q \in history :
         /\ revision[q].no < noteRow[n].next
         /\ \A r \in history : revision[q].no = revision[r].no => q = r
         /\ revision[q].no = 1 => q = n
         /\ revision[q].no # 1 =>
              /\ command[q].base = revision[q].parent
              /\ revision[q].parent \in history
              /\ revision[revision[q].parent].no = revision[q].no - 1

\* No call ever takes a healthy note for a corrupt one: readers see a note and its
\* revisions as of one moment while others append.
NeverCorrupt == \A c \in Calls : answer[c] # "corrupt"

\* An edition is bound only while its project and the edition itself are active,
\* however late the archiving comes.
BoundOnlyWhileActive ==
  [][\A e \in Editions : bound'[e] \notin {None, bound[e]} =>
       projectState = "ACTIVE" /\ editionState[e] = "ACTIVE"]_vars

-----------------------------------------------------------------------------
(* The inductive invariant: what a call may rely on at each statement. *)

Program(op) ==
  CASE op = "add" -> {"check", "begin", "project", "edition", "insert", "item", "commit", "done"}
    [] op = "remove" -> {"check", "begin", "lockItem", "notes", "commit", "done"}
    [] op = "create" -> {"begin", "subject", "lockSubject", "noNote", "commit", "done"}
    [] op = "append" -> {"begin", "subject", "findNote", "lockNote", "commit", "done"}
    [] op = "get" -> {"begin", "subject", "readNote", "readHistory", "done"}

\* A call is at a statement of its own operation; the item it names was asked for.
FollowsProgram(c) ==
  IF command[c] = None THEN pc[c] = "idle"
  ELSE /\ pc[c] \in Program(command[c].op)
       /\ command[c].op # "add" => pc[command[c].item] = "done" /\ command[command[c].item].op = "add"

\* c runs operation op and has come to one of steps.
At(c, op, steps) == command[c] # None /\ command[c].op = op /\ pc[c] \in steps

\* An adder holds project and edition; what it inserted is not bound yet.
AddIsProtected(c) ==
  /\ SharesProject(c) => projectState = "ACTIVE"
  /\ Adding(c, {"insert", "item", "commit"}) => editionState[command[c].edition] = "ACTIVE"
  /\ Adding(c, {"item", "commit"}) => seen[c] \in {c, None}
  /\ Inserting(c) => bound[command[c].edition] = None

\* Whoever removes an item or writes its first note holds its binding.
ItemIsHeld(c) ==
  /\ At(c, "remove", {"notes", "commit"}) => holder[ItemRow(command[c].item)] = c
  /\ At(c, "create", {"noNote", "commit"}) =>
       holder[ItemRow(command[c].item)] = c /\ Bound(command[c].item)
  /\ At(c, "remove", {"commit"}) \/ At(c, "create", {"commit"}) => NotesOf(command[c].item) = {}

\* Whoever appends holds the note, and has its row in hand.
NoteIsHeld(c) ==
  /\ At(c, "append", {"lockNote"}) => seen[c] \in Calls /\ noteRow[seen[c]] # None
  /\ At(c, "append", {"commit"}) =>
       /\ seen[c].note \in Calls /\ noteRow[seen[c].note] # None
       /\ seen[c].row = noteRow[seen[c].note]
       /\ command[c].base = seen[c].row.current
       /\ holder[NoteLock(seen[c].note)] = c

\* What a reader saw is a whole note.
WholeNotes(s) ==
  \A n \in Calls : s.noteRow[n] # None =>
    /\ command[n] # None /\ NotesIn(s.noteRow, command[n].item) = {n}
    /\ s.noteRow[n].current \in HistoryIn(s.revision, n)
    /\ s.noteRow[n].next = s.revision[s.noteRow[n].current].no + 1
    /\ \A q \in HistoryIn(s.revision, n) : s.revision[q].no < s.noteRow[n].next

SeesWholeNote(c) ==
  /\ At(c, "get", {"readNote", "readHistory"}) =>
       /\ seen[c] \in [from : Snapshots, row : NoteRows \cup {None}]
       /\ WholeNotes(seen[c].from)
  /\ At(c, "get", {"readHistory"}) =>
       \E n \in Calls : seen[c].from.noteRow[n] # None /\ seen[c].row = seen[c].from.noteRow[n]

CallIsSound(c) ==
  FollowsProgram(c) /\ AddIsProtected(c) /\ ItemIsHeld(c) /\ NoteIsHeld(c) /\ SeesWholeNote(c)

\* Two adders never both insert the binding of one edition.
OneInserter ==
  \A c, d \in Calls : Inserting(c) /\ Inserting(d) /\ c # d => command[c].edition # command[d].edition

\* What is committed was made by calls that are over.
RowsAreFinal ==
  /\ \A e \in Editions : bound[e] # None =>
       At(bound[e], "add", {"done"}) /\ command[bound[e]].edition = e
  /\ \A n \in Calls : noteRow[n] # None => At(n, "create", {"done"})
  /\ \A q \in Calls : revision[q] # None =>
       (At(q, "create", {"done"}) \/ At(q, "append", {"done"})) /\ noteRow[revision[q].note] # None

IInv ==
  /\ TypeOK /\ seen = [c \in Calls |-> seen[c]]
  /\ \A c \in Calls : CallIsSound(c)
  /\ OneInserter /\ RowsAreFinal
  /\ NoteHasItsItem /\ RevisionsFormOneLine /\ NeverCorrupt

-----------------------------------------------------------------------------
(* Who waits for whom. *)

\* The next statement of c waits for d to end.
WaitsFor(c, d) ==
  /\ c # d
  /\ \/ pc[c] = "lockItem" /\ Bound(command[c].item) /\ holder[ItemRow(command[c].item)] = d
     \/ pc[c] = "lockSubject" /\ holder[ItemRow(command[c].item)] = d
     \/ pc[c] = "lockNote" /\ holder[NoteLock(seen[c])] = d
     \/ pc[c] = "insert" /\ Unsettles(d, command[c].edition)

\* Whoever is waited for runs and waits for nobody, so no calls wait in a circle.
NobodyWaitsTwiceOver ==
  \A c, d \in Calls : WaitsFor(c, d) =>
    pc[d] \in InTransaction /\ \A e \in Calls : ~ WaitsFor(d, e)

-----------------------------------------------------------------------------
(* Items and notes as their callers know them. *)

\* c has passed its gates: it will act on an item that was there, in a project and
\* with an edition that were active, or it found its edition bound.
Admitted(c) ==
  \/ At(c, "add", {"commit"}) /\ seen[c] # c
  \/ At(c, "create", {"lockSubject"}) /\ seen[c] = TRUE
  \/ At(c, "create", {"noNote", "commit"})
  \/ At(c, "append", {"findNote", "lockNote", "commit"})
  \/ At(c, "get", {"readNote", "readHistory"})

LatestOf(b) ==
  LET ns == NotesOf(b) IN IF ns = {} THEN None ELSE noteRow[CHOOSE n \in ns : TRUE].current

\* Transactions of several statements implement the registers: each call is one step
\* on an edition's binding or a note's latest revision, and no answer is a lie.
Promised == INSTANCE ItemRegister WITH
  latest <- [b \in Calls |-> LatestOf(b)],
  admitted <- {c \in Calls : Admitted(c)}
ImplementsItemRegister == Promised!Spec

\* What the refinement needs besides IInv: a call that runs has no answer, who
\* removes an item finds it until the COMMIT, a refused creator is refused for
\* good, and the note found for an item is that item's.
AnswerIsJustified(c) ==
  /\ pc[c] # "done" => answer[c] = None
  /\ At(c, "remove", {"notes", "commit"}) => Bound(command[c].item)
  /\ At(c, "create", {"lockSubject"}) => seen[c] \in BOOLEAN /\ (seen[c] \/ ~ Writable(command[c].item))
  /\ At(c, "append", {"lockNote"}) => command[seen[c]].item = command[c].item
  /\ At(c, "append", {"commit"}) => command[seen[c].note].item = command[c].item

AnswersAreJustified == \A c \in Calls : AnswerIsJustified(c)

\* Every call is answered: nobody waits for a row for ever.
EveryCallIsAnswered ==
  \A c \in Calls : pc[c] \in {"check", "begin"} ~> answer[c] # None
=============================================================================
