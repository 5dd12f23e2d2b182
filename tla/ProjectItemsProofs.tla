------------------------- MODULE ProjectItemsProofs -------------------------
(***************************************************************************)
(* Proofs about ProjectItems, for every set of calls and editions.         *)
(***************************************************************************)
EXTENDS ProjectItems, TLAPS

-----------------------------------------------------------------------------
(* Lemmas about the operators the model is built from. *)

LEMMA RowsDiffer ==
  /\ \A b \in Calls : ItemRow(b) \in Rows /\ NoteLock(b) \in Rows
  /\ \A b, n \in Calls : ItemRow(b) # NoteLock(n)
  /\ \A b, n \in Calls : NoteLock(b) = NoteLock(n) => b = n
  /\ \A b, n \in Calls : ItemRow(b) = ItemRow(n) => b = n
  BY DEF ItemRow, NoteLock, Rows

LEMMA NoneIsNoValue ==
  None \notin Calls /\ None \notin Commands /\ None \notin NoteRows /\ None \notin Revisions
  BY NoneIsNothing

\* What a command says, for each operation.
LEMMA CommandFields ==
  ASSUME TypeOK, NEW c \in Calls, command[c] # None
  PROVE  /\ command[c].op \in {"add", "remove", "create", "append", "get"}
         /\ command[c].op = "add" => command[c].edition \in Editions
         /\ command[c].op # "add" => command[c].item \in Calls
         /\ command[c].op = "append" => command[c].base \in Calls
  BY DEF TypeOK, Commands

\* Ending a transaction releases what it held and nothing else.
LEMMA EndReleases ==
  ASSUME Db!DbTypeOK, NEW c \in Calls, Db!End(c, {})
  PROVE  /\ Db!DbTypeOK'
         /\ \A x \in Rows : holder'[x] = IF holder[x] = c THEN None ELSE holder[x]
  BY DEF Db!DbTypeOK, Db!End

\* Taking a lock changes the holder of that row, which nobody else held.
LEMMA LockTakes ==
  ASSUME Db!DbTypeOK, NEW c \in Calls, NEW x \in Rows, Db!Lock(c, x)
  PROVE  /\ Db!DbTypeOK'
         /\ holder[x] \in {None, c}
         /\ \A y \in Rows : holder'[y] = IF y = x THEN c ELSE holder[y]
  BY DEF Db!DbTypeOK, Db!Lock, Db!Waits

-----------------------------------------------------------------------------
(* Steps that store nothing.  Such a step of c keeps the invariant if what *)
(* is said of c itself still holds.                                        *)

StoresNothing(c) ==
  /\ UNCHANGED <<command, itemVars, lifecycle>>
  /\ pc' \in [Calls -> Steps] /\ answer' \in [Calls -> Outcomes \cup {None}]
  /\ seen' = [d \in Calls |-> seen'[d]]
  /\ \A d \in Calls \ {c} : pc'[d] = pc[d] /\ seen'[d] = seen[d]
  /\ \A d \in Calls : answer'[d] # "corrupt"
  /\ Db!DbTypeOK'
  /\ \A x \in Rows : holder'[x] = holder[x] \/ holder[x] \in {None, c}

\* If c inserts a binding now, nobody else inserts one of that edition.
InsertsAlone(c) ==
  Inserting(c)' => \A d \in Calls \ {c} : Inserting(d) => command[d].edition # command[c].edition

\* Another call's transaction keeps its locks, and what it has read is still true.
LEMMA OthersStaySound ==
  ASSUME IInv, NEW c \in Calls, StoresNothing(c), pc[c] # "done",
         NEW d \in Calls, d # c
  PROVE  CallIsSound(d)'
<1>. USE DEF StoresNothing, itemVars, lifecycle
<1>1. /\ TypeOK /\ CallIsSound(d)
      /\ pc'[d] = pc[d] /\ seen'[d] = seen[d]
      /\ d # None /\ c # d
  BY NoneIsNoValue DEF IInv
<1>2. \A x \in Rows : holder[x] = d => holder'[x] = d
  BY <1>1
<1>3. FollowsProgram(d)'
  BY <1>1, CommandFields DEF CallIsSound, FollowsProgram
<1>4. AddIsProtected(d)'
  BY <1>1, CommandFields
     DEF CallIsSound, AddIsProtected, SharesProject, Adding, Inserting
<1>5. ItemIsHeld(d)'
  <2>1. ItemIsHeld(d)
    BY <1>1 DEF CallIsSound
  <2>2. command[d] # None /\ command[d].op # "add" => ItemRow(command[d].item) \in Rows
    BY <1>1, CommandFields, RowsDiffer
  <2>. QED
    BY <1>1, <1>2, <2>1, <2>2 DEF ItemIsHeld, At, Bound, NotesOf, NotesIn
<1>6. NoteIsHeld(d)'
  BY <1>1, <1>2, RowsDiffer DEF CallIsSound, NoteIsHeld, At
<1>7. SeesWholeNote(d)'
  BY <1>1 DEF CallIsSound, SeesWholeNote, At, WholeNotes, NotesIn
<1>. QED
  BY <1>3, <1>4, <1>5, <1>6, <1>7 DEF CallIsSound

LEMMA StoresNothingKeepsIInv ==
  ASSUME IInv, NEW c \in Calls, StoresNothing(c), pc[c] # "done",
         CallIsSound(c)', InsertsAlone(c)
  PROVE  IInv'
<1>. USE DEF StoresNothing, itemVars, lifecycle
<1>1. TypeOK' /\ (seen = [d \in Calls |-> seen[d]])'
  BY DEF IInv, TypeOK, Snapshot, Db!DbTypeOK
<1>2. \A d \in Calls : CallIsSound(d)'
  BY OthersStaySound
<1>3. OneInserter'
  <2>. SUFFICES ASSUME NEW a \in Calls, NEW b \in Calls, Inserting(a)', Inserting(b)', a # b
                PROVE  command[a].edition # command[b].edition
    BY DEF OneInserter
  <2>1. \A d \in Calls \ {c} : Inserting(d)' => Inserting(d)
    BY DEF Inserting, Adding
  <2>. QED
    BY <2>1 DEF IInv, OneInserter, InsertsAlone
<1>4. RowsAreFinal'
  <2>1. \A d \in Calls : pc[d] = "done" => pc'[d] = "done"
    OBVIOUS
  <2>2. bound \in [Editions -> Calls \cup {None}]
    BY DEF IInv, TypeOK
  <2>. QED
    BY <2>1, <2>2 DEF IInv, RowsAreFinal, At
<1>5. NoteHasItsItem' /\ RevisionsFormOneLine' /\ NeverCorrupt'
  BY DEF IInv, NoteHasItsItem, Bound, NotesOf, NotesIn, RevisionsFormOneLine, HistoryIn, NeverCorrupt
<1>. QED
  BY <1>1, <1>2, <1>3, <1>4, <1>5 DEF IInv

\* The ways a step that stores nothing is written.
LEMMA GoesOn ==
  ASSUME IInv, NEW c \in Calls, NEW s \in Steps, NEW v, GoOn(c, s, v),
         UNCHANGED dbVars \/ Db!Begin(c) \/ \E x \in Rows : Db!Lock(c, x)
  PROVE  StoresNothing(c) /\ pc'[c] = s /\ seen'[c] = v
<1>1. TypeOK /\ seen = [d \in Calls |-> seen[d]] /\ NeverCorrupt
  BY DEF IInv
<1>2. Db!DbTypeOK' /\ \A x \in Rows : holder'[x] = holder[x] \/ holder[x] \in {None, c}
  <2>1. CASE UNCHANGED dbVars
    BY <1>1, <2>1 DEF TypeOK, dbVars, Db!DbTypeOK
  <2>2. CASE Db!Begin(c)
    BY <1>1, <2>2 DEF TypeOK, Db!DbTypeOK, Db!Begin
  <2>3. CASE \E x \in Rows : Db!Lock(c, x)
    BY <1>1, <2>3, LockTakes DEF TypeOK
  <2>. QED
    BY <2>1, <2>2, <2>3
<1>. QED
  BY <1>1, <1>2 DEF GoOn, StoresNothing, TypeOK, NeverCorrupt, itemVars, lifecycle

LEMMA Ends ==
  ASSUME IInv, NEW c \in Calls, NEW kind \in Outcomes \ {"corrupt"},
         Finish(c, kind), UNCHANGED itemVars, UNCHANGED dbVars \/ Db!End(c, {})
  PROVE  StoresNothing(c) /\ pc'[c] = "done"
<1>1. TypeOK /\ seen = [d \in Calls |-> seen[d]] /\ NeverCorrupt
  BY DEF IInv
<1>2. Db!DbTypeOK' /\ \A x \in Rows : holder'[x] = holder[x] \/ holder[x] \in {None, c}
  <2>1. CASE UNCHANGED dbVars
    BY <1>1, <2>1 DEF TypeOK, dbVars, Db!DbTypeOK
  <2>2. CASE Db!End(c, {})
    BY <1>1, <2>2, EndReleases DEF TypeOK
  <2>. QED
    BY <2>1, <2>2
<1>. QED
  BY <1>1, <1>2 DEF Finish, StoresNothing, TypeOK, NeverCorrupt, lifecycle, Steps

\* A call that stops relies on nothing any more.
LEMMA EndsKeepsIInv ==
  ASSUME IInv, NEW c \in Calls, pc[c] \notin {"idle", "done"},
         NEW kind \in Outcomes \ {"corrupt"},
         Finish(c, kind), UNCHANGED itemVars, UNCHANGED dbVars \/ Db!End(c, {})
  PROVE  IInv'
<1>1. StoresNothing(c) /\ pc'[c] = "done"
  BY Ends
<1>2. command[c] # None /\ FollowsProgram(c) /\ command' = command /\ TypeOK
  BY <1>1 DEF IInv, CallIsSound, FollowsProgram, StoresNothing
<1>3. FollowsProgram(c)'
  <2>1. command[c].op # "add" => pc'[command[c].item] = "done"
    BY <1>1, <1>2, CommandFields DEF FollowsProgram, StoresNothing
  <2>2. "done" \in Program(command[c].op)
    BY <1>2, CommandFields DEF Program
  <2>. QED
    BY <1>1, <1>2, <2>1, <2>2 DEF FollowsProgram
<1>4. CallIsSound(c)' /\ InsertsAlone(c)
  BY <1>1, <1>3 DEF CallIsSound, AddIsProtected, SharesProject, Inserting, Adding, ItemIsHeld,
       NoteIsHeld, SeesWholeNote, At, InsertsAlone
<1>. QED
  BY <1>1, <1>4, StoresNothingKeepsIInv

LEMMA RefuseKeepsIInv ==
  ASSUME IInv, NEW c \in Calls, pc[c] \notin {"idle", "done"},
         NEW kind \in Outcomes \ {"corrupt"}, Refuse(c, kind)
  PROVE  IInv'
  BY EndsKeepsIInv DEF Refuse

LEMMA SucceedKeepsIInv ==
  ASSUME IInv, NEW c \in Calls, pc[c] \notin {"idle", "done"},
         NEW kind \in Outcomes \ {"corrupt"}, Succeed(c, kind), UNCHANGED itemVars
  PROVE  IInv'
<1>1. PICK k \in {kind, "unavailable"} : Finish(c, k)
  BY DEF Succeed
<1>2. k \in Outcomes \ {"corrupt"}
  BY <1>1 DEF Outcomes, Refusals
<1>. QED
  BY <1>1, <1>2, EndsKeepsIInv DEF Succeed

\* Which operation a statement belongs to.
LEMMA OperationOf ==
  ASSUME IInv, NEW c \in Calls, pc[c] # "idle"
  PROVE  /\ command[c] # None /\ TypeOK /\ CallIsSound(c)
         /\ pc[c] \in Program(command[c].op)
         /\ pc[c] \in {"project", "edition", "insert", "item"} => command[c].op = "add"
         /\ pc[c] \in {"lockItem", "notes"} => command[c].op = "remove"
         /\ pc[c] \in {"lockSubject", "noNote"} => command[c].op = "create"
         /\ pc[c] \in {"findNote", "lockNote"} => command[c].op = "append"
         /\ pc[c] \in {"readNote", "readHistory"} => command[c].op = "get"
         /\ pc[c] = "subject" => command[c].op \in {"create", "append", "get"}
<1>1. command[c] # None /\ TypeOK /\ CallIsSound(c) /\ pc[c] \in Program(command[c].op)
  BY DEF IInv, CallIsSound, FollowsProgram
<1>. QED
  BY <1>1, CommandFields DEF Program

\* A call that goes on keeps the invariant if what it relies on next holds.
LEMMA GoesOnKeepsIInv ==
  ASSUME IInv, NEW c \in Calls, pc[c] \notin {"idle", "done"},
         NEW s \in Program(command[c].op), NEW v, GoOn(c, s, v), s \in Steps,
         UNCHANGED dbVars \/ Db!Begin(c) \/ \E x \in Rows : Db!Lock(c, x),
         AddIsProtected(c)', ItemIsHeld(c)', NoteIsHeld(c)', SeesWholeNote(c)', InsertsAlone(c)
  PROVE  IInv'
<1>1. StoresNothing(c) /\ pc'[c] = s
  BY GoesOn
<1>2. command[c] # None /\ FollowsProgram(c) /\ command' = command /\ TypeOK
  BY <1>1 DEF IInv, CallIsSound, FollowsProgram, StoresNothing
<1>3. FollowsProgram(c)'
  <2>1. command[c].op # "add" => pc'[command[c].item] = "done"
    BY <1>1, <1>2, CommandFields DEF FollowsProgram, StoresNothing
  <2>. QED
    BY <1>1, <1>2, <2>1 DEF FollowsProgram
<1>. QED
  BY <1>1, <1>3, StoresNothingKeepsIInv DEF CallIsSound

-----------------------------------------------------------------------------
(* The steps that store nothing, one by one. *)

LEMMA CheckProjectKeepsIInv ==
  ASSUME IInv, NEW c \in Calls, CheckProject(c)
  PROVE  IInv'
<1>1. pc[c] = "check" /\ UNCHANGED dbVars
  BY DEF CheckProject
<1>2. command[c] # None /\ "begin" \in Program(command[c].op) /\ "begin" \in Steps
  BY <1>1, OperationOf, CommandFields DEF Program, Steps
<1>3. CASE projectState = "ACTIVE"
  <2>1. GoOn(c, "begin", None)
    BY <1>3 DEF CheckProject
  <2>2. pc'[c] = "begin"
    BY <1>1, <1>2, <2>1, GoesOn
  <2>. QED
    BY <1>1, <1>2, <2>1, <2>2, GoesOnKeepsIInv
       DEF AddIsProtected, SharesProject, Inserting, Adding, ItemIsHeld, NoteIsHeld,
           SeesWholeNote, At, InsertsAlone
<1>4. CASE projectState # "ACTIVE"
  BY <1>1, <1>4, EndsKeepsIInv DEF CheckProject, Outcomes, Refusals
<1>. QED
  BY <1>3, <1>4

LEMMA BeginTransactionKeepsIInv ==
  ASSUME IInv, NEW c \in Calls, BeginTransaction(c)
  PROVE  IInv'
<1>1. pc[c] = "begin" /\ Db!Begin(c)
  BY DEF BeginTransaction
<1>2. PICK s \in {"project", "lockItem", "subject"} :
        GoOn(c, s, None) /\ s \in Program(command[c].op) /\ s \in Steps
  <2>1. command[c] # None /\ command[c].op \in {"add", "remove", "create", "append", "get"}
    BY <1>1, OperationOf, CommandFields
  <2>2. CASE command[c].op = "add"
    BY <2>2 DEF BeginTransaction, Program, Steps
  <2>3. CASE command[c].op = "remove"
    BY <2>3 DEF BeginTransaction, Program, Steps
  <2>4. CASE command[c].op \in {"create", "append", "get"}
    BY <2>4 DEF BeginTransaction, Program, Steps
  <2>. QED
    BY <2>1, <2>2, <2>3, <2>4
<1>3. pc'[c] = s
  BY <1>1, <1>2, GoesOn
<1>. QED
  BY <1>1, <1>2, <1>3, GoesOnKeepsIInv
     DEF AddIsProtected, SharesProject, Inserting, Adding, ItemIsHeld, NoteIsHeld,
         SeesWholeNote, At, InsertsAlone

LEMMA ShareProjectKeepsIInv ==
  ASSUME IInv, NEW c \in Calls, ShareProject(c)
  PROVE  IInv'
<1>1. pc[c] = "project" /\ command[c].op = "add" /\ command[c] # None
  BY OperationOf DEF ShareProject
<1>2. CASE projectState = "ACTIVE"
  <2>1. GoOn(c, "edition", None) /\ UNCHANGED dbVars
    BY <1>2 DEF ShareProject
  <2>2. pc'[c] = "edition" /\ projectState' = projectState /\ command' = command
        /\ "edition" \in Program(command[c].op) /\ "edition" \in Steps
    BY <1>1, <2>1, GoesOn DEF GoOn, lifecycle, Program, Steps
  <2>. QED
    BY <1>1, <1>2, <2>1, <2>2, GoesOnKeepsIInv
       DEF AddIsProtected, SharesProject, Inserting, Adding, ItemIsHeld, NoteIsHeld,
           SeesWholeNote, At, InsertsAlone
<1>3. CASE projectState # "ACTIVE"
  BY <1>1, <1>3, RefuseKeepsIInv DEF ShareProject, Outcomes, Refusals
<1>. QED
  BY <1>2, <1>3

LEMMA ShareEditionKeepsIInv ==
  ASSUME IInv, NEW c \in Calls, ShareEdition(c)
  PROVE  IInv'
<1>1. pc[c] = "edition" /\ command[c].op = "add" /\ command[c] # None /\ AddIsProtected(c)
  BY OperationOf DEF ShareEdition, CallIsSound
<1>2. CASE editionState[command[c].edition] = "ACTIVE"
  <2>1. GoOn(c, "insert", None) /\ UNCHANGED dbVars
    BY <1>2 DEF ShareEdition
  <2>2. pc'[c] = "insert" /\ UNCHANGED lifecycle /\ command' = command
        /\ "insert" \in Program(command[c].op) /\ "insert" \in Steps
    BY <1>1, <2>1, GoesOn DEF GoOn, Program, Steps
  <2>. QED
    BY <1>1, <1>2, <2>1, <2>2, GoesOnKeepsIInv
       DEF AddIsProtected, SharesProject, Inserting, Adding, ItemIsHeld, NoteIsHeld,
           SeesWholeNote, At, InsertsAlone, lifecycle
<1>3. CASE editionState[command[c].edition] # "ACTIVE"
  BY <1>1, <1>3, RefuseKeepsIInv DEF ShareEdition, Outcomes, Refusals
<1>. QED
  BY <1>2, <1>3

\* ON CONFLICT has waited: nobody else inserts a binding of this edition.
LEMMA InsertBindingKeepsIInv ==
  ASSUME IInv, NEW c \in Calls, InsertBinding(c)
  PROVE  IInv'
<1>. DEFINE v == IF bound[command[c].edition] = None THEN c ELSE None
<1>1. /\ pc[c] = "insert" /\ command[c].op = "add" /\ command[c] # None /\ AddIsProtected(c)
      /\ ~ Unsettled(command[c].edition, c)
      /\ GoOn(c, "item", v) /\ UNCHANGED dbVars
  BY OperationOf DEF InsertBinding, CallIsSound
<1>2. /\ pc'[c] = "item" /\ seen'[c] = v
      /\ UNCHANGED <<lifecycle, itemVars>> /\ command' = command
      /\ "item" \in Program(command[c].op) /\ "item" \in Steps
  BY <1>1, GoesOn DEF GoOn, Program, Steps
<1>3. AddIsProtected(c)'
  BY <1>1, <1>2, NoneIsNoValue
     DEF AddIsProtected, SharesProject, Inserting, Adding, lifecycle, itemVars
<1>4. InsertsAlone(c)
  BY <1>1 DEF InsertsAlone, Unsettled, Unsettles
<1>5. ItemIsHeld(c)' /\ NoteIsHeld(c)' /\ SeesWholeNote(c)'
  BY <1>1, <1>2 DEF ItemIsHeld, NoteIsHeld, SeesWholeNote, At
<1>. QED
  BY <1>1, <1>2, <1>3, <1>4, <1>5, GoesOnKeepsIInv

LEMMA ReadItemKeepsIInv ==
  ASSUME IInv, NEW c \in Calls, ReadItem(c)
  PROVE  IInv'
<1>1. /\ pc[c] = "item" /\ command[c].op = "add" /\ command[c] # None /\ AddIsProtected(c)
      /\ OneInserter
  BY OperationOf DEF ReadItem, CallIsSound, IInv
<1>2. CASE seen[c] = c \/ bound[command[c].edition] # None
  <2>1. GoOn(c, "commit", seen[c]) /\ UNCHANGED dbVars
    BY <1>2 DEF ReadItem
  <2>2. /\ pc'[c] = "commit" /\ seen'[c] = seen[c]
        /\ UNCHANGED <<lifecycle, itemVars>> /\ command' = command
        /\ "commit" \in Program(command[c].op) /\ "commit" \in Steps
    BY <1>1, <2>1, GoesOn DEF GoOn, Program, Steps
  <2>3. AddIsProtected(c)' /\ InsertsAlone(c)
    BY <1>1, <2>2 DEF AddIsProtected, SharesProject, Inserting, Adding, lifecycle, itemVars,
                      InsertsAlone, OneInserter
  <2>4. ItemIsHeld(c)' /\ NoteIsHeld(c)' /\ SeesWholeNote(c)'
    BY <1>1, <2>2 DEF ItemIsHeld, NoteIsHeld, SeesWholeNote, At
  <2>. QED
    BY <1>1, <2>1, <2>2, <2>3, <2>4, GoesOnKeepsIInv
<1>3. CASE ~ (seen[c] = c \/ bound[command[c].edition] # None)
  BY <1>1, <1>3, RefuseKeepsIInv DEF ReadItem, Outcomes, Refusals
<1>. QED
  BY <1>2, <1>3

LEMMA LockItemKeepsIInv ==
  ASSUME IInv, NEW c \in Calls, LockItem(c)
  PROVE  IInv'
<1>. DEFINE b == command[c].item
<1>1. /\ pc[c] = "lockItem" /\ command[c].op = "remove" /\ command[c] # None
      /\ TypeOK /\ b \in Calls /\ ItemRow(b) \in Rows
  BY OperationOf, CommandFields, RowsDiffer DEF LockItem
<1>2. CASE Bound(b)
  <2>1. GoOn(c, "notes", None) /\ Db!Lock(c, ItemRow(b))
    BY <1>2 DEF LockItem
  <2>2. "notes" \in Program(command[c].op) /\ "notes" \in Steps
    BY <1>1 DEF Program, Steps
  <2>3. pc'[c] = "notes" /\ command' = command
    BY <1>1, <2>1, <2>2, GoesOn DEF GoOn
  <2>4. holder'[ItemRow(b)] = c
    BY <1>1, <2>1, LockTakes DEF TypeOK
  <2>5. ItemIsHeld(c)'
    BY <1>1, <2>3, <2>4 DEF ItemIsHeld, At
  <2>. QED
    BY <1>1, <2>1, <2>2, <2>3, <2>5, GoesOnKeepsIInv
       DEF AddIsProtected, SharesProject, Inserting, Adding, NoteIsHeld, SeesWholeNote, At, InsertsAlone
<1>3. CASE ~ Bound(b)
  BY <1>1, <1>3, SucceedKeepsIInv DEF LockItem, Outcomes, Refusals
<1>. QED
  BY <1>2, <1>3

LEMMA CheckNotesKeepsIInv ==
  ASSUME IInv, NEW c \in Calls, CheckNotes(c)
  PROVE  IInv'
<1>1. pc[c] = "notes" /\ command[c].op = "remove" /\ command[c] # None /\ ItemIsHeld(c)
  BY OperationOf DEF CheckNotes, CallIsSound
<1>2. CASE NotesOf(command[c].item) = {}
  <2>1. GoOn(c, "commit", None) /\ UNCHANGED dbVars
    BY <1>2 DEF CheckNotes
  <2>2. /\ pc'[c] = "commit" /\ command' = command /\ UNCHANGED <<itemVars, dbVars>>
        /\ "commit" \in Program(command[c].op) /\ "commit" \in Steps
    BY <1>1, <2>1, GoesOn DEF GoOn, Program, Steps
  <2>3. ItemIsHeld(c)'
    BY <1>1, <1>2, <2>2 DEF ItemIsHeld, At, NotesOf, NotesIn, itemVars, dbVars
  <2>. QED
    BY <1>1, <2>1, <2>2, <2>3, GoesOnKeepsIInv
       DEF AddIsProtected, SharesProject, Inserting, Adding, NoteIsHeld, SeesWholeNote, At, InsertsAlone
<1>3. CASE NotesOf(command[c].item) # {}
  BY <1>1, <1>3, RefuseKeepsIInv DEF CheckNotes, Outcomes, Refusals
<1>. QED
  BY <1>2, <1>3

\* What is committed now is a whole note, for whoever reads it.
LEMMA SnapshotIsWhole ==
  ASSUME IInv
  PROVE  Snapshot \in Snapshots /\ WholeNotes(Snapshot)
<1>1. /\ TypeOK /\ NoteHasItsItem /\ RevisionsFormOneLine /\ RowsAreFinal
  BY DEF IInv
<1>2. Snapshot.noteRow = noteRow /\ Snapshot.revision = revision
  BY DEF Snapshot
<1>. QED
  BY <1>1, <1>2 DEF TypeOK, WholeNotes, NoteHasItsItem, NotesOf, RevisionsFormOneLine, RowsAreFinal, At

LEMMA ReadSubjectKeepsIInv ==
  ASSUME IInv, NEW c \in Calls, ReadSubject(c)
  PROVE  IInv'
<1>. DEFINE b == command[c].item
<1>1. /\ pc[c] = "subject" /\ command[c].op \in {"create", "append", "get"} /\ command[c] # None
  BY OperationOf DEF ReadSubject
<1>2. ASSUME NEW kind \in {"notFound", "readOnly"}, Refuse(c, kind)
      PROVE  IInv'
  BY <1>1, <1>2, RefuseKeepsIInv DEF Outcomes, Refusals
<1>3. ASSUME NEW v, GoOn(c, "lockSubject", v), UNCHANGED dbVars, command[c].op = "create"
      PROVE  IInv'
  <2>1. pc'[c] = "lockSubject" /\ command' = command
        /\ "lockSubject" \in Program(command[c].op) /\ "lockSubject" \in Steps
    BY <1>1, <1>3, GoesOn DEF GoOn, Program, Steps
  <2>. QED
    BY <1>1, <1>3, <2>1, GoesOnKeepsIInv
       DEF AddIsProtected, SharesProject, Inserting, Adding, ItemIsHeld, NoteIsHeld, SeesWholeNote,
           At, InsertsAlone
<1>4. ASSUME GoOn(c, "findNote", None), UNCHANGED dbVars, command[c].op = "append"
      PROVE  IInv'
  <2>1. pc'[c] = "findNote" /\ command' = command
        /\ "findNote" \in Program(command[c].op) /\ "findNote" \in Steps
    BY <1>1, <1>4, GoesOn DEF GoOn, Program, Steps
  <2>. QED
    BY <1>1, <1>4, <2>1, GoesOnKeepsIInv
       DEF AddIsProtected, SharesProject, Inserting, Adding, ItemIsHeld, NoteIsHeld, SeesWholeNote,
           At, InsertsAlone
<1>5. ASSUME GoOn(c, "readNote", [from |-> Snapshot, row |-> None]), UNCHANGED dbVars,
             command[c].op = "get"
      PROVE  IInv'
  <2>. DEFINE v == [from |-> Snapshot, row |-> None]
  <2>1. /\ pc'[c] = "readNote" /\ seen'[c] = v /\ command' = command
        /\ "readNote" \in Program(command[c].op) /\ "readNote" \in Steps
    BY <1>1, <1>5, GoesOn DEF GoOn, Program, Steps
  <2>2. v \in [from : Snapshots, row : NoteRows \cup {None}] /\ WholeNotes(v.from)
    BY SnapshotIsWhole
  <2>. HIDE DEF v
  <2>3. WholeNotes(seen[c].from)'
    BY <2>1, <2>2 DEF WholeNotes, NotesIn, HistoryIn
  <2>4. SeesWholeNote(c)'
    BY <1>1, <2>1, <2>2, <2>3 DEF SeesWholeNote, At
  <2>. QED
    BY <1>1, <1>5, <2>1, <2>4, GoesOnKeepsIInv
       DEF AddIsProtected, SharesProject, Inserting, Adding, ItemIsHeld, NoteIsHeld, At, InsertsAlone
<1>. QED
  BY <1>1, <1>2, <1>3, <1>4, <1>5 DEF ReadSubject

LEMMA LockSubjectKeepsIInv ==
  ASSUME IInv, NEW c \in Calls, LockSubject(c)
  PROVE  IInv'
<1>. DEFINE b == command[c].item
<1>1. /\ pc[c] = "lockSubject" /\ command[c].op = "create" /\ command[c] # None
      /\ TypeOK /\ b \in Calls /\ ItemRow(b) \in Rows
  BY OperationOf, CommandFields, RowsDiffer DEF LockSubject
<1>2. ASSUME NEW kind \in {"notFound", "readOnly"}, Refuse(c, kind)
      PROVE  IInv'
  BY <1>1, <1>2, RefuseKeepsIInv DEF Outcomes, Refusals
<1>3. ASSUME Bound(b), Db!Lock(c, ItemRow(b)), GoOn(c, "noNote", None)
      PROVE  IInv'
  <2>1. "noNote" \in Program(command[c].op) /\ "noNote" \in Steps
    BY <1>1 DEF Program, Steps
  <2>2. pc'[c] = "noNote" /\ command' = command /\ bound' = bound
    BY <1>1, <1>3, <2>1, GoesOn DEF GoOn, itemVars
  <2>3. holder'[ItemRow(b)] = c
    BY <1>1, <1>3, LockTakes DEF TypeOK
  <2>4. ItemIsHeld(c)'
    BY <1>1, <1>3, <2>2, <2>3 DEF ItemIsHeld, At, Bound
  <2>. QED
    BY <1>1, <1>3, <2>1, <2>2, <2>4, GoesOnKeepsIInv
       DEF AddIsProtected, SharesProject, Inserting, Adding, NoteIsHeld, SeesWholeNote, At, InsertsAlone
<1>. QED
  BY <1>2, <1>3 DEF LockSubject

LEMMA CheckNoNoteKeepsIInv ==
  ASSUME IInv, NEW c \in Calls, CheckNoNote(c)
  PROVE  IInv'
<1>1. pc[c] = "noNote" /\ command[c].op = "create" /\ command[c] # None /\ ItemIsHeld(c)
  BY OperationOf DEF CheckNoNote, CallIsSound
<1>2. CASE NotesOf(command[c].item) = {}
  <2>1. GoOn(c, "commit", None) /\ UNCHANGED dbVars
    BY <1>2 DEF CheckNoNote
  <2>2. /\ pc'[c] = "commit" /\ command' = command /\ UNCHANGED <<itemVars, dbVars>>
        /\ "commit" \in Program(command[c].op) /\ "commit" \in Steps
    BY <1>1, <2>1, GoesOn DEF GoOn, Program, Steps
  <2>3. ItemIsHeld(c)'
    BY <1>1, <1>2, <2>2 DEF ItemIsHeld, At, NotesOf, NotesIn, Bound, itemVars, dbVars
  <2>. QED
    BY <1>1, <2>1, <2>2, <2>3, GoesOnKeepsIInv
       DEF AddIsProtected, SharesProject, Inserting, Adding, NoteIsHeld, SeesWholeNote, At, InsertsAlone
<1>3. CASE NotesOf(command[c].item) # {}
  BY <1>1, <1>3, RefuseKeepsIInv DEF CheckNoNote, Outcomes, Refusals
<1>. QED
  BY <1>2, <1>3

\* An item has at most one note, so the note is found and is no other item's.
LEMMA FindNoteKeepsIInv ==
  ASSUME IInv, NEW c \in Calls, FindNote(c)
  PROVE  IInv'
<1>. DEFINE ns == NotesOf(command[c].item)
            n == CHOOSE n \in ns : TRUE
<1>1. pc[c] = "findNote" /\ command[c].op = "append" /\ command[c] # None
  BY OperationOf DEF FindNote
<1>2. CASE ns = {}
  BY <1>1, <1>2, RefuseKeepsIInv DEF FindNote, Outcomes, Refusals
<1>3. CASE ns # {}
  <2>1. n \in Calls /\ noteRow[n] # None /\ n \in ns
    BY <1>3 DEF NotesOf, NotesIn
  <2>2. \E m \in ns : ns = {m}
    <3>1. NotesOf(command[n].item) = {n} /\ command[n].item = command[c].item
      BY <2>1 DEF IInv, NoteHasItsItem, NotesOf, NotesIn
    <3>. QED
      BY <2>1, <3>1
  <2>3. GoOn(c, "lockNote", n) /\ UNCHANGED dbVars
    BY <1>3, <2>2 DEF FindNote
  <2>4. /\ pc'[c] = "lockNote" /\ seen'[c] = n /\ command' = command /\ noteRow' = noteRow
        /\ "lockNote" \in Program(command[c].op) /\ "lockNote" \in Steps
    BY <1>1, <2>3, GoesOn DEF GoOn, itemVars, Program, Steps
  <2>. HIDE DEF n
  <2>5. NoteIsHeld(c)'
    BY <1>1, <2>1, <2>4 DEF NoteIsHeld, At
  <2>. QED
    BY <1>1, <2>3, <2>4, <2>5, GoesOnKeepsIInv
       DEF AddIsProtected, SharesProject, Inserting, Adding, ItemIsHeld, SeesWholeNote, At, InsertsAlone
<1>. QED
  BY <1>2, <1>3

LEMMA LockNoteKeepsIInv ==
  ASSUME IInv, NEW c \in Calls, LockNote(c)
  PROVE  IInv'
<1>. DEFINE n == seen[c]
            v == [note |-> n, row |-> noteRow[n]]
<1>1. /\ pc[c] = "lockNote" /\ command[c].op = "append" /\ command[c] # None /\ TypeOK
      /\ n \in Calls /\ noteRow[n] # None /\ NoteLock(n) \in Rows
  BY OperationOf, RowsDiffer DEF LockNote, CallIsSound, NoteIsHeld, At
<1>2. CASE BaseIsCurrent(c, noteRow[n])
  <2>1. Db!Lock(c, NoteLock(n)) /\ GoOn(c, "commit", v)
    BY <1>2 DEF LockNote
  <2>2. "commit" \in Program(command[c].op) /\ "commit" \in Steps
    BY <1>1 DEF Program, Steps
  <2>. HIDE DEF v
  <2>3. pc'[c] = "commit" /\ seen'[c] = v /\ command' = command /\ noteRow' = noteRow
    <3>1. \E x \in Rows : Db!Lock(c, x)
      BY <1>1, <2>1
    <3>. QED
      BY <2>1, <2>2, <3>1, GoesOn DEF GoOn, itemVars
  <2>4. holder'[NoteLock(n)] = c
    BY <1>1, <2>1, LockTakes DEF TypeOK
  <2>5. v.note = n /\ v.row = noteRow[n] /\ command[c].base = v.row.current
    BY <1>2 DEF BaseIsCurrent, v
  <2>6. NoteIsHeld(c)'
    BY <1>1, <2>3, <2>4, <2>5 DEF NoteIsHeld, At
  <2>. QED
    BY <1>1, <2>1, <2>2, <2>3, <2>6, GoesOnKeepsIInv
       DEF AddIsProtected, SharesProject, Inserting, Adding, ItemIsHeld, SeesWholeNote, At, InsertsAlone
<1>3. CASE ~ BaseIsCurrent(c, noteRow[n])
  BY <1>1, <1>3, RefuseKeepsIInv DEF LockNote, Outcomes, Refusals
<1>. QED
  BY <1>2, <1>3

\* A whole note looks whole: the reader finds nothing corrupt.
LEMMA ReadNoteKeepsIInv ==
  ASSUME IInv, NEW c \in Calls, ReadNote(c)
  PROVE  IInv'
<1>. DEFINE from == seen[c].from
            ns == NotesIn(from.noteRow, command[c].item)
            n == CHOOSE n \in ns : TRUE
            v == [seen[c] EXCEPT !.row = from.noteRow[n]]
<1>1. /\ pc[c] = "readNote" /\ command[c].op = "get" /\ command[c] # None
      /\ Visible(c) = from
      /\ seen[c] \in [from : Snapshots, row : NoteRows \cup {None}] /\ WholeNotes(from)
  BY OperationOf DEF ReadNote, CallIsSound, SeesWholeNote, At, Visible
<1>2. CASE ns = {}
  BY <1>1, <1>2, SucceedKeepsIInv DEF ReadNote, Outcomes, Refusals
<1>3. CASE ns # {}
  <2>1. n \in Calls /\ from.noteRow[n] # None /\ n \in ns
    BY <1>3 DEF NotesIn
  <2>2. \E m \in ns : ns = {m}
    <3>1. NotesIn(from.noteRow, command[n].item) = {n} /\ command[n].item = command[c].item
      BY <1>1, <2>1 DEF WholeNotes, NotesIn
    <3>. QED
      BY <2>1, <3>1
  <2>3. GoOn(c, "readHistory", v) /\ UNCHANGED dbVars
    BY <1>1, <1>3, <2>2 DEF ReadNote
  <2>4. v \in [from : Snapshots, row : NoteRows \cup {None}] /\ v.from = from
        /\ v.row = from.noteRow[n]
    <3>1. from \in Snapshots /\ from.noteRow[n] \in NoteRows
      BY <1>1, <2>1 DEF Snapshots
    <3>. QED
      BY <1>1, <3>1
  <2>. HIDE DEF v, n
  <2>5. /\ pc'[c] = "readHistory" /\ seen'[c] = v /\ command' = command
        /\ "readHistory" \in Program(command[c].op) /\ "readHistory" \in Steps
    BY <1>1, <2>3, GoesOn DEF GoOn, Program, Steps
  <2>6. WholeNotes(seen[c].from)'
    BY <1>1, <2>4, <2>5 DEF WholeNotes, NotesIn, HistoryIn
  <2>7. SeesWholeNote(c)'
    BY <1>1, <2>1, <2>4, <2>5, <2>6 DEF SeesWholeNote, At
  <2>. QED
    BY <1>1, <2>3, <2>5, <2>7, GoesOnKeepsIInv
       DEF AddIsProtected, SharesProject, Inserting, Adding, ItemIsHeld, NoteIsHeld, At, InsertsAlone
<1>. QED
  BY <1>2, <1>3

LEMMA ReadHistoryKeepsIInv ==
  ASSUME IInv, NEW c \in Calls, ReadHistory(c)
  PROVE  IInv'
<1>. DEFINE row == seen[c].row
            revs == seen[c].from.revision
            history == HistoryIn(revs, revs[row.current].note)
<1>1. /\ pc[c] = "readHistory" /\ command[c].op = "get" /\ Visible(c) = seen[c].from
      /\ seen[c].from \in Snapshots /\ WholeNotes(seen[c].from)
  BY OperationOf DEF ReadHistory, CallIsSound, SeesWholeNote, At, Visible
<1>2. PICK n \in Calls : seen[c].from.noteRow[n] # None /\ row = seen[c].from.noteRow[n]
  BY <1>1, OperationOf DEF CallIsSound, SeesWholeNote, At
<1>3. /\ row.current \in HistoryIn(revs, n) /\ row.next = revs[row.current].no + 1
      /\ \A q \in HistoryIn(revs, n) : revs[q].no < row.next
  BY <1>1, <1>2 DEF WholeNotes
<1>4. revs[row.current].note = n /\ \A q \in HistoryIn(revs, n) : revs[q].no \in Nat
  BY <1>1, <1>3 DEF HistoryIn, Snapshots, Revisions
<1>5. /\ \A q \in history : revs[q].no <= revs[row.current].no
      /\ row.next = revs[row.current].no + 1
  BY <1>3, <1>4
<1>6. Succeed(c, "found") /\ UNCHANGED itemVars
  BY <1>1, <1>5 DEF ReadHistory
<1>. QED
  BY <1>1, <1>6, SucceedKeepsIInv DEF Outcomes, Refusals

LEMMA FailuresKeepIInv ==
  ASSUME IInv, NEW c \in Calls, ConnectionLost(c) \/ ConnectFails(c)
  PROVE  IInv'
<1>1. "unavailable" \in Outcomes \ {"corrupt"}
  BY DEF Outcomes, Refusals
<1>2. CASE ConnectionLost(c)
  BY <1>1, <1>2, RefuseKeepsIInv DEF ConnectionLost, InTransaction
<1>3. CASE ConnectFails(c)
  BY <1>1, <1>3, EndsKeepsIInv DEF ConnectFails
<1>. QED
  BY <1>2, <1>3

-----------------------------------------------------------------------------
(* The initial state, new calls and archiving. *)

LEMMA InitIInv == Init => IInv
<1>. SUFFICES ASSUME Init PROVE IInv
  OBVIOUS
<1>1. TypeOK
  BY DEF Init, TypeOK, Steps, Snapshot, Snapshots, Db!DbInit, Db!DbTypeOK
<1>2. \A c \in Calls : CallIsSound(c)
  BY DEF Init, CallIsSound, FollowsProgram, AddIsProtected, SharesProject, Inserting, Adding,
         ItemIsHeld, NoteIsHeld, SeesWholeNote, At
<1>3. OneInserter /\ RowsAreFinal
  BY DEF Init, OneInserter, Inserting, Adding, RowsAreFinal
<1>4. NoteHasItsItem /\ RevisionsFormOneLine /\ NeverCorrupt
  BY NoneIsNothing DEF Init, NoteHasItsItem, RevisionsFormOneLine, NeverCorrupt, Outcomes, Refusals
<1>. QED
  BY <1>1, <1>2, <1>3, <1>4 DEF IInv, Init

LEMMA ArriveKeepsIInv ==
  ASSUME IInv, NEW c \in Calls, Arrive(c)
  PROVE  IInv'
<1>. USE DEF itemVars, lifecycle, dbVars
<1>1. PICK m \in Commands :
        /\ m.op # "add" => pc[m.item] = "done" /\ command[m.item].op = "add"
        /\ command' = [command EXCEPT ![c] = m]
        /\ pc' = [pc EXCEPT ![c] = IF m.op \in {"add", "remove"} THEN "check" ELSE "begin"]
  BY DEF Arrive
<1>2. /\ pc[c] = "idle" /\ TypeOK /\ CallIsSound(c) /\ m # None
      /\ UNCHANGED <<seen, answer, itemVars, lifecycle, dbVars>>
      /\ m.op # "add" => m.item \in Calls
  BY NoneIsNoValue DEF Arrive, IInv, Commands
<1>3. /\ command'[c] = m /\ pc'[c] \in {"check", "begin"}
      /\ \A d \in Calls \ {c} : command'[d] = command[d] /\ pc'[d] = pc[d]
      /\ \A d \in Calls : pc[d] = "done" => d # c
  BY <1>1, <1>2 DEF TypeOK
<1>4. TypeOK'
  BY <1>1, <1>2 DEF TypeOK, Steps, Snapshot, Db!DbTypeOK
<1>5. /\ \A n \in Calls : noteRow[n] # None => At(n, "create", {"done"}) /\ n # c
      /\ \A e \in Editions : bound[e] # None => bound[e] \in Calls \ {c}
      /\ \A q \in Calls : revision[q] # None =>
           /\ q # c /\ revision[q].note \in Calls /\ command[q] # None
           /\ command[q].op \in {"create", "append"}
  BY <1>2, <1>3 DEF IInv, RowsAreFinal, At, TypeOK, Snapshot, Snapshots, Revisions
<1>6. \A b \in Calls : NotesOf(b)' = NotesOf(b) /\ (Bound(b)' <=> Bound(b))
  BY <1>2, <1>3, <1>5 DEF NotesOf, NotesIn, Bound
<1>7. CallIsSound(c)'
  <2>1. pc'[c] \in Program(command'[c].op)
    <3>1. m.op \in {"add", "remove", "create", "append", "get"}
      BY DEF Commands
    <3>. QED
      BY <1>1, <1>3, <1>2, <3>1 DEF Program, TypeOK
  <2>2. m.op # "add" => pc'[m.item] = "done" /\ command'[m.item].op = "add"
    BY <1>1, <1>2, <1>3
  <2>3. FollowsProgram(c)'
    BY <1>2, <1>3, <2>1, <2>2 DEF FollowsProgram
  <2>. QED
    BY <1>3, <2>3 DEF CallIsSound, AddIsProtected, SharesProject, Inserting, Adding,
                      ItemIsHeld, NoteIsHeld, SeesWholeNote, At
<1>8. ASSUME NEW d \in Calls, d # c
      PROVE  CallIsSound(d)'
  <2>1. CallIsSound(d) /\ command'[d] = command[d] /\ pc'[d] = pc[d]
    BY <1>3, <1>8 DEF IInv
  <2>2. FollowsProgram(d)'
    BY <2>1, <1>2, <1>3, CommandFields DEF CallIsSound, FollowsProgram
  <2>3. AddIsProtected(d)'
    BY <2>1, <1>2 DEF CallIsSound, AddIsProtected, SharesProject, Inserting, Adding
  <2>4. ItemIsHeld(d)'
    <3>1. ItemIsHeld(d) /\ (command[d] # None /\ command[d].op # "add" => command[d].item \in Calls)
      BY <2>1, <1>2, CommandFields DEF CallIsSound
    <3>. QED
      BY <2>1, <3>1, <1>2, <1>6 DEF ItemIsHeld, At
  <2>5. NoteIsHeld(d)'
    BY <2>1, <1>2 DEF CallIsSound, NoteIsHeld, At
  <2>6. SeesWholeNote(d)'
    <3>1. ASSUME WholeNotes(seen[d].from)
          PROVE  WholeNotes(seen[d].from)'
      <4>1. command[c] = None
        BY <1>2, CommandFields DEF CallIsSound, FollowsProgram, Program
      <4>2. \A n \in Calls : seen[d].from.noteRow[n] # None => command[n] # None /\ n # c
        BY <3>1, <4>1 DEF WholeNotes
      <4>. QED
        BY <3>1, <4>1, <4>2, <1>2, <1>3 DEF WholeNotes, NotesIn, HistoryIn
    <3>. QED
      BY <2>1, <1>2, <3>1 DEF CallIsSound, SeesWholeNote, At
  <2>. QED
    BY <2>2, <2>3, <2>4, <2>5, <2>6 DEF CallIsSound
<1>9. OneInserter'
  BY <1>2, <1>3 DEF IInv, OneInserter, Inserting, Adding
<1>10. RowsAreFinal'
  BY <1>2, <1>3, <1>5 DEF IInv, RowsAreFinal, At
<1>11. NoteHasItsItem' /\ NeverCorrupt'
  <2>1. \A n \in Calls : noteRow[n] # None => command[n].item \in Calls /\ command'[n] = command[n]
    BY <1>2, <1>3, <1>5, CommandFields DEF At
  <2>. QED
    BY <1>2, <1>6, <2>1 DEF IInv, NoteHasItsItem, NeverCorrupt
<1>12. RevisionsFormOneLine'
  BY <1>2, <1>3, <1>5 DEF IInv, RevisionsFormOneLine, HistoryIn
<1>. QED
  BY <1>2, <1>4, <1>7, <1>8, <1>9, <1>10, <1>11, <1>12 DEF IInv

\* Whoever archives has waited for the adders.
LEMMA ArchivingKeepsIInv ==
  ASSUME IInv, ArchiveProject \/ \E e \in Editions : ArchiveEdition(e)
  PROVE  IInv'
<1>. USE DEF itemVars, dbVars
<1>1. UNCHANGED <<command, pc, seen, answer, itemVars, dbVars>>
  BY DEF ArchiveProject, ArchiveEdition
<1>2. TypeOK'
  BY <1>1 DEF IInv, TypeOK, Snapshot, Db!DbTypeOK, ArchiveProject, ArchiveEdition
<1>3. ASSUME NEW c \in Calls
      PROVE  CallIsSound(c)'
  <2>1. CallIsSound(c) /\ TypeOK
    BY DEF IInv
  <2>2. AddIsProtected(c)'
    <3>1. CASE ArchiveProject
      BY <1>1, <2>1, <3>1
         DEF CallIsSound, AddIsProtected, SharesProject, Adding, Inserting, ArchiveProject
    <3>2. CASE \E e \in Editions : ArchiveEdition(e)
      BY <1>1, <2>1, <3>2, CommandFields
         DEF CallIsSound, AddIsProtected, SharesProject, SharesEdition, Adding, Inserting,
             ArchiveEdition, TypeOK
    <3>. QED
      BY <3>1, <3>2
  <2>. QED
    BY <1>1, <2>1, <2>2 DEF CallIsSound, FollowsProgram, ItemIsHeld, NoteIsHeld, SeesWholeNote,
         At, Bound, NotesOf, NotesIn, WholeNotes, HistoryIn
<1>4. OneInserter' /\ RowsAreFinal'
  BY <1>1 DEF IInv, OneInserter, Inserting, Adding, RowsAreFinal, At
<1>5. NoteHasItsItem' /\ RevisionsFormOneLine' /\ NeverCorrupt'
  BY <1>1 DEF IInv, NoteHasItsItem, Bound, NotesOf, NotesIn, RevisionsFormOneLine, HistoryIn, NeverCorrupt
<1>. QED
  BY <1>1, <1>2, <1>3, <1>4, <1>5 DEF IInv

-----------------------------------------------------------------------------
(* The steps that store something: the COMMIT of each operation. *)

\* What every COMMIT does besides storing.
LEMMA Commits ==
  ASSUME IInv, NEW c \in Calls, pc[c] = "commit",
         NEW kind \in Outcomes \ {"corrupt"}, Succeed(c, kind)
  PROVE  /\ UNCHANGED <<command, projectState, editionState>>
         /\ pc' \in [Calls -> Steps] /\ answer' \in [Calls -> Outcomes \cup {None}]
         /\ pc'[c] = "done" /\ Db!DbTypeOK'
         /\ (seen = [d \in Calls |-> seen[d]])'
         /\ \A d \in Calls \ {c} : pc'[d] = pc[d] /\ seen'[d] = seen[d]
         /\ \A d \in Calls : pc[d] = "done" => pc'[d] = "done" /\ d # c
         /\ \A x \in Rows : \A d \in Calls \ {c} : holder[x] = d => holder'[x] = d
         /\ \A d \in Calls : FollowsProgram(d)' /\ SeesWholeNote(d)'
         /\ NeverCorrupt' /\ OneInserter'
<1>. USE DEF lifecycle
<1>1. PICK k \in {kind, "unavailable"} : Finish(c, k)
  BY DEF Succeed
<1>2. k \in Outcomes /\ k # "corrupt"
  BY <1>1 DEF Outcomes, Refusals
<1>3. TypeOK /\ seen = [d \in Calls |-> seen[d]] /\ NeverCorrupt /\ Db!DbTypeOK
  BY DEF IInv, TypeOK
<1>4. Db!DbTypeOK' /\ \A x \in Rows : holder'[x] = IF holder[x] = c THEN None ELSE holder[x]
  BY <1>3, EndReleases DEF Succeed
<1>5. /\ UNCHANGED <<command, projectState, editionState>>
      /\ pc' \in [Calls -> Steps] /\ answer' \in [Calls -> Outcomes \cup {None}]
      /\ pc'[c] = "done" /\ (seen = [d \in Calls |-> seen[d]])'
      /\ \A d \in Calls \ {c} : pc'[d] = pc[d] /\ seen'[d] = seen[d]
      /\ \A d \in Calls : pc[d] = "done" => pc'[d] = "done" /\ d # c
      /\ NeverCorrupt'
  BY <1>1, <1>2, <1>3 DEF Finish, TypeOK, Steps, NeverCorrupt
<1>6. ASSUME NEW d \in Calls
      PROVE  FollowsProgram(d)' /\ SeesWholeNote(d)'
  <2>1. CallIsSound(d)
    BY DEF IInv
  <2>2. FollowsProgram(d)'
    <3>1. command[c] # None /\ "done" \in Program(command[c].op)
      BY OperationOf, CommandFields DEF Program
    <3>. QED
      BY <1>3, <1>5, <2>1, <3>1, CommandFields DEF CallIsSound, FollowsProgram
  <2>3. SeesWholeNote(d)'
    BY <1>5, <2>1 DEF CallIsSound, SeesWholeNote, At, WholeNotes, NotesIn, HistoryIn
  <2>. QED
    BY <2>2, <2>3
<1>7. OneInserter'
  BY <1>5 DEF IInv, OneInserter, Inserting, Adding
<1>. QED
  BY <1>4, <1>5, <1>6, <1>7

\* What a COMMIT must not disturb, besides the invariants of the store.
LEMMA CommitKeepsIInv ==
  ASSUME IInv, NEW c \in Calls, pc[c] = "commit",
         NEW kind \in Outcomes \ {"corrupt"}, Succeed(c, kind),
         bound' \in [Editions -> Calls \cup {None}], Snapshot' \in Snapshots,
         \A d \in Calls \ {c} : AddIsProtected(d)' /\ ItemIsHeld(d)' /\ NoteIsHeld(d)',
         RowsAreFinal', NoteHasItsItem', RevisionsFormOneLine'
  PROVE  IInv'
<1>1. TypeOK'
  BY Commits DEF IInv, TypeOK
<1>2. AddIsProtected(c)' /\ ItemIsHeld(c)' /\ NoteIsHeld(c)'
  BY Commits DEF AddIsProtected, SharesProject, Inserting, Adding, ItemIsHeld, NoteIsHeld, At
<1>. QED
  BY <1>1, <1>2, Commits DEF IInv, CallIsSound

\* Whoever appends keeps the note it holds.
LEMMA AppendersUndisturbed ==
  ASSUME IInv, NEW c \in Calls, pc[c] = "commit",
         NEW kind \in Outcomes \ {"corrupt"}, Succeed(c, kind),
         NEW d \in Calls \ {c},
         \A n \in Calls : noteRow[n] # None => noteRow'[n] # None,
         \A n \in Calls : noteRow[n] # None /\ holder[NoteLock(n)] = d => noteRow'[n] = noteRow[n]
  PROVE  NoteIsHeld(d)'
<1>1. /\ NoteIsHeld(d) /\ command' = command /\ pc'[d] = pc[d] /\ seen'[d] = seen[d]
      /\ \A x \in Rows : holder[x] = d => holder'[x] = d
  BY Commits DEF IInv, CallIsSound
<1>. QED
  BY <1>1, RowsDiffer DEF NoteIsHeld, At

\* The COMMIT of an add or a remove: no binding goes that somebody else holds or
\* that has a note.
LEMMA BindingCommitKeepsIInv ==
  ASSUME IInv, NEW c \in Calls, pc[c] = "commit",
         NEW kind \in Outcomes \ {"corrupt"}, Succeed(c, kind),
         UNCHANGED <<noteRow, revision>>,
         bound' \in [Editions -> Calls \cup {None}],
         \A d \in Calls \ {c} : AddIsProtected(d)',
         \A e \in Editions : bound'[e] # None =>
           bound'[e] = bound[e] \/ (At(bound[e], "add", {"done"}) /\ command[bound[e]].edition = e)',
         \A b \in Calls :
           Bound(b) /\ (NotesOf(b) # {} \/ holder[ItemRow(b)] \in Calls \ {c}) => Bound(b)'
  PROVE  IInv'
<1>1. /\ command' = command /\ TypeOK
      /\ \A d \in Calls : pc[d] = "done" => pc'[d] = "done" /\ d # c
      /\ \A d \in Calls \ {c} : pc'[d] = pc[d]
      /\ \A x \in Rows : \A d \in Calls \ {c} : holder[x] = d => holder'[x] = d
  BY Commits DEF IInv
<1>2. \A b : NotesOf(b)' = NotesOf(b)
  BY <1>1 DEF NotesOf, NotesIn
<1>3. ASSUME NEW d \in Calls \ {c}
      PROVE  ItemIsHeld(d)' /\ NoteIsHeld(d)'
  <2>1. ItemIsHeld(d) /\ pc'[d] = pc[d]
        /\ (command[d] # None /\ command[d].op # "add" => command[d].item \in Calls)
    BY <1>1, CommandFields DEF IInv, CallIsSound
  <2>2. ItemIsHeld(d)'
    BY <1>1, <1>2, <2>1, RowsDiffer DEF ItemIsHeld, At
  <2>. QED
    BY <2>2, AppendersUndisturbed
<1>4. Snapshot' \in Snapshots
  BY <1>1 DEF TypeOK, Snapshot
<1>5. RowsAreFinal'
  <2>1. \A e \in Editions : bound'[e] # None =>
          (At(bound[e], "add", {"done"}) /\ command[bound[e]].edition = e)'
    <3>. SUFFICES ASSUME NEW e \in Editions, bound'[e] # None, bound'[e] = bound[e]
                  PROVE  (At(bound[e], "add", {"done"}) /\ command[bound[e]].edition = e)'
      BY <1>1
    <3>1. bound[e] \in Calls /\ At(bound[e], "add", {"done"}) /\ command[bound[e]].edition = e
      BY <1>1 DEF IInv, RowsAreFinal, TypeOK
    <3>. QED
      BY <1>1, <3>1 DEF At
  <2>2. /\ \A n \in Calls : noteRow'[n] # None => At(n, "create", {"done"})'
        /\ \A q \in Calls : revision'[q] # None =>
             (At(q, "create", {"done"})' \/ At(q, "append", {"done"})') /\ noteRow'[revision'[q].note] # None
    BY <1>1 DEF IInv, RowsAreFinal, At
  <2>. QED
    BY <2>1, <2>2 DEF RowsAreFinal
<1>6. NoteHasItsItem'
  <2>1. \A n \in Calls : noteRow[n] # None => command[n].item \in Calls
    BY <1>1, CommandFields DEF IInv, RowsAreFinal, At
  <2>. QED
    BY <1>1, <1>2, <2>1 DEF IInv, NoteHasItsItem
<1>7. RevisionsFormOneLine'
  BY <1>1 DEF IInv, RevisionsFormOneLine, HistoryIn
<1>. QED
  BY <1>3, <1>4, <1>5, <1>6, <1>7, CommitKeepsIInv

LEMMA CommitAddKeepsIInv ==
  ASSUME IInv, NEW c \in Calls, CommitAdd(c)
  PROVE  IInv'
<1>. DEFINE e == command[c].edition
<1>1. /\ pc[c] = "commit" /\ command[c].op = "add" /\ command[c] # None /\ TypeOK
      /\ e \in Editions /\ AddIsProtected(c) /\ OneInserter /\ UNCHANGED <<noteRow, revision>>
  BY OperationOf, CommandFields DEF CommitAdd, CallIsSound, IInv
<1>2. PICK kind \in {"created", "existing"} : Succeed(c, kind)
  BY DEF CommitAdd
<1>3. kind \in Outcomes \ {"corrupt"}
  BY <1>2 DEF Outcomes, Refusals
<1>4. /\ UNCHANGED <<command, projectState, editionState>> /\ pc'[c] = "done"
      /\ \A d \in Calls \ {c} : pc'[d] = pc[d] /\ seen'[d] = seen[d]
  BY <1>1, <1>2, <1>3, Commits
<1>5. /\ bound' \in [Editions -> Calls \cup {None}]
      /\ bound' = bound \/ (bound[e] = None /\ bound' = [bound EXCEPT ![e] = c] /\ Inserting(c))
  BY <1>1 DEF CommitAdd, TypeOK, AddIsProtected, Inserting, Adding
<1>6. ASSUME NEW d \in Calls \ {c}
      PROVE  AddIsProtected(d)'
  <2>1. AddIsProtected(d) /\ (Inserting(c) /\ Inserting(d) => command[d].edition # e)
        /\ (Adding(d, {"item", "commit"}) => command[d].edition \in Editions)
    BY <1>1, CommandFields DEF IInv, CallIsSound, OneInserter, Adding
  <2>. QED
    BY <1>1, <1>4, <1>5, <2>1 DEF AddIsProtected, SharesProject, Inserting, Adding, TypeOK
<1>7. \A b \in Calls : Bound(b) => Bound(b)'
  BY <1>1, <1>5, NoneIsNoValue DEF Bound, TypeOK
<1>8. \A x \in Editions : bound'[x] # None =>
        bound'[x] = bound[x] \/ (At(bound[x], "add", {"done"}) /\ command[bound[x]].edition = x)'
  BY <1>1, <1>4, <1>5 DEF At, TypeOK
<1>. QED
  BY <1>1, <1>2, <1>3, <1>5, <1>6, <1>7, <1>8, BindingCommitKeepsIInv

LEMMA CommitRemoveKeepsIInv ==
  ASSUME IInv, NEW c \in Calls, CommitRemove(c)
  PROVE  IInv'
<1>. DEFINE b == command[c].item
<1>1. /\ pc[c] = "commit" /\ command[c].op = "remove" /\ command[c] # None /\ TypeOK
      /\ b \in Calls /\ holder[ItemRow(b)] = c /\ NotesOf(b) = {}
      /\ UNCHANGED <<noteRow, revision>>
      /\ Succeed(c, "removed") /\ "removed" \in Outcomes \ {"corrupt"}
      /\ bound' = [e \in Editions |-> IF bound[e] = b THEN None ELSE bound[e]]
  BY OperationOf, CommandFields DEF CommitRemove, CallIsSound, ItemIsHeld, At, Outcomes, Refusals
<1>2. bound' \in [Editions -> Calls \cup {None}]
  BY <1>1 DEF TypeOK
<1>3. /\ UNCHANGED <<command, projectState, editionState>>
      /\ \A d \in Calls \ {c} : pc'[d] = pc[d] /\ seen'[d] = seen[d]
  BY <1>1, Commits
<1>4. ASSUME NEW d \in Calls \ {c}
      PROVE  AddIsProtected(d)'
  <2>1. AddIsProtected(d) /\ (Adding(d, {"item", "commit"}) => command[d].edition \in Editions)
    BY <1>1, CommandFields DEF IInv, CallIsSound, Adding
  <2>. QED
    BY <1>1, <1>3, <2>1 DEF AddIsProtected, SharesProject, Inserting, Adding
<1>5. \A x \in Calls :
        Bound(x) /\ (NotesOf(x) # {} \/ holder[ItemRow(x)] \in Calls \ {c}) => Bound(x)'
  BY <1>1 DEF Bound
<1>. QED
  BY <1>1, <1>2, <1>4, <1>5, BindingCommitKeepsIInv

\* The COMMIT of a note: the bindings stay, items held by others get no note.
LEMMA NoteCommitFrame ==
  ASSUME IInv, NEW c \in Calls, pc[c] = "commit",
         NEW kind \in Outcomes \ {"corrupt"}, Succeed(c, kind),
         UNCHANGED bound,
         \A b \in Calls : holder[ItemRow(b)] \in Calls \ {c} => NotesOf(b)' = NotesOf(b)
  PROVE  /\ bound' \in [Editions -> Calls \cup {None}]
         /\ \A d \in Calls \ {c} : AddIsProtected(d)' /\ ItemIsHeld(d)'
         /\ \A e \in Editions : bound'[e] # None =>
              (At(bound[e], "add", {"done"}) /\ command[bound[e]].edition = e)'
<1>1. /\ UNCHANGED <<command, projectState, editionState>> /\ TypeOK
      /\ \A d \in Calls : pc[d] = "done" => pc'[d] = "done"
      /\ \A d \in Calls \ {c} : pc'[d] = pc[d] /\ seen'[d] = seen[d]
      /\ \A x \in Rows : \A d \in Calls \ {c} : holder[x] = d => holder'[x] = d
  BY Commits DEF IInv
<1>2. ASSUME NEW d \in Calls \ {c}
      PROVE  AddIsProtected(d)' /\ ItemIsHeld(d)'
  <2>1. /\ AddIsProtected(d) /\ ItemIsHeld(d) /\ pc'[d] = pc[d] /\ seen'[d] = seen[d]
        /\ (command[d] # None /\ command[d].op # "add" => command[d].item \in Calls)
    BY <1>1, CommandFields DEF IInv, CallIsSound
  <2>2. AddIsProtected(d)'
    BY <1>1, <2>1 DEF AddIsProtected, SharesProject, Inserting, Adding
  <2>3. \A b : Bound(b)' <=> Bound(b)
    BY DEF Bound
  <2>4. ItemIsHeld(d)'
    BY <1>1, <2>1, <2>3, RowsDiffer DEF ItemIsHeld, At
  <2>. QED
    BY <2>2, <2>4
<1>3. bound \in [Editions -> Calls \cup {None}]
  BY <1>1 DEF TypeOK
<1>. QED
  BY <1>1, <1>2, <1>3 DEF IInv, RowsAreFinal, At

LEMMA CommitCreateKeepsIInv ==
  ASSUME IInv, NEW c \in Calls, CommitCreate(c)
  PROVE  IInv'
<1>. DEFINE b == command[c].item
<1>1. /\ pc[c] = "commit" /\ command[c].op = "create" /\ command[c] # None /\ TypeOK
      /\ b \in Calls /\ holder[ItemRow(b)] = c /\ Bound(b) /\ NotesOf(b) = {}
      /\ RowsAreFinal /\ NoteHasItsItem /\ RevisionsFormOneLine
  BY OperationOf, CommandFields DEF CommitCreate, CallIsSound, ItemIsHeld, At, IInv
<1>2. /\ noteRow' = [noteRow EXCEPT ![c] = [current |-> c, next |-> 2]]
      /\ revision' = [revision EXCEPT ![c] = [note |-> c, no |-> 1, parent |-> None]]
      /\ bound' = bound /\ Succeed(c, "created") /\ "created" \in Outcomes \ {"corrupt"}
  BY DEF CommitCreate, Outcomes, Refusals
<1>3. /\ command' = command /\ pc'[c] = "done"
      /\ \A d \in Calls : pc[d] = "done" => pc'[d] = "done" /\ d # c
  BY <1>1, <1>2, Commits
<1>4. noteRow[c] = None /\ revision[c] = None
  BY <1>1, <1>3 DEF RowsAreFinal, At
<1>5. noteRow \in [Calls -> NoteRows \cup {None}] /\ revision \in [Calls -> Revisions \cup {None}]
  BY <1>1 DEF TypeOK, Snapshot, Snapshots
<1>6. Snapshot' \in Snapshots
  BY <1>2, <1>5 DEF Snapshot, Snapshots, NoteRows, Revisions
<1>7. \A x \in Calls : NotesOf(x)' = IF x = b THEN {c} ELSE NotesOf(x)
  BY <1>1, <1>2, <1>3, <1>4, <1>5, NoneIsNoValue DEF NotesOf, NotesIn, NoteRows
<1>8. ASSUME NEW d \in Calls \ {c}
      PROVE  NoteIsHeld(d)'
  BY <1>1, <1>2, <1>4, <1>5, AppendersUndisturbed
<1>9. /\ bound' \in [Editions -> Calls \cup {None}]
      /\ \A d \in Calls \ {c} : AddIsProtected(d)' /\ ItemIsHeld(d)'
      /\ \A e \in Editions : bound'[e] # None =>
           (At(bound[e], "add", {"done"}) /\ command[bound[e]].edition = e)'
  BY <1>1, <1>2, <1>7, NoteCommitFrame
<1>10. RowsAreFinal'
  BY <1>1, <1>2, <1>3, <1>4, <1>5, <1>9, NoneIsNoValue DEF RowsAreFinal, At, Revisions, NoteRows
<1>11. NoteHasItsItem'
  <2>. SUFFICES ASSUME NEW n \in Calls, noteRow'[n] # None, NEW x, x = command[n].item
                PROVE  Bound(x) /\ NotesOf(x)' = {n}
    BY <1>2, <1>3 DEF NoteHasItsItem, Bound, NotesOf, NotesIn
  <2>1. CASE n = c
    BY <1>1, <1>7, <2>1
  <2>2. CASE n # c
    <3>1. noteRow[n] # None
      BY <1>2, <1>5, <2>2
    <3>2. x \in Calls /\ NotesOf(x) = {n} /\ Bound(x)
      BY <1>1, <3>1, CommandFields DEF RowsAreFinal, At, NoteHasItsItem
    <3>. QED
      BY <1>1, <1>7, <2>2, <3>2
  <2>. QED
    BY <2>1, <2>2
<1>12. RevisionsFormOneLine'
  <2>1. \A n \in Calls : HistoryIn(revision, n)' = IF n = c THEN {c} ELSE HistoryIn(revision, n)
    BY <1>1, <1>2, <1>4, <1>5, NoneIsNoValue DEF HistoryIn, RowsAreFinal, Revisions
  <2>2. \A n \in Calls : n # c => c \notin HistoryIn(revision, n)
    BY <1>4 DEF HistoryIn
  <2>. SUFFICES ASSUME NEW n \in Calls, noteRow'[n] # None
                PROVE  LET history == HistoryIn(revision, n)' IN
                       /\ noteRow'[n].current \in history
                       /\ noteRow'[n].next = revision'[noteRow'[n].current].no + 1
                       /\ \A q \in history :
                            /\ revision'[q].no < noteRow'[n].next
                            /\ \A r \in history : revision'[q].no = revision'[r].no => q = r
                            /\ revision'[q].no = 1 => q = n
                            /\ revision'[q].no # 1 =>
                                 /\ command[q].base = revision'[q].parent
                                 /\ revision'[q].parent \in history
                                 /\ revision'[revision'[q].parent].no = revision'[q].no - 1
    BY <1>3 DEF RevisionsFormOneLine
  <2>3. CASE n = c
    <3>1. HistoryIn(revision, n)' = {c}
      BY <2>1, <2>3
    <3>2. /\ noteRow'[n].current = c /\ noteRow'[n].next = 2
          /\ revision'[c].no = 1
      BY <1>2, <1>5, <2>3
    <3>. QED
      BY <2>3, <3>1, <3>2
  <2>4. CASE n # c
    <3>1. noteRow'[n] = noteRow[n] /\ HistoryIn(revision, n)' = HistoryIn(revision, n)
          /\ \A q \in HistoryIn(revision, n) : revision'[q] = revision[q]
      BY <1>2, <1>5, <2>1, <2>2, <2>4 DEF HistoryIn
    <3>. QED
      BY <1>1, <3>1 DEF RevisionsFormOneLine
  <2>. QED
    BY <2>3, <2>4
<1>. QED
  BY <1>1, <1>2, <1>6, <1>8, <1>9, <1>10, <1>11, <1>12, CommitKeepsIInv

LEMMA CommitAppendKeepsIInv ==
  ASSUME IInv, NEW c \in Calls, CommitAppend(c)
  PROVE  IInv'
<1>. DEFINE n == seen[c].note
            row == noteRow[n]
<1>1. /\ pc[c] = "commit" /\ command[c].op = "append" /\ command[c] # None /\ TypeOK
      /\ n \in Calls /\ row # None /\ seen[c].row = row
      /\ command[c].base = row.current /\ holder[NoteLock(n)] = c
      /\ RowsAreFinal /\ NoteHasItsItem /\ RevisionsFormOneLine
  BY OperationOf DEF CommitAppend, CallIsSound, NoteIsHeld, At, IInv
<1>2. /\ revision' = [revision EXCEPT ![c] = [note |-> n, no |-> row.next, parent |-> row.current]]
      /\ noteRow' = [noteRow EXCEPT ![n] = [current |-> c, next |-> row.next + 1]]
      /\ bound' = bound /\ Succeed(c, "created") /\ "created" \in Outcomes \ {"corrupt"}
  BY <1>1 DEF CommitAppend, Outcomes, Refusals
<1>. HIDE DEF n
<1>3. /\ command' = command /\ pc'[c] = "done"
      /\ \A d \in Calls : pc[d] = "done" => pc'[d] = "done" /\ d # c
  BY <1>1, <1>2, Commits
<1>4. revision[c] = None /\ n # c
  BY <1>1, <1>3 DEF RowsAreFinal, At
<1>5. /\ noteRow \in [Calls -> NoteRows \cup {None}] /\ revision \in [Calls -> Revisions \cup {None}]
      /\ row.current \in Calls /\ row.next \in Nat
  <2>1. noteRow \in [Calls -> NoteRows \cup {None}] /\ revision \in [Calls -> Revisions \cup {None}]
    BY <1>1 DEF TypeOK, Snapshot, Snapshots
  <2>. QED
    BY <1>1, <2>1 DEF NoteRows
<1>6. /\ noteRow' \in [Calls -> NoteRows \cup {None}] /\ revision' \in [Calls -> Revisions \cup {None}]
      /\ \A m \in Calls : (noteRow'[m] # None <=> noteRow[m] # None) /\ (m # n => noteRow'[m] = noteRow[m])
  <2>1. [current |-> c, next |-> row.next + 1] \in NoteRows
    BY <1>5 DEF NoteRows
  <2>2. [note |-> n, no |-> row.next, parent |-> row.current] \in Revisions
    BY <1>1, <1>5 DEF Revisions
  <2>. QED
    BY <1>1, <1>2, <1>5, <2>1, <2>2, NoneIsNoValue
<1>7. Snapshot' \in Snapshots
  BY <1>6 DEF Snapshot, Snapshots
<1>8. \A x \in Calls : NotesOf(x)' = NotesOf(x)
  BY <1>3, <1>6 DEF NotesOf, NotesIn
<1>9. ASSUME NEW d \in Calls \ {c}
      PROVE  NoteIsHeld(d)'
  BY <1>1, <1>2, <1>6, AppendersUndisturbed
<1>10. /\ bound' \in [Editions -> Calls \cup {None}]
       /\ \A d \in Calls \ {c} : AddIsProtected(d)' /\ ItemIsHeld(d)'
       /\ \A e \in Editions : bound'[e] # None =>
            (At(bound[e], "add", {"done"}) /\ command[bound[e]].edition = e)'
  BY <1>1, <1>2, <1>8, NoteCommitFrame
<1>11. RowsAreFinal'
  <2>1. \A m \in Calls : noteRow'[m] # None => At(m, "create", {"done"})'
    BY <1>1, <1>3, <1>6 DEF RowsAreFinal, At
  <2>2. \A q \in Calls \ {c} : revision'[q] # None =>
          (At(q, "create", {"done"}) \/ At(q, "append", {"done"}))' /\ noteRow'[revision'[q].note] # None
    BY <1>1, <1>2, <1>3, <1>5, <1>6 DEF RowsAreFinal, At, Revisions
  <2>3. At(c, "append", {"done"})' /\ noteRow'[revision'[c].note] # None
    BY <1>1, <1>2, <1>3, <1>5, <1>6 DEF At
  <2>. QED
    BY <1>10, <2>1, <2>2, <2>3 DEF RowsAreFinal
<1>12. NoteHasItsItem'
  <2>. SUFFICES ASSUME NEW m \in Calls, noteRow'[m] # None, NEW x, x = command[m].item
                PROVE  Bound(x) /\ NotesOf(x)' = {m}
    BY <1>2, <1>3 DEF NoteHasItsItem, Bound, NotesOf, NotesIn
  <2>1. x \in Calls /\ NotesOf(x) = {m} /\ Bound(x)
    BY <1>1, <1>6, CommandFields DEF RowsAreFinal, At, NoteHasItsItem
  <2>. QED
    BY <1>8, <2>1
<1>13. RevisionsFormOneLine'
  <2>. DEFINE before(m) == HistoryIn(revision, m)
  <2>1. /\ \A m \in Calls : HistoryIn(revision, m)' = IF m = n THEN before(m) \cup {c} ELSE before(m)
        /\ \A m \in Calls : c \notin before(m)
    BY <1>1, <1>2, <1>4, <1>5, NoneIsNoValue DEF HistoryIn, Revisions
  <2>2. \A m \in Calls : \A q \in before(m) :
          revision'[q] = revision[q] /\ revision[q].no \in Nat /\ q \in Calls
    BY <1>2, <1>4, <1>5 DEF HistoryIn, Revisions
  <2>. SUFFICES ASSUME NEW m \in Calls, noteRow'[m] # None
                PROVE  LET history == HistoryIn(revision, m)' IN
                       /\ noteRow'[m].current \in history
                       /\ noteRow'[m].next = revision'[noteRow'[m].current].no + 1
                       /\ \A q \in history :
                            /\ revision'[q].no < noteRow'[m].next
                            /\ \A r \in history : revision'[q].no = revision'[r].no => q = r
                            /\ revision'[q].no = 1 => q = m
                            /\ revision'[q].no # 1 =>
                                 /\ command[q].base = revision'[q].parent
                                 /\ revision'[q].parent \in history
                                 /\ revision'[revision'[q].parent].no = revision'[q].no - 1
    BY <1>3 DEF RevisionsFormOneLine
  <2>3. /\ noteRow[m] # None /\ noteRow[m].current \in before(m)
        /\ noteRow[m].next = revision[noteRow[m].current].no + 1
        /\ \A q \in before(m) :
             /\ revision[q].no < noteRow[m].next
             /\ \A r \in before(m) : revision[q].no = revision[r].no => q = r
             /\ revision[q].no = 1 => q = m
             /\ revision[q].no # 1 =>
                  /\ command[q].base = revision[q].parent
                  /\ revision[q].parent \in before(m)
                  /\ revision[revision[q].parent].no = revision[q].no - 1
    BY <1>1, <1>6 DEF RevisionsFormOneLine
  <2>. HIDE DEF before
  <2>4. CASE m # n
    <3>1. noteRow'[m] = noteRow[m] /\ HistoryIn(revision, m)' = before(m)
      BY <1>6, <2>1, <2>4
    <3>. QED
      BY <2>2, <2>3, <3>1
  <2>5. CASE m = n
    <3>1. /\ HistoryIn(revision, m)' = before(m) \cup {c} /\ c \notin before(m)
          /\ noteRow'[m].current = c /\ noteRow'[m].next = row.next + 1
          /\ revision'[c].no = row.next /\ revision'[c].parent = row.current
          /\ row = noteRow[m]
      BY <1>1, <1>2, <1>5, <2>1, <2>5
    <3>2. row.next = revision[row.current].no + 1 /\ row.current \in before(m) /\ row.next # 1
      BY <2>2, <2>3, <3>1
    <3>3. \A q \in before(m) : revision'[q].no < row.next /\ revision'[q].no \in Nat
      BY <2>2, <2>3, <3>1
    <3>4. /\ command[c].base = revision'[c].parent
          /\ revision'[revision'[c].parent].no = revision'[c].no - 1
      BY <1>1, <2>2, <3>1, <3>2
    <3>5. \A q \in before(m) \cup {c} :
            /\ revision'[q].no < row.next + 1
            /\ \A r \in before(m) \cup {c} : revision'[q].no = revision'[r].no => q = r
      BY <1>5, <2>2, <2>3, <3>1, <3>3
    <3>6. \A q \in before(m) :
            /\ revision'[q].no = 1 => q = m
            /\ revision'[q].no # 1 =>
                 /\ command[q].base = revision'[q].parent
                 /\ revision'[q].parent \in before(m)
                 /\ revision'[revision'[q].parent].no = revision'[q].no - 1
      BY <2>2, <2>3
    <3>. QED
      BY <3>1, <3>2, <3>4, <3>5, <3>6
  <2>. QED
    BY <2>4, <2>5
<1>. QED
  BY <1>1, <1>2, <1>7, <1>9, <1>10, <1>11, <1>12, <1>13, CommitKeepsIInv

-----------------------------------------------------------------------------
(* Every step, and the theorems. *)

LEMMA StutterKeepsIInv ==
  ASSUME IInv, UNCHANGED vars
  PROVE  IInv'
<1>. USE DEF vars, itemVars, lifecycle, dbVars
<1>1. TypeOK' /\ (seen = [c \in Calls |-> seen[c]])'
  BY DEF IInv, TypeOK, Snapshot, Db!DbTypeOK
<1>2. \A c \in Calls : CallIsSound(c)'
  BY DEF IInv, CallIsSound, FollowsProgram, AddIsProtected, SharesProject, Inserting, Adding,
         ItemIsHeld, NoteIsHeld, SeesWholeNote, At, Bound, NotesOf, NotesIn, WholeNotes, HistoryIn
<1>3. OneInserter' /\ RowsAreFinal'
  BY DEF IInv, OneInserter, Inserting, Adding, RowsAreFinal, At
<1>4. NoteHasItsItem' /\ RevisionsFormOneLine' /\ NeverCorrupt'
  BY DEF IInv, NoteHasItsItem, Bound, NotesOf, NotesIn, RevisionsFormOneLine, HistoryIn, NeverCorrupt
<1>. QED
  BY <1>1, <1>2, <1>3, <1>4 DEF IInv

LEMMA NextKeepsIInv ==
  ASSUME IInv, [Next]_vars
  PROVE  IInv'
<1>1. CASE UNCHANGED vars
  BY <1>1, StutterKeepsIInv
<1>2. CASE ArchiveProject \/ \E e \in Editions : ArchiveEdition(e)
  BY <1>2, ArchivingKeepsIInv
<1>3. ASSUME NEW c \in Calls, Arrive(c) \/ ConnectionLost(c) \/ ConnectFails(c)
      PROVE  IInv'
  BY <1>3, ArriveKeepsIInv, FailuresKeepIInv
<1>4. ASSUME NEW c \in Calls, Serve(c)
      PROVE  IInv'
  <2>1. CASE CheckProject(c) \/ BeginTransaction(c) \/ ReadSubject(c)
    BY <2>1, CheckProjectKeepsIInv, BeginTransactionKeepsIInv, ReadSubjectKeepsIInv
  <2>2. CASE Add(c)
    BY <2>2, ShareProjectKeepsIInv, ShareEditionKeepsIInv, InsertBindingKeepsIInv,
       ReadItemKeepsIInv, CommitAddKeepsIInv DEF Add
  <2>3. CASE Remove(c)
    BY <2>3, LockItemKeepsIInv, CheckNotesKeepsIInv, CommitRemoveKeepsIInv DEF Remove
  <2>4. CASE Write(c)
    BY <2>4, LockSubjectKeepsIInv, CheckNoNoteKeepsIInv, CommitCreateKeepsIInv,
       FindNoteKeepsIInv, LockNoteKeepsIInv, CommitAppendKeepsIInv DEF Write
  <2>5. CASE Read(c)
    BY <2>5, ReadNoteKeepsIInv, ReadHistoryKeepsIInv DEF Read
  <2>. QED
    BY <1>4, <2>1, <2>2, <2>3, <2>4, <2>5 DEF Serve
<1>. QED
  BY <1>1, <1>2, <1>3, <1>4 DEF Next

\* The inductive invariant: what a call relies on at each statement
\* (project-binding-store.ts, project-item-note-store.ts) is true when it runs.
THEOREM InvariantHolds == Spec => []IInv
<1>1. Init => IInv
  BY InitIInv
<1>2. IInv /\ [Next]_vars => IInv'
  BY NextKeepsIInv
<1>. QED
  BY <1>1, <1>2, PTL DEF Spec

\* Every variable keeps its type: in particular a committed note always names a
\* revision (no note is left as the INSERT of create wrote it).
THEOREM TypeCorrect == Spec => []TypeOK
<1>1. IInv => TypeOK
  BY DEF IInv
<1>. QED
  BY <1>1, InvariantHolds, PTL

\* removeEdition and create serialize on the binding: no note ever loses its item
\* and no item has two notes.
THEOREM NotesKeepTheirItems == Spec => []NoteHasItsItem
<1>1. IInv => NoteHasItsItem
  BY DEF IInv
<1>. QED
  BY <1>1, InvariantHolds, PTL

\* appendRevision compares and advances under the note's lock: histories never fork.
THEOREM HistoriesNeverFork == Spec => []RevisionsFormOneLine
<1>1. IInv => RevisionsFormOneLine
  BY DEF IInv
<1>. QED
  BY <1>1, InvariantHolds, PTL

\* get reads from one snapshot, append and create from what they have locked: none of
\* them ever throws the integrity error at a note the store has written.
THEOREM NoFalseAlarm == Spec => []NeverCorrupt
<1>1. IInv => NeverCorrupt
  BY DEF IInv
<1>. QED
  BY <1>1, InvariantHolds, PTL

\* Only the COMMIT of addEdition binds an edition.
LEMMA OnlyAddBinds ==
  ASSUME Next, NEW e \in Editions, bound'[e] \notin {None, bound[e]}, TypeOK
  PROVE  \E c \in Calls : CommitAdd(c)
<1>. USE DEF itemVars
<1>1. CASE ArchiveProject \/ \E x \in Editions : ArchiveEdition(x)
  BY <1>1 DEF ArchiveProject, ArchiveEdition
<1>2. ASSUME NEW c \in Calls, Arrive(c) \/ ConnectionLost(c) \/ ConnectFails(c)
      PROVE  FALSE
  BY <1>2 DEF Arrive, ConnectionLost, ConnectFails, Refuse
<1>3. ASSUME NEW c \in Calls, CheckProject(c) \/ BeginTransaction(c) \/ ReadSubject(c)
      PROVE  FALSE
  BY <1>3 DEF CheckProject, BeginTransaction, ReadSubject, GoOn, Refuse
<1>4. ASSUME NEW c \in Calls, Add(c)
      PROVE  CommitAdd(c)
  BY <1>4 DEF Add, ShareProject, ShareEdition, InsertBinding, ReadItem, GoOn, Refuse
<1>5. ASSUME NEW c \in Calls, Remove(c)
      PROVE  FALSE
  BY <1>5 DEF Remove, LockItem, CheckNotes, CommitRemove, GoOn, Refuse
<1>6. ASSUME NEW c \in Calls, Write(c) \/ Read(c)
      PROVE  FALSE
  BY <1>6 DEF Write, LockSubject, CheckNoNote, CommitCreate, FindNote, LockNote, CommitAppend,
              Read, ReadNote, ReadHistory, GoOn, Refuse
<1>. QED
  BY <1>1, <1>2, <1>3, <1>4, <1>5, <1>6 DEF Next, Serve

\* FOR SHARE on project and edition lasts to the COMMIT of addEdition: nothing is ever
\* bound to an archived project, nor an archived edition to anything.
THEOREM ArchivesBindNothing == Spec => BoundOnlyWhileActive
<1>1. IInv /\ [Next]_vars =>
        [\A e \in Editions : bound'[e] \notin {None, bound[e]} =>
           projectState = "ACTIVE" /\ editionState[e] = "ACTIVE"]_vars
  <2>. SUFFICES ASSUME IInv, Next, NEW e \in Editions, bound'[e] \notin {None, bound[e]}
                PROVE  projectState = "ACTIVE" /\ editionState[e] = "ACTIVE"
    OBVIOUS
  <2>1. TypeOK
    BY DEF IInv
  <2>2. PICK c \in Calls : CommitAdd(c)
    BY <2>1, OnlyAddBinds
  <2>3. pc[c] = "commit" /\ command[c].op = "add" /\ command[c] # None /\ AddIsProtected(c)
    BY <2>2, OperationOf DEF CommitAdd, CallIsSound
  <2>4. command[c].edition = e
    BY <2>1, <2>2, <2>3 DEF CommitAdd, TypeOK
  <2>. QED
    BY <2>3, <2>4 DEF AddIsProtected, SharesProject, Adding
<1>. QED
  BY <1>1, InvariantHolds, PTL DEF Spec, BoundOnlyWhileActive

-----------------------------------------------------------------------------
(* Why the answers are true. *)

\* What a step of c leaves alone.
Moves(c) ==
  /\ UNCHANGED <<command, lifecycle>>
  /\ \A d \in Calls \ {c} : pc'[d] = pc[d] /\ seen'[d] = seen[d] /\ answer'[d] = answer[d]

\* Nobody takes an item away that another call holds.
HeldItemsStay(c) == \A b \in Calls : Bound(b) /\ holder[ItemRow(b)] \in Calls \ {c} => Bound(b)'

LEMMA GoOnMoves ==
  ASSUME IInv, NEW c \in Calls, NEW s \in Steps, NEW v, GoOn(c, s, v)
  PROVE  /\ Moves(c) /\ HeldItemsStay(c)
         /\ pc'[c] = s /\ seen'[c] = v /\ answer' = answer /\ UNCHANGED itemVars
  BY DEF IInv, TypeOK, GoOn, Moves, HeldItemsStay, Bound, itemVars, lifecycle

LEMMA FinishMoves ==
  ASSUME IInv, NEW c \in Calls, NEW kind, Finish(c, kind)
  PROVE  /\ Moves(c) /\ pc'[c] = "done"
         /\ answer' = [answer EXCEPT ![c] = kind]
  BY DEF IInv, TypeOK, Finish, Moves, lifecycle

\* What is said of the others stays true.
LEMMA StepKeepsJustified ==
  ASSUME IInv, AnswersAreJustified, NEW c \in Calls, Moves(c), HeldItemsStay(c),
         AnswerIsJustified(c)'
  PROVE  AnswersAreJustified'
<1>. SUFFICES ASSUME NEW d \in Calls \ {c} PROVE AnswerIsJustified(d)'
  BY DEF AnswersAreJustified
<1>1. /\ AnswerIsJustified(d) /\ ItemIsHeld(d) /\ TypeOK
      /\ pc'[d] = pc[d] /\ seen'[d] = seen[d] /\ answer'[d] = answer[d]
      /\ command' = command /\ UNCHANGED <<projectState, editionState>>
  BY DEF AnswersAreJustified, IInv, CallIsSound, Moves, lifecycle
<1>2. At(d, "remove", {"notes", "commit"}) => Bound(command[d].item)'
  BY <1>1, CommandFields DEF AnswerIsJustified, ItemIsHeld, HeldItemsStay, At, Bound
<1>3. \A b : Writable(b)' <=> Writable(b)
  BY <1>1 DEF Writable, EditionOf
<1>. QED
  BY <1>1, <1>2, <1>3 DEF AnswerIsJustified, At, Bound

LEMMA FinishKeepsJustified ==
  ASSUME IInv, AnswersAreJustified, NEW c \in Calls, NEW kind, Finish(c, kind), HeldItemsStay(c)
  PROVE  AnswersAreJustified'
<1>1. Moves(c) /\ pc'[c] = "done"
  BY FinishMoves
<1>2. AnswerIsJustified(c)'
  BY <1>1 DEF AnswerIsJustified, At
<1>. QED
  BY <1>1, <1>2, StepKeepsJustified

LEMMA RefuseKeepsJustified ==
  ASSUME IInv, AnswersAreJustified, NEW c \in Calls, NEW kind, Finish(c, kind), UNCHANGED itemVars
  PROVE  AnswersAreJustified'
<1>1. HeldItemsStay(c)
  BY DEF HeldItemsStay, Bound, itemVars
<1>. QED
  BY <1>1, FinishKeepsJustified

LEMMA GoOnKeepsJustified ==
  ASSUME IInv, AnswersAreJustified, NEW c \in Calls, pc[c] # "done",
         NEW s \in Steps \ {"done"}, NEW v, GoOn(c, s, v),
         command[c].op = "remove" /\ s \in {"notes", "commit"} => Bound(command[c].item),
         command[c].op = "create" /\ s = "lockSubject" =>
           v \in BOOLEAN /\ (v \/ ~ Writable(command[c].item)),
         command[c].op = "append" /\ s = "lockNote" => command[v].item = command[c].item,
         command[c].op = "append" /\ s = "commit" => command[v.note].item = command[c].item
  PROVE  AnswersAreJustified'
<1>1. /\ Moves(c) /\ HeldItemsStay(c) /\ pc'[c] = s /\ seen'[c] = v /\ answer' = answer
      /\ command' = command /\ UNCHANGED <<bound, projectState, editionState>>
  BY GoOnMoves DEF Moves, itemVars, lifecycle
<1>2. answer[c] = None
  BY DEF AnswersAreJustified, AnswerIsJustified
<1>3. \A b : (Writable(b)' <=> Writable(b)) /\ (Bound(b)' <=> Bound(b))
  BY <1>1 DEF Writable, EditionOf, Bound
<1>4. AnswerIsJustified(c)'
  BY <1>1, <1>2, <1>3 DEF AnswerIsJustified, At
<1>. QED
  BY <1>1, <1>4, StepKeepsJustified

LEMMA ArriveKeepsJustified ==
  ASSUME IInv, AnswersAreJustified, NEW c \in Calls, Arrive(c)
  PROVE  AnswersAreJustified'
<1>1. PICK m \in Commands :
        /\ command' = [command EXCEPT ![c] = m]
        /\ pc' = [pc EXCEPT ![c] = IF m.op \in {"add", "remove"} THEN "check" ELSE "begin"]
  BY DEF Arrive
<1>2. /\ pc[c] = "idle" /\ TypeOK /\ UNCHANGED <<seen, answer, bound, projectState, editionState>>
      /\ pc'[c] \in {"check", "begin"}
      /\ \A d \in Calls \ {c} : command'[d] = command[d] /\ pc'[d] = pc[d]
  BY <1>1 DEF Arrive, IInv, TypeOK, itemVars, lifecycle
<1>. SUFFICES ASSUME NEW d \in Calls PROVE AnswerIsJustified(d)'
  BY DEF AnswersAreJustified
<1>3. AnswerIsJustified(d)
  BY DEF AnswersAreJustified
<1>4. CASE d = c
  BY <1>2, <1>3, <1>4 DEF AnswerIsJustified, At
<1>5. CASE d # c
  <2>1. /\ command'[d] = command[d] /\ pc'[d] = pc[d] /\ FollowsProgram(d) /\ NoteIsHeld(d)
        /\ RowsAreFinal
    BY <1>2, <1>5 DEF IInv, CallIsSound
  <2>2. command[d] # None /\ command[d].op # "add" =>
          command[d].item \in Calls \ {c} /\ command'[command[d].item] = command[command[d].item]
    BY <1>2, <2>1, CommandFields DEF FollowsProgram
  <2>3. \A n \in Calls : noteRow[n] # None => command'[n] = command[n]
    BY <1>2, <2>1 DEF RowsAreFinal, At
  <2>4. At(d, "append", {"lockNote"}) => command'[seen[d]] = command[seen[d]]
    BY <2>1, <2>3 DEF NoteIsHeld
  <2>5. At(d, "append", {"commit"}) => command'[seen[d].note] = command[seen[d].note]
    BY <2>1, <2>3 DEF NoteIsHeld
  <2>6. \A b \in Calls : command'[b] = command[b] => (Writable(b)' <=> Writable(b))
    BY <1>2 DEF Writable, EditionOf
  <2>. QED
    BY <1>2, <1>3, <2>1, <2>2, <2>4, <2>5, <2>6 DEF AnswerIsJustified, At, Bound
<1>. QED
  BY <1>4, <1>5

\* What was archived when a creator looked is archived for good.
LEMMA ArchivingKeepsJustified ==
  ASSUME IInv, AnswersAreJustified, ArchiveProject \/ \E e \in Editions : ArchiveEdition(e)
  PROVE  AnswersAreJustified'
<1>1. /\ UNCHANGED <<command, pc, seen, answer, bound>>
      /\ \A b \in Calls : ~ Writable(b) => ~ Writable(b)'
  <2>1. CASE ArchiveProject
    BY <2>1 DEF ArchiveProject, itemVars, Writable
  <2>2. ASSUME NEW e \in Editions, ArchiveEdition(e)
        PROVE  /\ UNCHANGED <<command, pc, seen, answer, bound>>
               /\ \A b \in Calls : ~ Writable(b) => ~ Writable(b)'
    BY <2>2 DEF ArchiveEdition, itemVars, Writable, EditionOf, IInv, TypeOK
  <2>. QED
    BY <2>1, <2>2
<1>2. \A d \in Calls : At(d, "create", {"lockSubject"}) => command[d].item \in Calls
  BY CommandFields DEF IInv, At
<1>. QED
  BY <1>1, <1>2 DEF AnswersAreJustified, AnswerIsJustified, At, Bound

\* A refusal, or the answer of a call that stored nothing.
LEMMA FailuresKeepJustified ==
  ASSUME IInv, AnswersAreJustified, NEW c \in Calls, ConnectionLost(c) \/ ConnectFails(c)
  PROVE  AnswersAreJustified'
  BY RefuseKeepsJustified DEF ConnectionLost, ConnectFails, Refuse

LEMMA AddKeepsJustified ==
  ASSUME IInv, AnswersAreJustified, NEW c \in Calls, Add(c)
  PROVE  AnswersAreJustified'
<1>1. ASSUME NEW kind, Refuse(c, kind) PROVE AnswersAreJustified'
  BY <1>1, RefuseKeepsJustified DEF Refuse
<1>2. ASSUME NEW s \in {"edition", "insert", "item", "commit"}, NEW v, GoOn(c, s, v),
             pc[c] \in {"project", "edition", "insert", "item"}
      PROVE  AnswersAreJustified'
  BY <1>2, OperationOf, GoOnKeepsJustified DEF Steps
<1>3. CASE ShareProject(c) \/ ShareEdition(c)
  BY <1>1, <1>2, <1>3 DEF ShareProject, ShareEdition
<1>4. CASE InsertBinding(c) \/ ReadItem(c)
  BY <1>1, <1>2, <1>4 DEF InsertBinding, ReadItem
<1>5. CASE CommitAdd(c)
  <2>1. /\ pc[c] = "commit" /\ command[c].op = "add" /\ AddIsProtected(c) /\ command[c] # None
        /\ TypeOK /\ command[c].edition \in Editions
    BY <1>5, OperationOf, CommandFields DEF CommitAdd, CallIsSound
  <2>2. bound' = bound \/ (bound[command[c].edition] = None
                             /\ bound' = [bound EXCEPT ![command[c].edition] = c])
    BY <1>5, <2>1 DEF CommitAdd, AddIsProtected, Inserting, Adding
  <2>3. HeldItemsStay(c)
    BY <2>1, <2>2, NoneIsNoValue DEF HeldItemsStay, Bound, TypeOK
  <2>4. PICK told \in {"created", "existing", "unavailable"} : Finish(c, told)
    BY <1>5 DEF CommitAdd, Succeed
  <2>. QED
    BY <2>3, <2>4, FinishKeepsJustified
<1>. QED
  BY <1>3, <1>4, <1>5 DEF Add

LEMMA RemoveKeepsJustified ==
  ASSUME IInv, AnswersAreJustified, NEW c \in Calls, Remove(c)
  PROVE  AnswersAreJustified'
<1>. DEFINE b == command[c].item
<1>0. /\ pc[c] \in {"lockItem", "notes", "commit"} /\ command[c].op = "remove" /\ command[c] # None
      /\ TypeOK /\ b \in Calls /\ ItemIsHeld(c) /\ AnswerIsJustified(c)
  BY OperationOf, CommandFields
     DEF Remove, LockItem, CheckNotes, CommitRemove, CallIsSound, AnswersAreJustified
<1>1. CASE LockItem(c)
  <2>1. CASE Bound(b)
    BY <1>0, <1>1, <2>1, GoOnKeepsJustified DEF LockItem, Steps
  <2>2. CASE ~ Bound(b)
    BY <1>1, <2>2, RefuseKeepsJustified DEF LockItem, Succeed
  <2>. QED
    BY <2>1, <2>2
<1>2. CASE CheckNotes(c)
  <2>1. Bound(b)
    BY <1>0, <1>2 DEF CheckNotes, AnswerIsJustified, At
  <2>. QED
    BY <1>0, <1>2, <2>1, GoOnKeepsJustified, RefuseKeepsJustified DEF CheckNotes, Refuse, Steps
<1>3. CASE CommitRemove(c)
  <2>1. holder[ItemRow(b)] = c
    BY <1>0, <1>3 DEF CommitRemove, ItemIsHeld, At
  <2>2. HeldItemsStay(c)
    BY <1>0, <1>3, <2>1 DEF CommitRemove, HeldItemsStay, Bound, TypeOK
  <2>. QED
    BY <1>3, <2>2, FinishKeepsJustified DEF CommitRemove, Succeed
<1>. QED
  BY <1>1, <1>2, <1>3 DEF Remove

LEMMA WriteKeepsJustified ==
  ASSUME IInv, AnswersAreJustified, NEW c \in Calls, Write(c)
  PROVE  AnswersAreJustified'
<1>1. ASSUME NEW kind, Refuse(c, kind) PROVE AnswersAreJustified'
  BY <1>1, RefuseKeepsJustified DEF Refuse
<1>2. CASE LockSubject(c) \/ CheckNoNote(c)
  <2>1. pc[c] \in {"lockSubject", "noNote"} /\ command[c].op = "create"
    BY <1>2, OperationOf DEF LockSubject, CheckNoNote
  <2>2. ASSUME NEW s \in {"noNote", "commit"}, GoOn(c, s, None) PROVE AnswersAreJustified'
    BY <2>1, <2>2, GoOnKeepsJustified DEF Steps
  <2>. QED
    BY <1>1, <1>2, <2>2 DEF LockSubject, CheckNoNote
<1>3. CASE FindNote(c)
  <2>. DEFINE ns == NotesOf(command[c].item)
              n == CHOOSE n \in ns : TRUE
  <2>1. pc[c] = "findNote" /\ command[c].op = "append"
    BY <1>3, OperationOf DEF FindNote
  <2>2. CASE GoOn(c, "lockNote", n) /\ ns # {}
    <3>1. n \in ns
      BY <2>2
    <3>2. command[n].item = command[c].item
      BY <3>1 DEF NotesOf, NotesIn
    <3>. HIDE DEF n
    <3>. QED
      BY <2>1, <2>2, <3>2, GoOnKeepsJustified DEF Steps
  <2>. QED
    BY <1>1, <1>3, <2>2 DEF FindNote
<1>4. CASE LockNote(c)
  <2>. DEFINE v == [note |-> seen[c], row |-> noteRow[seen[c]]]
  <2>1. pc[c] = "lockNote" /\ command[c].op = "append" /\ AnswerIsJustified(c) /\ command[c] # None
    BY <1>4, OperationOf DEF LockNote, AnswersAreJustified
  <2>2. command[seen[c]].item = command[c].item
    BY <2>1 DEF AnswerIsJustified, At
  <2>3. v.note = seen[c]
    OBVIOUS
  <2>. HIDE DEF v
  <2>4. CASE GoOn(c, "commit", v)
    BY <2>1, <2>2, <2>3, <2>4, GoOnKeepsJustified DEF Steps
  <2>. QED
    BY <1>1, <1>4, <2>4 DEF LockNote, v
<1>5. CASE CommitCreate(c) \/ CommitAppend(c)
  <2>1. HeldItemsStay(c)
    BY <1>5 DEF CommitCreate, CommitAppend, HeldItemsStay, Bound
  <2>. QED
    BY <1>5, <2>1, FinishKeepsJustified DEF CommitCreate, CommitAppend, Succeed
<1>. QED
  BY <1>2, <1>3, <1>4, <1>5 DEF Write

LEMMA ReadKeepsJustified ==
  ASSUME IInv, AnswersAreJustified, NEW c \in Calls, ReadSubject(c) \/ Read(c)
  PROVE  AnswersAreJustified'
<1>0. /\ pc[c] \in {"subject", "readNote", "readHistory"}
      /\ pc[c] # "subject" => command[c].op = "get"
      /\ command[c].op \in {"create", "append", "get"}
  BY OperationOf DEF ReadSubject, Read, ReadNote, ReadHistory
<1>1. ASSUME NEW kind, Refuse(c, kind) PROVE AnswersAreJustified'
  BY <1>1, RefuseKeepsJustified DEF Refuse
<1>2. ASSUME NEW s \in {"findNote", "readNote", "readHistory"}, NEW v, GoOn(c, s, v)
      PROVE  AnswersAreJustified'
  BY <1>0, <1>2, GoOnKeepsJustified DEF Steps
<1>3. CASE ReadSubject(c)
  <2>1. ASSUME GoOn(c, "lockSubject", Writable(command[c].item)) PROVE AnswersAreJustified'
    <3>1. Writable(command[c].item) \in BOOLEAN
      BY DEF Writable
    <3>. QED
      BY <1>0, <2>1, <3>1, GoOnKeepsJustified DEF Steps
  <2>. QED
    BY <1>1, <1>2, <1>3, <2>1 DEF ReadSubject
<1>4. CASE Read(c)
  BY <1>1, <1>2, <1>4, RefuseKeepsJustified DEF Read, ReadNote, ReadHistory, Succeed
<1>. QED
  BY <1>3, <1>4

LEMMA NextKeepsJustified ==
  ASSUME IInv, AnswersAreJustified, [Next]_vars
  PROVE  AnswersAreJustified'
<1>1. CASE UNCHANGED vars
  BY <1>1 DEF vars, itemVars, lifecycle, AnswersAreJustified, AnswerIsJustified, At, Bound, Writable,
              EditionOf
<1>2. ASSUME NEW c \in Calls, CheckProject(c) \/ BeginTransaction(c)
      PROVE  AnswersAreJustified'
  <2>1. CASE CheckProject(c)
    BY <2>1, GoOnKeepsJustified, RefuseKeepsJustified DEF CheckProject, Steps
  <2>2. CASE BeginTransaction(c)
    <3>1. PICK s \in {"project", "lockItem", "subject"} : GoOn(c, s, None) /\ pc[c] = "begin"
      BY <2>2 DEF BeginTransaction
    <3>. QED
      BY <3>1, GoOnKeepsJustified DEF Steps
  <2>. QED
    BY <1>2, <2>1, <2>2
<1>. QED
  BY <1>1, <1>2, ArriveKeepsJustified, FailuresKeepJustified, ArchivingKeepsJustified,
     AddKeepsJustified, RemoveKeepsJustified, WriteKeepsJustified, ReadKeepsJustified
     DEF Next, Serve

-----------------------------------------------------------------------------
(* Every step is a step of the registers, or none. *)

Latest == [b \in Calls |-> LatestOf(b)]
Waiting == {c \in Calls : Admitted(c)}

\* The register of an item holds the current revision of its only note.
LEMMA LatestIsCurrent ==
  ASSUME IInv, NEW b \in Calls
  PROVE  /\ NotesOf(b) = {} => LatestOf(b) = None
         /\ \A n \in NotesOf(b) :
              n \in Calls /\ noteRow[n] # None /\ LatestOf(b) = noteRow[n].current /\ LatestOf(b) # None
<1>. SUFFICES ASSUME NEW n \in NotesOf(b)
              PROVE  /\ n \in Calls /\ noteRow[n] # None
                     /\ LatestOf(b) = noteRow[n].current /\ LatestOf(b) # None
  BY DEF LatestOf
<1>1. n \in Calls /\ noteRow[n] # None /\ command[n].item = b
  BY DEF NotesOf, NotesIn
<1>2. NotesOf(b) = {n}
  BY <1>1 DEF IInv, NoteHasItsItem
<1>3. LatestOf(b) = noteRow[n].current
  BY <1>2 DEF LatestOf
<1>4. noteRow[n].current \in Calls
  BY <1>1 DEF IInv, TypeOK, Snapshot, Snapshots, NoteRows
<1>. QED
  BY <1>1, <1>3, <1>4, NoneIsNoValue

\* The statements of a transaction show nothing, but for the one that admits its call.
LEMMA GoOnShows ==
  ASSUME IInv, NEW c \in Calls, NEW s \in Steps, NEW v, GoOn(c, s, v)
  PROVE  /\ UNCHANGED <<command, answer, bound, Latest, projectState, editionState>>
         /\ (Admitted(c)' <=> Admitted(c)) => UNCHANGED Waiting
         /\ Admitted(c)' => Waiting' = Waiting \cup {c}
<1>1. /\ Moves(c) /\ UNCHANGED <<command, answer, itemVars, lifecycle>>
  BY GoOnMoves DEF Moves
<1>2. Latest' = Latest
  BY <1>1 DEF Latest, LatestOf, NotesOf, NotesIn, itemVars
<1>3. \A d \in Calls \ {c} : Admitted(d)' <=> Admitted(d)
  BY <1>1 DEF Moves, Admitted, At
<1>. QED
  BY <1>1, <1>2, <1>3 DEF Waiting, itemVars, lifecycle

LEMMA GoOnStutters ==
  ASSUME IInv, NEW c \in Calls, NEW s \in Steps, NEW v, GoOn(c, s, v), Admitted(c)' <=> Admitted(c)
  PROVE  UNCHANGED Promised!vars
  BY GoOnShows DEF Promised!vars, Latest, Waiting

\* A call that is served is waiting, and its answer is one step.
LEMMA ServedWaits ==
  ASSUME IInv, AnswersAreJustified, NEW c \in Calls, pc[c] \notin {"idle", "done"}
  PROVE  Promised!Waits(c, {command[c].op})
<1>1. command[c] # None
  BY OperationOf
<1>2. answer[c] = None
  BY DEF AnswersAreJustified, AnswerIsJustified
<1>. QED
  BY <1>1, <1>2 DEF Promised!Waits

LEMMA FinishTells ==
  ASSUME IInv, NEW c \in Calls, NEW kind, Finish(c, kind)
  PROVE  Promised!Tell(c, kind)
<1>1. /\ Moves(c) /\ pc'[c] = "done" /\ answer' = [answer EXCEPT ![c] = kind]
      /\ UNCHANGED <<command, projectState, editionState>>
  BY FinishMoves DEF Moves, lifecycle
<1>2. \A d \in Calls \ {c} : Admitted(d)' <=> Admitted(d)
  BY <1>1 DEF Moves, Admitted, At
<1>3. ~ Admitted(c)'
  BY <1>1 DEF Admitted, At
<1>4. Waiting' = Waiting \ {c}
  BY <1>2, <1>3 DEF Waiting
<1>. QED
  BY <1>1, <1>4 DEF Promised!Tell, Waiting

LEMMA LatestStays ==
  ASSUME IInv, NEW c \in Calls, NEW kind, Finish(c, kind), UNCHANGED noteRow
  PROVE  UNCHANGED Latest
  BY DEF Finish, Latest, LatestOf, NotesOf, NotesIn

LEMMA RefusalTells ==
  ASSUME IInv, AnswersAreJustified, NEW c \in Calls, pc[c] \notin {"idle", "done"},
         NEW kind, Finish(c, kind), UNCHANGED itemVars
  PROVE  /\ Promised!Waits(c, {command[c].op}) /\ Promised!Tell(c, kind)
         /\ UNCHANGED <<bound, Latest>>
  BY ServedWaits, FinishTells, LatestStays DEF itemVars

\* What is active for a call, in the words of the store.
LEMMA ActiveMeans ==
  ASSUME IInv, NEW c \in Calls, command[c] # None
  PROVE  /\ command[c].op = "add" => (Promised!Active(c) <=>
              projectState = "ACTIVE" /\ editionState[command[c].edition] = "ACTIVE")
         /\ command[c].op = "remove" => (Promised!Active(c) <=> projectState = "ACTIVE")
         /\ command[c].op \in {"create", "append"} =>
              (Promised!Active(c) <=> Writable(command[c].item))
         /\ command[c].op = "get" =>
              (Promised!Active(c) <=> editionState[EditionOf(command[c].item)] = "ACTIVE")
  BY DEF Promised!Active, Promised!Edition, Promised!Item, Writable, EditionOf

LEMMA UnavailableIsDenied ==
  ASSUME IInv, AnswersAreJustified, NEW c \in Calls, pc[c] \notin {"idle", "done"},
         Finish(c, "unavailable"), UNCHANGED itemVars
  PROVE  Promised!Deny(c)
<1>1. /\ Promised!Waits(c, {command[c].op}) /\ Promised!Tell(c, "unavailable")
      /\ UNCHANGED <<bound, Latest>>
  BY RefusalTells
<1>2. command[c].op \in {"add", "remove", "create", "append", "get"}
  BY OperationOf, CommandFields
<1>. QED
  BY <1>1, <1>2 DEF Promised!Deny, Promised!Waits, Latest

LEMMA ReadOnlyIsDenied ==
  ASSUME IInv, AnswersAreJustified, NEW c \in Calls, pc[c] \notin {"idle", "done"},
         Finish(c, "readOnly"), UNCHANGED itemVars, ~ Promised!Active(c)
  PROVE  Promised!Deny(c)
<1>1. /\ Promised!Waits(c, {command[c].op}) /\ Promised!Tell(c, "readOnly")
      /\ UNCHANGED <<bound, Latest>>
  BY RefusalTells
<1>2. command[c].op \in {"add", "remove", "create", "append", "get"}
  BY OperationOf, CommandFields
<1>. QED
  BY <1>1, <1>2 DEF Promised!Deny, Promised!Waits, Latest

LEMMA NotFoundIsDenied ==
  ASSUME IInv, AnswersAreJustified, NEW c \in Calls, pc[c] \notin {"idle", "done"},
         Finish(c, "notFound"), UNCHANGED itemVars,
         command[c].op # "add", ~ Bound(command[c].item)
  PROVE  Promised!Deny(c)
<1>1. /\ Promised!Waits(c, {command[c].op}) /\ Promised!Tell(c, "notFound")
      /\ UNCHANGED <<bound, Latest>>
  BY RefusalTells
<1>2. command[c].op \in {"remove", "create", "append", "get"}
  BY OperationOf, CommandFields
<1>. QED
  BY <1>1, <1>2
     DEF Promised!Deny, Promised!Waits, Promised!Bound, Promised!Item, Bound, Latest

\* addEdition: its COMMIT binds the edition; "existing" was true when it looked.
LEMMA AddImplements ==
  ASSUME IInv, AnswersAreJustified, NEW c \in Calls, Add(c)
  PROVE  [Promised!Next]_(Promised!vars)
<1>. DEFINE e == command[c].edition
<1>0. /\ pc[c] \in {"project", "edition", "insert", "item", "commit"}
      /\ command[c].op = "add" /\ command[c] # None /\ TypeOK /\ e \in Editions
      /\ AddIsProtected(c)
  BY OperationOf, CommandFields
     DEF Add, ShareProject, ShareEdition, InsertBinding, ReadItem, CommitAdd, CallIsSound
<1>1. Promised!Active(c) <=> projectState = "ACTIVE" /\ editionState[e] = "ACTIVE"
  BY <1>0, ActiveMeans
<1>2. CASE ShareProject(c) \/ ShareEdition(c)
  <2>1. ASSUME NEW s \in {"edition", "insert"}, GoOn(c, s, None)
        PROVE  UNCHANGED Promised!vars
    <3>1. ~ Admitted(c) /\ ~ Admitted(c)'
      BY <1>0, <1>2, <2>1, GoOnMoves DEF ShareProject, ShareEdition, Admitted, At, Moves, Steps
    <3>. QED
      BY <2>1, <3>1, GoOnStutters DEF Steps
  <2>2. CASE Refuse(c, "readOnly") /\ ~ (projectState = "ACTIVE" /\ editionState[e] = "ACTIVE")
    BY <1>0, <1>1, <1>2, <2>2, ReadOnlyIsDenied
       DEF ShareProject, ShareEdition, Refuse, Promised!Next
  <2>. QED
    BY <1>2, <2>1, <2>2 DEF ShareProject, ShareEdition
<1>3. CASE InsertBinding(c)
  <2>1. PICK v : GoOn(c, "item", v)
    BY <1>3 DEF InsertBinding
  <2>2. ~ Admitted(c) /\ ~ Admitted(c)'
    BY <1>0, <1>3, <2>1, GoOnMoves DEF InsertBinding, Admitted, At, Moves, Steps
  <2>. QED
    BY <2>1, <2>2, GoOnStutters DEF Steps
<1>4. CASE ReadItem(c)
  <2>1. CASE Refuse(c, "unavailable")
    BY <1>4, <2>1, UnavailableIsDenied DEF ReadItem, Refuse, Promised!Next
  <2>2. CASE GoOn(c, "commit", seen[c]) /\ (seen[c] = c \/ bound[e] # None)
    <3>1. /\ pc'[c] = "commit" /\ seen'[c] = seen[c] /\ command' = command
          /\ pc[c] = "item"
      BY <1>4, <2>2, GoOnMoves DEF ReadItem, Steps, Moves
    <3>2. ~ Admitted(c) /\ (Admitted(c)' <=> seen[c] # c)
      BY <1>0, <3>1 DEF Admitted, At
    <3>3. CASE seen[c] = c
      BY <2>2, <3>2, <3>3, GoOnStutters DEF Steps
    <3>4. CASE seen[c] # c
      <4>1. /\ Waiting' = Waiting \cup {c}
            /\ UNCHANGED <<command, answer, bound, Latest, projectState, editionState>>
        BY <2>2, <3>2, <3>4, GoOnShows DEF Steps
      <4>2. Promised!Waits(c, {"add"}) /\ bound[Promised!Edition(c)] # None
        BY <1>0, <2>2, <3>1, <3>4, ServedWaits DEF Promised!Edition
      <4>3. Promised!Active(c)
        BY <1>0, <1>1, <3>1 DEF AddIsProtected, SharesProject, Adding
      <4>4. Promised!Admit(c)
        BY <4>1, <4>2, <4>3 DEF Promised!Admit, Latest, Waiting
      <4>. QED
        BY <4>4 DEF Promised!Next
    <3>. QED
      BY <3>3, <3>4
  <2>. QED
    BY <1>4, <2>1, <2>2 DEF ReadItem
<1>5. CASE CommitAdd(c)
  <2>0. /\ pc[c] = "commit" /\ Promised!Active(c) /\ Promised!Waits(c, {"add"})
        /\ noteRow' = noteRow /\ Promised!Edition(c) = e
        /\ Inserting(c) => bound[e] = None
    BY <1>0, <1>1, <1>5, ServedWaits
       DEF CommitAdd, AddIsProtected, SharesProject, Adding, Promised!Edition
  <2>1. CASE seen[c] = c
    <3>1. PICK told \in {"created", "unavailable"} :
            Finish(c, told) /\ bound' = [bound EXCEPT ![e] = c] /\ bound[e] = None
      BY <1>0, <1>5, <2>0, <2>1 DEF CommitAdd, Succeed, Inserting, Adding
    <3>2. Promised!Tell(c, told) /\ UNCHANGED Latest
      BY <2>0, <3>1, FinishTells, LatestStays
    <3>3. Promised!Bind(c)
      BY <2>0, <3>1, <3>2 DEF Promised!Bind, Promised!Done, Latest
    <3>. QED
      BY <3>3 DEF Promised!Next
  <2>2. CASE seen[c] # c
    <3>1. PICK told \in {"existing", "unavailable"} :
            Finish(c, told) /\ bound' = bound /\ UNCHANGED itemVars /\ c \in Waiting
      BY <1>0, <1>5, <2>0, <2>2 DEF CommitAdd, Succeed, Waiting, Admitted, At, itemVars
    <3>2. CASE told = "unavailable"
      BY <2>0, <3>1, <3>2, UnavailableIsDenied DEF Promised!Next
    <3>3. CASE told = "existing"
      <4>1. Promised!Tell(c, "existing") /\ UNCHANGED Latest
        BY <2>0, <3>1, <3>3, FinishTells, LatestStays
      <4>2. Promised!Report(c)
        BY <2>0, <3>1, <4>1 DEF Promised!Report, Latest, Waiting
      <4>. QED
        BY <4>2 DEF Promised!Next
    <3>. QED
      BY <3>1, <3>2, <3>3
  <2>. QED
    BY <2>1, <2>2
<1>. QED
  BY <1>2, <1>3, <1>4, <1>5 DEF Add

\* removeEdition: whoever is told "removed" has removed it, and nobody else.
LEMMA RemoveImplements ==
  ASSUME IInv, AnswersAreJustified, NEW c \in Calls, Remove(c)
  PROVE  [Promised!Next]_(Promised!vars)
<1>. DEFINE b == command[c].item
<1>0. /\ pc[c] \in {"lockItem", "notes", "commit"} /\ command[c].op = "remove" /\ command[c] # None
      /\ b \in Calls /\ ItemIsHeld(c) /\ AnswerIsJustified(c) /\ ~ Admitted(c)
  BY OperationOf, CommandFields
     DEF Remove, LockItem, CheckNotes, CommitRemove, CallIsSound, AnswersAreJustified, Admitted, At
<1>1. Promised!Waits(c, {"remove"}) /\ Promised!Item(c) = b /\ (Promised!Bound(b) <=> Bound(b))
  BY <1>0, ServedWaits DEF Promised!Item, Promised!Bound, Bound
<1>2. ASSUME NEW s \in {"notes", "commit"}, GoOn(c, s, None)
      PROVE  UNCHANGED Promised!vars
  <2>1. ~ Admitted(c)'
    BY <1>0, <1>2, GoOnMoves DEF Admitted, At, Moves, Steps
  <2>. QED
    BY <1>0, <1>2, <2>1, GoOnStutters DEF Steps
<1>3. CASE LockItem(c)
  <2>1. CASE Finish(c, "notFound") /\ ~ Bound(b) /\ UNCHANGED itemVars
    BY <1>0, <2>1, NotFoundIsDenied DEF Promised!Next
  <2>2. CASE Finish(c, "unavailable") /\ UNCHANGED itemVars
    BY <1>0, <2>2, UnavailableIsDenied DEF Promised!Next
  <2>. QED
    BY <1>2, <1>3, <2>1, <2>2 DEF LockItem, Succeed
<1>4. CASE CheckNotes(c)
  <2>1. CASE Refuse(c, "hasNote") /\ NotesOf(b) # {}
    <3>1. Promised!Tell(c, "hasNote") /\ UNCHANGED <<bound, Latest>>
      BY <1>0, <2>1, RefusalTells DEF Refuse
    <3>2. Latest[b] # None
      BY <1>0, <2>1, LatestIsCurrent DEF Latest
    <3>3. Promised!Deny(c)
      BY <1>1, <3>1, <3>2 DEF Promised!Deny, Latest
    <3>. QED
      BY <3>3 DEF Promised!Next
  <2>. QED
    BY <1>2, <1>4, <2>1 DEF CheckNotes
<1>5. CASE CommitRemove(c)
  <2>1. NotesOf(b) = {} /\ Bound(b)
    BY <1>0, <1>5 DEF CommitRemove, ItemIsHeld, AnswerIsJustified, At
  <2>2. PICK told \in {"removed", "unavailable"} :
        /\ Finish(c, told) /\ noteRow' = noteRow
        /\ bound' = [e \in Editions |-> IF bound[e] = b THEN None ELSE bound[e]]
    BY <1>5 DEF CommitRemove, Succeed
  <2>3. Promised!Tell(c, told) /\ UNCHANGED Latest /\ Latest[b] = None
    BY <1>0, <2>1, <2>2, FinishTells, LatestStays, LatestIsCurrent DEF Latest
  <2>4. Promised!Unbind(c)
    BY <1>1, <2>1, <2>2, <2>3 DEF Promised!Unbind, Promised!Done, Latest
  <2>. QED
    BY <2>4 DEF Promised!Next
<1>. QED
  BY <1>3, <1>4, <1>5 DEF Remove

\* The first statement of a note admits its call, or tells what is wrong with it.
LEMMA ReadSubjectImplements ==
  ASSUME IInv, AnswersAreJustified, NEW c \in Calls, ReadSubject(c)
  PROVE  [Promised!Next]_(Promised!vars)
<1>. DEFINE b == command[c].item
<1>0. /\ pc[c] = "subject" /\ command[c].op \in {"create", "append", "get"} /\ command[c] # None
      /\ b \in Calls /\ ~ Admitted(c)
  BY OperationOf, CommandFields DEF ReadSubject, Admitted, At
<1>1. /\ Promised!Waits(c, {"create", "append", "get"}) /\ Promised!Item(c) = b
      /\ Promised!Bound(b) <=> Bound(b)
  BY <1>0, ServedWaits DEF Promised!Waits, Promised!Item, Promised!Bound, Bound
<1>2. CASE Refuse(c, "notFound") /\ ~ Bound(b)
  BY <1>0, <1>2, NotFoundIsDenied DEF Refuse, Promised!Next
<1>3. CASE Refuse(c, "readOnly") /\ ~ Promised!Active(c)
  BY <1>0, <1>3, ReadOnlyIsDenied DEF Refuse, Promised!Next
<1>4. ASSUME NEW s \in Steps, NEW v, GoOn(c, s, v), Admitted(c)', Bound(b), Promised!Active(c)
      PROVE  Promised!Next
  <2>1. /\ Waiting' = Waiting \cup {c}
        /\ UNCHANGED <<command, answer, bound, Latest, projectState, editionState>>
    BY <1>4, GoOnShows
  <2>2. Promised!Admit(c)
    BY <1>1, <1>4, <2>1 DEF Promised!Admit, Latest, Waiting
  <2>. QED
    BY <2>2 DEF Promised!Next
<1>5. CASE command[c].op = "create" /\ Bound(b) /\ GoOn(c, "lockSubject", Writable(b))
  <2>1. /\ pc'[c] = "lockSubject" /\ seen'[c] = Writable(b) /\ command' = command
        /\ "lockSubject" \in Steps
    BY <1>5, GoOnMoves DEF Steps, Moves
  <2>2. (Writable(b) <=> Promised!Active(c)) /\ Writable(b) \in BOOLEAN
    BY <1>0, <1>5, ActiveMeans DEF Writable
  <2>3. CASE Writable(b)
    <3>1. Admitted(c)'
      BY <1>0, <1>5, <2>1, <2>2, <2>3 DEF Admitted, At
    <3>. QED
      BY <1>4, <1>5, <2>1, <2>2, <2>3, <3>1
  <2>4. CASE ~ Writable(b)
    <3>1. ~ Admitted(c)'
      BY <1>5, <2>1, <2>2, <2>4 DEF Admitted, At
    <3>. QED
      BY <1>0, <1>5, <2>1, <3>1, GoOnStutters
  <2>. QED
    BY <2>3, <2>4
<1>6. ASSUME command[c].op = "append", Bound(b), Writable(b), GoOn(c, "findNote", None)
      PROVE  Promised!Next
  <2>1. /\ pc'[c] = "findNote" /\ command' = command /\ "findNote" \in Steps
    BY <1>6, GoOnMoves DEF Steps, Moves
  <2>2. Promised!Active(c) /\ Admitted(c)'
    BY <1>0, <1>6, <2>1, ActiveMeans DEF Admitted, At
  <2>. QED
    BY <1>4, <1>6, <2>1, <2>2
<1>7. ASSUME NEW v, command[c].op = "get", Bound(b), editionState[EditionOf(b)] = "ACTIVE",
             GoOn(c, "readNote", v)
      PROVE  Promised!Next
  <2>1. /\ pc'[c] = "readNote" /\ command' = command /\ "readNote" \in Steps
    BY <1>7, GoOnMoves DEF Steps, Moves
  <2>2. Promised!Active(c) /\ Admitted(c)'
    BY <1>0, <1>7, <2>1, ActiveMeans DEF Admitted, At
  <2>. QED
    BY <1>4, <1>7, <2>1, <2>2
<1>8. CASE command[c].op = "append" /\ Bound(b)
  BY <1>0, <1>3, <1>6, <1>8, ActiveMeans DEF ReadSubject
<1>9. CASE command[c].op = "get" /\ Bound(b)
  BY <1>0, <1>3, <1>7, <1>9, ActiveMeans DEF ReadSubject
<1>10. CASE command[c].op = "create" /\ Bound(b)
  BY <1>5, <1>10 DEF ReadSubject
<1>11. CASE ~ Bound(b)
  BY <1>2, <1>11 DEF ReadSubject
<1>. QED
  BY <1>0, <1>8, <1>9, <1>10, <1>11

\* create: its COMMIT writes the first revision of an item that has none.
LEMMA CreateImplements ==
  ASSUME IInv, AnswersAreJustified, NEW c \in Calls,
         LockSubject(c) \/ CheckNoNote(c) \/ CommitCreate(c)
  PROVE  [Promised!Next]_(Promised!vars)
<1>. DEFINE b == command[c].item
<1>0. /\ pc[c] \in {"lockSubject", "noNote", "commit"} /\ command[c].op = "create"
      /\ command[c] # None /\ b \in Calls /\ TypeOK /\ ItemIsHeld(c) /\ AnswerIsJustified(c)
  BY OperationOf, CommandFields
     DEF LockSubject, CheckNoNote, CommitCreate, CallIsSound, AnswersAreJustified
<1>1. /\ Promised!Waits(c, {"create"}) /\ Promised!Item(c) = b
      /\ Promised!Bound(b) <=> Bound(b)
  BY <1>0, ServedWaits DEF Promised!Item, Promised!Bound, Bound
<1>2. CASE LockSubject(c)
  <2>0. /\ pc[c] = "lockSubject" /\ seen[c] \in BOOLEAN /\ (seen[c] \/ ~ Writable(b))
    BY <1>0, <1>2 DEF LockSubject, AnswerIsJustified, At
  <2>1. CASE Refuse(c, "notFound") /\ ~ Bound(b)
    BY <1>0, <2>1, NotFoundIsDenied DEF Refuse, Promised!Next
  <2>2. CASE Refuse(c, "readOnly") /\ ~ seen[c]
    BY <1>0, <2>0, <2>2, ReadOnlyIsDenied, ActiveMeans DEF Refuse, Promised!Next
  <2>3. CASE GoOn(c, "noNote", None) /\ seen[c]
    <3>1. Admitted(c) /\ Admitted(c)'
      BY <1>0, <2>0, <2>3, GoOnMoves DEF Admitted, At, Moves, Steps
    <3>. QED
      BY <2>3, <3>1, GoOnStutters DEF Steps
  <2>. QED
    BY <1>2, <2>1, <2>2, <2>3 DEF LockSubject
<1>3. CASE CheckNoNote(c)
  <2>1. CASE GoOn(c, "commit", None)
    <3>1. Admitted(c) /\ Admitted(c)'
      BY <1>0, <1>3, <2>1, GoOnMoves DEF CheckNoNote, Admitted, At, Moves, Steps
    <3>. QED
      BY <2>1, <3>1, GoOnStutters DEF Steps
  <2>2. CASE Refuse(c, "exists") /\ NotesOf(b) # {}
    <3>1. Promised!Tell(c, "exists") /\ UNCHANGED <<bound, Latest>>
      BY <1>0, <2>2, RefusalTells DEF Refuse
    <3>2. Latest[b] # None
      BY <1>0, <2>2, LatestIsCurrent DEF Latest
    <3>3. Promised!Deny(c)
      BY <1>1, <3>1, <3>2 DEF Promised!Deny, Latest
    <3>. QED
      BY <3>3 DEF Promised!Next
  <2>. QED
    BY <1>3, <2>1, <2>2 DEF CheckNoNote
<1>4. CASE CommitCreate(c)
  <2>1. NotesOf(b) = {} /\ Bound(b) /\ pc[c] = "commit" /\ c \in Waiting
    BY <1>0, <1>4 DEF CommitCreate, ItemIsHeld, At, Waiting, Admitted
  <2>2. PICK told \in {"created", "unavailable"} :
        /\ Finish(c, told) /\ bound' = bound /\ command' = command
        /\ noteRow' = [noteRow EXCEPT ![c] = [current |-> c, next |-> 2]]
    BY <1>4 DEF CommitCreate, Succeed, Finish
  <2>3. noteRow \in [Calls -> NoteRows \cup {None}] /\ noteRow[c] = None
    BY <1>0, <2>1 DEF IInv, TypeOK, Snapshot, Snapshots, RowsAreFinal, At
  <2>4. \A x \in Calls : NotesOf(x)' = IF x = b THEN {c} ELSE NotesOf(x)
    BY <2>1, <2>2, <2>3, NoneIsNoValue DEF NotesOf, NotesIn, NoteRows
  <2>5. noteRow'[c].current = c /\ \A n \in Calls : noteRow[n] # None => noteRow'[n] = noteRow[n]
    BY <2>2, <2>3
  <2>6. ASSUME NEW x \in Calls PROVE LatestOf(x)' = IF x = b THEN c ELSE LatestOf(x)
    <3>1. CASE x = b
      BY <2>4, <2>5, <3>1 DEF LatestOf
    <3>2. CASE x # b
      <4>1. NotesOf(x)' = NotesOf(x) /\ \A n \in NotesOf(x) : noteRow'[n] = noteRow[n]
        BY <2>4, <2>5, <3>2 DEF NotesOf, NotesIn
      <4>. QED
        BY <3>2, <4>1 DEF LatestOf
    <3>. QED
      BY <3>1, <3>2
  <2>7. Latest' = [Latest EXCEPT ![b] = c] /\ Latest[b] = None
    BY <1>0, <2>1, <2>6, LatestIsCurrent DEF Latest
  <2>8. Promised!Tell(c, told)
    BY <2>2, FinishTells
  <2>9. Promised!Write(c)
    BY <1>1, <2>1, <2>2, <2>7, <2>8 DEF Promised!Write, Promised!Done, Latest, Waiting
  <2>. QED
    BY <2>9 DEF Promised!Next
<1>. QED
  BY <1>2, <1>3, <1>4

\* appendRevision: its COMMIT replaces the revision its author had seen.
LEMMA AppendImplements ==
  ASSUME IInv, AnswersAreJustified, NEW c \in Calls,
         FindNote(c) \/ LockNote(c) \/ CommitAppend(c)
  PROVE  [Promised!Next]_(Promised!vars)
<1>. DEFINE b == command[c].item
<1>0. /\ pc[c] \in {"findNote", "lockNote", "commit"} /\ command[c].op = "append"
      /\ command[c] # None /\ b \in Calls /\ TypeOK /\ NoteIsHeld(c) /\ AnswerIsJustified(c)
      /\ c \in Waiting
  BY OperationOf, CommandFields
     DEF FindNote, LockNote, CommitAppend, CallIsSound, AnswersAreJustified, Waiting, Admitted, At
<1>1. /\ Promised!Waits(c, {"append"}) /\ Promised!Item(c) = b
      /\ Promised!Bound(b) <=> Bound(b)
  BY <1>0, ServedWaits DEF Promised!Item, Promised!Bound, Bound
<1>2. ASSUME NEW s \in {"lockNote", "commit"}, NEW v, GoOn(c, s, v)
      PROVE  UNCHANGED Promised!vars
  <2>1. Admitted(c) /\ Admitted(c)'
    BY <1>0, <1>2, GoOnMoves DEF Waiting, Admitted, At, Moves, Steps
  <2>. QED
    BY <1>2, <2>1, GoOnStutters DEF Steps
<1>3. CASE FindNote(c)
  <2>1. CASE Refuse(c, "notFound") /\ NotesOf(b) = {}
    <3>1. Promised!Tell(c, "notFound") /\ UNCHANGED <<bound, Latest>>
      BY <1>0, <2>1, RefusalTells DEF Refuse
    <3>2. Latest[b] = None
      BY <1>0, <2>1, LatestIsCurrent DEF Latest
    <3>3. Promised!Deny(c)
      BY <1>1, <3>1, <3>2 DEF Promised!Deny, Latest
    <3>. QED
      BY <3>3 DEF Promised!Next
  <2>2. ~ Refuse(c, "corrupt")
    <3>1. answer \in [Calls -> Outcomes \cup {None}] /\ answer'[c] # "corrupt"
      BY <1>0, <1>3, FindNoteKeepsIInv DEF TypeOK, IInv, NeverCorrupt
    <3>. QED
      BY <3>1 DEF Refuse, Finish
  <2>. QED
    BY <1>2, <1>3, <2>1, <2>2 DEF FindNote
<1>4. CASE LockNote(c)
  <2>. DEFINE n == seen[c]
  <2>1. n \in NotesOf(b) /\ noteRow[n] # None
    BY <1>0, <1>4 DEF LockNote, NoteIsHeld, AnswerIsJustified, At, NotesOf, NotesIn
  <2>2. CASE Refuse(c, "stale") /\ command[c].base # noteRow[n].current
    <3>1. Promised!Tell(c, "stale") /\ UNCHANGED <<bound, Latest>>
      BY <1>0, <2>2, RefusalTells DEF Refuse
    <3>2. Latest[b] \notin {None, command[c].base}
      BY <1>0, <2>1, <2>2, LatestIsCurrent DEF Latest
    <3>3. Promised!Deny(c)
      BY <1>1, <3>1, <3>2 DEF Promised!Deny, Latest
    <3>. QED
      BY <3>3 DEF Promised!Next
  <2>. QED
    BY <1>2, <1>4, <2>2 DEF LockNote, BaseIsCurrent
<1>5. CASE CommitAppend(c)
  <2>. DEFINE n == seen[c].note
  <2>1. /\ n \in NotesOf(b) /\ noteRow[n] # None /\ command[c].base = noteRow[n].current
        /\ pc[c] = "commit"
    BY <1>0, <1>5 DEF CommitAppend, NoteIsHeld, AnswerIsJustified, At, NotesOf, NotesIn
  <2>2. n \in Calls /\ NotesOf(b) = {n} /\ Bound(b) /\ command[n].item = b
    BY <2>1 DEF IInv, NoteHasItsItem, NotesOf, NotesIn
  <2>. DEFINE k == noteRow[n].next + 1
  <2>3. PICK told \in {"created", "unavailable"} :
        /\ Finish(c, told) /\ bound' = bound /\ command' = command
        /\ noteRow' = [noteRow EXCEPT ![n] = [current |-> c, next |-> k]]
    BY <1>0, <1>5, <2>1 DEF CommitAppend, Succeed, Finish, NoteIsHeld, At
  <2>. HIDE DEF n
  <2>4. noteRow \in [Calls -> NoteRows \cup {None}] /\ [current |-> c, next |-> k] # None
    <3>1. noteRow \in [Calls -> NoteRows \cup {None}]
      BY <1>0 DEF TypeOK, Snapshot, Snapshots
    <3>2. [current |-> c, next |-> k] \in NoteRows
      BY <2>1, <2>2, <3>1 DEF NoteRows
    <3>. QED
      BY <3>1, <3>2, NoneIsNoValue
  <2>5. \A x \in Calls : NotesOf(x)' = NotesOf(x)
    BY <2>1, <2>2, <2>3, <2>4 DEF NotesOf, NotesIn
  <2>6. ASSUME NEW x \in Calls PROVE LatestOf(x)' = IF x = b THEN c ELSE LatestOf(x)
    <3>1. CASE x = b
      BY <2>2, <2>3, <2>4, <2>5, <3>1 DEF LatestOf
    <3>2. CASE x # b
      <4>1. NotesOf(x)' = NotesOf(x) /\ \A m \in NotesOf(x) : noteRow'[m] = noteRow[m]
        BY <2>2, <2>3, <2>4, <2>5, <3>2 DEF NotesOf, NotesIn
      <4>. QED
        BY <3>2, <4>1 DEF LatestOf
    <3>. QED
      BY <3>1, <3>2
  <2>7. Latest' = [Latest EXCEPT ![b] = c] /\ Latest[b] = command[c].base
    BY <1>0, <2>1, <2>6, LatestIsCurrent DEF Latest
  <2>8. Promised!Tell(c, told)
    BY <2>3, FinishTells
  <2>9. Promised!Write(c)
    BY <1>0, <1>1, <2>2, <2>3, <2>7, <2>8 DEF Promised!Write, Promised!Done, Latest, Waiting
  <2>. QED
    BY <2>9 DEF Promised!Next
<1>. QED
  BY <1>3, <1>4, <1>5

\* get: what it tells, it saw when it was admitted.
LEMMA ReadImplements ==
  ASSUME IInv, AnswersAreJustified, NEW c \in Calls, Read(c)
  PROVE  [Promised!Next]_(Promised!vars)
<1>0. /\ pc[c] \in {"readNote", "readHistory"} /\ command[c].op = "get" /\ command[c] # None
      /\ c \in Waiting /\ Promised!Waits(c, {"get"}) /\ TypeOK
  BY OperationOf, ServedWaits DEF Read, ReadNote, ReadHistory, Waiting, Admitted, At
<1>1. CASE Finish(c, "found") /\ UNCHANGED itemVars
  <2>1. Promised!Tell(c, "found") /\ UNCHANGED <<bound, Latest>>
    BY <1>0, <1>1, RefusalTells
  <2>2. Promised!Report(c)
    BY <1>0, <2>1 DEF Promised!Report, Latest, Waiting
  <2>. QED
    BY <2>2 DEF Promised!Next
<1>2. ~ Refuse(c, "corrupt")
  <2>1. answer \in [Calls -> Outcomes \cup {None}] /\ answer'[c] # "corrupt"
    BY <1>0, ReadNoteKeepsIInv, ReadHistoryKeepsIInv DEF Read, TypeOK, IInv, NeverCorrupt
  <2>. QED
    BY <2>1 DEF Refuse, Finish
<1>3. ASSUME NEW v, GoOn(c, "readHistory", v)
      PROVE  UNCHANGED Promised!vars
  <2>1. Admitted(c) /\ Admitted(c)'
    BY <1>0, <1>3, GoOnMoves DEF Waiting, Admitted, At, Moves, Steps
  <2>. QED
    BY <1>3, <2>1, GoOnStutters DEF Steps
<1>4. CASE Finish(c, "unavailable") /\ UNCHANGED itemVars
  BY <1>0, <1>4, UnavailableIsDenied DEF Promised!Next
<1>. QED
  BY <1>1, <1>2, <1>3, <1>4 DEF Read, ReadNote, ReadHistory, Succeed

LEMMA StartImplements ==
  ASSUME IInv, AnswersAreJustified, NEW c \in Calls, CheckProject(c) \/ BeginTransaction(c)
  PROVE  [Promised!Next]_(Promised!vars)
<1>0. pc[c] \in {"check", "begin"} /\ command[c] # None /\ TypeOK /\ pc[c] \in Program(command[c].op)
  BY OperationOf DEF CheckProject, BeginTransaction
<1>1. ASSUME NEW s \in {"begin", "project", "lockItem", "subject"}, GoOn(c, s, None)
      PROVE  UNCHANGED Promised!vars
  <2>1. ~ Admitted(c) /\ ~ Admitted(c)'
    BY <1>0, <1>1, GoOnMoves DEF Admitted, At, Moves, Steps
  <2>. QED
    BY <1>1, <2>1, GoOnStutters DEF Steps
<1>2. CASE CheckProject(c)
  <2>1. CASE Finish(c, "readOnly") /\ projectState # "ACTIVE" /\ UNCHANGED itemVars
    <3>1. command[c].op \in {"add", "remove"}
      BY <1>0, <1>2, CommandFields DEF CheckProject, Program
    <3>. QED
      BY <1>0, <2>1, <3>1, ActiveMeans, ReadOnlyIsDenied DEF Promised!Next
  <2>. QED
    BY <1>1, <1>2, <2>1 DEF CheckProject
<1>3. CASE BeginTransaction(c)
  BY <1>1, <1>3 DEF BeginTransaction
<1>. QED
  BY <1>2, <1>3

LEMMA FailuresImplement ==
  ASSUME IInv, AnswersAreJustified, NEW c \in Calls, ConnectionLost(c) \/ ConnectFails(c)
  PROVE  [Promised!Next]_(Promised!vars)
<1>1. pc[c] \notin {"idle", "done"} /\ Finish(c, "unavailable") /\ UNCHANGED itemVars
  BY DEF ConnectionLost, ConnectFails, Refuse, InTransaction
<1>. QED
  BY <1>1, UnavailableIsDenied DEF Promised!Next

LEMMA ArriveImplements ==
  ASSUME IInv, AnswersAreJustified, NEW c \in Calls, Arrive(c)
  PROVE  [Promised!Next]_(Promised!vars)
<1>1. PICK m \in Commands :
        /\ command' = [command EXCEPT ![c] = m]
        /\ pc' = [pc EXCEPT ![c] = IF m.op \in {"add", "remove"} THEN "check" ELSE "begin"]
  BY DEF Arrive
<1>2. /\ pc[c] = "idle" /\ TypeOK /\ command[c] = None
      /\ UNCHANGED <<seen, answer, bound, noteRow, projectState, editionState>>
      /\ pc'[c] \in {"check", "begin"}
      /\ \A d \in Calls \ {c} : command'[d] = command[d] /\ pc'[d] = pc[d]
  <2>1. pc[c] = "idle" /\ TypeOK /\ FollowsProgram(c)
    BY DEF Arrive, IInv, CallIsSound
  <2>2. command[c] = None
    BY <2>1, CommandFields DEF FollowsProgram, Program
  <2>. QED
    BY <1>1, <2>1, <2>2 DEF Arrive, TypeOK, itemVars, lifecycle
<1>3. Latest' = Latest
  <2>1. \A n \in Calls : noteRow[n] # None => command'[n] = command[n]
    BY <1>2 DEF IInv, RowsAreFinal, At
  <2>2. ASSUME NEW b \in Calls PROVE LatestOf(b)' = LatestOf(b)
    <3>1. NotesOf(b)' = NotesOf(b)
      BY <1>2, <2>1 DEF NotesOf, NotesIn
    <3>. QED
      BY <1>2, <3>1 DEF LatestOf
  <2>. QED
    BY <2>2 DEF Latest
<1>4. Waiting' = Waiting
  <2>1. ~ Admitted(c) /\ ~ Admitted(c)'
    BY <1>2 DEF Admitted, At
  <2>2. \A d \in Calls \ {c} : Admitted(d)' <=> Admitted(d)
    BY <1>2 DEF Admitted, At
  <2>. QED
    BY <2>1, <2>2 DEF Waiting
<1>5. Promised!Ask(c)
  BY <1>1, <1>2, <1>3, <1>4 DEF Promised!Ask, Promised!Commands, Commands, Latest, Waiting
<1>. QED
  BY <1>5 DEF Promised!Next

LEMMA ArchivingImplements ==
  ASSUME ArchiveProject \/ \E e \in Editions : ArchiveEdition(e)
  PROVE  Promised!Next
<1>1. /\ UNCHANGED <<command, pc, seen, answer, itemVars>>
      /\ \/ projectState' = "ARCHIVED" /\ UNCHANGED editionState
         \/ \E e \in Editions : editionState' = [editionState EXCEPT ![e] = "ARCHIVED"]
              /\ UNCHANGED projectState
  BY DEF ArchiveProject, ArchiveEdition
<1>2. Latest' = Latest /\ Waiting' = Waiting
  BY <1>1 DEF Latest, LatestOf, NotesOf, NotesIn, Waiting, Admitted, At, itemVars
<1>3. Promised!Archive
  BY <1>1, <1>2 DEF Promised!Archive, Latest, Waiting, itemVars
<1>. QED
  BY <1>3 DEF Promised!Next

LEMMA NextImplements ==
  IInv /\ AnswersAreJustified /\ [Next]_vars => [Promised!Next]_(Promised!vars)
<1>. SUFFICES ASSUME IInv, AnswersAreJustified, [Next]_vars
              PROVE  [Promised!Next]_(Promised!vars)
  OBVIOUS
<1>1. CASE UNCHANGED vars
  <2>1. Latest' = Latest /\ Waiting' = Waiting
    BY <1>1 DEF vars, Latest, LatestOf, NotesOf, NotesIn, Waiting, Admitted, At, itemVars
  <2>. QED
    BY <1>1, <2>1 DEF vars, itemVars, lifecycle, Promised!vars, Latest, Waiting
<1>2. ASSUME NEW c \in Calls, Serve(c) PROVE [Promised!Next]_(Promised!vars)
  BY <1>2, StartImplements, ReadSubjectImplements, AddImplements, RemoveImplements,
     CreateImplements, AppendImplements, ReadImplements DEF Serve, Write
<1>. QED
  BY <1>1, <1>2, ArriveImplements, FailuresImplement, ArchivingImplements DEF Next

LEMMA InitImplements == Init => Promised!Init /\ AnswersAreJustified
<1>. SUFFICES ASSUME Init PROVE Promised!Init /\ AnswersAreJustified
  OBVIOUS
<1>1. AnswersAreJustified
  BY DEF Init, AnswersAreJustified, AnswerIsJustified, At
<1>2. Latest = [b \in Calls |-> None]
  BY DEF Init, Latest, LatestOf, NotesOf, NotesIn
<1>3. Waiting = {}
  BY DEF Init, Waiting, Admitted, At
<1>. QED
  BY <1>1, <1>2, <1>3 DEF Init, Promised!Init, Latest, Waiting

\* Statements under row locks at READ COMMITTED implement the registers of ItemRegister:
\* each call binds, removes, writes or reads in one step, an item is removed once, a
\* revision replaces the one its author saw, and no refusal is false when it is given.
THEOREM StoreImplementsItemRegister == Spec => ImplementsItemRegister
<1>1. Init => Promised!Init /\ AnswersAreJustified
  BY InitImplements
<1>2. IInv /\ AnswersAreJustified /\ [Next]_vars => AnswersAreJustified'
  BY NextKeepsJustified
<1>3. IInv /\ AnswersAreJustified /\ [Next]_vars => [Promised!Next]_(Promised!vars)
  BY NextImplements
<1>. QED
  BY <1>1, <1>2, <1>3, InvariantHolds, PTL DEF Spec, ImplementsItemRegister, Promised!Spec

-----------------------------------------------------------------------------
(* Who holds a row never waits for one. *)

Busy == {"notes", "noNote", "commit"}
HoldersAreBusy == \A x \in Rows : holder[x] # None => pc[holder[x]] \in Busy

LEMMA StepKeepsBusy ==
  ASSUME IInv, HoldersAreBusy, NEW c \in Calls, Moves(c),
         \A x \in Rows : holder'[x] = holder[x] \/ holder'[x] \in {None, c},
         pc'[c] \in Busy \/ \A x \in Rows : holder'[x] # c
  PROVE  HoldersAreBusy'
<1>. SUFFICES ASSUME NEW x \in Rows, holder'[x] # None
              PROVE  pc'[holder'[x]] \in Busy
  BY DEF HoldersAreBusy, Busy
<1>1. holder[x] \in Calls \cup {None}
  BY DEF IInv, TypeOK, Db!DbTypeOK
<1>2. CASE holder'[x] = c
  BY <1>2
<1>3. CASE holder'[x] # c
  BY <1>1, <1>3 DEF HoldersAreBusy, Moves
<1>. QED
  BY <1>2, <1>3

LEMMA IdleHoldsNothing ==
  ASSUME HoldersAreBusy, NEW c \in Calls, pc[c] \notin Busy
  PROVE  \A x \in Rows : holder[x] # c
  BY NoneIsNoValue DEF HoldersAreBusy

\* A statement that takes no lock.
LEMMA GoOnKeepsBusy ==
  ASSUME IInv, HoldersAreBusy, NEW c \in Calls, NEW s \in Steps, NEW v, GoOn(c, s, v),
         UNCHANGED holder, pc[c] \notin Busy \/ s \in Busy
  PROVE  HoldersAreBusy'
<1>1. Moves(c) /\ pc'[c] = s
  BY GoOnMoves
<1>. QED
  BY <1>1, StepKeepsBusy, IdleHoldsNothing

LEMMA LockKeepsBusy ==
  ASSUME IInv, HoldersAreBusy, NEW c \in Calls, NEW s \in Busy, NEW v, GoOn(c, s, v),
         NEW x \in Rows, Db!Lock(c, x)
  PROVE  HoldersAreBusy'
<1>1. Moves(c) /\ pc'[c] = s
  BY GoOnMoves DEF Busy, Steps
<1>2. \A y \in Rows : holder'[y] = holder[y] \/ holder'[y] = c
  BY LockTakes DEF IInv, TypeOK
<1>. QED
  BY <1>1, <1>2, StepKeepsBusy

LEMMA EndKeepsBusy ==
  ASSUME IInv, HoldersAreBusy, NEW c \in Calls, NEW kind, Finish(c, kind),
         Db!End(c, {}) \/ (UNCHANGED holder /\ pc[c] \notin Busy)
  PROVE  HoldersAreBusy'
<1>1. Moves(c) /\ TypeOK
  BY FinishMoves DEF IInv
<1>2. CASE Db!End(c, {})
  <2>1. \A x \in Rows : holder'[x] = IF holder[x] = c THEN None ELSE holder[x]
    BY <1>1, <1>2, EndReleases DEF TypeOK
  <2>. QED
    BY <1>1, <2>1, StepKeepsBusy, NoneIsNoValue
<1>3. CASE UNCHANGED holder /\ pc[c] \notin Busy
  BY <1>1, <1>3, StepKeepsBusy, IdleHoldsNothing
<1>. QED
  BY <1>2, <1>3

LEMMA NextKeepsBusy ==
  ASSUME IInv, HoldersAreBusy, [Next]_vars
  PROVE  HoldersAreBusy'
<1>. USE DEF dbVars
<1>1. CASE UNCHANGED vars \/ ArchiveProject \/ \E e \in Editions : ArchiveEdition(e)
  BY <1>1 DEF vars, ArchiveProject, ArchiveEdition, HoldersAreBusy, Busy
<1>2. ASSUME NEW c \in Calls, Arrive(c) PROVE HoldersAreBusy'
  <2>1. /\ pc[c] = "idle" /\ UNCHANGED holder /\ \A d \in Calls \ {c} : pc'[d] = pc[d]
    BY <1>2 DEF Arrive, IInv, TypeOK
  <2>2. \A x \in Rows : holder[x] # c /\ holder[x] \in Calls \cup {None}
    BY <2>1, IdleHoldsNothing DEF Busy, IInv, TypeOK, Db!DbTypeOK
  <2>. QED
    BY <2>1, <2>2 DEF HoldersAreBusy, Busy
<1>3. ASSUME NEW c \in Calls, ConnectionLost(c) \/ ConnectFails(c) PROVE HoldersAreBusy'
  BY <1>3, EndKeepsBusy DEF ConnectionLost, ConnectFails, Refuse, Busy
<1>4. ASSUME NEW c \in Calls, NEW kind, Refuse(c, kind) \/ Succeed(c, kind) PROVE HoldersAreBusy'
  BY <1>4, EndKeepsBusy DEF Refuse, Succeed
<1>5. ASSUME NEW c \in Calls, NEW s \in Steps, NEW v, GoOn(c, s, v), UNCHANGED holder,
             pc[c] \notin Busy \/ s \in Busy
      PROVE  HoldersAreBusy'
  BY <1>5, GoOnKeepsBusy
<1>6. ASSUME NEW c \in Calls, CheckProject(c) \/ BeginTransaction(c) \/ ReadSubject(c)
      PROVE  HoldersAreBusy'
  <2>1. CASE CheckProject(c)
    BY <1>5, <2>1, EndKeepsBusy DEF CheckProject, Busy, Steps
  <2>2. CASE BeginTransaction(c)
    BY <1>5, <2>2 DEF BeginTransaction, Db!Begin, Busy, Steps
  <2>3. CASE ReadSubject(c)
    BY <1>4, <1>5, <2>3 DEF ReadSubject, Busy, Steps
  <2>. QED
    BY <1>6, <2>1, <2>2, <2>3
<1>7. ASSUME NEW c \in Calls, Add(c) PROVE HoldersAreBusy'
  <2>1. CASE ShareProject(c) \/ ShareEdition(c) \/ InsertBinding(c) \/ ReadItem(c)
    BY <1>4, <1>5, <2>1 DEF ShareProject, ShareEdition, InsertBinding, ReadItem, Busy, Steps
  <2>2. CASE CommitAdd(c)
    BY <1>4, <2>2 DEF CommitAdd
  <2>. QED
    BY <1>7, <2>1, <2>2 DEF Add
<1>8. ASSUME NEW c \in Calls, Remove(c) PROVE HoldersAreBusy'
  <2>1. CASE LockItem(c)
    <3>1. ItemRow(command[c].item) \in Rows
      BY <2>1, OperationOf, CommandFields, RowsDiffer DEF LockItem
    <3>. QED
      BY <1>4, <2>1, <3>1, LockKeepsBusy DEF LockItem, Busy
  <2>2. CASE CheckNotes(c) \/ CommitRemove(c)
    BY <1>4, <1>5, <2>2 DEF CheckNotes, CommitRemove, Busy, Steps
  <2>. QED
    BY <1>8, <2>1, <2>2 DEF Remove
<1>9. ASSUME NEW c \in Calls, Write(c) PROVE HoldersAreBusy'
  <2>1. CASE LockSubject(c)
    <3>1. ItemRow(command[c].item) \in Rows
      BY <2>1, OperationOf, CommandFields, RowsDiffer DEF LockSubject
    <3>. QED
      BY <1>4, <2>1, <3>1, LockKeepsBusy DEF LockSubject, Busy
  <2>2. CASE LockNote(c)
    <3>1. NoteLock(seen[c]) \in Rows
      BY <2>2, OperationOf, RowsDiffer DEF LockNote, CallIsSound, NoteIsHeld, At
    <3>. QED
      BY <1>4, <2>2, <3>1, LockKeepsBusy DEF LockNote, Busy
  <2>3. CASE CheckNoNote(c) \/ FindNote(c)
    BY <1>4, <1>5, <2>3 DEF CheckNoNote, FindNote, Busy, Steps
  <2>4. CASE CommitCreate(c) \/ CommitAppend(c)
    BY <1>4, <2>4 DEF CommitCreate, CommitAppend
  <2>. QED
    BY <1>9, <2>1, <2>2, <2>3, <2>4 DEF Write
<1>10. ASSUME NEW c \in Calls, Read(c) PROVE HoldersAreBusy'
  BY <1>4, <1>5, <1>10 DEF Read, ReadNote, ReadHistory, Busy, Steps
<1>. QED
  BY <1>1, <1>2, <1>3, <1>6, <1>7, <1>8, <1>9, <1>10 DEF Next, Serve

\* Whatever a call waits for, a row lock or an insert or delete of the same binding, the
\* call that has it is past its last wait and will end: nobody waits in a circle.
THEOREM NobodyWaitsForAWaiter == Spec => []NobodyWaitsTwiceOver
<1>1. Init => HoldersAreBusy
  BY DEF Init, HoldersAreBusy, Db!DbInit
<1>2. IInv /\ HoldersAreBusy /\ [Next]_vars => HoldersAreBusy'
  BY NextKeepsBusy
<1>3. IInv /\ HoldersAreBusy => NobodyWaitsTwiceOver
  <2>. SUFFICES ASSUME IInv, HoldersAreBusy, NEW c \in Calls, NEW d \in Calls, WaitsFor(c, d)
                PROVE  pc[d] \in {"item"} \cup Busy
    BY DEF NobodyWaitsTwiceOver, WaitsFor, InTransaction, Steps, Busy
  <2>1. CASE pc[c] \in {"lockItem", "lockSubject"}
    <3>1. ItemRow(command[c].item) \in Rows
      BY <2>1, OperationOf, CommandFields, RowsDiffer
    <3>. QED
      BY <2>1, <3>1, NoneIsNoValue DEF WaitsFor, HoldersAreBusy
  <2>2. CASE pc[c] = "lockNote"
    <3>1. NoteLock(seen[c]) \in Rows
      BY <2>2, OperationOf, RowsDiffer DEF CallIsSound, NoteIsHeld, At
    <3>. QED
      BY <2>2, <3>1, NoneIsNoValue DEF WaitsFor, HoldersAreBusy
  <2>3. CASE pc[c] = "insert"
    BY <2>3 DEF WaitsFor, Unsettles, Inserting, Adding, Busy
  <2>. QED
    BY <2>1, <2>2, <2>3 DEF WaitsFor
<1>. QED
  BY <1>1, <1>2, <1>3, InvariantHolds, PTL DEF Spec
=============================================================================
