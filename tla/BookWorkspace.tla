--------------------------- MODULE BookWorkspace ----------------------------
(***************************************************************************)
(* The page of a book, BookWorkspace.tsx, composed with the library: each  *)
(* tab shows a workspace and has an editor for the introduction, one for a *)
(* note and one for a link.  Writes go out one at a time per tab, as       *)
(* operate() makes them, and their replies may be lost.  While one is out  *)
(* every control of the page is disabled.                                  *)
(***************************************************************************)
EXTENDS BookLibrary, FiniteSets

CONSTANTS Tabs,
          Shown, \* the books that the tabs show (a bound)
          Abroad, \* what other devices do to these books (a bound)
          OpenAtOnce \* how many editors of a page are open at a time (a bound)

VARIABLE page \* page[t]: what tab t shows, None if it shows no book

vars == <<page, libraryVars>>

\* target: the note or link that is edited, None for a new one.  base: the version
\* or revision the draft was based on.  over: what the page showed of it.
Introductions == [base : Nat, over : Texts, draft : Texts, conflict : BOOLEAN]
Notes == [target : Calls, base : Calls, over : Calls, state : {"open", "conflict", "missing"}]
           \cup [target : {None}, base : {None}, over : {None}, state : {"open"}]
LinkEditors == [target : Calls, conflict : BOOLEAN] \cup [target : {None}, conflict : {FALSE}]
Pages == [book : Books, item : Workspaces, intro : Introductions \cup {None},
          note : Notes \cup {None}, link : LinkEditors \cup {None}, call : Calls \cup {None}]

ASSUME NoneIsNoEditor == None \notin Introductions \cup Notes \cup LinkEditors
ASSUME ShownAreBooks == Shown \subseteq Books

TypeOK ==
  /\ command \in [Calls -> Commands \cup {None}]
  /\ pc \in [Calls -> Steps]
  /\ answer \in [Calls -> Answers \cup {None}]
  /\ identity \in [Ids -> Calls \cup {None}]
  /\ archived \subseteq Calls
  /\ bookRow \in [Books -> BookRows \cup {None}]
  /\ noteRow \in [Calls -> NoteRows \cup {None}]
  /\ revision \in [Calls -> Revisions \cup {None}]
  /\ link \in [Calls -> Links \cup {None}]
  /\ versions \subseteq Books \X Nat \X Texts
  /\ page \in [Tabs -> Pages \cup {None}]
  /\ Db!DbTypeOK

Init == LibraryInit /\ page = [t \in Tabs |-> None]

-----------------------------------------------------------------------------
(* Reading and editing. *)

\* A reader reads the book until it gets an answer; nothing else can be done before.
Open(t, b) ==
  /\ page[t] = None
  /\ page' = [page EXCEPT ![t] = [book |-> b, item |-> Workspace(b), intro |-> None, note |-> None,
                                  link |-> None, call |-> None]]
  /\ UNCHANGED libraryVars

\* Another book, another session, a reload: the page is gone, its request is not.
Leave(t) ==
  /\ page[t] # None
  /\ page' = [page EXCEPT ![t] = None]
  /\ UNCHANGED libraryVars

Idle(t) == page[t] # None /\ page[t].call = None

Panels == {"intro", "note", "link"}

\* A panel opens its editor, whatever the others do.
MayOpen(t, panel) ==
  /\ Idle(t) /\ page[t][panel] = None
  /\ Cardinality({x \in Panels : page[t][x] # None}) < OpenAtOnce

\* The page changes, nothing is sent.
Shows(t, p) == page' = [page EXCEPT ![t] = p] /\ UNCHANGED libraryVars

EditIntroduction(t) ==
  LET item == page[t].item IN
  /\ MayOpen(t, "intro")
  /\ Shows(t, [page[t] EXCEPT !.intro = [base |-> item.version, over |-> item.text,
                                         draft |-> item.text, conflict |-> FALSE]])

EditNote(t) ==
  /\ MayOpen(t, "note")
  /\ \E n \in page[t].item.notes \cup {<<None, None>>} :
       Shows(t, [page[t] EXCEPT !.note = [target |-> n[1], base |-> n[2], over |-> n[2], state |-> "open"]])

EditLink(t) ==
  /\ MayOpen(t, "link")
  /\ \E l \in page[t].item.links \cup {<<None, None>>} :
       Shows(t, [page[t] EXCEPT !.link = [target |-> l[1], conflict |-> FALSE]])

Cancel(t) ==
  /\ Idle(t)
  /\ \E panel \in Panels :
       page[t][panel] # None /\ Shows(t, [page[t] EXCEPT ![panel] = None])

\* A draft whose note is gone becomes the draft of a new note.
SaveAsNew(t) ==
  /\ Idle(t) /\ page[t].note # None /\ page[t].note.state = "missing"
  /\ Shows(t, [page[t] EXCEPT !.note = [@ EXCEPT !.target = None, !.base = None, !.over = None,
                                                 !.state = "open"]])

-----------------------------------------------------------------------------
(* Writing. *)

Ready(t) == Idle(t) /\ Unused # {}

\* The page p is shown while the call with command m is out.
Sends(t, p, m) ==
  /\ Post(NextCall, m)
  /\ page' = [page EXCEPT ![t] = [p EXCEPT !.call = NextCall]]

AddToLibrary(t) ==
  /\ Ready(t) /\ page[t].item.version = 0
  /\ Sends(t, page[t], [op |-> "add", book |-> page[t].book])

\* The author sends the draft as it was read or a text of his own.
SaveIntroduction(t) ==
  LET p == page[t] IN
  /\ Ready(t) /\ p.intro # None /\ ~ p.intro.conflict
  /\ \E text \in {p.intro.draft, NextCall} :
       Sends(t, [p EXCEPT !.intro.draft = text],
             [op |-> "save", book |-> p.book, text |-> text, base |-> p.intro.base, over |-> p.intro.over])

SaveNote(t) ==
  LET p == page[t] IN
  /\ Ready(t) /\ p.note # None /\ p.note.state = "open"
  /\ Sends(t, p, IF p.note.target = None
                   THEN [op |-> "createNote", book |-> p.book]
                   ELSE [op |-> "updateNote", book |-> p.book, item |-> p.note.target,
                         base |-> p.note.base, over |-> p.note.over])

SaveLink(t) ==
  LET p == page[t] IN
  /\ Ready(t) /\ p.link # None /\ ~ p.link.conflict
  /\ Sends(t, p, IF p.link.target = None
                   THEN [op |-> "createLink", book |-> p.book]
                   ELSE [op |-> "updateLink", book |-> p.book, item |-> p.link.target])

\* An item is removed while its panel has no editor open.
Remove(t) ==
  LET p == page[t] IN
  /\ Ready(t)
  /\ \/ /\ p.note = None
        /\ \E n \in p.item.notes : Sends(t, p, [op |-> "deleteNote", book |-> p.book, item |-> n[1]])
     \/ /\ p.link = None
        /\ \E l \in p.item.links : Sends(t, p, [op |-> "deleteLink", book |-> p.book, item |-> l[1]])

\* The editor a command came from.
PanelOf(op) ==
  CASE op = "save" -> "intro"
    [] op \in {"createNote", "updateNote"} -> "note"
    [] op \in {"createLink", "updateLink"} -> "link"
    [] OTHER -> "none"

\* The call succeeded: the page shows the answer and the editor is closed.
Heard(p, a) ==
  LET panel == PanelOf(command[p.call].op)
      q == [p EXCEPT !.item = a.item, !.call = None]
  IN IF panel = "none" THEN q ELSE [q EXCEPT ![panel] = None]

Refused(kind) == kind \in {"readOnly", "stale", "mismatch", "corrupt"} \* 409
Absent(kind) == kind = "notFound"                           \* 404

\* Wrong: a refusal closes the editor.
WrongFailed(p, kind) ==
  LET q == [p EXCEPT !.call = None] IN
  IF PanelOf(command[p.call].op) = "note" /\ (Refused(kind) \/ Absent(kind))
    THEN [q EXCEPT !.note = None] ELSE q

\* Wrong: a new note can be in conflict too.
WrongChanges(editor, kind) == Refused(kind) \/ Absent(kind)

\* What the editor is about may have been changed by somebody else.
Changes(editor, kind) == editor.target # None /\ (Refused(kind) \/ Absent(kind))

\* The call failed: the editor keeps its draft, and asks for what it is about to
\* be read again if it has changed.
Failed(p, kind) ==
  LET panel == PanelOf(command[p.call].op)
      q == [p EXCEPT !.call = None]
  IN
  CASE panel = "intro" -> [q EXCEPT !.intro.conflict = Refused(kind)]
    [] panel = "note" ->
         [q EXCEPT !.note.state = IF Changes(p.note, kind) THEN "conflict" ELSE "open"]
    [] panel = "link" -> [q EXCEPT !.link.conflict = Changes(p.link, kind)]
    [] OTHER -> q

\* The answer; or none, or a 503 for a COMMIT whose reply the server lost.
Hear(t) ==
  LET p == page[t] IN
  /\ p # None /\ p.call # None
  /\ \/ /\ answer[p.call] # None
        /\ page' = [page EXCEPT ![t] = IF answer[p.call].kind = "ok"
                                         THEN Heard(p, answer[p.call]) ELSE Failed(p, answer[p.call].kind)]
     \/ page' = [page EXCEPT ![t] = Failed(p, "network")]
  /\ UNCHANGED libraryVars

-----------------------------------------------------------------------------
(* Reading the latest version beside the draft. *)

LatestIntroduction(t) ==
  LET now == Workspace(page[t].book) IN
  /\ Idle(t) /\ page[t].intro # None /\ page[t].intro.conflict
  /\ Shows(t, [page[t] EXCEPT !.item = now,
                 !.intro = [@ EXCEPT !.base = now.version, !.over = now.text, !.conflict = FALSE]])

LatestNote(t) ==
  LET now == Workspace(page[t].book)
      n == page[t].note.target
      there == {x \in now.notes : x[1] = n}
  IN
  /\ Idle(t) /\ page[t].note # None /\ page[t].note.state = "conflict"
  /\ IF there = {}
       THEN Shows(t, [page[t] EXCEPT !.item = now, !.note.state = "missing"])
       ELSE \E x \in there :
              Shows(t, [page[t] EXCEPT !.item = now,
                          !.note = [@ EXCEPT !.base = x[2], !.over = x[2], !.state = "open"]])

LatestLink(t) ==
  LET now == Workspace(page[t].book)
      there == \E x \in now.links : x[1] = page[t].link.target
  IN
  /\ Idle(t) /\ page[t].link # None /\ page[t].link.conflict
  /\ Shows(t, [page[t] EXCEPT !.item = now,
                 !.link = [target |-> IF there THEN @.target ELSE None, conflict |-> FALSE]])

-----------------------------------------------------------------------------
(* The other devices, and the page of a project that a book is added to. *)

\* A command that another device may send for b, which it has just read.
Fresh(b) ==
  LET now == Workspace(b)
      Item(o, x) == [op |-> o, book |-> b, item |-> x[1]]
  IN
  {m \in {[op |-> o, book |-> b] : o \in {"add", "createNote", "createLink"}}
    \cup {[op |-> "save", book |-> b, text |-> NextCall, base |-> now.version, over |-> now.text]}
    \cup {[op |-> "updateNote", book |-> b, item |-> n[1], base |-> n[2], over |-> n[2]] : n \in now.notes}
    \cup {Item("deleteNote", n) : n \in now.notes}
    \cup {Item(o, l) : o \in {"updateLink", "deleteLink"}, l \in now.links} : m.op \in Abroad}

Elsewhere ==
  /\ Unused # {}
  /\ \/ \E b \in Shown : \E m \in Fresh(b) : Post(NextCall, m)
     \/ \E b \in Books \ Shown : Post(NextCall, [op |-> "promote", book |-> b])
  /\ UNCHANGED page

-----------------------------------------------------------------------------
Visit(t) == (\E b \in Shown : Open(t, b)) \/ Leave(t)
Edit(t) == EditIntroduction(t) \/ EditNote(t) \/ EditLink(t) \/ Cancel(t) \/ SaveAsNew(t)
Write(t) == AddToLibrary(t) \/ SaveIntroduction(t) \/ SaveNote(t) \/ SaveLink(t) \/ Remove(t)
Latest(t) == LatestIntroduction(t) \/ LatestNote(t) \/ LatestLink(t)

Next ==
  \/ \E t \in Tabs : Visit(t) \/ Edit(t) \/ Write(t) \/ Hear(t) \/ Latest(t)
  \/ Elsewhere
  \/ \E c \in Calls : (Serve(c) \/ ConnectFails(c) \/ ConnectionLost(c)) /\ UNCHANGED page
  \/ \E c \in Calls : Archive(c) /\ UNCHANGED page

Spec == Init /\ [][Next]_vars

-----------------------------------------------------------------------------
(* Correctness. *)

\* However promotions of documents that share identities are interleaved, a chain
\* has the identities of one document, all of them and nothing else, a book of the
\* library belongs to the chain of its document, and nobody is told another one.
OneChainPerDocument ==
  /\ \A b \in Books : identity[b] # None =>
       {i \in Ids : identity[i] = identity[b]} = {b} \cup SecondaryOf(b)
  /\ \A i \in Others : identity[i] # None => \E b \in Books : identity[b] = identity[i]
  /\ \A b \in Books : bookRow[b] # None => bookRow[b].chain = identity[b]
  /\ \A c \in Calls : answer[c] # None =>
       /\ answer[c].kind # "corrupt"
       /\ answer[c].kind = "promoted" => answer[c].chain = identity[command[c].book]

\* Nothing is replaced that the author of what replaces it was not shown, whatever
\* the other tabs saved, removed or read meanwhile, and a version names one text.
NothingOverwrittenUnseen ==
  [][/\ \A b \in Books : bookRow'[b] # bookRow[b] /\ bookRow[b] # None =>
          \E c \in Calls : /\ pc[c] = "commit" /\ pc'[c] = "done"
                           /\ command[c].over = bookRow[b].text
                           /\ bookRow'[b].version = bookRow[b].version + 1
     /\ \A n \in Calls : noteRow[n] # None /\ noteRow'[n].current # noteRow[n].current =>
          \E c \in Calls : /\ pc[c] = "commit" /\ pc'[c] = "done"
                           /\ command[c].over = noteRow[n].current
                           /\ revision'[c] = [note |-> n, parent |-> noteRow[n].current]
     /\ \A v, w \in versions' : v[1] = w[1] /\ v[2] = w[2] => v[3] = w[3]]_vars

\* A page that hears of its call only closes an editor whose draft was saved: as a
\* version of the introduction, as a revision, as the link that the page now shows.
DraftsAreKept ==
  [][\A t \in Tabs :
       LET p == page[t]
           q == page'[t]
       IN p # None /\ q # None /\ p.call # None =>
            /\ p.intro # None /\ q.intro = None =>
                 \E v \in versions : v[1] = p.book /\ v[2] >= p.intro.base /\ v[3] = p.intro.draft
            /\ p.note # None /\ q.note = None => revision[p.call] # None
            /\ p.link # None /\ q.link = None => \E l \in q.item.links : l[2] = p.call]_vars

\* The identity or the book that c waits for.
Wanted(c) ==
  CASE pc[c] = "primary" -> {command[c].book}
    [] pc[c] = "reserve" /\ seen[c] # <<>> -> {Head(seen[c])}
    [] pc[c] = "lock" -> {BookLock(command[c].book)}
    [] OTHER -> {}

\* Whatever identities the promotions share, some call that has begun can always
\* go on: a lock is held by a call that still runs, and no calls wait for each
\* other in a circle.
NobodyWaitsInACircle ==
  /\ \A x \in DOMAIN holder : holder[x] # None => pc[holder[x]] \in InTransaction
  /\ \A S \in (SUBSET Calls) \ {{}} :
       \E c \in S : \A x \in Wanted(c) : holder[x] \notin S \ {c}
=============================================================================
