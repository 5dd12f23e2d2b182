---------------------------- MODULE BookLibrary -----------------------------
(***************************************************************************)
(* The private library of books: catalog-promotion-store.ts, which gives a *)
(* document of the catalog its chain of work, edition and source, and      *)
(* book-library-store.ts, which keeps an introduction, notes and links to  *)
(* electronic versions with a book.  One statement per action, at READ     *)
(* COMMITTED; whoever writes to a book locks its row first.                *)
(*                                                                         *)
(* Ids are random UUIDs drawn by the call that inserts the row: a call     *)
(* stands for the chain, the note, the revision and the link it makes, and *)
(* for the text it is the first to send.  The identity CATALOG_DOCUMENT of *)
(* a book is the book.                                                     *)
(***************************************************************************)
EXTENDS Naturals, Sequences

CONSTANTS Calls,     \* the HTTP requests that write
          Books,     \* the documents of the catalog
          Ssids,     \* the identities of namespace SSID
          Dxids,     \* and of namespace DXID
          Secondary, \* those a document names, its SSID before its DXID
          Empty,     \* the empty introduction
          None

VARIABLES
  command,   \* command[c]: what the caller asked, None before it arrives
  pc,        \* the statement c is about to run
  seen,      \* what c has read and will act on
  answer,    \* the response, None while there is none
  identity,  \* core.external_identities: the chain an identity belongs to
  archived,  \* the chains whose edition is not ACTIVE
  bookRow,   \* core.library_books
  noteRow,   \* core.notes with their book
  revision,  \* core.note_revisions with their parents
  link,      \* core.library_book_resources
  versions,  \* every introduction a book ever had, with its version (history)
  open, holder, missed

dbVars == <<open, holder, missed>>
rowVars == <<bookRow, noteRow, revision, link, versions>>
libraryVars == <<command, pc, seen, answer, identity, archived, rowVars, dbVars>>

Others == Ssids \cup Dxids
Ids == Books \cup Others
BookLock(b) == <<"book", b>>
SecondaryOf(b) == {Secondary[b][i] : i \in DOMAIN Secondary[b]}

Db == INSTANCE Postgres WITH Tx <- Calls, Row <- Ids \cup {BookLock(b) : b \in Books}

Texts == Calls \cup {Empty}

\* over is what the author of a text was shown of the text it replaces.
Commands ==
  [op : {"promote", "add", "createNote", "createLink"}, book : Books]
    \cup [op : {"save"}, book : Books, text : Texts, base : Nat, over : Texts]
    \cup [op : {"updateNote"}, book : Books, item : Calls, base : Calls, over : Calls]
    \cup [op : {"deleteNote", "updateLink", "deleteLink"}, book : Books, item : Calls]
Keeping == {"add", "save", "createNote", "createLink"}

BookRows == [chain : Calls, version : Nat, text : Texts]
NoteRows == [book : Books, current : Calls, live : BOOLEAN]
Revisions == [note : Calls, parent : Calls \cup {None}]
Links == [book : Books, by : Calls, live : BOOLEAN]

\* What a page gets to see of a book; version 0 while it is not in the library.
Workspaces == [version : Nat, text : Texts, notes : SUBSET (Calls \X Calls),
               links : SUBSET (Calls \X Calls)]

Steps == {"idle", "subject", "primary", "chain", "reserve", "lock", "commit", "done"}
InTransaction == {"primary", "chain", "reserve", "commit"}

\* "mismatch": an identity of the document belongs to another chain, or the book
\* does; "corrupt": an identity without a chain.
Errors == [kind : {"notFound", "readOnly", "stale", "mismatch", "corrupt", "unavailable"}]
Answers == Errors \cup [kind : {"promoted"}, chain : Calls] \cup [kind : {"ok"}, item : Workspaces]

ASSUME NoneIsNothing ==
  /\ None \notin Texts \cup Commands \cup Answers \cup BookRows \cup NoteRows \cup Revisions \cup Links
  /\ Empty \notin Calls
ASSUME IdentitiesAreApart == Books \cap Others = {} /\ Secondary \in [Books -> Seq(Others)]
ASSUME SsidBeforeDxid ==
  /\ Ssids \cap Dxids = {}
  /\ \A b \in Books : \A i, j \in DOMAIN Secondary[b] :
       i < j => Secondary[b][i] \in Ssids /\ Secondary[b][j] \in Dxids

LibraryInit ==
  /\ command = [c \in Calls |-> None]
  /\ pc = [c \in Calls |-> "idle"]
  /\ seen = [c \in Calls |-> None]
  /\ answer = [c \in Calls |-> None]
  /\ identity = [i \in Ids |-> None]
  /\ archived = {}
  /\ bookRow = [b \in Books |-> None]
  /\ noteRow = [n \in Calls |-> None]
  /\ revision = [q \in Calls |-> None]
  /\ link = [l \in Calls |-> None]
  /\ versions = {}
  /\ Db!DbInit

\* The live notes or links of a book, each with the call that wrote it last.
LiveNotes(rows, b) ==
  {<<n, rows[n].current>> : n \in {x \in Calls : rows[x] # None /\ rows[x].book = b /\ rows[x].live}}
LiveLinks(rows, b) ==
  {<<l, rows[l].by>> : l \in {x \in Calls : rows[x] # None /\ rows[x].book = b /\ rows[x].live}}

WorkspaceOf(row, notes, links) ==
  [version |-> IF row = None THEN 0 ELSE row.version,
   text |-> IF row = None THEN Empty ELSE row.text,
   notes |-> notes, links |-> links]

\* get: one REPEATABLE READ snapshot.
Workspace(b) == WorkspaceOf(bookRow[b], LiveNotes(noteRow, b), LiveLinks(link, b))

-----------------------------------------------------------------------------
(* How a call starts, goes on and ends. *)

\* UUIDs are interchangeable: the next call is any that was not made yet.
Unused == {c \in Calls : pc[c] = "idle"}
NextCall == CHOOSE c \in Unused : TRUE

Post(c, m) ==
  /\ c \in Unused
  /\ command' = [command EXCEPT ![c] = m]
  /\ pc' = [pc EXCEPT ![c] = IF m.op \in Keeping \cup {"promote"} THEN "subject" ELSE "lock"]
  /\ UNCHANGED <<seen, answer, identity, archived, rowVars, dbVars>>

\* The next statement of c is s, and v is what it has read so far.
GoOn(c, s, v) ==
  /\ pc' = [pc EXCEPT ![c] = s]
  /\ seen' = [seen EXCEPT ![c] = v]
  /\ UNCHANGED <<command, answer, archived, identity, rowVars>>

Finish(c, a) ==
  /\ answer' = [answer EXCEPT ![c] = a]
  /\ pc' = [pc EXCEPT ![c] = "done"]
  /\ seen' = [seen EXCEPT ![c] = None]
  /\ UNCHANGED <<command, archived>>

\* An error is thrown: ROLLBACK, and the caller is told.
Refuse(c, kind) == Finish(c, [kind |-> kind]) /\ Db!End(c, {}) /\ UNCHANGED <<identity, rowVars>>

\* COMMIT and the response.  That either may be lost is the caller's side: Hear.
Succeed(c, a) == Finish(c, a) /\ Db!End(c, {})

-----------------------------------------------------------------------------
(* promote: a document gets its chain, once. *)

\* The chain of a book in the library is known.  Any other book is looked up in
\* the catalog, which may be down or not know it, and promoted.
Subject(c) ==
  LET b == command[c].book
      known == command[c].op # "promote" /\ bookRow[b] # None
  IN
  /\ pc[c] = "subject"
  /\ \/ known /\ GoOn(c, "lock", bookRow[b].chain) /\ UNCHANGED dbVars
     \/ ~ known /\ GoOn(c, "primary", None) /\ Db!Begin(c)
     \/ /\ \E kind \in (IF known THEN {"unavailable"} ELSE {"notFound", "unavailable"}) :
             Finish(c, [kind |-> kind])
        /\ UNCHANGED <<identity, rowVars, dbVars>>

\* Wrong on purpose, as is every Wrong... below: an identity that is taken is taken
\* over.
WrongTaken(i) == FALSE
Taken(i) == identity[i] # None

\* INSERT ... ON CONFLICT DO NOTHING waits for whoever has inserted the same
\* identity and not committed, and then inserts or does nothing.
ReservePrimary(c) ==
  LET b == command[c].book IN
  /\ pc[c] = "primary"
  /\ ~ Db!Waits(c, b)
  /\ IF Taken(b) THEN GoOn(c, "chain", None) /\ UNCHANGED dbVars
                 ELSE GoOn(c, "reserve", Secondary[b]) /\ Db!Lock(c, b)

\* COMMIT.  A call that keeps something goes on to the library.
Promoted(c, chain) ==
  /\ IF command[c].op = "promote"
       THEN Succeed(c, [kind |-> "promoted", chain |-> chain])
       ELSE /\ pc' = [pc EXCEPT ![c] = "lock"]
            /\ seen' = [seen EXCEPT ![c] = chain]
            /\ UNCHANGED <<command, answer, archived>>
            /\ Db!End(c, {})
  /\ UNCHANGED rowVars

\* A known document: its chain, and no secondary identity in another chain.  The
\* reads are one step because identities are never taken away.
LoadChain(c) ==
  LET chain == identity[command[c].book] IN
  /\ pc[c] = "chain"
  /\ CASE chain = None -> Refuse(c, "corrupt")
       [] chain # None /\ \E i \in SecondaryOf(command[c].book) : identity[i] \notin {None, chain} ->
            Refuse(c, "mismatch")
       [] OTHER -> Promoted(c, chain) /\ UNCHANGED identity

Reserve(c, i, left) ==
  /\ ~ Db!Waits(c, i)
  /\ IF Taken(i) THEN Refuse(c, "mismatch")
                 ELSE GoOn(c, "reserve", left) /\ Db!Lock(c, i)

\* Wrong: in any order.
WrongReserveSecondary(c) ==
  /\ pc[c] = "reserve"
  /\ \E j \in DOMAIN seen[c] :
       Reserve(c, seen[c][j], [k \in 1..(Len(seen[c]) - 1) |-> seen[c][IF k < j THEN k ELSE k + 1]])

\* A new document: its secondary identities are reserved one after the other.
ReserveSecondary(c) ==
  /\ pc[c] = "reserve" /\ seen[c] # <<>>
  /\ Reserve(c, Head(seen[c]), Tail(seen[c]))

\* Work, edition and source are inserted; COMMIT shows them with the identities.
CommitPromotion(c) ==
  LET b == command[c].book IN
  /\ pc[c] = "reserve" /\ seen[c] = <<>>
  /\ identity' = [i \in Ids |-> IF i \in {b} \cup SecondaryOf(b) THEN c ELSE identity[i]]
  /\ Promoted(c, c)

Promotion(c) ==
  Subject(c) \/ ReservePrimary(c) \/ LoadChain(c) \/ ReserveSecondary(c) \/ CommitPromotion(c)

-----------------------------------------------------------------------------
(* The writes to a book.  BEGIN and the statements up to the check are one *)
(* step: whoever gets the row has it to itself from then on.               *)

\* ensureBook: INSERT ... SELECT ... ON CONFLICT DO NOTHING.  Nothing is selected
\* unless the edition is ACTIVE and the identity leads to the chain.
Created(c) ==
  LET m == command[c] IN
  /\ m.op \in Keeping /\ bookRow[m.book] = None
  /\ seen[c] \notin archived /\ identity[m.book] = seen[c]

\* The row that SELECT ... FOR UPDATE finds: what this call has inserted, or the
\* latest that is committed.
RowOf(c) ==
  IF Created(c) THEN [chain |-> seen[c], version |-> 1, text |-> Empty] ELSE bookRow[command[c].book]

\* ownedNote, ownedResource: the item is of this book and was not removed.
Owned(m) ==
  CASE m.op \in {"updateNote", "deleteNote"} ->
         noteRow[m.item] # None /\ noteRow[m.item].book = m.book /\ noteRow[m.item].live
    [] m.op \in {"updateLink", "deleteLink"} ->
         link[m.item] # None /\ link[m.item].book = m.book /\ link[m.item].live
    [] OTHER -> TRUE

\* The author must have seen the present version, 0 of a new book, or the present
\* revision.
Outdated(m, row, created) ==
  \/ m.op = "save" /\ m.base # (IF created THEN 0 ELSE row.version)
  \/ m.op = "updateNote" /\ m.base # noteRow[m.item].current

\* What is wrong with the write, in the order in which it is found.
Objection(c) ==
  LET m == command[c]
      row == RowOf(c)
  IN
  CASE row = None -> "notFound"
    [] row # None /\ row.chain \in archived -> "readOnly"
    [] row # None /\ row.chain \notin archived /\ m.op \in Keeping /\ row.chain # seen[c] -> "mismatch"
    [] row # None /\ row.chain \notin archived /\ ~ Owned(m) -> "notFound"
    [] row # None /\ row.chain \notin archived /\ Owned(m) /\ (m.op \in Keeping => row.chain = seen[c])
         /\ Outdated(m, row, Created(c)) -> "stale"
    [] OTHER -> "none"

Refuses(c, kind) ==
  Finish(c, [kind |-> kind]) /\ UNCHANGED <<identity, rowVars, dbVars>>

\* What is kept of the row while it is held.
InHand(c) == [created |-> Created(c), row |-> RowOf(c)]

\* Wrong: the row is read without FOR UPDATE.
WrongLockBook(c) ==
  /\ pc[c] = "lock"
  /\ IF Objection(c) # "none"
       THEN Refuses(c, Objection(c))
       ELSE GoOn(c, "commit", InHand(c)) /\ Db!Begin(c)

\* Whoever wrote the row and has not committed is waited for.
LockBook(c) ==
  LET x == BookLock(command[c].book) IN
  /\ pc[c] = "lock"
  /\ ~ Db!Waits(c, x)
  /\ IF Objection(c) # "none"
       THEN Refuses(c, Objection(c))
       ELSE GoOn(c, "commit", InHand(c)) /\ Db!BeginLock(c, x)

Saved(m, v) ==
  IF m.op = "save" /\ (v.created \/ m.text # v.row.text)
    THEN [v.row EXCEPT !.text = m.text, !.version = IF v.created THEN 1 ELSE v.row.version + 1]
    ELSE v.row

\* The writes, the workspace as it is with them, and COMMIT.
CommitWrite(c) ==
  LET m == command[c]
      b == m.book
      row == Saved(m, seen[c])
  IN
  /\ pc[c] = "commit"
  /\ bookRow' = [bookRow EXCEPT ![b] = row]
  /\ versions' = versions \cup {<<b, row.version, row.text>>}
  /\ noteRow' =
       CASE m.op = "createNote" -> [noteRow EXCEPT ![c] = [book |-> b, current |-> c, live |-> TRUE]]
         [] m.op = "updateNote" -> [noteRow EXCEPT ![m.item].current = c]
         [] m.op = "deleteNote" -> [noteRow EXCEPT ![m.item].live = FALSE]
         [] OTHER -> noteRow
  /\ revision' =
       CASE m.op = "createNote" -> [revision EXCEPT ![c] = [note |-> c, parent |-> None]]
         [] m.op = "updateNote" ->
              [revision EXCEPT ![c] = [note |-> m.item, parent |-> noteRow[m.item].current]]
         [] OTHER -> revision
  /\ link' =
       CASE m.op = "createLink" -> [link EXCEPT ![c] = [book |-> b, by |-> c, live |-> TRUE]]
         [] m.op = "updateLink" -> [link EXCEPT ![m.item].by = c]
         [] m.op = "deleteLink" -> [link EXCEPT ![m.item].live = FALSE]
         [] OTHER -> link
  /\ UNCHANGED identity
  /\ Succeed(c, [kind |-> "ok", item |-> WorkspaceOf(row, LiveNotes(noteRow', b), LiveLinks(link', b))])

\* No connection, or the reply of the promotion's COMMIT was lost.
ConnectFails(c) ==
  /\ pc[c] = "lock"
  /\ Finish(c, [kind |-> "unavailable"])
  /\ UNCHANGED <<identity, rowVars, dbVars>>

ConnectionLost(c) == pc[c] \in InTransaction /\ Refuse(c, "unavailable")

\* An operator archives an edition; nobody holds a lock on it.
Archive(c) ==
  /\ \E b \in Books : identity[b] = c
  /\ c \notin archived
  /\ archived' = archived \cup {c}
  /\ UNCHANGED <<command, pc, seen, answer, identity, rowVars, dbVars>>

Serve(c) == Promotion(c) \/ LockBook(c) \/ CommitWrite(c)
=============================================================================
