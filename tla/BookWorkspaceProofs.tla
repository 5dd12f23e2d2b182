------------------------ MODULE BookWorkspaceProofs -------------------------
(***************************************************************************)
(* Why a document has one chain, why nothing is overwritten that its       *)
(* author was not shown, why no draft is lost and why nobody waits for     *)
(* ever, for any calls, books, identities and tabs.                        *)
(***************************************************************************)
EXTENDS BookWorkspace, TLAPS

-----------------------------------------------------------------------------
(* The inductive invariant. *)

\* v and t are a version of book b and its text, or b was not in the library.
Saw(b, v, t) == v = 0 \/ <<b, v, t>> \in versions

\* Whoever replaces a text was shown the version his command is based on.
CommandOK(m) ==
  /\ m.op = "save" => Saw(m.book, m.base, m.over)
  /\ m.op = "updateNote" => m.over = m.base

\* A new document: what is reserved is held and belongs to nobody.
Reserves(c) ==
  LET b == command[c].book IN
  /\ seen[c] \in Seq(Others)
  /\ holder[b] = c /\ identity[b] = None
  /\ \A i \in SecondaryOf(b) :
       \/ holder[i] = c /\ identity[i] = None
       \/ \E k \in DOMAIN seen[c] : seen[c][k] = i

\* A writer holds the book, and what it has checked is still so.
Writes(c) ==
  LET m == command[c]
      v == seen[c]
  IN
  /\ v \in [created : BOOLEAN, row : BookRows]
  /\ holder[BookLock(m.book)] = c
  /\ v.created => bookRow[m.book] = None /\ v.row.chain = identity[m.book] /\ v.row.version = 1
  /\ ~ v.created => bookRow[m.book] = v.row
  /\ Owned(m)
  /\ ~ Outdated(m, v.row, v.created)

CallOK(c) ==
  /\ pc[c] = "idle" <=> command[c] = None
  /\ command[c] # None => CommandOK(command[c])
  /\ pc[c] \in {"subject", "primary", "chain", "reserve"} => command[c].op \in Keeping \cup {"promote"}
  /\ pc[c] = "chain" => identity[command[c].book] # None
  /\ pc[c] = "reserve" => Reserves(c)
  /\ pc[c] = "lock" /\ command[c].op \in Keeping => seen[c] \in Calls /\ seen[c] = identity[command[c].book]
  /\ pc[c] = "commit" => Writes(c)

\* The text of a save that succeeded has become a version.
Kept(m) == \E v \in versions : v[1] = m.book /\ v[2] >= m.base /\ v[3] = m.text

AnswerOK(c) ==
  LET m == command[c]
      a == answer[c]
  IN
  a # None =>
    /\ pc[c] = "done"
    /\ a.kind # "corrupt"
    /\ a.kind = "promoted" => a.chain = identity[m.book]
    /\ a.kind = "ok" =>
         /\ Saw(m.book, a.item.version, a.item.text)
         /\ m.op = "save" => Kept(m)
         /\ m.op \in {"createNote", "updateNote"} => revision[c] # None
         /\ m.op \in {"createLink", "updateLink"} => \E l \in a.item.links : l[2] = c

\* What is committed: rows and chains are named after calls that have come far
\* enough, and a book's present version is its last.
RowsOK ==
  /\ \A n \in Calls : noteRow[n] # None \/ revision[n] # None \/ link[n] # None => pc[n] = "done"
  /\ \A i \in Ids : identity[i] # None => pc[identity[i]] \in {"lock", "commit", "done"}
  /\ \A b \in Books : bookRow[b] # None =>
       bookRow[b].version >= 1 /\ <<b, bookRow[b].version, bookRow[b].text>> \in versions
  /\ \A v \in versions : bookRow[v[1]] # None /\ v[2] <= bookRow[v[1]].version
  /\ \A v, w \in versions : v[1] = w[1] /\ v[2] = w[2] => v[3] = w[3]

\* A page shows versions, and its call is about its book and its draft.
PageOK(p) ==
  /\ Saw(p.book, p.item.version, p.item.text)
  /\ p.intro # None => Saw(p.book, p.intro.base, p.intro.over)
  /\ p.note # None => p.note.over = p.note.base
  /\ p.call # None =>
       LET m == command[p.call] IN
       /\ m # None /\ m.book = p.book
       /\ m.op = "save" => p.intro # None /\ m.text = p.intro.draft /\ m.base = p.intro.base
       /\ m.op \in {"createNote", "updateNote"} => p.note # None
       /\ m.op \in {"createLink", "updateLink"} => p.link # None

IInv ==
  /\ TypeOK /\ seen = [c \in Calls |-> seen[c]]
  /\ \A c \in Calls : CallOK(c) /\ AnswerOK(c)
  /\ RowsOK
  /\ OneChainPerDocument
  /\ \A t \in Tabs : page[t] # None => PageOK(page[t])

-----------------------------------------------------------------------------
(* Types and locks. *)

Locks == Ids \cup {BookLock(b) : b \in Books}

\* Nobody but c loses a lock.
KeepsOthers(c) == \A x \in Locks : holder[x] \notin {None, c} => holder'[x] = holder[x]

LEMMA CommandFields ==
  ASSUME NEW m \in Commands
  PROVE  /\ m.book \in Books
         /\ m.op = "save" => m.text \in Texts /\ m.base \in Nat /\ m.over \in Texts
         /\ m.op = "updateNote" => m.base \in Calls /\ m.over \in Calls
         /\ m.op \in {"updateNote", "deleteNote", "updateLink", "deleteLink"} => m.item \in Calls
BY DEF Commands

LEMMA NothingIsNone ==
  /\ None \notin Calls /\ None \notin Texts /\ None \notin Commands /\ None \notin Answers
  /\ None \notin BookRows /\ None \notin NoteRows /\ None \notin Revisions /\ None \notin Links
BY NoneIsNothing DEF Texts

LEMMA DbBegins ==
  ASSUME TypeOK, NEW c \in Calls, Db!Begin(c)
  PROVE  Db!DbTypeOK' /\ KeepsOthers(c) /\ holder' = holder
BY DEF TypeOK, Db!DbTypeOK, Db!Begin, KeepsOthers

LEMMA DbLocks ==
  ASSUME TypeOK, NEW c \in Calls, NEW x \in Locks, Db!Lock(c, x)
  PROVE  /\ Db!DbTypeOK' /\ KeepsOthers(c)
         /\ holder'[x] = c /\ \A y \in Locks : holder[y] = c => holder'[y] = c
<1>1. Db!DbTypeOK' /\ holder' = [holder EXCEPT ![x] = c] /\ holder[x] \in {None, c}
  BY DEF TypeOK, Db!DbTypeOK, Db!Lock, Db!Waits, Locks
<1> QED  BY <1>1 DEF TypeOK, Db!DbTypeOK, KeepsOthers, Locks

LEMMA DbBeginsWithLock ==
  ASSUME TypeOK, NEW c \in Calls, NEW x \in Locks, Db!BeginLock(c, x)
  PROVE  Db!DbTypeOK' /\ KeepsOthers(c) /\ holder'[x] = c
<1>1. Db!DbTypeOK' /\ holder' = [holder EXCEPT ![x] = c] /\ holder[x] \in {None, c}
  BY DEF TypeOK, Db!DbTypeOK, Db!BeginLock, Db!Waits, Locks
<1> QED  BY <1>1 DEF TypeOK, Db!DbTypeOK, KeepsOthers, Locks

LEMMA DbEnds ==
  ASSUME TypeOK, NEW c \in Calls, Db!End(c, {})
  PROVE  Db!DbTypeOK' /\ KeepsOthers(c)
<1>1. holder' = [x \in Locks |-> IF holder[x] = c THEN None ELSE holder[x]]
  BY DEF Db!End, Locks
<1>2. Db!DbTypeOK'
  BY <1>1 DEF TypeOK, Db!DbTypeOK, Db!End, Locks
<1> QED  BY <1>1, <1>2 DEF KeepsOthers

LEMMA DbStays ==
  ASSUME TypeOK, NEW c \in Calls, UNCHANGED dbVars
  PROVE  Db!DbTypeOK' /\ KeepsOthers(c) /\ holder' = holder
BY DEF TypeOK, Db!DbTypeOK, dbVars, KeepsOthers

-----------------------------------------------------------------------------
(* A step of one call that changes no row. *)

LEMMA QuietStep ==
  ASSUME IInv, NEW c \in Calls, NEW s \in Steps, NEW v,
         pc[c] # "done", pc[c] \in {"lock", "commit"} => s \in {"lock", "commit", "done"},
         pc' = [pc EXCEPT ![c] = s], seen' = [seen EXCEPT ![c] = v],
         \/ UNCHANGED answer
         \/ s = "done" /\ \E a \in Answers : answer' = [answer EXCEPT ![c] = a],
         UNCHANGED <<command, archived, identity, rowVars, page>>,
         Db!DbTypeOK', KeepsOthers(c),
         CallOK(c)', AnswerOK(c)'
  PROVE  IInv'
<1>1. TypeOK' /\ seen' = [d \in Calls |-> seen'[d]]
  BY DEF IInv, TypeOK, rowVars
<1>2. ASSUME NEW d \in Calls PROVE CallOK(d)' /\ AnswerOK(d)'
  <2>1. CASE d = c  BY <2>1
  <2>2. CASE d # c
    <3>1. pc'[d] = pc[d] /\ seen'[d] = seen[d] /\ answer'[d] = answer[d]
      BY <2>2 DEF IInv, TypeOK
    <3>2. CallOK(d) /\ AnswerOK(d)  BY DEF IInv
    <3>3. AnswerOK(d)'
      BY <3>1, <3>2 DEF AnswerOK, Saw, Kept, rowVars
    <3>4. ASSUME Reserves(d), command[d] # None PROVE Reserves(d)'
      <4>1. command[d].book \in Locks /\ SecondaryOf(command[d].book) \subseteq Locks
        BY <3>4, CommandFields, IdentitiesAreApart DEF IInv, TypeOK, Locks, Ids, SecondaryOf
      <4> QED
        BY <3>1, <3>4, <4>1, <2>2, NothingIsNone DEF Reserves, KeepsOthers, SecondaryOf
    <3>5. ASSUME Writes(d), command[d] # None PROVE Writes(d)'
      <4>1. BookLock(command[d].book) \in Locks
        BY <3>5, CommandFields DEF IInv, TypeOK, Locks
      <4> QED
        BY <3>1, <3>5, <4>1, <2>2, NothingIsNone DEF Writes, KeepsOthers, Owned, Outdated, rowVars, BookLock
    <3>6. CallOK(d)'
      BY <3>1, <3>2, <3>4, <3>5 DEF CallOK, CommandOK, Saw, rowVars
    <3> QED  BY <3>3, <3>6
  <2> QED  BY <2>1, <2>2
<1>3. RowsOK'
  <2>1. \A d \in Calls : pc[d] = "done" => pc'[d] = "done"
    BY DEF IInv, TypeOK
  <2>2. \A d \in Calls : pc[d] \in {"lock", "commit", "done"} => pc'[d] \in {"lock", "commit", "done"}
    BY DEF IInv, TypeOK
  <2>3. \A i \in Ids : identity[i] # None => identity[i] \in Calls
    BY DEF IInv, TypeOK
  <2> QED  BY <2>1, <2>2, <2>3 DEF IInv, RowsOK, rowVars
<1>4. OneChainPerDocument'
  BY <1>2 DEF IInv, OneChainPerDocument, AnswerOK, rowVars, SecondaryOf
<1>5. \A t \in Tabs : page'[t] # None => PageOK(page[t])'
  BY DEF IInv, PageOK, Saw, rowVars
<1> QED  BY <1>1, <1>2, <1>3, <1>4, <1>5 DEF IInv

\* A call that runs has a command and no answer.
LEMMA Running ==
  ASSUME IInv, NEW c \in Calls, pc[c] \notin {"idle", "done"}
  PROVE  /\ command[c] \in Commands /\ command[c].book \in Books /\ answer[c] = None
         /\ SecondaryOf(command[c].book) \subseteq Others
<1>1. command[c] # None /\ answer[c] = None  BY DEF IInv, CallOK, AnswerOK
<1>2. command[c] \in Commands /\ command[c].book \in Books
  BY <1>1, CommandFields DEF IInv, TypeOK
<1> QED  BY <1>1, <1>2, IdentitiesAreApart DEF SecondaryOf

\* A call that fails is done, and says nothing of the library.
LEMMA FailureHolds ==
  ASSUME IInv, NEW c \in Calls, pc[c] \notin {"idle", "done"},
         NEW kind \in {"notFound", "readOnly", "stale", "mismatch", "unavailable"},
         Finish(c, [kind |-> kind]), UNCHANGED <<identity, rowVars, page>>,
         Db!DbTypeOK', KeepsOthers(c)
  PROVE  IInv'
<1>1. [kind |-> kind] \in Answers  BY DEF Answers, Errors
<1>2. /\ pc' = [pc EXCEPT ![c] = "done"] /\ seen' = [seen EXCEPT ![c] = None]
      /\ answer' = [answer EXCEPT ![c] = [kind |-> kind]] /\ UNCHANGED <<command, archived>>
  BY DEF Finish
<1>3. pc'[c] = "done" /\ answer'[c] = [kind |-> kind]
  BY <1>2 DEF IInv, TypeOK
<1>4. CallOK(c)'
  BY <1>2, <1>3 DEF IInv, CallOK, CommandOK, Saw, rowVars
<1>5. AnswerOK(c)'
  BY <1>3 DEF AnswerOK
<1> QED  BY <1>1, <1>2, <1>4, <1>5, QuietStep DEF Steps

\* A call that goes on keeps its command and has no answer yet.
LEMMA GoesOn ==
  ASSUME IInv, NEW c \in Calls, pc[c] \notin {"idle", "done"}, NEW s \in Steps \ {"idle", "done"}, NEW v,
         pc' = [pc EXCEPT ![c] = s], seen' = [seen EXCEPT ![c] = v],
         UNCHANGED <<command, answer, identity, rowVars>>
  PROVE  /\ pc'[c] = s /\ seen'[c] = v /\ command'[c] = command[c] /\ AnswerOK(c)'
         /\ pc'[c] = "idle" <=> command'[c] = None
         /\ CommandOK(command[c])'
<1>1. pc'[c] = s /\ seen'[c] = v  BY DEF IInv, TypeOK
<1>2. answer'[c] = None /\ command[c] # None  BY Running, NothingIsNone
<1> QED  BY <1>1, <1>2 DEF AnswerOK, IInv, CallOK, CommandOK, Saw, rowVars

LEMMA SubjectHolds ==
  ASSUME IInv, NEW c \in Calls, Subject(c), UNCHANGED page
  PROVE  IInv'
<1> DEFINE b == command[c].book
           known == command[c].op # "promote" /\ bookRow[b] # None
<1>1. /\ pc[c] = "subject" /\ pc[c] \notin {"idle", "done"} /\ TypeOK
      /\ b \in Books /\ command[c].op \in Keeping \cup {"promote"}
  BY Running DEF Subject, IInv, CallOK
<1>2. CASE known /\ GoOn(c, "lock", bookRow[b].chain) /\ UNCHANGED dbVars
  <2>1. PICK chain \in Calls : chain = bookRow[b].chain /\ chain = identity[b]
    BY <1>1, <1>2 DEF IInv, TypeOK, OneChainPerDocument, BookRows
  <2>2. /\ pc' = [pc EXCEPT ![c] = "lock"] /\ seen' = [seen EXCEPT ![c] = chain]
        /\ UNCHANGED <<command, answer, archived, identity, rowVars>>
    BY <1>2, <2>1 DEF GoOn
  <2>3. /\ pc'[c] = "lock" /\ seen'[c] = chain /\ command'[c] = command[c] /\ AnswerOK(c)'
        /\ pc'[c] = "idle" <=> command'[c] = None
        /\ CommandOK(command[c])' /\ identity' = identity
    BY <1>1, <2>2, GoesOn DEF Steps
  <2>4. CallOK(c)'
    BY <1>1, <2>1, <2>3 DEF CallOK
  <2> QED  BY <1>1, <1>2, <2>2, <2>3, <2>4, DbStays, QuietStep DEF Steps
<1>3. CASE GoOn(c, "primary", None) /\ Db!Begin(c)
  <2>2. /\ pc' = [pc EXCEPT ![c] = "primary"] /\ seen' = [seen EXCEPT ![c] = None]
        /\ UNCHANGED <<command, answer, archived, identity, rowVars>>
    BY <1>3 DEF GoOn
  <2>3. CallOK(c)' /\ AnswerOK(c)'
    BY <1>1, <2>2, GoesOn DEF CallOK, Steps
  <2> QED  BY <1>1, <1>3, <2>2, <2>3, DbBegins, QuietStep DEF Steps
<1>4. CASE /\ \E kind \in {"notFound", "unavailable"} : Finish(c, [kind |-> kind])
           /\ UNCHANGED <<identity, rowVars, dbVars>>
  BY <1>1, <1>4, DbStays, FailureHolds
<1> QED  BY <1>2, <1>3, <1>4 DEF Subject

LEMMA ReservePrimaryHolds ==
  ASSUME IInv, NEW c \in Calls, ReservePrimary(c), UNCHANGED page
  PROVE  IInv'
<1> DEFINE b == command[c].book
<1>1. /\ pc[c] = "primary" /\ pc[c] \notin {"idle", "done"} /\ TypeOK
      /\ b \in Books /\ command[c].op \in Keeping \cup {"promote"}
  BY Running DEF ReservePrimary, IInv, CallOK
<1>2. CASE Taken(b) /\ GoOn(c, "chain", None) /\ UNCHANGED dbVars
  <2>2. /\ pc' = [pc EXCEPT ![c] = "chain"] /\ seen' = [seen EXCEPT ![c] = None]
        /\ UNCHANGED <<command, answer, archived, identity, rowVars>>
    BY <1>2 DEF GoOn
  <2>3. CallOK(c)' /\ AnswerOK(c)'
    BY <1>1, <1>2, <2>2, GoesOn DEF CallOK, Steps, Taken
  <2> QED  BY <1>1, <1>2, <2>2, <2>3, DbStays, QuietStep DEF Steps
<1>3. CASE ~ Taken(b) /\ GoOn(c, "reserve", Secondary[b]) /\ Db!Lock(c, b)
  <2>2. /\ pc' = [pc EXCEPT ![c] = "reserve"] /\ seen' = [seen EXCEPT ![c] = Secondary[b]]
        /\ UNCHANGED <<command, answer, archived, identity, rowVars>>
    BY <1>3 DEF GoOn
  <2>3. b \in Locks /\ Secondary[b] \in Seq(Others)
    BY <1>1, IdentitiesAreApart DEF Locks, Ids
  <2>4. Db!DbTypeOK' /\ KeepsOthers(c) /\ holder'[b] = c
    BY <1>1, <1>3, <2>3, DbLocks
  <2>5. \A i \in SecondaryOf(b) : \E k \in DOMAIN Secondary[b] : Secondary[b][k] = i
    BY DEF SecondaryOf
  <2>6. /\ pc'[c] = "reserve" /\ seen'[c] = Secondary[b] /\ command'[c] = command[c] /\ AnswerOK(c)'
        /\ pc'[c] = "idle" <=> command'[c] = None
        /\ CommandOK(command[c])'
    BY <1>1, <2>2, GoesOn DEF Steps
  <2>7. Reserves(c)'
    BY <1>3, <2>2, <2>3, <2>4, <2>5, <2>6 DEF Reserves, Taken
  <2>8. CallOK(c)'
    BY <1>1, <2>6, <2>7 DEF CallOK
  <2> QED  BY <1>1, <2>2, <2>4, <2>6, <2>8, QuietStep DEF Steps
<1> QED  BY <1>2, <1>3 DEF ReservePrimary

LEMMA RefusalHolds ==
  ASSUME IInv, NEW c \in Calls, pc[c] \notin {"idle", "done"},
         NEW kind \in {"notFound", "readOnly", "stale", "mismatch", "unavailable"},
         Refuse(c, kind), UNCHANGED page
  PROVE  IInv'
<1>1. Db!DbTypeOK' /\ KeepsOthers(c)
  BY DbEnds DEF Refuse, IInv
<1> QED  BY <1>1, FailureHolds DEF Refuse

LEMMA FailsHold ==
  ASSUME IInv, NEW c \in Calls, UNCHANGED page, ConnectFails(c) \/ ConnectionLost(c)
  PROVE  IInv'
<1>1. CASE ConnectFails(c)
  <2>1. TypeOK /\ pc[c] = "lock" /\ Finish(c, [kind |-> "unavailable"]) /\ UNCHANGED <<identity, rowVars, dbVars>>
    BY <1>1 DEF ConnectFails, IInv
  <2>2. Db!DbTypeOK' /\ KeepsOthers(c)
    BY <2>1, DbStays
  <2> QED  BY <2>1, <2>2, FailureHolds
<1>2. CASE ConnectionLost(c)
  BY <1>2, RefusalHolds DEF ConnectionLost, InTransaction
<1> QED  BY <1>1, <1>2

\* The document has its chain: the caller is told, or goes on to the library.
LEMMA LoadChainHolds ==
  ASSUME IInv, NEW c \in Calls, LoadChain(c), UNCHANGED page
  PROVE  IInv'
<1> DEFINE b == command[c].book
<1>1. /\ pc[c] = "chain" /\ pc[c] \notin {"idle", "done"} /\ TypeOK
      /\ b \in Books /\ command[c].op \in Keeping \cup {"promote"} /\ identity[b] # None /\ answer[c] = None
  BY Running DEF LoadChain, IInv, CallOK
<1>2. PICK chain \in Calls : chain = identity[b]
  BY <1>1 DEF TypeOK, Ids
<1>3. CASE Refuse(c, "mismatch")
  BY <1>1, <1>3, RefusalHolds
<1>4. CASE Promoted(c, chain) /\ UNCHANGED identity
  <2>1. UNCHANGED rowVars  BY <1>4 DEF Promoted
  <2>2. CASE command[c].op = "promote" /\ Succeed(c, [kind |-> "promoted", chain |-> chain])
    <3> DEFINE a == [kind |-> "promoted", chain |-> chain]
    <3>1. a \in Answers  BY DEF Answers
    <3>2. /\ pc' = [pc EXCEPT ![c] = "done"] /\ seen' = [seen EXCEPT ![c] = None]
          /\ answer' = [answer EXCEPT ![c] = a] /\ UNCHANGED <<command, archived>> /\ Db!End(c, {})
      BY <2>2 DEF Succeed, Finish
    <3>3. pc'[c] = "done" /\ answer'[c] = a
      BY <1>1, <3>2 DEF TypeOK
    <3>4. CallOK(c)'
      BY <1>1, <1>4, <2>1, <3>2, <3>3 DEF IInv, CallOK, CommandOK, Saw, rowVars
    <3>5. AnswerOK(c)'
      BY <1>2, <1>4, <3>2, <3>3 DEF AnswerOK
    <3>6. Db!DbTypeOK' /\ KeepsOthers(c)  BY <1>1, <3>2, DbEnds
    <3> HIDE DEF a
    <3> QED  BY <1>1, <1>4, <2>1, <3>1, <3>2, <3>4, <3>5, <3>6, QuietStep DEF Steps
  <2>3. CASE command[c].op # "promote" /\ pc' = [pc EXCEPT ![c] = "lock"] /\ seen' = [seen EXCEPT ![c] = chain]
             /\ UNCHANGED <<command, answer, archived>> /\ Db!End(c, {})
    <3>0. UNCHANGED <<command, answer, identity, rowVars>> /\ identity' = identity
      BY <1>4, <2>1, <2>3
    <3>1. /\ pc'[c] = "lock" /\ seen'[c] = chain /\ command'[c] = command[c] /\ AnswerOK(c)'
          /\ pc'[c] = "idle" <=> command'[c] = None
          /\ CommandOK(command[c])'
      BY <1>1, <2>3, <3>0, GoesOn DEF Steps
    <3>2. CallOK(c)'
      BY <1>1, <1>2, <3>0, <3>1 DEF CallOK
    <3>3. Db!DbTypeOK' /\ KeepsOthers(c)  BY <1>1, <2>3, DbEnds
    <3> QED  BY <1>1, <1>4, <2>1, <2>3, <3>1, <3>2, <3>3, QuietStep DEF Steps
  <2> QED  BY <1>4, <2>2, <2>3 DEF Promoted
<1>5. \/ Refuse(c, "mismatch")
      \/ Promoted(c, chain) /\ UNCHANGED identity
  BY <1>1, <1>2 DEF LoadChain
<1> QED  BY <1>3, <1>4, <1>5

LEMMA ReserveSecondaryHolds ==
  ASSUME IInv, NEW c \in Calls, ReserveSecondary(c), UNCHANGED page
  PROVE  IInv'
<1> DEFINE b == command[c].book
<1>1. /\ pc[c] = "reserve" /\ pc[c] \notin {"idle", "done"} /\ TypeOK /\ Reserves(c) /\ seen[c] # <<>>
      /\ b \in Books /\ command[c].op \in Keeping \cup {"promote"} /\ SecondaryOf(b) \subseteq Others
  BY Running DEF ReserveSecondary, IInv, CallOK
<1>2. PICK q \in Seq(Others) : q = seen[c] /\ q # <<>>
  BY <1>1 DEF Reserves
<1>3. Head(q) \in Others /\ Tail(q) \in Seq(Others)
  BY <1>2
<1>4. \A i : (\E k \in DOMAIN q : q[k] = i) => i = Head(q) \/ \E k \in DOMAIN Tail(q) : Tail(q)[k] = i
  <2> SUFFICES ASSUME NEW k \in DOMAIN q, k # 1 PROVE \E j \in DOMAIN Tail(q) : Tail(q)[j] = q[k]
    BY <1>2
  <2>1. k \in 2..Len(q) /\ k - 1 \in 1..Len(Tail(q)) /\ Tail(q)[k - 1] = q[k]
    BY <1>2
  <2>2. DOMAIN Tail(q) = 1..Len(Tail(q))
    BY <1>3
  <2> QED  BY <2>1, <2>2
<1>5. CASE Refuse(c, "mismatch")
  BY <1>1, <1>5, RefusalHolds
<1>6. CASE ~ Taken(Head(q)) /\ GoOn(c, "reserve", Tail(q)) /\ Db!Lock(c, Head(q))
  <2>1. PICK left \in Seq(Others) : left = Tail(q)
    BY <1>3
  <2>2. /\ pc' = [pc EXCEPT ![c] = "reserve"] /\ seen' = [seen EXCEPT ![c] = left]
        /\ UNCHANGED <<command, answer, archived, identity, rowVars>>
    BY <1>6, <2>1 DEF GoOn
  <2>3. b \in Locks /\ Head(q) \in Locks /\ SecondaryOf(b) \subseteq Locks
    BY <1>1, <1>3 DEF Locks, Ids
  <2>4. Db!DbTypeOK' /\ KeepsOthers(c) /\ holder'[Head(q)] = c /\ \A y \in Locks : holder[y] = c => holder'[y] = c
    BY <1>1, <1>6, <2>3, DbLocks
  <2>5. /\ pc'[c] = "reserve" /\ seen'[c] = left /\ command'[c] = command[c] /\ AnswerOK(c)'
        /\ pc'[c] = "idle" <=> command'[c] = None
        /\ CommandOK(command[c])' /\ identity' = identity
    BY <1>1, <2>2, GoesOn DEF Steps
  <2>6. holder'[b] = c /\ identity[b] = None
    BY <1>1, <2>3, <2>4 DEF Reserves
  <2>7. ASSUME NEW i \in SecondaryOf(b)
        PROVE  \/ holder'[i] = c /\ identity[i] = None
               \/ \E k \in DOMAIN left : left[k] = i
    BY <1>1, <1>2, <1>4, <1>6, <2>1, <2>3, <2>4 DEF Reserves, Taken
  <2>8. Reserves(c)'
    BY <2>1, <2>5, <2>6, <2>7 DEF Reserves
  <2>9. CallOK(c)'
    BY <1>1, <2>5, <2>8 DEF CallOK
  <2> QED  BY <1>1, <2>2, <2>4, <2>5, <2>9, QuietStep DEF Steps
<1> QED  BY <1>2, <1>5, <1>6 DEF ReserveSecondary, Reserve

\* What a writer finds in order stays so as long as it holds the book.
LEMMA LockBookHolds ==
  ASSUME IInv, NEW c \in Calls, LockBook(c), UNCHANGED page
  PROVE  IInv'
<1> DEFINE m == command[c]
           x == BookLock(m.book)
<1>1. /\ pc[c] = "lock" /\ pc[c] \notin {"idle", "done"} /\ TypeOK /\ m \in Commands /\ m.book \in Books
      /\ m.op \in Keeping => seen[c] \in Calls /\ seen[c] = identity[m.book]
  BY Running DEF LockBook, IInv, CallOK
<1>2. CASE Objection(c) # "none" /\ Refuses(c, Objection(c))
  <2>1. PICK kind \in {"notFound", "readOnly", "stale", "mismatch", "unavailable"} :
          Finish(c, [kind |-> kind]) /\ UNCHANGED <<identity, rowVars, dbVars>>
    BY <1>2 DEF Refuses, Objection
  <2>2. Db!DbTypeOK' /\ KeepsOthers(c)
    BY <1>1, <2>1, DbStays
  <2> QED  BY <1>1, <2>1, <2>2, FailureHolds
<1>3. CASE Objection(c) = "none" /\ GoOn(c, "commit", InHand(c)) /\ Db!BeginLock(c, x)
  <2>1. /\ RowOf(c) # None /\ Owned(m) /\ ~ Outdated(m, RowOf(c), Created(c))
    BY <1>3 DEF Objection
  <2>2. Created(c) => /\ RowOf(c) \in BookRows /\ bookRow[m.book] = None
                      /\ RowOf(c).chain = identity[m.book] /\ RowOf(c).version = 1
    <3>1. Created(c) => RowOf(c) = [chain |-> seen[c], version |-> 1, text |-> Empty]
      BY DEF RowOf
    <3>2. Created(c) => seen[c] \in Calls /\ bookRow[m.book] = None /\ seen[c] = identity[m.book]
      BY <1>1 DEF Created
    <3> QED  BY <3>1, <3>2 DEF BookRows, Texts
  <2>3. ~ Created(c) => RowOf(c) = bookRow[m.book] /\ RowOf(c) \in BookRows
    BY <1>1, <2>1 DEF RowOf, TypeOK
  <2>11. Created(c) \in BOOLEAN /\ RowOf(c) \in BookRows
    BY <2>2, <2>3 DEF Created
  <2>12. PICK created \in BOOLEAN, row \in BookRows : created = Created(c) /\ row = RowOf(c)
    BY <2>11, Zenon
  <2>13. InHand(c) = [created |-> created, row |-> row]
    BY <2>12, Zenon DEF InHand
  <2>14. [created |-> created, row |-> row] \in [created : BOOLEAN, row : BookRows]
    OBVIOUS
  <2>4. PICK v \in [created : BOOLEAN, row : BookRows] : v = InHand(c) /\ v.created = Created(c) /\ v.row = RowOf(c)
    <3>1. [created |-> created, row |-> row].created = created /\ [created |-> created, row |-> row].row = row
      OBVIOUS
    <3> QED  BY <2>12, <2>13, <2>14, <3>1, Zenon
  <2>5. /\ pc' = [pc EXCEPT ![c] = "commit"] /\ seen' = [seen EXCEPT ![c] = v]
        /\ UNCHANGED <<command, answer, archived, identity, rowVars>>
        /\ UNCHANGED <<command, answer, identity, rowVars>>
    BY <1>3, <2>4 DEF GoOn
  <2>6. x \in Locks
    BY <1>1 DEF Locks
  <2>7. Db!DbTypeOK' /\ KeepsOthers(c) /\ holder'[x] = c
    BY <1>1, <1>3, <2>6, DbBeginsWithLock
  <2>8. /\ pc'[c] = "commit" /\ seen'[c] = v /\ command'[c] = command[c] /\ AnswerOK(c)'
        /\ pc'[c] = "idle" <=> command'[c] = None
        /\ CommandOK(command[c])'
    BY <1>1, <2>5, GoesOn DEF Steps
  <2>9. Writes(c)'
    BY <2>1, <2>2, <2>3, <2>4, <2>5, <2>7, <2>8 DEF Writes, Owned, Outdated, rowVars
  <2>10. CallOK(c)'
    BY <2>8, <2>9 DEF CallOK
  <2> QED  BY <1>1, <2>5, <2>7, <2>8, <2>10, QuietStep DEF Steps
<1> QED  BY <1>2, <1>3 DEF LockBook

-----------------------------------------------------------------------------
(* COMMIT of a promotion: identities that nobody has get their chain. *)

LEMMA CommitPromotionHolds ==
  ASSUME IInv, NEW c \in Calls, CommitPromotion(c), UNCHANGED page
  PROVE  IInv'
<1> DEFINE b == command[c].book
           Mine == {b} \cup SecondaryOf(b)
<1>1. /\ pc[c] = "reserve" /\ pc[c] \notin {"idle", "done"} /\ TypeOK /\ Reserves(c) /\ seen[c] = <<>>
      /\ b \in Books /\ command[c].op \in Keeping \cup {"promote"} /\ SecondaryOf(b) \subseteq Others
      /\ command[c] \in Commands /\ command[c] # None /\ answer[c] = None
  BY Running, NothingIsNone DEF CommitPromotion, IInv, CallOK
<1>2. \A i \in Mine : i \in Ids /\ i \in Locks /\ holder[i] = c /\ identity[i] = None
  BY <1>1 DEF Reserves, Ids, Locks
<1>3. \A i \in Ids : identity[i] # c
  BY <1>1, NothingIsNone DEF IInv, RowsOK
<1>4. \A i \in Ids : identity'[i] = IF i \in Mine THEN c ELSE identity[i]
  BY DEF CommitPromotion
<1>5. \A i \in Ids : identity[i] # None => identity'[i] = identity[i]
  BY <1>2, <1>4
<1>6. UNCHANGED rowVars /\ UNCHANGED <<command, archived>> /\ Db!DbTypeOK' /\ KeepsOthers(c)
  <2>1. Db!End(c, {}) /\ UNCHANGED rowVars /\ UNCHANGED <<command, archived>>
    BY DEF CommitPromotion, Promoted, Succeed, Finish
  <2> QED  BY <1>1, <2>1, DbEnds
<1>7. \/ /\ command[c].op = "promote" /\ pc' = [pc EXCEPT ![c] = "done"] /\ seen' = [seen EXCEPT ![c] = None]
         /\ answer' = [answer EXCEPT ![c] = [kind |-> "promoted", chain |-> c]]
      \/ /\ command[c].op # "promote" /\ pc' = [pc EXCEPT ![c] = "lock"] /\ seen' = [seen EXCEPT ![c] = c]
         /\ UNCHANGED answer
  BY DEF CommitPromotion, Promoted, Succeed, Finish
<1>8. pc' \in [Calls -> Steps] /\ answer' \in [Calls -> Answers \cup {None}] /\ seen' = [d \in Calls |-> seen'[d]]
  <2>1. [kind |-> "promoted", chain |-> c] \in Answers
    BY DEF Answers
  <2> QED  BY <1>1, <1>7, <2>1 DEF IInv, TypeOK, Steps
<1>9. TypeOK'
  <2>1. identity' \in [Ids -> Calls \cup {None}]
    BY <1>1, <1>4 DEF TypeOK, CommitPromotion
  <2> QED  BY <1>1, <1>6, <1>8, <2>1 DEF TypeOK, rowVars
<1>10. CallOK(c)' /\ AnswerOK(c)'
  <2>1. \/ pc'[c] = "done" /\ answer'[c] = [kind |-> "promoted", chain |-> c]
        \/ command[c].op # "promote" /\ pc'[c] = "lock" /\ seen'[c] = c /\ answer'[c] = None
    BY <1>1, <1>7 DEF IInv, TypeOK
  <2>2. identity'[b] = c /\ command' = command
    BY <1>2, <1>4, <1>6
  <2>3. CommandOK(command[c])'
    BY <1>1, <1>6 DEF IInv, CallOK, CommandOK, Saw, rowVars
  <2>4. CallOK(c)'
    BY <1>1, <2>1, <2>2, <2>3 DEF CallOK
  <2> QED  BY <2>1, <2>2, <2>4 DEF AnswerOK
<1>11. ASSUME NEW d \in Calls, d # c PROVE CallOK(d)' /\ AnswerOK(d)'
  <2>1. pc'[d] = pc[d] /\ seen'[d] = seen[d] /\ answer'[d] = answer[d] /\ command'[d] = command[d]
    BY <1>6, <1>7, <1>11 DEF IInv, TypeOK
  <2>2. CallOK(d) /\ AnswerOK(d)  BY DEF IInv
  <2>3. command[d] # None => command[d].book \in Books /\ command[d].book \in Ids
    BY CommandFields, <1>1 DEF TypeOK, Ids
  <2>4. AnswerOK(d)'
    <3>1. ASSUME answer[d] # None, answer[d].kind = "promoted"
          PROVE  identity'[command[d].book] = identity[command[d].book]
      <4>1. PICK a \in Answers : a = answer[d] /\ a.kind = "promoted"
        BY <1>1, <3>1 DEF TypeOK
      <4>2. a.chain \in Calls
        BY <4>1 DEF Answers, Errors
      <4>3. command[d] # None /\ identity[command[d].book] = a.chain
        BY <2>2, <3>1, <4>1 DEF AnswerOK, CallOK
      <4> QED  BY <1>5, <2>3, <4>2, <4>3, NothingIsNone
    <3> QED  BY <1>6, <2>1, <2>2, <3>1 DEF AnswerOK, Saw, Kept, rowVars
  <2>5. ASSUME Reserves(d), command[d] # None PROVE Reserves(d)'
    <3>1. /\ command[d].book \in Locks /\ command[d].book \in Ids
          /\ SecondaryOf(command[d].book) \subseteq Locks /\ SecondaryOf(command[d].book) \subseteq Ids
      BY <2>3, <2>5, IdentitiesAreApart DEF Locks, Ids, SecondaryOf
    <3>2. \A i \in Ids : holder[i] = d => identity'[i] = identity[i]
      BY <1>2, <1>4, <1>11
    <3>3. \A i \in Locks : holder[i] = d => holder'[i] = d
      BY <1>6, <1>11, NothingIsNone DEF KeepsOthers
    <3>4. SecondaryOf(command[d].book)' = SecondaryOf(command[d].book)
      BY <1>6 DEF SecondaryOf
    <3> QED  BY <2>1, <2>5, <3>1, <3>2, <3>3, <3>4 DEF Reserves
  <2>6. ASSUME Writes(d), command[d] # None PROVE Writes(d)'
    <3>1. BookLock(command[d].book) \in Locks
      BY <2>3, <2>6 DEF Locks
    <3>2. holder'[BookLock(command[d].book)] = d
      BY <1>6, <1>11, <2>6, <3>1, NothingIsNone DEF KeepsOthers, Writes, BookLock
    <3>3. seen[d].created => identity'[command[d].book] = identity[command[d].book]
      BY <1>5, <2>3, <2>6, NothingIsNone DEF Writes, BookRows
    <3> QED  BY <1>6, <2>1, <2>6, <3>2, <3>3 DEF Writes, Owned, Outdated, rowVars, BookLock
  <2>7. CallOK(d)'
    BY <1>5, <1>6, <2>1, <2>2, <2>3, <2>5, <2>6, NothingIsNone DEF CallOK, CommandOK, Saw, rowVars
  <2> QED  BY <2>4, <2>7
<1>12. RowsOK'
  <2>1. pc'[c] \in {"lock", "done"} /\ \A d \in Calls \ {c} : pc'[d] = pc[d]
    BY <1>1, <1>7 DEF TypeOK
  <2>2. \A i \in Ids : identity'[i] # None => pc'[identity'[i]] \in {"lock", "commit", "done"}
    <3>1. \A i \in Ids : identity[i] # None => identity[i] \in Calls \ {c}
      BY <1>1, <1>3 DEF TypeOK
    <3> QED  BY <1>4, <2>1, <3>1 DEF IInv, RowsOK
  <2> QED  BY <1>1, <1>6, <2>1, <2>2 DEF IInv, RowsOK, rowVars
<1>13. OneChainPerDocument'
  <2>1. ASSUME NEW e \in Books, identity'[e] # None
        PROVE  {i \in Ids : identity'[i] = identity'[e]} = {e} \cup SecondaryOf(e)
    <3>1. CASE e = b
      <4>1. identity'[e] = c  BY <1>2, <1>4, <3>1
      <4>2. \A i \in Ids : identity'[i] = c <=> i \in Mine  BY <1>3, <1>4
      <4> QED  BY <1>2, <3>1, <4>1, <4>2
    <3>2. CASE e # b
      <4>1. e \in Ids /\ e \notin Mine
        BY <1>1, <3>2, IdentitiesAreApart DEF Ids
      <4>2. identity'[e] = identity[e] /\ identity[e] # None /\ identity[e] # c
        BY <1>3, <1>4, <2>1, <4>1
      <4>3. \A i \in Ids : identity'[i] = identity[e] <=> identity[i] = identity[e]
        BY <1>2, <1>4, <4>2
      <4> QED  BY <4>2, <4>3 DEF IInv, OneChainPerDocument
    <3> QED  BY <3>1, <3>2
  <2>2. ASSUME NEW i \in Others, identity'[i] # None PROVE \E e \in Books : identity'[e] = identity'[i]
    <3>1. CASE i \in Mine  BY <1>1, <1>2, <1>4, <3>1
    <3>2. CASE i \notin Mine
      <4>1. i \in Ids /\ identity'[i] = identity[i]  BY <1>4, <3>2 DEF Ids
      <4>2. PICK e \in Books : identity[e] = identity[i]
        BY <2>2, <4>1 DEF IInv, OneChainPerDocument
      <4> QED  BY <1>5, <2>2, <4>1, <4>2 DEF Ids
    <3> QED  BY <3>1, <3>2
  <2>3. ASSUME NEW e \in Books, bookRow[e] # None PROVE bookRow[e].chain = identity'[e]
    <3>1. bookRow[e].chain \in Calls /\ bookRow[e].chain = identity[e]
      BY <1>1, <2>3 DEF TypeOK, IInv, OneChainPerDocument, BookRows
    <3> QED  BY <1>5, <3>1, NothingIsNone DEF Ids
  <2>4. \A d \in Calls : AnswerOK(d)'
    BY <1>10, <1>11
  <2>5. \A e \in Books : SecondaryOf(e)' = SecondaryOf(e)
    BY DEF SecondaryOf
  <2>6. bookRow' = bookRow  BY <1>6 DEF rowVars
  <2> QED  BY <2>1, <2>2, <2>3, <2>4, <2>5, <2>6 DEF OneChainPerDocument, AnswerOK
<1>14. \A t \in Tabs : page'[t] # None => PageOK(page[t])'
  BY <1>6 DEF IInv, PageOK, Saw, rowVars
<1> QED  BY <1>8, <1>9, <1>10, <1>11, <1>12, <1>13, <1>14 DEF IInv

-----------------------------------------------------------------------------
(* COMMIT of a write: one version more, and one item at most. *)

\* The row that is written: the present one or its successor, and what was read of
\* it by the author of a new text.
LEMMA WritesNext ==
  ASSUME IInv, NEW c \in Calls, pc[c] = "commit", NEW m, m = command[c], NEW b, b = m.book,
         NEW row, row = Saved(m, seen[c])
  PROVE  /\ m \in Commands /\ b \in Books /\ row \in BookRows /\ row.version >= 1
         /\ answer[c] = None /\ Writes(c) /\ CommandOK(m)
         /\ row.chain = identity[b]
         /\ \/ bookRow[b] = None
            \/ row = bookRow[b]
            \/ m.op = "save" /\ m.over = bookRow[b].text /\ row.version = bookRow[b].version + 1
         /\ m.op = "save" => row.text = m.text /\ row.version >= m.base
<1>1. /\ TypeOK /\ Writes(c) /\ m \in Commands /\ b \in Books /\ answer[c] = None /\ CommandOK(m)
  BY Running DEF IInv, CallOK
<1>2. PICK v \in [created : BOOLEAN, row : BookRows] : v = seen[c]
  BY <1>1 DEF Writes
<1>3. v.row \in BookRows /\ v.created \in BOOLEAN
  BY <1>2
<1>4. v.row.version \in Nat /\ v.row.chain \in Calls
  BY <1>3 DEF BookRows
<1>5. /\ v.created => bookRow[b] = None /\ v.row.chain = identity[b] /\ v.row.version = 1
      /\ ~ v.created => bookRow[b] = v.row
      /\ m.op = "save" => m.base = IF v.created THEN 0 ELSE v.row.version
  BY <1>1, <1>2 DEF Writes, Outdated
<1>6. bookRow[b] # None => /\ bookRow[b].chain = identity[b] /\ bookRow[b].version >= 1
                           /\ <<b, bookRow[b].version, bookRow[b].text>> \in versions
  BY <1>1 DEF IInv, OneChainPerDocument, RowsOK
<1>7. v.row.version >= 1 /\ v.row.chain = identity[b]
  BY <1>3, <1>5, <1>6, NothingIsNone
<1>8. CASE m.op = "save" /\ (v.created \/ m.text # v.row.text)
  <2> DEFINE next == IF v.created THEN 1 ELSE v.row.version + 1
  <2>1. row = [v.row EXCEPT !.text = m.text, !.version = next]
    BY <1>2, <1>8 DEF Saved
  <2>2. m.text \in Texts /\ next \in Nat /\ next >= 1
    BY <1>1, <1>4, <1>8, CommandFields
  <2>3. row \in BookRows /\ row.version = next /\ row.text = m.text /\ row.chain = v.row.chain
    BY <1>3, <2>1, <2>2 DEF BookRows
  <2>4. ~ v.created => m.over = bookRow[b].text /\ next = bookRow[b].version + 1
    <3> SUFFICES ASSUME ~ v.created PROVE m.over = bookRow[b].text
      BY <1>5
    <3>1. bookRow[b] # None /\ m.base = bookRow[b].version /\ m.base # 0
      BY <1>3, <1>4, <1>5, <1>7, <1>8, NothingIsNone
    <3>2. <<b, m.base, m.over>> \in versions /\ <<b, m.base, bookRow[b].text>> \in versions
      BY <1>1, <1>6, <1>8, <3>1 DEF CommandOK, Saw
    <3>3. \A x, y \in versions : x[1] = y[1] /\ x[2] = y[2] => x[3] = y[3]
      BY DEF IInv, RowsOK
    <3> QED  BY <3>2, <3>3
  <2>5. next >= m.base
    BY <1>4, <1>5, <1>8
  <2> HIDE DEF next
  <2> QED  BY <1>1, <1>5, <1>7, <1>8, <2>2, <2>3, <2>4, <2>5
<1>9. CASE ~ (m.op = "save" /\ (v.created \/ m.text # v.row.text))
  <2>1. row = v.row
    BY <1>2, <1>9 DEF Saved
  <2>2. m.op = "save" => row.text = m.text /\ row.version >= m.base
    BY <1>4, <1>5, <1>9, <2>1
  <2> QED  BY <1>1, <1>3, <1>5, <1>7, <2>1, <2>2
<1> QED  BY <1>8, <1>9

\* The notes and links after a write: nothing of another book changes.
LEMMA WritesItems ==
  ASSUME IInv, NEW c \in Calls, CommitWrite(c), NEW m, m = command[c], NEW b, b = m.book
  PROVE  /\ noteRow' \in [Calls -> NoteRows \cup {None}]
         /\ revision' \in [Calls -> Revisions \cup {None}]
         /\ link' \in [Calls -> Links \cup {None}]
         /\ \A n \in Calls \ {c} : noteRow[n] = None \/ noteRow[n].book # b => noteRow'[n] = noteRow[n]
         /\ \A l \in Calls \ {c} : link[l] = None \/ link[l].book # b => link'[l] = link[l]
         /\ \A n \in Calls \ {c} : revision'[n] = revision[n]
         /\ \A n \in Calls : noteRow[n] # None /\ noteRow'[n].current # noteRow[n].current =>
              m.op = "updateNote" /\ m.item = n /\ revision'[c] = [note |-> n, parent |-> noteRow[n].current]
         /\ m.op \in {"createNote", "updateNote"} => revision'[c] # None
         /\ m.op \in {"createLink", "updateLink"} => \E l \in LiveLinks(link', b) : l[2] = c
         /\ noteRow[c] = None /\ revision[c] = None /\ link[c] = None
<1>1. pc[c] = "commit" /\ TypeOK /\ Writes(c) /\ m \in Commands /\ b \in Books
  BY Running DEF CommitWrite, IInv, CallOK
<1>2. noteRow[c] = None /\ revision[c] = None /\ link[c] = None
  BY <1>1 DEF IInv, RowsOK
<1>3. m.op \in {"updateNote", "deleteNote"} => /\ m.item \in Calls /\ noteRow[m.item] # None
                                               /\ noteRow[m.item] \in NoteRows /\ noteRow[m.item].book = b
  BY <1>1, CommandFields DEF Writes, Owned, TypeOK
<1>4. m.op \in {"updateLink", "deleteLink"} => /\ m.item \in Calls /\ link[m.item] # None
                                               /\ link[m.item] \in Links /\ link[m.item].book = b
                                               /\ link[m.item].live
  BY <1>1, CommandFields DEF Writes, Owned, TypeOK
<1>5. /\ noteRow' \in [Calls -> NoteRows \cup {None}]
      /\ \A n \in Calls \ {c} : noteRow[n] = None \/ noteRow[n].book # b => noteRow'[n] = noteRow[n]
      /\ \A n \in Calls : noteRow[n] # None /\ noteRow'[n].current # noteRow[n].current =>
           m.op = "updateNote" /\ m.item = n
  <2>1. CASE m.op = "createNote"
    <3>1. noteRow' = [noteRow EXCEPT ![c] = [book |-> b, current |-> c, live |-> TRUE]]
      BY <2>1 DEF CommitWrite
    <3> QED  BY <1>1, <1>2, <3>1 DEF TypeOK, NoteRows
  <2>2. CASE m.op = "updateNote"
    <3>1. noteRow' = [noteRow EXCEPT ![m.item] = [@ EXCEPT !.current = c]]
      BY <2>2 DEF CommitWrite
    <3>2. [noteRow[m.item] EXCEPT !.current = c] \in NoteRows
      BY <1>3, <2>2 DEF NoteRows
    <3> QED  BY <1>1, <1>3, <2>2, <3>1, <3>2 DEF TypeOK
  <2>3. CASE m.op = "deleteNote"
    <3>1. noteRow' = [noteRow EXCEPT ![m.item] = [@ EXCEPT !.live = FALSE]]
      BY <2>3 DEF CommitWrite
    <3>2. /\ [noteRow[m.item] EXCEPT !.live = FALSE] \in NoteRows
          /\ [noteRow[m.item] EXCEPT !.live = FALSE].current = noteRow[m.item].current
      BY <1>3, <2>3 DEF NoteRows
    <3> QED  BY <1>1, <1>3, <2>3, <3>1, <3>2 DEF TypeOK
  <2>4. CASE m.op \notin {"createNote", "updateNote", "deleteNote"}
    <3>1. noteRow' = noteRow
      BY <2>4 DEF CommitWrite
    <3> QED  BY <1>1, <3>1 DEF TypeOK
  <2> QED  BY <2>1, <2>2, <2>3, <2>4
<1>6. /\ revision' \in [Calls -> Revisions \cup {None}]
      /\ \A n \in Calls \ {c} : revision'[n] = revision[n]
      /\ m.op = "updateNote" => revision'[c] = [note |-> m.item, parent |-> noteRow[m.item].current]
      /\ m.op \in {"createNote", "updateNote"} => revision'[c] # None
  <2>1. CASE m.op = "createNote"
    <3>1. revision' = [revision EXCEPT ![c] = [note |-> c, parent |-> None]]
      BY <2>1 DEF CommitWrite
    <3>2. [note |-> c, parent |-> None] \in Revisions
      BY DEF Revisions
    <3> QED  BY <1>1, <2>1, <3>1, <3>2, NothingIsNone DEF TypeOK
  <2>2. CASE m.op = "updateNote"
    <3>1. revision' = [revision EXCEPT ![c] = [note |-> m.item, parent |-> noteRow[m.item].current]]
      BY <2>2 DEF CommitWrite
    <3>2. [note |-> m.item, parent |-> noteRow[m.item].current] \in Revisions
      BY <1>3, <2>2 DEF Revisions, NoteRows
    <3> QED  BY <1>1, <3>1, <3>2, NothingIsNone DEF TypeOK
  <2>3. CASE m.op \notin {"createNote", "updateNote"}
    <3>1. revision' = revision
      BY <2>3 DEF CommitWrite
    <3> QED  BY <1>1, <2>3, <3>1 DEF TypeOK
  <2> QED  BY <2>1, <2>2, <2>3
<1>7. /\ link' \in [Calls -> Links \cup {None}]
      /\ \A l \in Calls \ {c} : link[l] = None \/ link[l].book # b => link'[l] = link[l]
  <2>1. CASE m.op = "createLink"
    <3>1. link' = [link EXCEPT ![c] = [book |-> b, by |-> c, live |-> TRUE]]
      BY <2>1 DEF CommitWrite
    <3> QED  BY <1>1, <1>2, <3>1 DEF TypeOK, Links
  <2>2. CASE m.op = "updateLink"
    <3>1. link' = [link EXCEPT ![m.item] = [@ EXCEPT !.by = c]]
      BY <2>2 DEF CommitWrite
    <3>2. [link[m.item] EXCEPT !.by = c] \in Links
      BY <1>4, <2>2 DEF Links
    <3> QED  BY <1>1, <1>4, <2>2, <3>1, <3>2 DEF TypeOK
  <2>3. CASE m.op = "deleteLink"
    <3>1. link' = [link EXCEPT ![m.item] = [@ EXCEPT !.live = FALSE]]
      BY <2>3 DEF CommitWrite
    <3>2. [link[m.item] EXCEPT !.live = FALSE] \in Links
      BY <1>4, <2>3 DEF Links
    <3> QED  BY <1>1, <1>4, <2>3, <3>1, <3>2 DEF TypeOK
  <2>4. CASE m.op \notin {"createLink", "updateLink", "deleteLink"}
    <3>1. link' = link
      BY <2>4 DEF CommitWrite
    <3> QED  BY <1>1, <3>1 DEF TypeOK
  <2> QED  BY <2>1, <2>2, <2>3, <2>4
<1>8. ASSUME m.op \in {"createLink", "updateLink"} PROVE \E l \in LiveLinks(link', b) : l[2] = c
  <2>1. ASSUME NEW n \in Calls, link'[n] # None, link'[n].book = b, link'[n].live, link'[n].by = c
        PROVE  \E l \in LiveLinks(link', b) : l[2] = c
    <3>1. <<n, link'[n].by>> \in LiveLinks(link', b)
      BY <2>1 DEF LiveLinks
    <3>2. <<n, link'[n].by>>[2] = c
      BY <2>1
    <3> QED  BY <3>1, <3>2
  <2>2. CASE m.op = "createLink"
    <3> DEFINE x == [book |-> b, by |-> c, live |-> TRUE]
    <3>1. link' = [link EXCEPT ![c] = x]
      BY <2>2 DEF CommitWrite
    <3>2. x \in Links /\ x.book = b /\ x.by = c /\ x.live
      BY <1>1 DEF Links
    <3> HIDE DEF x
    <3>3. link'[c] = x /\ x # None
      BY <1>1, <3>1, <3>2, NothingIsNone DEF TypeOK
    <3> QED  BY <2>1, <3>2, <3>3
  <2>3. CASE m.op = "updateLink"
    <3> DEFINE x == [link[m.item] EXCEPT !.by = c]
    <3>1. link' = [link EXCEPT ![m.item] = x]
      BY <2>3 DEF CommitWrite
    <3>2. x \in Links /\ x.book = b /\ x.by = c /\ x.live
      BY <1>4, <2>3 DEF Links
    <3> HIDE DEF x
    <3>3. link'[m.item] = x /\ x # None
      BY <1>1, <1>4, <2>3, <3>1, <3>2, NothingIsNone DEF TypeOK
    <3> QED  BY <1>4, <2>1, <2>3, <3>2, <3>3
  <2> QED  BY <1>8, <2>2, <2>3
<1> QED  BY <1>2, <1>5, <1>6, <1>7, <1>8

\* The row and the versions after a write.
LEMMA WritesRows ==
  ASSUME IInv, NEW c \in Calls, CommitWrite(c), NEW m, m = command[c], NEW b, b = m.book,
         NEW row, row = Saved(m, seen[c])
  PROVE  /\ bookRow' \in [Books -> BookRows \cup {None}] /\ bookRow'[b] = row /\ row \in BookRows
         /\ \A e \in Books \ {b} : bookRow'[e] = bookRow[e]
         /\ versions' = versions \cup {<<b, row.version, row.text>>} /\ versions' \subseteq Books \X Nat \X Texts
         /\ \A e \in Books : bookRow'[e] # None =>
              bookRow'[e].version >= 1 /\ <<e, bookRow'[e].version, bookRow'[e].text>> \in versions'
         /\ \A v \in versions' : bookRow'[v[1]] # None /\ v[2] <= bookRow'[v[1]].version
         /\ \A v, w \in versions' : v[1] = w[1] /\ v[2] = w[2] => v[3] = w[3]
<1>1. TypeOK /\ RowsOK /\ pc[c] = "commit"
  BY DEF IInv, CommitWrite
<1>2. /\ b \in Books /\ row \in BookRows /\ row.version >= 1
      /\ \/ bookRow[b] = None
         \/ row = bookRow[b]
         \/ row.version = bookRow[b].version + 1
  BY <1>1, WritesNext
<1>3. bookRow' = [bookRow EXCEPT ![b] = row] /\ versions' = versions \cup {<<b, row.version, row.text>>}
  BY DEF CommitWrite
<1>4. row.version \in Nat /\ row.text \in Texts /\ row # None
  BY <1>2, NothingIsNone DEF BookRows
<1>5. /\ bookRow' \in [Books -> BookRows \cup {None}] /\ bookRow'[b] = row
      /\ \A e \in Books \ {b} : bookRow'[e] = bookRow[e]
  BY <1>1, <1>2, <1>3 DEF TypeOK
<1>6. versions' \subseteq Books \X Nat \X Texts
  BY <1>1, <1>2, <1>3, <1>4 DEF TypeOK
<1>7. ASSUME NEW e \in Books, bookRow'[e] # None
      PROVE  bookRow'[e].version >= 1 /\ <<e, bookRow'[e].version, bookRow'[e].text>> \in versions'
  BY <1>1, <1>2, <1>3, <1>5, <1>7 DEF RowsOK
<1>8. \A v \in versions : v \in Books \X Nat \X Texts /\ bookRow[v[1]] # None /\ v[2] <= bookRow[v[1]].version
  BY <1>1 DEF TypeOK, RowsOK
<1>9. ASSUME NEW v \in versions PROVE bookRow'[v[1]] # None /\ v[2] <= bookRow'[v[1]].version /\ v[1] \in Books /\ v[2] \in Nat
  <2>1. CASE v[1] = b
    <3>1. bookRow[b] # None /\ v[2] <= bookRow[b].version /\ v[2] \in Nat
      BY <1>8, <2>1
    <3>2. bookRow[b].version \in Nat
      BY <1>1, <1>2, <3>1 DEF TypeOK, BookRows
    <3> QED  BY <1>2, <1>4, <1>5, <2>1, <3>1, <3>2
  <2>2. CASE v[1] # b
    BY <1>5, <1>8, <2>2
  <2> QED  BY <2>1, <2>2
<1>10. ASSUME NEW v \in versions, v[1] = b, v[2] = row.version PROVE v[3] = row.text
  <2>1. bookRow[b] # None /\ v[2] <= bookRow[b].version
    BY <1>8, <1>10
  <2>2. bookRow[b].version \in Nat /\ <<b, bookRow[b].version, bookRow[b].text>> \in versions
    BY <1>1, <1>2, <2>1 DEF TypeOK, BookRows, RowsOK
  <2>3. row = bookRow[b]
    BY <1>2, <1>4, <1>10, <2>1, <2>2
  <2>4. \A x, y \in versions : x[1] = y[1] /\ x[2] = y[2] => x[3] = y[3]
    BY <1>1 DEF RowsOK
  <2> QED  BY <1>10, <2>2, <2>3, <2>4
<1>11. \A v \in versions' : bookRow'[v[1]] # None /\ v[2] <= bookRow'[v[1]].version
  BY <1>3, <1>4, <1>5, <1>9
<1>12. \A v, w \in versions' : v[1] = w[1] /\ v[2] = w[2] => v[3] = w[3]
  <2>1. \A v, w \in versions : v[1] = w[1] /\ v[2] = w[2] => v[3] = w[3]
    BY <1>1 DEF RowsOK
  <2> DEFINE x == <<b, row.version, row.text>>
  <2>2. x[1] = b /\ x[2] = row.version /\ x[3] = row.text
    OBVIOUS
  <2>3. \A v \in versions' : v \in versions \/ v = x
    BY <1>3
  <2> HIDE DEF x
  <2> QED  BY <1>10, <2>1, <2>2, <2>3
<1> QED  BY <1>2, <1>3, <1>5, <1>6, <1>7, <1>11, <1>12

LEMMA CommitWriteHolds ==
  ASSUME IInv, NEW c \in Calls, CommitWrite(c), UNCHANGED page
  PROVE  IInv'
<1> DEFINE m == command[c]
           b == m.book
           row == Saved(m, seen[c])
           now == WorkspaceOf(row, LiveNotes(noteRow', b), LiveLinks(link', b))
           a == [kind |-> "ok", item |-> now]
<1>1. /\ pc[c] = "commit" /\ TypeOK /\ m \in Commands /\ m # None /\ b \in Books /\ answer[c] = None
      /\ Writes(c) /\ CommandOK(m) /\ row \in BookRows /\ row.version >= 1 /\ row.chain = identity[b]
      /\ m.op = "save" => row.text = m.text /\ row.version >= m.base
  BY WritesNext, NothingIsNone DEF CommitWrite, IInv
<1>2. /\ bookRow' \in [Books -> BookRows \cup {None}] /\ bookRow'[b] = row
      /\ \A e \in Books \ {b} : bookRow'[e] = bookRow[e]
      /\ versions' = versions \cup {<<b, row.version, row.text>>} /\ versions' \subseteq Books \X Nat \X Texts
      /\ \A e \in Books : bookRow'[e] # None =>
           bookRow'[e].version >= 1 /\ <<e, bookRow'[e].version, bookRow'[e].text>> \in versions'
      /\ \A v \in versions' : bookRow'[v[1]] # None /\ v[2] <= bookRow'[v[1]].version
      /\ \A v, w \in versions' : v[1] = w[1] /\ v[2] = w[2] => v[3] = w[3]
  BY WritesRows
<1>3. /\ noteRow' \in [Calls -> NoteRows \cup {None}] /\ revision' \in [Calls -> Revisions \cup {None}]
      /\ link' \in [Calls -> Links \cup {None}]
      /\ \A n \in Calls \ {c} : noteRow[n] = None \/ noteRow[n].book # b => noteRow'[n] = noteRow[n]
      /\ \A l \in Calls \ {c} : link[l] = None \/ link[l].book # b => link'[l] = link[l]
      /\ \A n \in Calls \ {c} : revision'[n] = revision[n]
      /\ m.op \in {"createNote", "updateNote"} => revision'[c] # None
      /\ m.op \in {"createLink", "updateLink"} => \E l \in LiveLinks(link', b) : l[2] = c
      /\ noteRow[c] = None /\ revision[c] = None /\ link[c] = None
  BY WritesItems
<1>4. /\ pc' = [pc EXCEPT ![c] = "done"] /\ seen' = [seen EXCEPT ![c] = None] /\ answer' = [answer EXCEPT ![c] = a]
      /\ UNCHANGED <<command, archived, identity>> /\ Db!End(c, {})
  BY DEF CommitWrite, Succeed, Finish
<1>5. Db!DbTypeOK' /\ KeepsOthers(c)
  BY <1>1, <1>4, DbEnds
<1>6. now \in Workspaces /\ now.version = row.version /\ now.text = row.text /\ now.links = LiveLinks(link', b)
  <2>1. row.version \in Nat /\ row.text \in Texts /\ row # None
    BY <1>1, NothingIsNone DEF BookRows
  <2>2. LiveNotes(noteRow', b) \in SUBSET (Calls \X Calls)
    BY <1>3 DEF LiveNotes, NoteRows
  <2>3. LiveLinks(link', b) \in SUBSET (Calls \X Calls)
    BY <1>3 DEF LiveLinks, Links
  <2> HIDE DEF row
  <2> QED  BY <2>1, <2>2, <2>3 DEF WorkspaceOf, Workspaces
<1> HIDE DEF row, now
<1>7. a \in Answers /\ a.kind = "ok" /\ a.item = now
  BY <1>6 DEF Answers
<1>8. TypeOK' /\ seen' = [d \in Calls |-> seen'[d]]
  BY <1>1, <1>2, <1>3, <1>4, <1>5, <1>7 DEF TypeOK, IInv, Steps
<1>9. <<b, row.version, row.text>> \in versions' /\ \A v \in versions : v \in versions'
  BY <1>2
<1>10. CallOK(c)' /\ AnswerOK(c)'
  <2>1. pc'[c] = "done" /\ answer'[c] = a /\ command' = command
    BY <1>1, <1>4 DEF TypeOK
  <2>2. CommandOK(m)' /\ command[c] = m
    BY <1>1, <1>9, <2>1 DEF CommandOK, Saw
  <2>3. CallOK(c)'
    BY <1>1, <2>1, <2>2 DEF CallOK
  <2>4. <<b, now.version, now.text>> \in versions'
    BY <1>6, <1>9
  <2>5. m.op = "save" => \E v \in versions' : v[1] = b /\ v[2] >= m.base /\ v[3] = m.text
    <3>1. <<b, row.version, row.text>>[1] = b /\ <<b, row.version, row.text>>[2] = row.version /\ <<b, row.version, row.text>>[3] = row.text
      OBVIOUS
    <3> QED  BY <1>1, <1>9, <3>1
  <2> HIDE DEF a
  <2>6. AnswerOK(c)'
    BY <1>3, <1>6, <1>7, <2>1, <2>4, <2>5 DEF AnswerOK, Saw, Kept
  <2> QED  BY <2>3, <2>6
<1> HIDE DEF a
<1>11. ASSUME NEW d \in Calls, d # c PROVE CallOK(d)' /\ AnswerOK(d)'
  <2> DEFINE k == command[d]
  <2>1. pc'[d] = pc[d] /\ seen'[d] = seen[d] /\ answer'[d] = answer[d] /\ command'[d] = command[d] /\ identity' = identity
    BY <1>4, <1>11 DEF IInv, TypeOK
  <2>2. CallOK(d) /\ AnswerOK(d)  BY DEF IInv
  <2>3. k # None => k \in Commands /\ k.book \in Books
    BY CommandFields, <1>1 DEF TypeOK
  <2>4. AnswerOK(d)'
    BY <1>3, <1>9, <1>11, <2>1, <2>2 DEF AnswerOK, Saw, Kept
  <2>5. ASSUME Reserves(d), k # None PROVE Reserves(d)'
    <3>1. /\ k.book \in Locks /\ SecondaryOf(k.book) \subseteq Locks
      BY <2>3, <2>5, IdentitiesAreApart DEF Locks, Ids, SecondaryOf
    <3>2. \A i \in Locks : holder[i] = d => holder'[i] = d
      BY <1>5, <1>11, NothingIsNone DEF KeepsOthers
    <3>3. SecondaryOf(k.book)' = SecondaryOf(k.book)
      BY <2>1 DEF SecondaryOf
    <3> QED  BY <2>1, <2>5, <3>1, <3>2, <3>3 DEF Reserves
  <2>6. ASSUME Writes(d), k # None PROVE Writes(d)'
    <3>1. BookLock(k.book) \in Locks /\ holder[BookLock(k.book)] = d
      BY <2>3, <2>6 DEF Locks, Writes
    <3>2. k.book # b
      BY <1>1, <1>11, <3>1 DEF Writes
    <3>3. holder'[BookLock(k.book)] = d /\ bookRow'[k.book] = bookRow[k.book]
      BY <1>2, <1>5, <1>11, <2>3, <2>6, <3>1, <3>2, NothingIsNone DEF KeepsOthers
    <3>4. k.op \in {"updateNote", "deleteNote"} =>
            /\ k.item \in Calls /\ noteRow[k.item] # None /\ noteRow[k.item].book = k.book /\ noteRow'[k.item] = noteRow[k.item]
      <4> SUFFICES ASSUME k.op \in {"updateNote", "deleteNote"}
                   PROVE  /\ k.item \in Calls /\ noteRow[k.item] # None /\ noteRow[k.item].book = k.book
                          /\ noteRow'[k.item] = noteRow[k.item]
        OBVIOUS
      <4>1. k.item \in Calls /\ noteRow[k.item] # None /\ noteRow[k.item].book = k.book
        BY <2>3, <2>6, CommandFields DEF Writes, Owned
      <4>2. k.item # c
        BY <1>3, <4>1
      <4> QED  BY <1>3, <3>2, <4>1, <4>2
    <3>5. k.op \in {"updateLink", "deleteLink"} =>
            /\ k.item \in Calls /\ link[k.item] # None /\ link[k.item].book = k.book /\ link'[k.item] = link[k.item]
      <4> SUFFICES ASSUME k.op \in {"updateLink", "deleteLink"}
                   PROVE  /\ k.item \in Calls /\ link[k.item] # None /\ link[k.item].book = k.book
                          /\ link'[k.item] = link[k.item]
        OBVIOUS
      <4>1. k.item \in Calls /\ link[k.item] # None /\ link[k.item].book = k.book
        BY <2>3, <2>6, CommandFields DEF Writes, Owned
      <4>2. k.item # c
        BY <1>3, <4>1
      <4> QED  BY <1>3, <3>2, <4>1, <4>2
    <3>6. Owned(k)'
      BY <2>1, <2>6, <3>4, <3>5 DEF Owned, Writes
    <3>7. (~ Outdated(k, seen[d].row, seen[d].created))'
      BY <2>1, <2>6, <3>4 DEF Outdated, Writes
    <3> QED  BY <2>1, <2>6, <3>3, <3>6, <3>7 DEF Writes, BookLock
  <2>7. CallOK(d)'
    BY <1>9, <2>1, <2>2, <2>5, <2>6 DEF CallOK, CommandOK, Saw
  <2> QED  BY <2>4, <2>7
<1>12. RowsOK'
  <2>1. pc'[c] = "done" /\ \A d \in Calls : pc[d] \in {"lock", "commit", "done"} => pc'[d] \in {"lock", "commit", "done"}
    BY <1>1, <1>4 DEF TypeOK
  <2>2. \A d \in Calls : pc[d] = "done" => pc'[d] = "done"
    BY <1>1, <1>4 DEF TypeOK
  <2>3. \A i \in Ids : identity'[i] # None => pc'[identity'[i]] \in {"lock", "commit", "done"}
    BY <1>1, <1>4, <2>1 DEF IInv, RowsOK, TypeOK
  <2>4. ASSUME NEW n \in Calls, n # c, noteRow'[n] # None \/ revision'[n] # None \/ link'[n] # None
        PROVE  pc'[n] = "done"
    <3>1. noteRow[n] # None \/ revision[n] # None \/ link[n] # None
      BY <1>3, <2>4
    <3> QED  BY <2>2, <3>1 DEF IInv, RowsOK
  <2> QED  BY <1>2, <2>1, <2>3, <2>4 DEF RowsOK
<1>13. OneChainPerDocument'
  <2>1. \A e \in Books : bookRow'[e] # None => bookRow'[e].chain = identity[e]
    BY <1>1, <1>2 DEF IInv, OneChainPerDocument
  <2>2. \A d \in Calls : AnswerOK(d)'
    BY <1>10, <1>11
  <2>3. \A e \in Books : SecondaryOf(e)' = SecondaryOf(e)
    BY DEF SecondaryOf
  <2> QED  BY <1>4, <2>1, <2>2, <2>3 DEF IInv, OneChainPerDocument, AnswerOK
<1>14. \A t \in Tabs : page'[t] # None => PageOK(page[t])'
  BY <1>4, <1>9 DEF IInv, PageOK, Saw
<1> QED  BY <1>8, <1>10, <1>11, <1>12, <1>13, <1>14 DEF IInv

-----------------------------------------------------------------------------
(* The page. *)

LEMMA ArchiveHolds ==
  ASSUME IInv, NEW c \in Calls, Archive(c), UNCHANGED page
  PROVE  IInv'
<1>1. UNCHANGED <<command, pc, seen, answer, identity, rowVars, dbVars>> /\ archived' = archived \cup {c}
  BY DEF Archive
<1>2. TypeOK'
  BY <1>1 DEF IInv, TypeOK, rowVars, dbVars, Db!DbTypeOK
<1>3. ASSUME NEW d \in Calls PROVE CallOK(d)' /\ AnswerOK(d)'
  <2>1. CallOK(d) /\ AnswerOK(d)  BY DEF IInv
  <2>2. CallOK(d)'
    BY <1>1, <2>1 DEF CallOK, CommandOK, Saw, Reserves, Writes, Owned, Outdated, SecondaryOf, BookLock, rowVars, dbVars
  <2> QED  BY <1>1, <2>1, <2>2 DEF AnswerOK, Saw, Kept, rowVars
<1>4. RowsOK'
  BY <1>1 DEF IInv, RowsOK, rowVars
<1>5. OneChainPerDocument'
  BY <1>1 DEF IInv, OneChainPerDocument, SecondaryOf, rowVars
<1>6. \A t \in Tabs : page'[t] # None => PageOK(page[t])'
  BY <1>1 DEF IInv, PageOK, Saw, rowVars
<1> QED  BY <1>1, <1>2, <1>3, <1>4, <1>5, <1>6 DEF IInv

\* A page is replaced by another that shows versions.
LEMMA PageStep ==
  ASSUME IInv, NEW t \in Tabs, NEW p \in Pages \cup {None}, p # None => PageOK(p),
         page' = [page EXCEPT ![t] = p], UNCHANGED libraryVars
  PROVE  IInv'
<1>1. UNCHANGED <<command, pc, seen, answer, identity, archived, bookRow, noteRow, revision, link, versions,
                  open, holder, missed>>
  BY DEF libraryVars, rowVars, dbVars
<1>2. TypeOK'
  BY <1>1 DEF IInv, TypeOK, Db!DbTypeOK
<1>3. ASSUME NEW d \in Calls PROVE CallOK(d)' /\ AnswerOK(d)'
  <2>1. CallOK(d) /\ AnswerOK(d)  BY DEF IInv
  <2>2. CallOK(d)'
    BY <1>1, <2>1 DEF CallOK, CommandOK, Saw, Reserves, Writes, Owned, Outdated, SecondaryOf, BookLock
  <2> QED  BY <1>1, <2>1, <2>2 DEF AnswerOK, Saw, Kept
<1>4. RowsOK'
  BY <1>1 DEF IInv, RowsOK
<1>5. OneChainPerDocument'
  BY <1>1 DEF IInv, OneChainPerDocument, SecondaryOf
<1>6. ASSUME NEW u \in Tabs, page'[u] # None PROVE PageOK(page[u])'
  <2>1. PageOK(page'[u])
    <3>1. page'[u] = IF u = t THEN p ELSE page[u]
      BY DEF IInv, TypeOK
    <3> QED  BY <1>6, <3>1 DEF IInv
  <2> QED  BY <1>1, <2>1 DEF PageOK, Saw
<1> QED  BY <1>1, <1>2, <1>3, <1>4, <1>5, <1>6 DEF IInv

LEMMA WorkspaceIsTrue ==
  ASSUME IInv, NEW b \in Books
  PROVE  Workspace(b) \in Workspaces /\ Saw(b, Workspace(b).version, Workspace(b).text)
<1> DEFINE notes == LiveNotes(noteRow, b)
           links == LiveLinks(link, b)
<1>1. notes \in SUBSET (Calls \X Calls) /\ links \in SUBSET (Calls \X Calls)
  BY DEF IInv, TypeOK, LiveNotes, LiveLinks, NoteRows, Links
<1>2. Workspace(b) = WorkspaceOf(bookRow[b], notes, links)
  BY DEF Workspace
<1> HIDE DEF notes, links
<1>3. bookRow[b] # None => bookRow[b].version \in Nat /\ bookRow[b].text \in Texts
  BY DEF IInv, TypeOK, BookRows
<1>4. bookRow[b] # None => <<b, bookRow[b].version, bookRow[b].text>> \in versions
  BY DEF IInv, RowsOK
<1> QED  BY <1>1, <1>2, <1>3, <1>4 DEF WorkspaceOf, Workspaces, Saw, Texts

\* A call is made: it is new, and the page that made it waits for it.
LEMMA PostStep ==
  ASSUME IInv, NEW c \in Calls, NEW m \in Commands, CommandOK(m), Post(c, m),
         page' \in [Tabs -> Pages \cup {None}],
         \A u \in Tabs : page'[u] = page[u] \/ PageOK(page[u])'
  PROVE  IInv'
<1>1. /\ pc[c] = "idle" /\ command[c] = None /\ m # None
      /\ command' = [command EXCEPT ![c] = m]
      /\ pc' = [pc EXCEPT ![c] = IF m.op \in Keeping \cup {"promote"} THEN "subject" ELSE "lock"]
      /\ UNCHANGED <<seen, answer, identity, archived, bookRow, noteRow, revision, link, versions,
                     open, holder, missed>>
  BY NothingIsNone DEF Post, Unused, IInv, CallOK, rowVars, dbVars
<1>2. /\ pc'[c] = IF m.op \in Keeping \cup {"promote"} THEN "subject" ELSE "lock"
      /\ command'[c] = m /\ answer'[c] = None
  BY <1>1 DEF IInv, TypeOK, AnswerOK
<1>3. TypeOK'
  BY <1>1 DEF IInv, TypeOK, Db!DbTypeOK, Steps
<1>4. CallOK(c)' /\ AnswerOK(c)'
  <2>1. CommandOK(command[c])'
    BY <1>1, <1>2 DEF CommandOK, Saw
  <2>2. CallOK(c)'
    BY <1>1, <1>2, <2>1 DEF CallOK
  <2> QED  BY <1>2, <2>2 DEF AnswerOK
<1>5. ASSUME NEW d \in Calls, d # c PROVE CallOK(d)' /\ AnswerOK(d)'
  <2>1. pc'[d] = pc[d] /\ command'[d] = command[d]
    BY <1>1, <1>5 DEF IInv, TypeOK
  <2>2. CallOK(d) /\ AnswerOK(d)  BY DEF IInv
  <2>4. Reserves(d) => Reserves(d)'
    BY <1>1, <2>1 DEF Reserves, SecondaryOf
  <2>5. Writes(d) => Writes(d)'
    BY <1>1, <2>1 DEF Writes, Owned, Outdated, BookLock
  <2>6. command[d] # None /\ CommandOK(command[d]) => CommandOK(command[d])'
    BY <1>1, <2>1 DEF CommandOK, Saw
  <2>3. CallOK(d)'
    BY <1>1, <2>1, <2>2, <2>4, <2>5, <2>6 DEF CallOK
  <2> QED  BY <1>1, <2>1, <2>2, <2>3 DEF AnswerOK, Saw, Kept
<1>6. RowsOK'
  <2>1. \A d \in Calls : pc[d] # "idle" => pc'[d] = pc[d]
    BY <1>1 DEF IInv, TypeOK
  <2>2. \A i \in Ids : identity[i] # None => identity[i] \in Calls
    BY DEF IInv, TypeOK
  <2> QED  BY <1>1, <2>1, <2>2 DEF IInv, RowsOK
<1>7. OneChainPerDocument'
  <2>1. \A d \in Calls : AnswerOK(d)'
    BY <1>4, <1>5
  <2> QED  BY <1>1, <2>1 DEF IInv, OneChainPerDocument, SecondaryOf, AnswerOK
<1>8. ASSUME NEW u \in Tabs, page'[u] # None PROVE PageOK(page[u])'
  <2>1. SUFFICES ASSUME page'[u] = page[u] PROVE PageOK(page[u])'
    OBVIOUS
  <2>2. PageOK(page[u]) /\ page[u] \in Pages
    BY <1>8, <2>1 DEF IInv, TypeOK
  <2>3. page[u].call # None => page[u].call \in Calls /\ command'[page[u].call] = command[page[u].call]
    BY <1>1, <2>2 DEF PageOK, Pages, IInv, TypeOK
  <2> QED  BY <1>1, <2>1, <2>2, <2>3 DEF PageOK, Saw
<1> QED  BY <1>1, <1>3, <1>4, <1>5, <1>6, <1>7, <1>8 DEF IInv

LEMMA NextCallIsNew ==
  ASSUME Unused # {}
  PROVE  NextCall \in Calls /\ NextCall \in Unused
BY DEF NextCall, Unused

LEMMA IdlePage ==
  ASSUME IInv, NEW t \in Tabs, Idle(t)
  PROVE  /\ page[t] \in Pages /\ PageOK(page[t]) /\ page[t].call = None
         /\ page[t].book \in Books /\ page[t].item \in Workspaces
         /\ page[t].intro \in Introductions \cup {None} /\ page[t].note \in Notes \cup {None}
         /\ page[t].link \in LinkEditors \cup {None}
<1>1. page[t] \in Pages /\ PageOK(page[t]) /\ page[t].call = None
  BY DEF Idle, IInv, TypeOK
<1> QED  BY <1>1 DEF Pages

LEMMA ItemsAreCalls ==
  ASSUME NEW item \in Workspaces
  PROVE  /\ item.version \in Nat /\ item.text \in Texts
         /\ \A n \in item.notes : n[1] \in Calls /\ n[2] \in Calls
         /\ \A l \in item.links : l[1] \in Calls /\ l[2] \in Calls
BY DEF Workspaces

\* A page that sent a call shows the draft that the call is about.
LEMMA SendStep ==
  ASSUME IInv, NEW t \in Tabs, Ready(t), NEW p \in Pages, PageOK(p), p.call = None,
         NEW m \in Commands, CommandOK(m), Sends(t, p, m), m.book = p.book,
         m.op = "save" => p.intro # None /\ m.text = p.intro.draft /\ m.base = p.intro.base,
         m.op \in {"createNote", "updateNote"} => p.note # None,
         m.op \in {"createLink", "updateLink"} => p.link # None
  PROVE  IInv'
<1>1. PICK c \in Calls : c = NextCall
  BY NextCallIsNew DEF Ready
<1>2. Post(c, m) /\ page' = [page EXCEPT ![t] = [p EXCEPT !.call = c]]
  BY <1>1 DEF Sends
<1>3. command'[c] = m /\ m # None /\ c # None
  BY <1>2, NothingIsNone DEF Post, IInv, TypeOK
<1> DEFINE q == [p EXCEPT !.call = c]
<1>4. /\ q \in Pages /\ q.call = c /\ q.book = p.book /\ q.item = p.item /\ q.intro = p.intro
      /\ q.note = p.note /\ q.link = p.link
  BY DEF Pages
<1>5. page' = [page EXCEPT ![t] = q]
  BY <1>2
<1> HIDE DEF q
<1>6. page' \in [Tabs -> Pages \cup {None}] /\ page'[t] = q /\ \A u \in Tabs \ {t} : page'[u] = page[u]
  BY <1>4, <1>5 DEF IInv, TypeOK
<1>7. versions' = versions
  BY <1>2 DEF Post, rowVars
<1>8. PageOK(page[t])'
  BY <1>3, <1>4, <1>6, <1>7 DEF PageOK, Saw
<1> QED  BY <1>2, <1>6, <1>8, PostStep

LEMMA VisitHolds ==
  ASSUME IInv, NEW t \in Tabs, Visit(t)
  PROVE  IInv'
<1>1. CASE Leave(t)
  BY <1>1, PageStep DEF Leave
<1>2. ASSUME NEW b \in Books, Open(t, b) PROVE IInv'
  <2> DEFINE p == [book |-> b, item |-> Workspace(b), intro |-> None, note |-> None, link |-> None, call |-> None]
  <2>1. Workspace(b) \in Workspaces /\ Saw(b, Workspace(b).version, Workspace(b).text)
    BY WorkspaceIsTrue
  <2>2. p \in Pages /\ p.call = None /\ p.intro = None /\ p.note = None /\ p.book = b /\ p.item = Workspace(b)
    BY <2>1 DEF Pages
  <2>3. page' = [page EXCEPT ![t] = p] /\ UNCHANGED libraryVars
    BY <1>2 DEF Open
  <2> HIDE DEF p
  <2>4. PageOK(p)
    BY <2>1, <2>2 DEF PageOK
  <2> QED  BY <2>2, <2>3, <2>4, PageStep
<1> QED  BY <1>1, <1>2, ShownAreBooks DEF Visit

LEMMA EditHolds ==
  ASSUME IInv, NEW t \in Tabs, Edit(t)
  PROVE  IInv'
<1> DEFINE p == page[t]
<1>1. Idle(t)
  BY DEF Edit, EditIntroduction, EditNote, EditLink, MayOpen, Cancel, SaveAsNew
<1>2. /\ p \in Pages /\ PageOK(p) /\ p.call = None /\ p.book \in Books /\ p.item \in Workspaces
      /\ p.intro \in Introductions \cup {None} /\ p.note \in Notes \cup {None} /\ p.link \in LinkEditors \cup {None}
  BY <1>1, IdlePage
<1>3. CASE EditIntroduction(t)
  <2> DEFINE i == [base |-> p.item.version, over |-> p.item.text, draft |-> p.item.text, conflict |-> FALSE]
             q == [p EXCEPT !.intro = i]
  <2>1. i \in Introductions /\ i.base = p.item.version /\ i.over = p.item.text
    BY <1>2, ItemsAreCalls DEF Introductions
  <2>2. page' = [page EXCEPT ![t] = q] /\ UNCHANGED libraryVars
    BY <1>3 DEF EditIntroduction, Shows
  <2> HIDE DEF i
  <2>3. q \in Pages /\ q.call = None /\ q.intro = i /\ q.note = p.note /\ q.book = p.book /\ q.item = p.item
    BY <1>2, <2>1 DEF Pages
  <2> HIDE DEF q
  <2>4. PageOK(q)
    BY <1>2, <2>1, <2>3 DEF PageOK
  <2> QED  BY <2>2, <2>3, <2>4, PageStep
<1>4. CASE EditNote(t)
  <2>1. PICK n \in p.item.notes \cup {<<None, None>>} :
          Shows(t, [p EXCEPT !.note = [target |-> n[1], base |-> n[2], over |-> n[2], state |-> "open"]])
    BY <1>4 DEF EditNote
  <2> DEFINE e == [target |-> n[1], base |-> n[2], over |-> n[2], state |-> "open"]
             q == [p EXCEPT !.note = e]
  <2>2. (n[1] \in Calls /\ n[2] \in Calls) \/ (n[1] = None /\ n[2] = None)
    BY <1>2, ItemsAreCalls
  <2>3. e \in Notes /\ e.over = e.base
    BY <2>2 DEF Notes
  <2>4. page' = [page EXCEPT ![t] = q] /\ UNCHANGED libraryVars
    BY <2>1 DEF Shows
  <2> HIDE DEF e
  <2>5. q \in Pages /\ q.call = None /\ q.intro = p.intro /\ q.note = e /\ q.book = p.book /\ q.item = p.item
    BY <1>2, <2>3 DEF Pages
  <2> HIDE DEF q
  <2>6. PageOK(q)
    BY <1>2, <2>3, <2>5 DEF PageOK
  <2> QED  BY <2>4, <2>5, <2>6, PageStep
<1>5. CASE EditLink(t)
  <2>1. PICK l \in p.item.links \cup {<<None, None>>} : Shows(t, [p EXCEPT !.link = [target |-> l[1], conflict |-> FALSE]])
    BY <1>5 DEF EditLink
  <2> DEFINE e == [target |-> l[1], conflict |-> FALSE]
             q == [p EXCEPT !.link = e]
  <2>2. l[1] \in Calls \/ l[1] = None
    BY <1>2, ItemsAreCalls
  <2>3. e \in LinkEditors
    BY <2>2 DEF LinkEditors
  <2>4. page' = [page EXCEPT ![t] = q] /\ UNCHANGED libraryVars
    BY <2>1 DEF Shows
  <2> HIDE DEF e
  <2>5. q \in Pages /\ q.call = None /\ q.intro = p.intro /\ q.note = p.note /\ q.book = p.book /\ q.item = p.item
    BY <1>2, <2>3 DEF Pages
  <2> HIDE DEF q
  <2>6. PageOK(q)
    BY <1>2, <2>5 DEF PageOK
  <2> QED  BY <2>4, <2>5, <2>6, PageStep
<1>6. CASE Cancel(t)
  <2>1. PICK panel \in {"intro", "note", "link"} : Shows(t, [p EXCEPT ![panel] = None])
    BY <1>6 DEF Cancel, Panels
  <2> DEFINE q == [p EXCEPT ![panel] = None]
  <2>2. page' = [page EXCEPT ![t] = q] /\ UNCHANGED libraryVars
    BY <2>1 DEF Shows
  <2>3. /\ q \in Pages /\ q.call = None /\ q.intro \in {p.intro, None} /\ q.note \in {p.note, None}
        /\ q.book = p.book /\ q.item = p.item
    <3>1. CASE panel = "intro"  BY <1>2, <3>1 DEF Pages
    <3>2. CASE panel = "note"  BY <1>2, <3>2 DEF Pages
    <3>3. CASE panel = "link"  BY <1>2, <3>3 DEF Pages
    <3> QED  BY <3>1, <3>2, <3>3
  <2> HIDE DEF q
  <2>4. PageOK(q)
    BY <1>2, <2>3 DEF PageOK
  <2> QED  BY <2>2, <2>3, <2>4, PageStep
<1>7. CASE SaveAsNew(t)
  <2> DEFINE e == [p.note EXCEPT !.target = None, !.base = None, !.over = None, !.state = "open"]
             q == [p EXCEPT !.note = e]
  <2>1. p.note \in Notes
    BY <1>2, <1>7 DEF SaveAsNew
  <2>2. e \in Notes /\ e.over = e.base
    BY <2>1 DEF Notes
  <2>3. page' = [page EXCEPT ![t] = q] /\ UNCHANGED libraryVars
    BY <1>7 DEF SaveAsNew, Shows
  <2> HIDE DEF e
  <2>4. q \in Pages /\ q.call = None /\ q.intro = p.intro /\ q.note = e /\ q.book = p.book /\ q.item = p.item
    BY <1>2, <2>2 DEF Pages
  <2> HIDE DEF q
  <2>5. PageOK(q)
    BY <1>2, <2>2, <2>4 DEF PageOK
  <2> QED  BY <2>3, <2>4, <2>5, PageStep
<1> QED  BY <1>3, <1>4, <1>5, <1>6, <1>7 DEF Edit

LEMMA WriteHolds ==
  ASSUME IInv, NEW t \in Tabs, Write(t)
  PROVE  IInv'
<1> DEFINE p == page[t]
<1>1. Idle(t) /\ Ready(t)
  BY DEF Write, AddToLibrary, SaveIntroduction, SaveNote, SaveLink, Remove, Ready
<1>2. /\ p \in Pages /\ PageOK(p) /\ p.call = None /\ p.book \in Books /\ p.item \in Workspaces
      /\ p.intro \in Introductions \cup {None} /\ p.note \in Notes \cup {None} /\ p.link \in LinkEditors \cup {None}
  BY <1>1, IdlePage
<1>3. CASE AddToLibrary(t)
  <2> DEFINE m == [op |-> "add", book |-> p.book]
  <2>1. m \in Commands /\ m.op = "add" /\ m.book = p.book
    BY <1>2 DEF Commands
  <2>2. Sends(t, p, m)
    BY <1>3 DEF AddToLibrary
  <2> HIDE DEF m
  <2>3. CommandOK(m)  BY <2>1 DEF CommandOK
  <2> QED  BY <1>1, <1>2, <2>1, <2>2, <2>3, SendStep
<1>4. CASE SaveIntroduction(t)
  <2>1. PICK text \in {p.intro.draft, NextCall} :
          Sends(t, [p EXCEPT !.intro = [@ EXCEPT !.draft = text]],
                [op |-> "save", book |-> p.book, text |-> text, base |-> p.intro.base, over |-> p.intro.over])
    BY <1>4 DEF SaveIntroduction
  <2> DEFINE m == [op |-> "save", book |-> p.book, text |-> text, base |-> p.intro.base, over |-> p.intro.over]
             i == [p.intro EXCEPT !.draft = text]
             q == [p EXCEPT !.intro = i]
  <2>2. p.intro \in Introductions /\ p.intro # None
    BY <1>2, <1>4 DEF SaveIntroduction
  <2>3. p.intro.base \in Nat /\ p.intro.over \in Texts /\ p.intro.draft \in Texts
    BY <2>2 DEF Introductions
  <2>4. text \in Texts
    BY <1>1, <2>3, NextCallIsNew DEF Ready, Texts
  <2>5. m \in Commands /\ m.op = "save" /\ m.book = p.book /\ m.text = text /\ m.base = p.intro.base /\ m.over = p.intro.over
    BY <1>2, <2>3, <2>4 DEF Commands
  <2>6. i \in Introductions /\ i.draft = text /\ i.base = p.intro.base /\ i.over = p.intro.over
    BY <2>2, <2>4 DEF Introductions
  <2>7. Sends(t, q, m)  BY <2>1
  <2> HIDE DEF m, i
  <2>8. q \in Pages /\ q.call = None /\ q.intro = i /\ q.note = p.note /\ q.book = p.book /\ q.item = p.item
    BY <1>2, <2>6 DEF Pages
  <2> HIDE DEF q
  <2>9. i # None
    BY <2>6, NoneIsNoEditor
  <2>10. CommandOK(m) /\ PageOK(q)
    BY <1>2, <2>2, <2>5, <2>6, <2>8, <2>9 DEF CommandOK, PageOK
  <2> QED  BY <1>1, <2>5, <2>6, <2>7, <2>8, <2>9, <2>10, SendStep
<1>5. CASE SaveNote(t)
  <2> DEFINE m == IF p.note.target = None
                    THEN [op |-> "createNote", book |-> p.book]
                    ELSE [op |-> "updateNote", book |-> p.book, item |-> p.note.target,
                          base |-> p.note.base, over |-> p.note.over]
  <2>1. p.note \in Notes /\ p.note # None /\ Sends(t, p, m)
    BY <1>2, <1>5 DEF SaveNote
  <2>2. p.note.target # None => p.note.target \in Calls /\ p.note.base \in Calls /\ p.note.over \in Calls
    BY <2>1 DEF Notes
  <2>3. CASE p.note.target = None
    <3> DEFINE k == [op |-> "createNote", book |-> p.book]
    <3>1. k \in Commands /\ k.op = "createNote" /\ k.book = p.book /\ Sends(t, p, k)
      BY <1>2, <2>1, <2>3 DEF Commands
    <3> HIDE DEF k
    <3>2. CommandOK(k)  BY <3>1 DEF CommandOK
    <3> QED  BY <1>1, <1>2, <2>1, <3>1, <3>2, SendStep
  <2>4. CASE p.note.target # None
    <3> DEFINE k == [op |-> "updateNote", book |-> p.book, item |-> p.note.target, base |-> p.note.base, over |-> p.note.over]
    <3>1. /\ k \in Commands /\ k.op = "updateNote" /\ k.book = p.book /\ k.base = p.note.base /\ k.over = p.note.over
          /\ Sends(t, p, k)
      BY <1>2, <2>1, <2>2, <2>4 DEF Commands
    <3> HIDE DEF k
    <3>2. CommandOK(k)  BY <1>2, <2>1, <3>1 DEF CommandOK, PageOK
    <3> QED  BY <1>1, <1>2, <2>1, <3>1, <3>2, SendStep
  <2> QED  BY <2>3, <2>4
<1>6. CASE SaveLink(t)
  <2> DEFINE m == IF p.link.target = None
                    THEN [op |-> "createLink", book |-> p.book]
                    ELSE [op |-> "updateLink", book |-> p.book, item |-> p.link.target]
  <2>1. p.link \in LinkEditors /\ p.link # None /\ Sends(t, p, m)
    BY <1>2, <1>6 DEF SaveLink
  <2>2. p.link.target # None => p.link.target \in Calls
    BY <2>1 DEF LinkEditors
  <2>3. m \in Commands /\ m.op \in {"createLink", "updateLink"} /\ m.book = p.book
    BY <1>2, <2>2 DEF Commands
  <2> HIDE DEF m
  <2>4. CommandOK(m)  BY <2>3 DEF CommandOK
  <2> QED  BY <1>1, <1>2, <2>1, <2>3, <2>4, SendStep
<1>7. CASE Remove(t)
  <2>1. PICK x \in p.item.notes \cup p.item.links, o \in {"deleteNote", "deleteLink"} :
          Sends(t, p, [op |-> o, book |-> p.book, item |-> x[1]])
    BY <1>7 DEF Remove
  <2> DEFINE m == [op |-> o, book |-> p.book, item |-> x[1]]
  <2>2. x[1] \in Calls
    BY <1>2, ItemsAreCalls
  <2>3. m \in Commands /\ m.op \in {"deleteNote", "deleteLink"} /\ m.book = p.book
    BY <1>2, <2>2 DEF Commands
  <2>4. Sends(t, p, m)  BY <2>1
  <2> HIDE DEF m
  <2>5. CommandOK(m)  BY <2>3 DEF CommandOK
  <2> QED  BY <1>1, <1>2, <2>3, <2>4, <2>5, SendStep
<1> QED  BY <1>3, <1>4, <1>5, <1>6, <1>7 DEF Write

LEMMA LatestHolds ==
  ASSUME IInv, NEW t \in Tabs, Latest(t)
  PROVE  IInv'
<1> DEFINE p == page[t]
           now == Workspace(p.book)
<1>1. Idle(t)
  BY DEF Latest, LatestIntroduction, LatestNote, LatestLink
<1>2. /\ p \in Pages /\ PageOK(p) /\ p.call = None /\ p.book \in Books /\ p.item \in Workspaces
      /\ p.intro \in Introductions \cup {None} /\ p.note \in Notes \cup {None} /\ p.link \in LinkEditors \cup {None}
  BY <1>1, IdlePage
<1>3. now \in Workspaces /\ Saw(p.book, now.version, now.text)
  BY <1>2, WorkspaceIsTrue
<1>4. CASE LatestIntroduction(t)
  <2> DEFINE i == [p.intro EXCEPT !.base = now.version, !.over = now.text, !.conflict = FALSE]
             q == [p EXCEPT !.item = now, !.intro = i]
  <2>1. page' = [page EXCEPT ![t] = q] /\ UNCHANGED libraryVars /\ p.intro \in Introductions
    BY <1>2, <1>4 DEF LatestIntroduction, Shows
  <2> HIDE DEF now
  <2>2. i \in Introductions /\ i.base = now.version /\ i.over = now.text
    BY <1>3, <2>1, ItemsAreCalls DEF Introductions
  <2> HIDE DEF i
  <2>3. q \in Pages /\ q.call = None /\ q.intro = i /\ q.note = p.note /\ q.book = p.book /\ q.item = now
    BY <1>2, <1>3, <2>2 DEF Pages
  <2> HIDE DEF q
  <2>4. PageOK(q)
    BY <1>2, <1>3, <2>2, <2>3 DEF PageOK
  <2> QED  BY <2>1, <2>3, <2>4, PageStep
<1>5. CASE LatestNote(t)
  <2>1. p.note \in Notes /\ p.note.state = "conflict" /\ p.note # None
    BY <1>2, <1>5 DEF LatestNote
  <2>2. PICK e \in Notes : /\ e.over = e.base /\ UNCHANGED libraryVars
                           /\ page' = [page EXCEPT ![t] = [p EXCEPT !.item = now, !.note = e]]
    <3>1. CASE Shows(t, [p EXCEPT !.item = now, !.note = [@ EXCEPT !.state = "missing"]])
      <4> DEFINE e == [p.note EXCEPT !.state = "missing"]
      <4>1. e \in Notes /\ e.over = p.note.over /\ e.base = p.note.base
        BY <2>1 DEF Notes
      <4>2. page' = [page EXCEPT ![t] = [p EXCEPT !.item = now, !.note = e]] /\ UNCHANGED libraryVars
        BY <3>1 DEF Shows
      <4> HIDE DEF e
      <4> QED  BY <1>2, <2>1, <4>1, <4>2 DEF PageOK
    <3>2. ASSUME NEW x \in now.notes,
                 Shows(t, [p EXCEPT !.item = now, !.note = [@ EXCEPT !.base = x[2], !.over = x[2], !.state = "open"]])
          PROVE  \E e \in Notes : /\ e.over = e.base /\ UNCHANGED libraryVars
                                  /\ page' = [page EXCEPT ![t] = [p EXCEPT !.item = now, !.note = e]]
      <4> DEFINE e == [p.note EXCEPT !.base = x[2], !.over = x[2], !.state = "open"]
      <4>1. x[2] \in Calls
        BY <1>3, <3>2, ItemsAreCalls
      <4>2. e \in Notes /\ e.over = e.base
        BY <2>1, <4>1 DEF Notes
      <4>3. page' = [page EXCEPT ![t] = [p EXCEPT !.item = now, !.note = e]] /\ UNCHANGED libraryVars
        BY <3>2 DEF Shows
      <4> HIDE DEF e
      <4> QED  BY <4>2, <4>3
    <3> QED  BY <1>5, <3>1, <3>2 DEF LatestNote
  <2> DEFINE q == [p EXCEPT !.item = now, !.note = e]
  <2>3. page' = [page EXCEPT ![t] = q]  BY <2>2
  <2> HIDE DEF now
  <2>4. q \in Pages /\ q.call = None /\ q.intro = p.intro /\ q.note = e /\ q.book = p.book /\ q.item = now
    BY <1>2, <1>3, <2>2 DEF Pages
  <2> HIDE DEF q
  <2>5. PageOK(q)
    BY <1>2, <1>3, <2>2, <2>4 DEF PageOK
  <2> QED  BY <2>2, <2>3, <2>4, <2>5, PageStep
<1>6. CASE LatestLink(t)
  <2> DEFINE there == \E x \in now.links : x[1] = p.link.target
             e == [target |-> IF there THEN p.link.target ELSE None, conflict |-> FALSE]
             q == [p EXCEPT !.item = now, !.link = e]
  <2>1. page' = [page EXCEPT ![t] = q] /\ UNCHANGED libraryVars
    BY <1>6 DEF LatestLink, Shows
  <2>2. there => p.link.target \in Calls
    BY <1>3, ItemsAreCalls
  <2> HIDE DEF now, there
  <2>3. e \in LinkEditors
    BY <2>2 DEF LinkEditors
  <2> HIDE DEF e
  <2>4. q \in Pages /\ q.call = None /\ q.intro = p.intro /\ q.note = p.note /\ q.book = p.book /\ q.item = now
    BY <1>2, <1>3, <2>3 DEF Pages
  <2> HIDE DEF q
  <2>5. PageOK(q)
    BY <1>2, <1>3, <2>4 DEF PageOK
  <2> QED  BY <2>1, <2>4, <2>5, PageStep
<1> QED  BY <1>4, <1>5, <1>6 DEF Latest

\* The answer of a page's call is about its book.
LEMMA HearHolds ==
  ASSUME IInv, NEW t \in Tabs, Hear(t)
  PROVE  IInv'
<1> DEFINE p == page[t]
           m == command[p.call]
<1>1. /\ p \in Pages /\ p # None /\ PageOK(p) /\ p.call \in Calls /\ p.call # None /\ p.item \in Workspaces
      /\ p.intro \in Introductions \cup {None} /\ p.note \in Notes \cup {None} /\ p.link \in LinkEditors \cup {None}
  BY DEF Hear, IInv, TypeOK, Pages
<1>2. /\ m # None /\ m.book = p.book
      /\ m.op = "save" => p.intro # None /\ m.text = p.intro.draft /\ m.base = p.intro.base
      /\ m.op \in {"createNote", "updateNote"} => p.note # None
      /\ m.op \in {"createLink", "updateLink"} => p.link # None
  BY <1>1 DEF PageOK
<1>3. UNCHANGED libraryVars
  BY DEF Hear
<1>4. ASSUME NEW kind, page' = [page EXCEPT ![t] = Failed(p, kind)] PROVE IInv'
  <2> DEFINE q == Failed(p, kind)
             r == [p EXCEPT !.call = None]
  <2>1. r \in Pages /\ r.call = None /\ r.intro = p.intro /\ r.note = p.note /\ r.link = p.link /\ r.book = p.book /\ r.item = p.item
    BY <1>1 DEF Pages
  <2>2. /\ q \in Pages /\ q.call = None /\ q.book = p.book /\ q.item = p.item
        /\ q.intro # None => p.intro # None /\ q.intro.base = p.intro.base /\ q.intro.over = p.intro.over
        /\ q.note # None => p.note # None /\ q.note.base = p.note.base /\ q.note.over = p.note.over
    <3>1. CASE PanelOf(m.op) = "intro"
      <4> DEFINE i == [p.intro EXCEPT !.conflict = Refused(kind)]
      <4>1. p.intro \in Introductions
        BY <1>1, <1>2, <3>1 DEF PanelOf
      <4>4. Refused(kind) \in BOOLEAN
        BY DEF Refused
      <4>2. i \in Introductions /\ i.base = p.intro.base /\ i.over = p.intro.over
        BY <4>1, <4>4 DEF Introductions
      <4>3. q = [r EXCEPT !.intro = i]
        BY <2>1, <3>1 DEF Failed
      <4> HIDE DEF i, r, q
      <4> QED  BY <1>2, <2>1, <3>1, <4>1, <4>2, <4>3, NoneIsNoEditor DEF Pages
    <3>2. CASE PanelOf(m.op) = "note"
      <4> DEFINE e == [p.note EXCEPT !.state = IF Changes(p.note, kind) THEN "conflict" ELSE "open"]
      <4>1. p.note \in Notes
        BY <1>1, <1>2, <3>2 DEF PanelOf
      <4>2. Changes(p.note, kind) => p.note.target # None
        BY DEF Changes
      <4>3. e \in Notes /\ e.base = p.note.base /\ e.over = p.note.over
        BY <4>1, <4>2 DEF Notes
      <4>4. q = [r EXCEPT !.note = e]
        BY <2>1, <3>2 DEF Failed
      <4> HIDE DEF e, r, q
      <4> QED  BY <1>2, <2>1, <3>2, <4>1, <4>3, <4>4, NoneIsNoEditor DEF Pages
    <3>3. CASE PanelOf(m.op) = "link"
      <4> DEFINE e == [p.link EXCEPT !.conflict = Changes(p.link, kind)]
      <4>1. p.link \in LinkEditors
        BY <1>1, <1>2, <3>3 DEF PanelOf
      <4>2. Changes(p.link, kind) \in BOOLEAN /\ (Changes(p.link, kind) => p.link.target # None)
        BY DEF Changes
      <4>3. e \in LinkEditors
        BY <4>1, <4>2 DEF LinkEditors
      <4>4. q = [r EXCEPT !.link = e]
        BY <2>1, <3>3 DEF Failed
      <4> HIDE DEF e, r, q
      <4> QED  BY <2>1, <4>3, <4>4 DEF Pages
    <3>4. CASE PanelOf(m.op) = "none"
      BY <2>1, <3>4 DEF Failed
    <3> QED  BY <3>1, <3>2, <3>3, <3>4 DEF PanelOf
  <2>3. page' = [page EXCEPT ![t] = q]  BY <1>4
  <2> HIDE DEF q
  <2>4. PageOK(q)
    BY <1>1, <2>2 DEF PageOK
  <2> QED  BY <1>3, <2>2, <2>3, <2>4, PageStep
<1>5. ASSUME answer[p.call] # None, answer[p.call].kind = "ok", page' = [page EXCEPT ![t] = Heard(p, answer[p.call])]
      PROVE  IInv'
  <2>1. PICK a \in Answers : a = answer[p.call] /\ a.kind = "ok"
    BY <1>1, <1>5 DEF IInv, TypeOK
  <2>2. a.item \in Workspaces /\ Saw(p.book, a.item.version, a.item.text)
    BY <1>1, <1>2, <1>5, <2>1 DEF Answers, Errors, IInv, AnswerOK
  <2> DEFINE q == Heard(p, a)
             r == [p EXCEPT !.item = a.item, !.call = None]
  <2>3. r \in Pages /\ r.call = None /\ r.intro = p.intro /\ r.note = p.note /\ r.book = p.book /\ r.item = a.item
    BY <1>1, <2>2 DEF Pages
  <2>4. /\ q \in Pages /\ q.call = None /\ q.book = p.book /\ q.item = a.item
        /\ q.intro \in {p.intro, None} /\ q.note \in {p.note, None}
    <3>1. \/ q = r
          \/ q = [r EXCEPT !.intro = None]
          \/ q = [r EXCEPT !.note = None]
          \/ q = [r EXCEPT !.link = None]
      BY DEF Heard, PanelOf
    <3> HIDE DEF q, r
    <3> QED  BY <2>3, <3>1 DEF Pages
  <2>5. page' = [page EXCEPT ![t] = q]  BY <1>5, <2>1
  <2> HIDE DEF q
  <2>6. PageOK(q)
    BY <1>1, <2>2, <2>4 DEF PageOK
  <2> QED  BY <1>3, <2>4, <2>5, <2>6, PageStep
<1> QED  BY <1>4, <1>5 DEF Hear

LEMMA ElsewhereHolds ==
  ASSUME IInv, Elsewhere
  PROVE  IInv'
<1>1. PICK c \in Calls : c = NextCall
  BY NextCallIsNew DEF Elsewhere
<1>2. page' = page /\ page \in [Tabs -> Pages \cup {None}]
  BY DEF Elsewhere, IInv, TypeOK
<1>3. ASSUME NEW m \in Commands, CommandOK(m), Post(NextCall, m) PROVE IInv'
  BY <1>1, <1>2, <1>3, PostStep
<1>4. ASSUME NEW b \in Books PROVE [op |-> "promote", book |-> b] \in Commands /\ CommandOK([op |-> "promote", book |-> b])
  BY DEF Commands, CommandOK
<1>5. ASSUME NEW b \in Books, NEW m \in Fresh(b) PROVE m \in Commands /\ CommandOK(m)
  <2> DEFINE now == Workspace(b)
  <2>1. now \in Workspaces /\ Saw(b, now.version, now.text)
    BY WorkspaceIsTrue
  <2>2. \/ \E o \in {"add", "createNote", "createLink"} : m = [op |-> o, book |-> b]
        \/ m = [op |-> "save", book |-> b, text |-> NextCall, base |-> now.version, over |-> now.text]
        \/ \E n \in now.notes : m = [op |-> "updateNote", book |-> b, item |-> n[1], base |-> n[2], over |-> n[2]]
        \/ \E o \in {"deleteNote", "updateLink", "deleteLink"}, x \in now.notes \cup now.links :
             m = [op |-> o, book |-> b, item |-> x[1]]
    BY DEF Fresh
  <2> HIDE DEF now
  <2>3. now.version \in Nat /\ now.text \in Texts /\ \A x \in now.notes \cup now.links : x[1] \in Calls /\ x[2] \in Calls
    BY <2>1, ItemsAreCalls
  <2>4. CASE \E o \in {"add", "createNote", "createLink"} : m = [op |-> o, book |-> b]
    BY <2>4 DEF Commands, CommandOK
  <2>5. CASE m = [op |-> "save", book |-> b, text |-> NextCall, base |-> now.version, over |-> now.text]
    <3>1. NextCall \in Texts  BY <1>1 DEF Texts
    <3> QED  BY <2>1, <2>3, <2>5, <3>1 DEF Commands, CommandOK
  <2>6. CASE \E n \in now.notes : m = [op |-> "updateNote", book |-> b, item |-> n[1], base |-> n[2], over |-> n[2]]
    BY <2>3, <2>6 DEF Commands, CommandOK
  <2>7. CASE \E o \in {"deleteNote", "updateLink", "deleteLink"}, x \in now.notes \cup now.links :
               m = [op |-> o, book |-> b, item |-> x[1]]
    BY <2>3, <2>7 DEF Commands, CommandOK
  <2> QED  BY <2>2, <2>4, <2>5, <2>6, <2>7
<1> QED  BY <1>3, <1>4, <1>5, ShownAreBooks DEF Elsewhere

-----------------------------------------------------------------------------
(* The theorems. *)

LEMMA InitHolds == Init => IInv
<1> SUFFICES ASSUME Init PROVE IInv
  OBVIOUS
<1> USE DEF Init, LibraryInit, Db!DbInit
<1>1. TypeOK
  BY DEF TypeOK, Steps, Db!DbTypeOK
<1>2. seen = [c \in Calls |-> seen[c]]
  OBVIOUS
<1>3. \A c \in Calls : CallOK(c) /\ AnswerOK(c)
  BY DEF CallOK, AnswerOK
<1>4. RowsOK
  BY DEF RowsOK
<1>5. OneChainPerDocument
  BY DEF OneChainPerDocument, Ids
<1> QED  BY <1>1, <1>2, <1>3, <1>4, <1>5 DEF IInv

LEMMA StepHolds == IInv /\ [Next]_vars => IInv'
<1> SUFFICES ASSUME IInv, [Next]_vars PROVE IInv'
  OBVIOUS
<1>1. ASSUME NEW t \in Tabs, Visit(t) \/ Edit(t) \/ Write(t) \/ Hear(t) \/ Latest(t) PROVE IInv'
  BY <1>1, VisitHolds, EditHolds, WriteHolds, HearHolds, LatestHolds
<1>2. ASSUME NEW c \in Calls, Serve(c) \/ ConnectFails(c) \/ ConnectionLost(c), UNCHANGED page PROVE IInv'
  BY <1>2, SubjectHolds, ReservePrimaryHolds, LoadChainHolds, ReserveSecondaryHolds, CommitPromotionHolds,
     LockBookHolds, CommitWriteHolds, FailsHold DEF Serve, Promotion
<1>3. ASSUME NEW c \in Calls, Archive(c), UNCHANGED page PROVE IInv'
  BY <1>3, ArchiveHolds
<1>4. CASE UNCHANGED vars
  <2>1. UNCHANGED <<page, libraryVars>>
    BY <1>4 DEF vars
  <2>2. UNCHANGED <<command, pc, seen, answer, identity, archived, bookRow, noteRow, revision, link, versions,
                    open, holder, missed, page>>
    BY <2>1 DEF libraryVars, rowVars, dbVars
  <2>3. TypeOK'
    BY <2>2 DEF IInv, TypeOK, Db!DbTypeOK
  <2>4. ASSUME NEW d \in Calls PROVE CallOK(d)' /\ AnswerOK(d)'
    <3>1. CallOK(d) /\ AnswerOK(d)  BY DEF IInv
    <3>2. CallOK(d)'
      BY <2>2, <3>1 DEF CallOK, CommandOK, Saw, Reserves, Writes, Owned, Outdated, SecondaryOf, BookLock
    <3> QED  BY <2>2, <3>1, <3>2 DEF AnswerOK, Saw, Kept
  <2>5. RowsOK'
    BY <2>2 DEF IInv, RowsOK
  <2>6. OneChainPerDocument'
    BY <2>2 DEF IInv, OneChainPerDocument, SecondaryOf
  <2>7. \A t \in Tabs : page'[t] # None => PageOK(page[t])'
    BY <2>2 DEF IInv, PageOK, Saw
  <2> QED  BY <2>2, <2>3, <2>4, <2>5, <2>6, <2>7 DEF IInv
<1> QED  BY <1>1, <1>2, <1>3, <1>4, ElsewhereHolds DEF Next

\* However the calls of a reader's tabs, of other devices and of the catalog are
\* interleaved, every row, answer and page has its form.
THEOREM TypeCorrect == Spec => []TypeOK
<1>1. IInv => TypeOK
  BY DEF IInv
<1> QED  BY InitHolds, StepHolds, <1>1, PTL DEF Spec

\* Promotions of documents that share identities, by any number of calls: a chain
\* has the identities of one document and all of them, and the books of the library
\* and the answers agree with it.
THEOREM OneChain == Spec => []OneChainPerDocument
<1>1. IInv => OneChainPerDocument
  BY DEF IInv
<1> QED  BY InitHolds, StepHolds, <1>1, PTL DEF Spec

\* The rows of the library change by COMMIT of a write only.
LEMMA OthersChangeNoRow ==
  ASSUME [Next]_vars, \A c \in Calls : ~ CommitWrite(c)
  PROVE  UNCHANGED rowVars
<1>1. CASE \E t \in Tabs : Visit(t) \/ Edit(t) \/ Write(t) \/ Hear(t) \/ Latest(t)
  <2>1. PICK t \in Tabs : Visit(t) \/ Edit(t) \/ Write(t) \/ Hear(t) \/ Latest(t)
    BY <1>1
  <2>2. UNCHANGED libraryVars \/ \E c, m : Post(c, m)
    BY <2>1, Zenon DEF Visit, Edit, Write, Hear, Latest, Open, Leave, EditIntroduction, EditNote, EditLink, Cancel, SaveAsNew,
       AddToLibrary, SaveIntroduction, SaveNote, SaveLink, Remove, LatestIntroduction, LatestNote, LatestLink, Shows, Sends
  <2> QED  BY <2>2 DEF libraryVars, Post
<1>2. CASE Elsewhere
  BY <1>2 DEF Elsewhere, Post
<1>3. CASE \E c \in Calls : (Serve(c) \/ ConnectFails(c) \/ ConnectionLost(c)) /\ UNCHANGED page
  BY <1>3 DEF Serve, Promotion, Subject, ReservePrimary, LoadChain, ReserveSecondary, Reserve, CommitPromotion,
     Promoted, LockBook, Refuses, Refuse, GoOn, Finish, Succeed, ConnectFails, ConnectionLost
<1>4. CASE \E c \in Calls : Archive(c) /\ UNCHANGED page
  BY <1>4 DEF Archive
<1>5. CASE UNCHANGED vars
  BY <1>5 DEF vars, libraryVars
<1> QED  BY <1>1, <1>2, <1>3, <1>4, <1>5 DEF Next

\* One device saves a draft over what another saved meanwhile: no row of the
\* library is replaced by a call whose author was not shown it, and a version
\* names one text, in every step of any number of calls.
THEOREM NothingOverwritten == Spec => NothingOverwrittenUnseen
<1> DEFINE Fair == /\ \A b \in Books : bookRow'[b] # bookRow[b] /\ bookRow[b] # None =>
                        \E c \in Calls : /\ pc[c] = "commit" /\ pc'[c] = "done"
                                         /\ command[c].over = bookRow[b].text
                                         /\ bookRow'[b].version = bookRow[b].version + 1
                   /\ \A n \in Calls : noteRow[n] # None /\ noteRow'[n].current # noteRow[n].current =>
                        \E c \in Calls : /\ pc[c] = "commit" /\ pc'[c] = "done"
                                         /\ command[c].over = noteRow[n].current
                                         /\ revision'[c] = [note |-> n, parent |-> noteRow[n].current]
                   /\ \A v, w \in versions' : v[1] = w[1] /\ v[2] = w[2] => v[3] = w[3]
<1>1. IInv /\ [Next]_vars => Fair
  <2> SUFFICES ASSUME IInv, [Next]_vars PROVE Fair
    OBVIOUS
  <2>1. CASE \A c \in Calls : ~ CommitWrite(c)
    BY <2>1, OthersChangeNoRow DEF rowVars, IInv, RowsOK
  <2>2. ASSUME NEW c \in Calls, CommitWrite(c) PROVE Fair
    <3> DEFINE m == command[c]
               b == m.book
               row == Saved(m, seen[c])
    <3>1. pc[c] = "commit" /\ pc'[c] = "done"
      BY <2>2 DEF CommitWrite, Succeed, Finish, IInv, TypeOK
    <3>2. /\ b \in Books
          /\ \/ bookRow[b] = None
             \/ row = bookRow[b]
             \/ m.op = "save" /\ m.over = bookRow[b].text /\ row.version = bookRow[b].version + 1
      BY <3>1, WritesNext
    <3>3. /\ bookRow'[b] = row /\ \A e \in Books \ {b} : bookRow'[e] = bookRow[e]
          /\ \A v, w \in versions' : v[1] = w[1] /\ v[2] = w[2] => v[3] = w[3]
      BY <2>2, WritesRows
    <3>4. /\ \A n \in Calls : noteRow[n] # None /\ noteRow'[n].current # noteRow[n].current =>
               m.op = "updateNote" /\ m.item = n /\ revision'[c] = [note |-> n, parent |-> noteRow[n].current]
      BY <2>2, WritesItems
    <3>5. m.op = "updateNote" => m.over = noteRow[m.item].current
      <4>1. Writes(c) /\ m # None /\ CommandOK(m)
        BY <3>1, Running, NothingIsNone DEF IInv, CallOK
      <4> QED  BY <4>1 DEF Writes, Outdated, CommandOK
    <3> HIDE DEF row, m
    <3> QED  BY <3>1, <3>2, <3>3, <3>4, <3>5 DEF m
  <2> QED  BY <2>1, <2>2
<1>2. IInv /\ [Next]_vars => [Fair]_vars
  BY <1>1
<1> HIDE DEF Fair
<1>3. Spec => [][Fair]_vars
  BY InitHolds, StepHolds, <1>2, PTL DEF Spec
<1> QED  BY <1>3 DEF NothingOverwrittenUnseen, Fair

\* A page whose call fails, in whatever way, keeps the draft it is about: an
\* editor is closed by a reply only after its text was committed.
THEOREM DraftsKept == Spec => DraftsAreKept
<1> DEFINE Kind == \A t \in Tabs :
                     LET p == page[t]
                         q == page'[t]
                     IN p # None /\ q # None /\ p.call # None =>
                          /\ p.intro # None /\ q.intro = None =>
                               \E v \in versions : v[1] = p.book /\ v[2] >= p.intro.base /\ v[3] = p.intro.draft
                          /\ p.note # None /\ q.note = None => revision[p.call] # None
                          /\ p.link # None /\ q.link = None => \E l \in q.item.links : l[2] = p.call
<1>1. IInv /\ [Next]_vars => Kind
  <2> SUFFICES ASSUME IInv, [Next]_vars, NEW t \in Tabs,
                      page[t] # None, page'[t] # None, page[t].call # None
               PROVE  LET p == page[t]
                          q == page'[t]
                      IN  /\ p.intro # None /\ q.intro = None =>
                               \E v \in versions : v[1] = p.book /\ v[2] >= p.intro.base /\ v[3] = p.intro.draft
                          /\ p.note # None /\ q.note = None => revision[p.call] # None
                          /\ p.link # None /\ q.link = None => \E l \in q.item.links : l[2] = p.call
    OBVIOUS
  <2> DEFINE p == page[t]
             m == command[p.call]
  <2>1. CASE page'[t] = page[t]
    BY <2>1
  <2>2. CASE Hear(t)
    <3>1. /\ p \in Pages /\ PageOK(p) /\ p.call \in Calls /\ m # None /\ m.book = p.book
          /\ m.op = "save" => p.intro # None /\ m.text = p.intro.draft /\ m.base = p.intro.base
          /\ p.intro \in Introductions \cup {None} /\ p.note \in Notes \cup {None} /\ p.link \in LinkEditors \cup {None}
      BY DEF IInv, TypeOK, Pages, PageOK
    <3>2. CASE answer[p.call] # None /\ answer[p.call].kind = "ok" /\ page' = [page EXCEPT ![t] = Heard(p, answer[p.call])]
      <4>1. /\ m.op = "save" => Kept(m)
            /\ m.op \in {"createNote", "updateNote"} => revision[p.call] # None
            /\ m.op \in {"createLink", "updateLink"} => \E l \in answer[p.call].item.links : l[2] = p.call
        BY <3>1, <3>2 DEF IInv, AnswerOK
      <4> DEFINE r == [p EXCEPT !.item = answer[p.call].item, !.call = None]
                 q == Heard(p, answer[p.call])
      <4>2. /\ r.intro = p.intro /\ r.note = p.note /\ r.link = p.link /\ r.item = answer[p.call].item
            /\ DOMAIN r = DOMAIN p
        BY <3>1 DEF Pages
      <4>3. /\ m.op # "save" => q.intro = p.intro
            /\ m.op \notin {"createNote", "updateNote"} => q.note = p.note
            /\ m.op \notin {"createLink", "updateLink"} => q.link = p.link
            /\ m.op \in {"createLink", "updateLink"} => q.item = answer[p.call].item
        <5>1. CASE m.op = "save"
          <6>1. q = [r EXCEPT !.intro = None]  BY <5>1 DEF Heard, PanelOf
          <6> HIDE DEF q
          <6> QED  BY <3>1, <5>1, <6>1, <4>2 DEF Pages
        <5>2. CASE m.op \in {"createNote", "updateNote"}
          <6>1. q = [r EXCEPT !.note = None]  BY <5>2 DEF Heard, PanelOf
          <6> HIDE DEF q
          <6> QED  BY <3>1, <5>2, <6>1, <4>2 DEF Pages
        <5>3. CASE m.op \in {"createLink", "updateLink"}
          <6>1. q = [r EXCEPT !.link = None]  BY <5>3 DEF Heard, PanelOf
          <6> HIDE DEF q
          <6> QED  BY <3>1, <5>3, <6>1, <4>2 DEF Pages
        <5>4. CASE m.op \notin {"save", "createNote", "updateNote", "createLink", "updateLink"}
          <6>1. q = r  BY <5>4 DEF Heard, PanelOf
          <6> HIDE DEF q, r
          <6> QED  BY <5>4, <6>1, <4>2
        <5> QED  BY <5>1, <5>2, <5>3, <5>4
      <4>4. page'[t] = q
        BY <3>2 DEF IInv, TypeOK
      <4> HIDE DEF q, r
      <4> QED  BY <3>1, <4>1, <4>3, <4>4 DEF Kept
    <3>3. ASSUME NEW kind, page' = [page EXCEPT ![t] = Failed(p, kind)]
          PROVE  /\ p.intro # None => page'[t].intro # None
                 /\ p.note # None => page'[t].note # None
                 /\ p.link # None => page'[t].link # None
      <4> DEFINE r == [p EXCEPT !.call = None]
                 q == Failed(p, kind)
      <4>1. r \in [book : Books, item : Workspaces, intro : Introductions \cup {None},
                   note : Notes \cup {None}, link : LinkEditors \cup {None}, call : Calls \cup {None}]
            /\ r.intro = p.intro /\ r.note = p.note /\ r.link = p.link
        BY <3>1 DEF Pages
      <4>2. page'[t] = q
        BY <3>3 DEF IInv, TypeOK
      <4>3. /\ p.intro # None => q.intro # None
            /\ p.note # None => q.note # None
            /\ p.link # None => q.link # None
        <5>1. CASE PanelOf(m.op) = "intro"
          <6>1. q = [r EXCEPT !.intro = [r.intro EXCEPT !.conflict = Refused(kind)]]
            BY <5>1 DEF Failed
          <6>2. p.intro \in Introductions /\ Refused(kind) \in BOOLEAN
            BY <3>1, <5>1 DEF PanelOf, Refused
          <6>3. [r.intro EXCEPT !.conflict = Refused(kind)] \in Introductions
            BY <4>1, <6>2 DEF Introductions
          <6> HIDE DEF q, r
          <6> QED  BY <4>1, <6>1, <6>3, NoneIsNoEditor
        <5>2. CASE PanelOf(m.op) = "note"
          <6> DEFINE e == [r.note EXCEPT !.state = IF Changes(p.note, kind) THEN "conflict" ELSE "open"]
          <6>1. q = [r EXCEPT !.note = e]
            BY <5>2 DEF Failed
          <6>2. p.note \in Notes
            BY <3>1, <5>2 DEF PanelOf, PageOK
          <6>3. Changes(p.note, kind) => p.note.target # None
            BY DEF Changes
          <6>4. e \in Notes
            BY <4>1, <6>2, <6>3 DEF Notes
          <6> HIDE DEF q, r, e
          <6> QED  BY <4>1, <6>1, <6>4, NoneIsNoEditor
        <5>3. CASE PanelOf(m.op) = "link"
          <6> DEFINE e == [r.link EXCEPT !.conflict = Changes(p.link, kind)]
          <6>1. q = [r EXCEPT !.link = e]
            BY <5>3 DEF Failed
          <6>2. p.link \in LinkEditors
            BY <3>1, <5>3 DEF PanelOf, PageOK
          <6>3. Changes(p.link, kind) \in BOOLEAN /\ (Changes(p.link, kind) => p.link.target # None)
            BY DEF Changes, Refused, Absent
          <6>4. e \in LinkEditors
            BY <4>1, <6>2, <6>3 DEF LinkEditors
          <6> HIDE DEF q, r, e
          <6> QED  BY <4>1, <6>1, <6>4, NoneIsNoEditor
        <5>4. CASE PanelOf(m.op) = "none"
          BY <4>1, <5>4 DEF Failed
        <5> QED  BY <5>1, <5>2, <5>3, <5>4 DEF PanelOf
      <4> QED  BY <4>2, <4>3
    <3> QED  BY <2>2, <3>2, <3>3 DEF Hear
  <2>3. page'[t] = page[t] \/ Hear(t)
    <3>1. ASSUME NEW u \in Tabs, Visit(u) \/ Edit(u) \/ Write(u) \/ Hear(u) \/ Latest(u)
          PROVE  page'[t] = page[t] \/ Hear(t)
      <4>1. CASE u = t
        <5>1. ~ Visit(t)
          <6>1. Visit(t) => page[t] = None \/ page' = [page EXCEPT ![t] = None]
            BY DEF Visit, Open, Leave
          <6> QED  BY <6>1 DEF IInv, TypeOK
        <5>2. ~ Idle(t)
          BY DEF Idle
        <5> QED
          BY <3>1, <4>1, <5>1, <5>2 DEF Edit, Write, Latest, EditIntroduction, EditNote, EditLink, MayOpen, Cancel, SaveAsNew, Ready,
             AddToLibrary, SaveIntroduction, SaveNote, SaveLink, Remove, LatestIntroduction, LatestNote, LatestLink
      <4>2. CASE u # t
        <5>1. \E q : page' = [page EXCEPT ![u] = q]
          BY <3>1, Zenon DEF Visit, Edit, Write, Hear, Latest, Open, Leave, EditIntroduction, EditNote, EditLink, Cancel,
             SaveAsNew, AddToLibrary, SaveIntroduction, SaveNote, SaveLink, Remove, LatestIntroduction, LatestNote,
             LatestLink, Shows, Sends
        <5> QED  BY <4>2, <5>1 DEF IInv, TypeOK
      <4> QED  BY <4>1, <4>2
    <3>2. CASE page' = page
      BY <3>2
    <3> QED  BY <3>1, <3>2 DEF Next, Elsewhere, vars
  <2> QED  BY <2>1, <2>2, <2>3
<1>2. IInv /\ [Next]_vars => [Kind]_vars
  BY <1>1
<1> HIDE DEF Kind
<1>3. Spec => [][Kind]_vars
  BY InitHolds, StepHolds, <1>2, PTL DEF Spec
<1> QED  BY <1>3 DEF DraftsAreKept, Kind

-----------------------------------------------------------------------------
(* Who waits for whom. *)

\* An SSID comes before a DXID.
InOrder(q) == \A i, j \in DOMAIN q : i < j => q[i] \in Ssids /\ q[j] \in Dxids

\* Why c has the lock on x: it reserves the identities of a document in their order,
\* and what it still has to reserve comes after x, or it writes to a book.
HasFor(c, x) ==
  \/ /\ pc[c] = "reserve"
     /\ \/ x = command[c].book
        \/ x \in Others /\ (seen[c] # <<>> => x \in Ssids /\ Head(seen[c]) \in Dxids)
  \/ pc[c] = "commit" /\ x = BookLock(command[c].book)

\* Locks are taken in one order, and held by nobody who has no use for them.
InTurn ==
  /\ \A c \in Calls : pc[c] = "reserve" => InOrder(seen[c])
  /\ \A x \in Locks : holder[x] # None => HasFor(holder[x], x)

\* A call that waits for an identity or for a book has only locks that come earlier,
\* so of calls that wait for each other one would wait for an SSID and have a DXID.
LEMMA NoCircle ==
  ASSUME IInv, InTurn
  PROVE  NobodyWaitsInACircle
<1>1. \A x \in DOMAIN holder : holder[x] # None => x \in Locks /\ holder[x] \in Calls
  BY DEF IInv, TypeOK, Db!DbTypeOK, Locks
<1>2. \A x \in DOMAIN holder : holder[x] # None => pc[holder[x]] \in {"reserve", "commit"}
  BY <1>1 DEF InTurn, HasFor
<1>3. SUFFICES ASSUME NEW S \in SUBSET Calls, S # {},
                      \A c \in S : \E x \in Wanted(c) : holder[x] \in S \ {c}
               PROVE  FALSE
  <2>1. \A x \in DOMAIN holder : holder[x] # None => pc[holder[x]] \in InTransaction
    BY <1>2 DEF InTransaction
  <2>2. \A S \in (SUBSET Calls) \ {{}} : \E c \in S : \A x \in Wanted(c) : holder[x] \notin S \ {c}
    BY <1>3
  <2> QED  BY <2>1, <2>2, Zenon DEF NobodyWaitsInACircle
<1>4. ASSUME NEW c \in S, pc[c] = "reserve"
      PROVE  \E d \in S : pc[d] = "reserve" /\ Head(seen[c]) \in Ssids /\ Head(seen[d]) \in Dxids
  <2>1. PICK x \in Wanted(c) : holder[x] \in S \ {c}
    BY <1>3
  <2>2. x = Head(seen[c]) /\ seen[c] # <<>>
    BY <1>4, <2>1 DEF Wanted
  <2>3. seen[c] \in Seq(Others)
    BY <1>4 DEF IInv, CallOK, Reserves
  <2>4. x \in Others /\ x \in Locks /\ holder[x] # None
    BY <2>1, <2>2, <2>3, NothingIsNone DEF Locks, Ids
  <2> DEFINE d == holder[x]
  <2>5. HasFor(d, x) /\ d \in S /\ d \in Calls
    BY <2>1, <2>4 DEF InTurn
  <2>6. Wanted(d) # {}
    BY <1>3, <2>5
  <2>7. pc[d] = "reserve" /\ seen[d] # <<>>
    BY <2>5, <2>6 DEF Wanted, HasFor
  <2>8. x # command[d].book
    BY <2>4, <2>5, <2>7, Running, IdentitiesAreApart
  <2> QED  BY <2>2, <2>5, <2>7, <2>8 DEF HasFor
<1>5. ASSUME NEW c \in S, pc[c] = "reserve" PROVE FALSE
  <2>1. PICK d \in S : pc[d] = "reserve" /\ Head(seen[d]) \in Dxids
    BY <1>4, <1>5
  <2>2. Head(seen[d]) \in Ssids
    BY <1>4, <2>1
  <2> QED  BY <2>1, <2>2, SsidBeforeDxid
<1>6. PICK c \in S : TRUE
  BY <1>3
<1>7. PICK x \in Wanted(c) : holder[x] \in S \ {c}
  BY <1>3
<1>8. c \in Calls /\ pc[c] \in {"primary", "lock"}
  BY <1>5, <1>7 DEF Wanted
<1>9. x \in Locks /\ holder[x] # None
  <2>1. command[c].book \in Books
    BY <1>8, Running
  <2> QED  BY <1>7, <1>8, <2>1, NothingIsNone DEF Wanted, Locks, Ids
<1> DEFINE d == holder[x]
<1>10. HasFor(d, x) /\ d \in S
  BY <1>7, <1>9 DEF InTurn
<1>11. pc[d] # "commit"
  <2>1. Wanted(d) # {}
    BY <1>3, <1>10
  <2> QED  BY <2>1 DEF Wanted
<1> QED  BY <1>5, <1>10, <1>11 DEF HasFor

\* A step of c alone.
LEMMA TurnStep ==
  ASSUME IInv, InTurn, NEW c \in Calls,
         \A d \in Calls \ {c} : pc'[d] = pc[d] /\ seen'[d] = seen[d] /\ command'[d] = command[d],
         \A x \in Locks : holder'[x] \in {holder[x], None, c},
         pc'[c] = "reserve" => InOrder(seen'[c]),
         \A x \in Locks : holder'[x] = c => HasFor(c, x)'
  PROVE  InTurn'
<1>1. ASSUME NEW d \in Calls, pc'[d] = "reserve" PROVE InOrder(seen'[d])
  <2>1. CASE d = c  BY <1>1, <2>1
  <2>2. CASE d # c
    <3>1. pc[d] = "reserve" /\ seen'[d] = seen[d]
      BY <1>1, <2>2
    <3> QED  BY <3>1 DEF InTurn
  <2> QED  BY <2>1, <2>2
<1>2. ASSUME NEW x \in Locks, holder'[x] # None PROVE HasFor(holder[x], x)'
  <2>1. CASE holder'[x] = c  BY <2>1
  <2>2. CASE holder'[x] # c
    <3>1. holder'[x] = holder[x] /\ holder[x] \in Calls \ {c}
      BY <1>2, <2>2 DEF IInv, TypeOK, Db!DbTypeOK, Locks
    <3>2. HasFor(holder[x], x)
      BY <1>2, <3>1 DEF InTurn
    <3> QED  BY <3>1, <3>2 DEF HasFor
  <2> QED  BY <2>1, <2>2
<1>3. (\A d \in Calls : pc[d] = "reserve" => InOrder(seen[d]))'
  BY <1>1 DEF InOrder
<1>4. (\A x \in Locks : holder[x] # None => HasFor(holder[x], x))'
  BY <1>2 DEF Locks, Ids, BookLock
<1> QED  BY <1>3, <1>4 DEF InTurn

\* A call that has reserved nothing and writes to no book has no locks.
LEMMA EmptyHands ==
  ASSUME InTurn, NEW c \in Calls, pc[c] \notin {"reserve", "commit"}, NEW x \in Locks
  PROVE  holder[x] # c
BY NothingIsNone DEF InTurn, HasFor

\* What an End, a step that takes no lock and one that takes x leave to c.
LEMMA LetsGo ==
  ASSUME TypeOK, NEW c \in Calls, Db!End(c, {})
  PROVE  \A x \in Locks : holder'[x] \in {holder[x], None} /\ holder'[x] # c
BY NothingIsNone DEF Db!End, Locks, TypeOK, Db!DbTypeOK

LEMMA Takes ==
  ASSUME TypeOK, NEW c \in Calls, NEW x \in Locks, Db!Lock(c, x) \/ Db!BeginLock(c, x)
  PROVE  \A y \in Locks : holder'[y] = IF y = x THEN c ELSE holder[y]
BY DEF Db!Lock, Db!BeginLock, Locks, TypeOK, Db!DbTypeOK

\* The call ends, or goes on without its locks.
LEMMA LetsGoInTurn ==
  ASSUME IInv, InTurn, NEW c \in Calls, Db!End(c, {}), NEW s \in Steps \ {"reserve"}, NEW v,
         pc' = [pc EXCEPT ![c] = s], seen' = [seen EXCEPT ![c] = v], UNCHANGED command
  PROVE  InTurn'
<1>1. TypeOK  BY DEF IInv
<1>2. pc'[c] # "reserve" /\ \A d \in Calls \ {c} : pc'[d] = pc[d] /\ seen'[d] = seen[d]
  BY DEF IInv, TypeOK
<1>3. \A x \in Locks : holder'[x] \in {holder[x], None} /\ holder'[x] # c
  BY <1>1, LetsGo
<1> QED  BY <1>2, <1>3, TurnStep

\* A call without locks goes on, and takes none.
LEMMA EmptyInTurn ==
  ASSUME IInv, InTurn, NEW c \in Calls, UNCHANGED holder, pc[c] \notin {"reserve", "commit"},
         \A d \in Calls \ {c} : pc'[d] = pc[d] /\ seen'[d] = seen[d] /\ command'[d] = command[d],
         pc'[c] # "reserve"
  PROVE  InTurn'
<1>1. \A x \in Locks : holder'[x] = holder[x] /\ holder[x] # c
  BY EmptyHands
<1> QED  BY <1>1, TurnStep

LEMMA InTurnInit == Init => InTurn
BY DEF Init, LibraryInit, Db!DbInit, InTurn, Locks

LEMMA InTurnStep == IInv /\ InTurn /\ [Next]_vars => InTurn'
<1> SUFFICES ASSUME IInv, InTurn, [Next]_vars PROVE InTurn'
  OBVIOUS
<1>0. TypeOK  BY DEF IInv
<1>1. ASSUME UNCHANGED <<command, pc, seen, holder>> PROVE InTurn'
  BY <1>1 DEF InTurn, HasFor, InOrder, Locks, Ids, BookLock
<1>2. ASSUME NEW c \in Calls, NEW m, Post(c, m) PROVE InTurn'
  <2>1. /\ pc[c] = "idle" /\ UNCHANGED <<holder, seen>>
        /\ command' = [command EXCEPT ![c] = m]
        /\ pc' = [pc EXCEPT ![c] = IF m.op \in Keeping \cup {"promote"} THEN "subject" ELSE "lock"]
    BY <1>2 DEF Post, Unused, dbVars
  <2>2. /\ pc'[c] # "reserve" /\ pc[c] \notin {"reserve", "commit"}
        /\ \A d \in Calls \ {c} : pc'[d] = pc[d] /\ seen'[d] = seen[d] /\ command'[d] = command[d]
    BY <1>0, <2>1 DEF TypeOK
  <2> QED  BY <2>1, <2>2, EmptyInTurn
<1>3. CASE \E t \in Tabs : Visit(t) \/ Edit(t) \/ Write(t) \/ Hear(t) \/ Latest(t)
  <2>1. PICK t \in Tabs : Visit(t) \/ Edit(t) \/ Write(t) \/ Hear(t) \/ Latest(t)
    BY <1>3
  <2>2. UNCHANGED libraryVars \/ \E c, m : Post(c, m)
    BY <2>1, Zenon DEF Visit, Edit, Write, Hear, Latest, Open, Leave, EditIntroduction, EditNote, EditLink, Cancel, SaveAsNew,
       AddToLibrary, SaveIntroduction, SaveNote, SaveLink, Remove, LatestIntroduction, LatestNote, LatestLink, Shows, Sends
  <2>3. ASSUME NEW c, NEW m, Post(c, m) PROVE c \in Calls
    BY <2>3 DEF Post, Unused
  <2> QED  BY <1>1, <1>2, <2>2, <2>3 DEF libraryVars, dbVars
<1>4. CASE Elsewhere
  <2>1. PICK c, m : Post(c, m)
    BY <1>4 DEF Elsewhere
  <2>2. c \in Calls
    BY <2>1 DEF Post, Unused
  <2> QED  BY <1>2, <2>1, <2>2
<1>5. ASSUME NEW c \in Calls, NEW a, Finish(c, a), Db!End(c, {}) PROVE InTurn'
  BY <1>5, LetsGoInTurn DEF Finish, Steps
<1>6. ASSUME NEW c \in Calls, NEW a, Finish(c, a), UNCHANGED dbVars, pc[c] \notin {"reserve", "commit"} PROVE InTurn'
  <2>1. /\ pc'[c] = "done" /\ UNCHANGED holder
        /\ \A d \in Calls \ {c} : pc'[d] = pc[d] /\ seen'[d] = seen[d] /\ command'[d] = command[d]
    BY <1>0, <1>6 DEF Finish, IInv, TypeOK, dbVars
  <2> QED  BY <1>6, <2>1, EmptyInTurn
<1>7. ASSUME NEW c \in Calls, Subject(c) PROVE InTurn'
  <2>1. pc[c] = "subject"
    BY <1>7 DEF Subject
  <2>2. ASSUME NEW s \in {"lock", "primary"}, NEW v, GoOn(c, s, v), UNCHANGED holder PROVE InTurn'
    <3>1. /\ pc'[c] = s
          /\ \A d \in Calls \ {c} : pc'[d] = pc[d] /\ seen'[d] = seen[d] /\ command'[d] = command[d]
      BY <1>0, <2>2 DEF GoOn, IInv, TypeOK
    <3> QED  BY <2>1, <2>2, <3>1, EmptyInTurn
  <2>3. Db!Begin(c) \/ UNCHANGED dbVars => UNCHANGED holder
    BY DEF Db!Begin, dbVars
  <2> QED  BY <1>6, <1>7, <2>1, <2>2, <2>3 DEF Subject
<1>8. ASSUME NEW c \in Calls, NEW chain, Promoted(c, chain) PROVE InTurn'
  <2>1. CASE \E a : Succeed(c, a)
    BY <1>5, <2>1 DEF Succeed
  <2>2. CASE /\ pc' = [pc EXCEPT ![c] = "lock"]
             /\ seen' = [seen EXCEPT ![c] = chain]
             /\ UNCHANGED <<command, answer, archived>>
             /\ Db!End(c, {})
    BY <2>2, LetsGoInTurn DEF Steps
  <2> QED  BY <1>8, <2>1, <2>2 DEF Promoted
<1>9. ASSUME NEW c \in Calls, ReservePrimary(c) PROVE InTurn'
  <2> DEFINE b == command[c].book
  <2>1. pc[c] = "primary"
    BY <1>9 DEF ReservePrimary
  <2>2. b \in Books /\ b \in Locks
    BY <2>1, Running DEF Locks, Ids
  <2>3. CASE GoOn(c, "chain", None) /\ UNCHANGED dbVars
    <3>1. /\ pc'[c] = "chain" /\ UNCHANGED holder
          /\ \A d \in Calls \ {c} : pc'[d] = pc[d] /\ seen'[d] = seen[d] /\ command'[d] = command[d]
      BY <1>0, <2>3 DEF GoOn, IInv, TypeOK, dbVars
    <3> QED  BY <2>1, <3>1, EmptyInTurn
  <2>4. CASE GoOn(c, "reserve", Secondary[b]) /\ Db!Lock(c, b)
    <3>1. /\ pc'[c] = "reserve" /\ seen'[c] = Secondary[b] /\ command'[c] = command[c]
          /\ \A d \in Calls \ {c} : pc'[d] = pc[d] /\ seen'[d] = seen[d] /\ command'[d] = command[d]
      BY <1>0, <2>4 DEF GoOn, IInv, TypeOK
    <3>2. InOrder(seen'[c])
      BY <2>2, <3>1, SsidBeforeDxid DEF InOrder
    <3>3. \A y \in Locks : holder'[y] = IF y = b THEN c ELSE holder[y]
      BY <1>0, <2>2, <2>4, Takes
    <3>4. \A y \in Locks : holder'[y] = c => y = b
      BY <2>1, <3>3, EmptyHands
    <3>5. \A y \in Locks : holder'[y] = c => HasFor(c, y)'
      BY <3>1, <3>4 DEF HasFor
    <3> QED  BY <3>1, <3>2, <3>3, <3>5, TurnStep
  <2> QED  BY <1>9, <2>3, <2>4 DEF ReservePrimary
<1>10. ASSUME NEW c \in Calls, ReserveSecondary(c) PROVE InTurn'
  <2>1. pc[c] = "reserve" /\ seen[c] # <<>> /\ seen[c] \in Seq(Others) /\ InOrder(seen[c])
    BY <1>10 DEF ReserveSecondary, IInv, CallOK, Reserves, InTurn
  <2>2. PICK q \in Seq(Others) : q = seen[c] /\ q # <<>>
    BY <2>1
  <2>3. Head(q) \in Others /\ Head(q) \in Locks
    BY <2>2 DEF Locks, Ids
  <2>4. CASE Refuse(c, "mismatch")
    BY <1>5, <2>4 DEF Refuse
  <2>5. CASE GoOn(c, "reserve", Tail(q)) /\ Db!Lock(c, Head(q))
    <3>1. /\ pc'[c] = "reserve" /\ seen'[c] = Tail(q) /\ command'[c] = command[c]
          /\ \A d \in Calls \ {c} : pc'[d] = pc[d] /\ seen'[d] = seen[d] /\ command'[d] = command[d]
      BY <1>0, <2>5 DEF GoOn, IInv, TypeOK
    <3>2. InOrder(Tail(q))
      BY <2>1, <2>2 DEF InOrder
    <3>3. Tail(q) # <<>> => Head(q) \in Ssids /\ Head(Tail(q)) \in Dxids
      <4>1. ASSUME Tail(q) # <<>> PROVE 1 \in DOMAIN q /\ 2 \in DOMAIN q /\ Head(q) = q[1] /\ Head(Tail(q)) = q[2]
        BY <2>2, <4>1
      <4> QED  BY <2>1, <2>2, <4>1 DEF InOrder
    <3>4. \A y \in Locks : holder'[y] = IF y = Head(q) THEN c ELSE holder[y]
      BY <1>0, <2>3, <2>5, Takes
    <3>5. ASSUME NEW y \in Locks, holder'[y] = c PROVE HasFor(c, y)'
      <4>1. CASE y = Head(q)
        BY <2>3, <3>1, <3>3, <4>1 DEF HasFor
      <4>2. CASE holder[y] = c
        <5>1. y = command[c].book \/ (y \in Others /\ y \in Ssids /\ Head(q) \in Dxids)
          BY <2>1, <2>2, <4>2, NothingIsNone DEF InTurn, HasFor
        <5>2. Head(q) \in Dxids => Tail(q) = <<>>
          BY <3>3, SsidBeforeDxid
        <5> QED  BY <3>1, <5>1, <5>2 DEF HasFor
      <4> QED  BY <3>4, <3>5, <4>1, <4>2
    <3> QED  BY <3>1, <3>2, <3>4, <3>5, TurnStep
  <2> QED  BY <1>10, <2>2, <2>4, <2>5 DEF ReserveSecondary, Reserve
<1>11. ASSUME NEW c \in Calls, LockBook(c) PROVE InTurn'
  <2> DEFINE x == BookLock(command[c].book)
  <2>1. pc[c] = "lock"
    BY <1>11 DEF LockBook
  <2>2. x \in Locks
    BY <2>1, Running DEF Locks
  <2>3. CASE Refuses(c, Objection(c))
    BY <1>6, <2>1, <2>3 DEF Refuses
  <2>4. CASE GoOn(c, "commit", InHand(c)) /\ Db!BeginLock(c, x)
    <3>1. /\ pc'[c] = "commit" /\ command'[c] = command[c]
          /\ \A d \in Calls \ {c} : pc'[d] = pc[d] /\ seen'[d] = seen[d] /\ command'[d] = command[d]
      BY <1>0, <2>4 DEF GoOn, IInv, TypeOK
    <3>2. \A y \in Locks : holder'[y] = IF y = x THEN c ELSE holder[y]
      BY <1>0, <2>2, <2>4, Takes
    <3>3. \A y \in Locks : holder'[y] = c => y = x
      BY <2>1, <3>2, EmptyHands
    <3>4. \A y \in Locks : holder'[y] = c => HasFor(c, y)'
      BY <3>1, <3>3 DEF HasFor, BookLock
    <3> QED  BY <3>1, <3>2, <3>4, TurnStep
  <2> QED  BY <1>11, <2>3, <2>4 DEF LockBook
<1>12. ASSUME NEW c \in Calls, Serve(c) \/ ConnectFails(c) \/ ConnectionLost(c) PROVE InTurn'
  <2>1. CASE LoadChain(c)
    BY <1>5, <1>8, <2>1 DEF LoadChain, Refuse
  <2>2. CASE CommitPromotion(c)
    BY <1>8, <2>2 DEF CommitPromotion
  <2>3. CASE CommitWrite(c)
    BY <1>5, <2>3 DEF CommitWrite, Succeed
  <2>4. CASE ConnectFails(c)
    BY <1>6, <2>4 DEF ConnectFails
  <2>5. CASE ConnectionLost(c)
    BY <1>5, <2>5 DEF ConnectionLost, Refuse
  <2> QED  BY <1>7, <1>9, <1>10, <1>11, <1>12, <2>1, <2>2, <2>3, <2>4, <2>5 DEF Serve, Promotion
<1>13. CASE \E c \in Calls : Archive(c) /\ UNCHANGED page
  BY <1>1, <1>13 DEF Archive, dbVars
<1>14. CASE UNCHANGED vars
  BY <1>1, <1>14 DEF vars, libraryVars, dbVars
<1> QED  BY <1>3, <1>4, <1>12, <1>13, <1>14 DEF Next

\* Promotions of documents with common identities and writes to common books, by any
\* number of calls: a lock is held by a call that still runs, and among any calls
\* that have begun one waits for none of the others.
THEOREM NobodyWaitsForGood == Spec => []NobodyWaitsInACircle
<1>1. IInv /\ InTurn => NobodyWaitsInACircle
  BY NoCircle
<1> QED  BY InitHolds, StepHolds, InTurnInit, InTurnStep, <1>1, PTL DEF Spec
=============================================================================
