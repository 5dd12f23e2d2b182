----------------------- MODULE IssueResolutionsProofs -----------------------
(***************************************************************************)
(* Proofs about IssueResolutions, for every finite or infinite set of      *)
(* requests, issues, keys and bodies and every number of attempts.         *)
(***************************************************************************)
EXTENDS IssueResolutions, TLAPS

-----------------------------------------------------------------------------
(* Lemmas about the operators the model is built from. *)

\* The scope, the rows and the hash of a command are what they are meant to be.
LEMMA RowsOfCommand ==
  ASSUME NEW c \in Payload
  PROVE  /\ ScopeOf(c) \in Scopes
         /\ ReceiptRow(ScopeOf(c)) \in Rows
         /\ IssueRow(c.issue) \in Rows
         /\ ProjectRow \in Rows
         /\ c.issue \in Issues
         /\ c.expected \in Requests \cup {None}
         /\ RequestHash(c) \in Hashes
  BY DEF Payload, Scopes, ScopeOf, Rows, RequestHash, Hashes

LEMMA ErrorIsAnswer ==
  ASSUME NEW k \in Refusals \cup {"conflict", "unavailable"}
  PROVE  /\ Error(k) \in Answers
         /\ Error(k).kind \notin {"created", "replayed"}
  BY DEF Error, Answers, Refusals

LEMMA NoneIsNothing ==
  /\ None \notin Requests
  /\ None \notin Payload
  /\ None \notin Receipt
  /\ None \notin Answers
  BY NoneAssumption

\* Ending a transaction releases what it held and nothing else.
LEMMA EndReleases ==
  ASSUME Db!DbTypeOK, NEW r \in Requests, NEW W \in SUBSET Rows, Db!End(r, W)
  PROVE  /\ Db!DbTypeOK'
         /\ open' = open \ {r}
         /\ \A x \in Rows : holder'[x] = IF holder[x] = r THEN None ELSE holder[x]
  BY DEF Db!DbTypeOK, Db!End

\* Taking a lock changes the holder of that row, which nobody else held.
LEMMA LockTakes ==
  ASSUME Db!DbTypeOK, NEW r \in Requests, NEW x \in Rows, Db!Lock(r, x)
  PROVE  /\ Db!DbTypeOK'
         /\ open' = open
         /\ holder[x] \in {None, r}
         /\ \A y \in Rows : holder'[y] = IF y = x THEN r ELSE holder[y]
  BY DEF Db!DbTypeOK, Db!Lock, Db!Waits

LEMMA BeginKeepsType ==
  ASSUME Db!DbTypeOK, NEW r \in Requests, Db!Begin(r)
  PROVE  Db!DbTypeOK' /\ open' = open \cup {r} /\ holder' = holder
  BY DEF Db!DbTypeOK, Db!Begin

LEMMA AutocommitKeepsType ==
  ASSUME Db!DbTypeOK, NEW x \in Rows, Db!Autocommit(x)
  PROVE  Db!DbTypeOK' /\ holder[x] = None /\ UNCHANGED <<open, holder>>
  BY DEF Db!DbTypeOK, Db!Autocommit

-----------------------------------------------------------------------------
(* A step that stores nothing leaves the invariants of the store alone. *)

LEMMA StoreFrame ==
  ASSUME IInv, UNCHANGED <<command, storeVars>>
  PROVE  ReceiptNamesItsResolution' /\ HistoryIsLinear'
  BY DEF IInv, storeVars, ReceiptNamesItsResolution, HistoryIsLinear

\* An error answer claims nothing.
LEMMA AnswerFrame ==
  ASSUME IInv, UNCHANGED <<command, storeVars>>, NEW r \in Requests,
         \/ UNCHANGED answer
         \/ \E k \in Refusals \cup {"conflict", "unavailable"} :
              answer' = [answer EXCEPT ![r] = Error(k)]
  PROVE  SuccessIsTrue'
<1>1. CASE UNCHANGED answer
  BY <1>1 DEF IInv, storeVars, SuccessIsTrue
<1>2. CASE \E k \in Refusals \cup {"conflict", "unavailable"} :
             answer' = [answer EXCEPT ![r] = Error(k)]
  <2>1. PICK k \in Refusals \cup {"conflict", "unavailable"} :
          answer' = [answer EXCEPT ![r] = Error(k)]
    BY <1>2
  <2>2. answer \in [Requests -> Answers \cup {None}]
    BY DEF IInv, TypeOK
  <2>. QED
    BY <2>1, <2>2, ErrorIsAnswer DEF IInv, storeVars, SuccessIsTrue
<1>. QED
  BY <1>1, <1>2

-----------------------------------------------------------------------------
(* The initial state. *)

LEMMA InitIInv == Init => IInv
<1>. SUFFICES ASSUME Init PROVE IInv
  OBVIOUS
<1>1. TypeOK
  <2>1. Db!DbTypeOK
    BY DEF Init, Db!DbInit, Db!DbTypeOK
  <2>2. 0 \in 0 .. MaxAttempts - 1
    BY AttemptsAssumption
  <2>. QED
    BY <2>1, <2>2 DEF Init, TypeOK, Steps
<1>2. LocksBelongToTransactions
  BY DEF Init, Db!DbInit, LocksBelongToTransactions, InTransaction
<1>3. CreatingIsProtected
  BY DEF Init, CreatingIsProtected, Creating
<1>4. ReplayingIsJustified /\ ResolutionsAreFinal
  BY DEF Init, ReplayingIsJustified, ResolutionsAreFinal
<1>5. ReceiptNamesItsResolution /\ HistoryIsLinear /\ SuccessIsTrue
  BY DEF Init, ReceiptNamesItsResolution, HistoryIsLinear, SuccessIsTrue
<1>. QED
  BY <1>1, <1>2, <1>3, <1>4, <1>5 DEF IInv

-----------------------------------------------------------------------------
(* How a transaction ends: Refuse and Retry, whoever calls them. *)

LEMMA RefuseKeepsIInv ==
  ASSUME IInv, NEW r \in Requests, pc[r] \in InTransaction,
         NEW k \in Refusals \cup {"conflict", "unavailable"}, Refuse(r, k)
  PROVE  IInv'
<1>. USE DEF storeVars
<1>0. pc[r] # "idle" /\ pc[r] # "done" /\ r \notin resolutions
  BY DEF IInv, ResolutionsAreFinal, InTransaction
<1>1. /\ Db!DbTypeOK'
      /\ open' = open \ {r}
      /\ \A x \in Rows : holder'[x] = IF holder[x] = r THEN None ELSE holder[x]
  BY EndReleases DEF IInv, TypeOK, Refuse
<1>2. TypeOK'
  BY <1>0, <1>1, ErrorIsAnswer DEF IInv, Refuse, TypeOK, Steps
<1>3. LocksBelongToTransactions'
  BY <1>1, NoneIsNothing DEF IInv, TypeOK, Refuse, LocksBelongToTransactions, InTransaction
<1>4. CreatingIsProtected'
  <2>. SUFFICES ASSUME NEW q \in Requests, q # r, Creating(q)
                PROVE  \A x \in Rows : holder[x] = q => holder'[x] = q
    BY RowsOfCommand, NoneIsNothing
       DEF IInv, TypeOK, Refuse, CreatingIsProtected, Creating, Writable, PointerMatches, Steps
  <2>. QED
    BY <1>1
<1>5. ReplayingIsJustified'
  BY DEF IInv, TypeOK, Refuse, ReplayingIsJustified, Creating
<1>6. ResolutionsAreFinal'
  BY <1>0, ErrorIsAnswer, NoneIsNothing DEF IInv, TypeOK, Refuse, ResolutionsAreFinal
<1>7. ReceiptNamesItsResolution' /\ HistoryIsLinear' /\ SuccessIsTrue'
  BY StoreFrame, AnswerFrame DEF Refuse
<1>. QED
  BY <1>2, <1>3, <1>4, <1>5, <1>6, <1>7 DEF IInv

LEMMA RetryKeepsIInv ==
  ASSUME IInv, NEW r \in Requests, pc[r] \in InTransaction, Retry(r)
  PROVE  IInv'
<1>. USE DEF storeVars
<1>1. CASE ~ (attempt[r] + 1 < MaxAttempts)
  BY <1>1, RefuseKeepsIInv DEF Retry
<1>2. CASE attempt[r] + 1 < MaxAttempts
  <2>0. pc[r] # "idle" /\ pc[r] # "done" /\ r \notin resolutions
    BY DEF IInv, ResolutionsAreFinal, InTransaction
  <2>1. /\ Db!DbTypeOK'
        /\ open' = open \ {r}
        /\ \A x \in Rows : holder'[x] = IF holder[x] = r THEN None ELSE holder[x]
    BY <1>2, EndReleases DEF IInv, TypeOK, Retry
  <2>2. TypeOK'
    <3>1. attempt' \in [Requests -> 0 .. MaxAttempts - 1]
      BY <1>2, AttemptsAssumption DEF IInv, Retry, TypeOK
    <3>. QED
      BY <1>2, <2>0, <2>1, <3>1 DEF IInv, Retry, TypeOK, Steps
  <2>3. LocksBelongToTransactions'
    BY <1>2, <2>1, NoneIsNothing
       DEF IInv, TypeOK, Retry, LocksBelongToTransactions, InTransaction
  <2>4. CreatingIsProtected'
    <3>. SUFFICES ASSUME NEW q \in Requests, q # r, Creating(q)
                  PROVE  \A x \in Rows : holder[x] = q => holder'[x] = q
      BY <1>2, RowsOfCommand, NoneIsNothing
         DEF IInv, TypeOK, Retry, CreatingIsProtected, Creating, Writable, PointerMatches, Steps
    <3>. QED
      BY <2>1
  <2>5. ReplayingIsJustified'
    BY <1>2 DEF IInv, TypeOK, Retry, ReplayingIsJustified, Creating
  <2>6. ResolutionsAreFinal'
    BY <1>2, <2>0 DEF IInv, TypeOK, Retry, ResolutionsAreFinal
  <2>7. ReceiptNamesItsResolution' /\ HistoryIsLinear' /\ SuccessIsTrue'
    BY <1>2, StoreFrame, AnswerFrame DEF Retry
  <2>. QED
    BY <2>2, <2>3, <2>4, <2>5, <2>6, <2>7 DEF IInv
<1>. QED
  BY <1>1, <1>2

-----------------------------------------------------------------------------
(* The steps of one request. *)

\* A new command is not creating, and no resolution is its own.
LEMMA ArriveKeepsIInv ==
  ASSUME IInv, NEW r \in Requests, Arrive(r)
  PROVE  IInv'
<1>. USE DEF storeVars, dbVars
<1>0. PICK c \in Payload :
        /\ c.expected \in {None} \cup {q \in resolutions : command[q].issue = c.issue}
        /\ command' = [command EXCEPT ![r] = c]
  BY DEF Arrive
<1>1. /\ pc[r] = "idle"
      /\ r \notin resolutions
      /\ answer[r] = None
      /\ draft[r] = None
  <2>1. pc[r] = "idle"
    BY DEF Arrive
  <2>2. r \notin resolutions /\ answer[r] = None
    BY <2>1 DEF IInv, ResolutionsAreFinal
  <2>3. draft[r] = None
    BY <2>1 DEF IInv, CreatingIsProtected, Creating
  <2>. QED
    BY <2>1, <2>2, <2>3
<1>2. resolutions \subseteq Requests /\ command \in [Requests -> Payload \cup {None}]
  BY DEF IInv, TypeOK
<1>3. \A q \in Requests : q # r => command'[q] = command[q]
  BY <1>0, <1>2
<1>4. TypeOK'
  BY <1>0 DEF Arrive, IInv, TypeOK, Steps, Db!DbTypeOK
<1>5. LocksBelongToTransactions'
  BY <1>1 DEF Arrive, IInv, TypeOK, LocksBelongToTransactions, InTransaction
<1>6. CreatingIsProtected'
  BY <1>1, <1>3
     DEF Arrive, IInv, TypeOK, CreatingIsProtected, Creating, Writable, PointerMatches
<1>7. ReplayingIsJustified'
  BY <1>1, <1>3 DEF Arrive, IInv, TypeOK, ReplayingIsJustified, Creating
<1>8. ResolutionsAreFinal'
  BY <1>0, <1>1, <1>2, <1>3, NoneIsNothing DEF Arrive, IInv, TypeOK, ResolutionsAreFinal
<1>9. ReceiptNamesItsResolution'
  BY <1>1, <1>2, <1>3 DEF Arrive, IInv, ReceiptNamesItsResolution
<1>10. HistoryIsLinear'
  BY <1>1, <1>2, <1>3 DEF Arrive, IInv, HistoryIsLinear
<1>11. SuccessIsTrue'
  BY <1>1, <1>2, <1>3 DEF Arrive, IInv, SuccessIsTrue
<1>. QED
  BY <1>4, <1>5, <1>6, <1>7, <1>8, <1>9, <1>10, <1>11 DEF IInv

LEMMA BeginKeepsIInv ==
  ASSUME IInv, NEW r \in Requests, BeginTransaction(r)
  PROVE  IInv'
<1>. USE DEF storeVars
<1>1. Db!DbTypeOK' /\ open' = open \cup {r} /\ holder' = holder
  BY BeginKeepsType DEF BeginTransaction, IInv, TypeOK
<1>2. TypeOK'
  BY <1>1 DEF BeginTransaction, IInv, TypeOK, Steps
<1>3. LocksBelongToTransactions'
  BY <1>1 DEF BeginTransaction, IInv, TypeOK, LocksBelongToTransactions, InTransaction, Steps
<1>4. CreatingIsProtected'
  BY <1>1 DEF BeginTransaction, IInv, TypeOK, CreatingIsProtected, Creating, Writable, PointerMatches
<1>5. ReplayingIsJustified'
  BY DEF BeginTransaction, IInv, TypeOK, ReplayingIsJustified, Creating
<1>6. ResolutionsAreFinal'
  BY DEF BeginTransaction, IInv, TypeOK, ResolutionsAreFinal
<1>7. ReceiptNamesItsResolution' /\ HistoryIsLinear' /\ SuccessIsTrue'
  BY StoreFrame, AnswerFrame DEF BeginTransaction
<1>. QED
  BY <1>2, <1>3, <1>4, <1>5, <1>6, <1>7 DEF IInv

\* The reserved receipt is this command's, and the key is unused while it is held.
LEMMA ReserveKeepsIInv ==
  ASSUME IInv, NEW r \in Requests, ReserveReceipt(r)
  PROVE  IInv'
<1>. USE DEF storeVars
<1>. DEFINE new == [hash |-> RequestHash(command[r]), status |-> "IN_PROGRESS", resource |-> None]
<1>0. /\ command[r] \in Payload
      /\ pc[r] = "reserve" /\ pc' = [pc EXCEPT ![r] = "project"]
      /\ draft' = [draft EXCEPT ![r] = new]
      /\ receipts[ScopeOf(command[r])] = None
      /\ UNCHANGED <<command, attempt, answer, storeVars, projectState, issueState>>
  BY DEF ReserveReceipt, IInv, TypeOK
<1>1. /\ Db!DbTypeOK'
      /\ open' = open
      /\ holder[ReceiptRow(ScopeOf(command[r]))] \in {None, r}
      /\ \A y \in Rows : holder'[y] = IF y = ReceiptRow(ScopeOf(command[r])) THEN r ELSE holder[y]
  BY <1>0, LockTakes, RowsOfCommand DEF ReserveReceipt, IInv, TypeOK
<1>2. new \in Receipt /\ new # None
  BY <1>0, RowsOfCommand, NoneIsNothing DEF Receipt
<1>3. TypeOK'
  BY <1>0, <1>1, <1>2 DEF IInv, TypeOK, Steps
<1>4. LocksBelongToTransactions'
  BY <1>0, <1>1 DEF IInv, TypeOK, LocksBelongToTransactions, InTransaction, Steps
<1>5. CreatingIsProtected'
  <2>1. \A q \in Requests, x \in Rows : q # r /\ holder[x] = q => holder'[x] = q
    BY <1>1, NoneIsNothing
  <2>2. holder'[ReceiptRow(ScopeOf(command[r]))] = r
    BY <1>0, <1>1, RowsOfCommand
  <2>. QED
    BY <1>0, <1>2, <2>1, <2>2, RowsOfCommand
       DEF IInv, TypeOK, CreatingIsProtected, Creating, Writable, PointerMatches
<1>6. ReplayingIsJustified'
  BY <1>0 DEF IInv, TypeOK, ReplayingIsJustified, Creating
<1>7. ResolutionsAreFinal'
  BY <1>0 DEF IInv, TypeOK, ResolutionsAreFinal
<1>8. ReceiptNamesItsResolution' /\ HistoryIsLinear' /\ SuccessIsTrue'
  BY <1>0, StoreFrame, AnswerFrame
<1>. QED
  BY <1>3, <1>4, <1>5, <1>6, <1>7, <1>8 DEF IInv

LEMMA FindKeepsIInv ==
  ASSUME IInv, NEW r \in Requests, FindReceipt(r)
  PROVE  IInv'
<1>. USE DEF storeVars, dbVars
<1>1. TypeOK'
  BY DEF FindReceipt, IInv, TypeOK, Steps, Db!DbTypeOK
<1>2. LocksBelongToTransactions'
  BY DEF FindReceipt, IInv, TypeOK, LocksBelongToTransactions, InTransaction, Steps
<1>3. CreatingIsProtected'
  BY DEF FindReceipt, IInv, TypeOK, CreatingIsProtected, Creating, Writable, PointerMatches
<1>4. ReplayingIsJustified'
  BY DEF FindReceipt, IInv, TypeOK, ReplayingIsJustified, Creating
<1>5. ResolutionsAreFinal'
  BY DEF FindReceipt, IInv, TypeOK, ResolutionsAreFinal
<1>6. ReceiptNamesItsResolution' /\ HistoryIsLinear' /\ SuccessIsTrue'
  BY StoreFrame, AnswerFrame DEF FindReceipt
<1>. QED
  BY <1>1, <1>2, <1>3, <1>4, <1>5, <1>6 DEF IInv

\* A replay that goes on to COMMIT has compared the hash.
LEMMA ReplayKeepsIInv ==
  ASSUME IInv, NEW r \in Requests, Replay(r)
  PROVE  IInv'
<1>. USE DEF storeVars
<1>0. pc[r] = "replay" /\ command[r] \in Payload /\ pc[r] \in InTransaction
  BY DEF Replay, IInv, TypeOK, InTransaction, Steps
<1>1. CASE Refuse(r, "conflict")
  BY <1>0, <1>1, RefuseKeepsIInv
<1>2. CASE Refuse(r, "unavailable")
  BY <1>0, <1>2, RefuseKeepsIInv
<1>3. CASE /\ receipts[ScopeOf(command[r])].hash = RequestHash(command[r])
           /\ Db!Lock(r, ReceiptRow(ScopeOf(command[r])))
           /\ pc' = [pc EXCEPT ![r] = "commit"]
           /\ UNCHANGED <<command, attempt, draft, answer, storeVars, projectState, issueState>>
  <2>1. /\ Db!DbTypeOK'
        /\ open' = open
        /\ holder[ReceiptRow(ScopeOf(command[r]))] \in {None, r}
        /\ \A y \in Rows : holder'[y] = IF y = ReceiptRow(ScopeOf(command[r])) THEN r ELSE holder[y]
    BY <1>0, <1>3, LockTakes, RowsOfCommand DEF IInv, TypeOK
  <2>2. TypeOK'
    BY <1>0, <1>3, <2>1 DEF IInv, TypeOK, Steps
  <2>3. LocksBelongToTransactions'
    BY <1>0, <1>3, <2>1 DEF IInv, TypeOK, LocksBelongToTransactions, InTransaction, Steps
  <2>4. CreatingIsProtected'
    <3>1. \A q \in Requests, x \in Rows : q # r /\ holder[x] = q => holder'[x] = q
      BY <2>1, NoneIsNothing
    <3>2. ~ Creating(r)
      BY <1>0 DEF IInv, CreatingIsProtected
    <3>. QED
      BY <1>3, <3>1, <3>2, RowsOfCommand
         DEF IInv, TypeOK, CreatingIsProtected, Creating, Writable, PointerMatches
  <2>5. ReplayingIsJustified'
    BY <1>0, <1>3 DEF IInv, TypeOK, ReplayingIsJustified, Creating
  <2>6. ResolutionsAreFinal'
    BY <1>0, <1>3 DEF IInv, TypeOK, ResolutionsAreFinal
  <2>7. ReceiptNamesItsResolution' /\ HistoryIsLinear' /\ SuccessIsTrue'
    BY <1>3, StoreFrame, AnswerFrame
  <2>. QED
    BY <2>2, <2>3, <2>4, <2>5, <2>6, <2>7 DEF IInv
<1>. QED
  BY <1>1, <1>2, <1>3 DEF Replay

\* A creating command takes its next lock and goes from statement a to b.
LEMMA LockStepKeepsIInv ==
  ASSUME IInv, NEW r \in Requests, NEW x \in Rows, Db!Lock(r, x),
         UNCHANGED <<command, attempt, draft, answer, storeVars, projectState, issueState>>,
         \/ pc[r] = "project" /\ x = ProjectRow /\ pc' = [pc EXCEPT ![r] = "issue"]
         \/ pc[r] = "issue" /\ x = IssueRow(command[r].issue) /\ pc' = [pc EXCEPT ![r] = "decide"]
  PROVE  IInv'
<1>. USE DEF storeVars
<1>1. /\ Db!DbTypeOK'
      /\ open' = open
      /\ holder[x] \in {None, r}
      /\ \A y \in Rows : holder'[y] = IF y = x THEN r ELSE holder[y]
  BY LockTakes DEF IInv, TypeOK
<1>2. TypeOK'
  BY <1>1 DEF IInv, TypeOK, Steps
<1>3. LocksBelongToTransactions'
  BY <1>1 DEF IInv, TypeOK, LocksBelongToTransactions, InTransaction, Steps
<1>4. CreatingIsProtected'
  <2>1. \A q \in Requests, y \in Rows : holder[y] = q => holder'[y] = q
    BY <1>1, NoneIsNothing
  <2>2. holder'[x] = r /\ command[r] \in Payload
    BY <1>1 DEF IInv, TypeOK
  <2>. QED
    BY <2>1, <2>2, RowsOfCommand
       DEF IInv, TypeOK, CreatingIsProtected, Creating, Writable, PointerMatches
<1>5. ReplayingIsJustified'
  BY DEF IInv, TypeOK, ReplayingIsJustified, Creating
<1>6. ResolutionsAreFinal'
  BY DEF IInv, TypeOK, ResolutionsAreFinal
<1>7. ReceiptNamesItsResolution' /\ HistoryIsLinear' /\ SuccessIsTrue'
  BY StoreFrame, AnswerFrame
<1>. QED
  BY <1>2, <1>3, <1>4, <1>5, <1>6, <1>7 DEF IInv

\* The gates were passed on locked rows, so they hold until COMMIT.
LEMMA InsertKeepsIInv ==
  ASSUME IInv, NEW r \in Requests, InsertNew(r)
  PROVE  IInv'
<1>. USE DEF storeVars, dbVars
<1>0. pc[r] = "decide" /\ draft[r] \in Receipt /\ draft[r] # None
  BY DEF InsertNew, IInv, TypeOK, CreatingIsProtected, Creating
<1>1. /\ draft'[r] \in Receipt
      /\ draft'[r].hash = draft[r].hash
      /\ draft'[r].status = "COMPLETED"
      /\ draft'[r].resource = r
      /\ draft'[r] # None
      /\ \A q \in Requests : q # r => draft'[q] = draft[q]
  <2>1. draft \in [Requests -> Receipt \cup {None}]
    BY DEF IInv, TypeOK
  <2>2. draft'[r] = [[draft[r] EXCEPT !.status = "COMPLETED"] EXCEPT !.resource = r]
    BY <2>1 DEF InsertNew
  <2>3. \A q \in Requests : q # r => draft'[q] = draft[q]
    BY <2>1 DEF InsertNew
  <2>4. draft'[r] \in Receipt
    BY <1>0, <2>2 DEF Receipt
  <2>. QED
    BY <1>0, <2>2, <2>3, <2>4, NoneIsNothing DEF Receipt
<1>2. TypeOK'
  <2>1. draft' \in [Requests -> Receipt \cup {None}]
    <3>1. DOMAIN draft' = Requests /\ draft' = [q \in Requests |-> draft'[q]]
      BY DEF InsertNew, IInv, TypeOK
    <3>2. \A q \in Requests : draft'[q] \in Receipt \cup {None}
      BY <1>1 DEF IInv, TypeOK
    <3>. QED
      BY <3>1, <3>2
  <2>. QED
    BY <2>1 DEF InsertNew, IInv, TypeOK, Steps, Db!DbTypeOK
<1>3. LocksBelongToTransactions'
  BY DEF InsertNew, IInv, TypeOK, LocksBelongToTransactions, InTransaction, Steps
<1>4. CreatingIsProtected'
  BY <1>0, <1>1
     DEF InsertNew, IInv, TypeOK, CreatingIsProtected, Creating, Writable, PointerMatches
<1>5. ReplayingIsJustified'
  BY <1>0, <1>1 DEF InsertNew, IInv, TypeOK, ReplayingIsJustified, Creating
<1>6. ResolutionsAreFinal'
  BY DEF InsertNew, IInv, TypeOK, ResolutionsAreFinal
<1>7. ReceiptNamesItsResolution' /\ HistoryIsLinear' /\ SuccessIsTrue'
  BY StoreFrame, AnswerFrame DEF InsertNew
<1>. QED
  BY <1>2, <1>3, <1>4, <1>5, <1>6, <1>7 DEF IInv

\* COMMIT of a new resolution: it becomes the end of its issue's line, and the
\* other creating commands hold other receipts and, once past LockIssue, other
\* issues.
LEMMA CommitNewKeepsIInv ==
  ASSUME IInv, NEW r \in Requests, Commit(r), Creating(r)
  PROVE  IInv'
<1>. USE DEF storeVars
<1>. DEFINE c == command[r]
            s == ScopeOf(c)
<1>0. /\ pc[r] = "commit" /\ c \in Payload
      /\ s \in Scopes /\ ReceiptRow(s) \in Rows /\ IssueRow(c.issue) \in Rows /\ c.issue \in Issues
      /\ draft[r] # None /\ draft[r] \in Receipt
      /\ r \notin resolutions
  <2>1. pc[r] = "commit" /\ c \in Payload
    BY DEF Commit, IInv, TypeOK
  <2>2. draft[r] # None /\ draft[r] \in Receipt
    BY DEF Creating, IInv, TypeOK
  <2>3. r \notin resolutions
    BY <2>1 DEF IInv, ResolutionsAreFinal
  <2>. QED
    BY <2>1, <2>2, <2>3, RowsOfCommand
<1>1. /\ draft[r].hash = RequestHash(c) /\ draft[r].status = "COMPLETED" /\ draft[r].resource = r
      /\ receipts[s] = None
      /\ holder[ReceiptRow(s)] = r /\ holder[IssueRow(c.issue)] = r
      /\ current[c.issue] = c.expected
  BY <1>0 DEF IInv, CreatingIsProtected, Creating, PointerMatches
<1>2. /\ answer' = [answer EXCEPT ![r] = [kind |-> "created", id |-> r]]
           \/ answer' = [answer EXCEPT ![r] = Error("unavailable")]
      /\ receipts' = [receipts EXCEPT ![s] = draft[r]]
      /\ resolutions' = resolutions \cup {r}
      /\ current' = [current EXCEPT ![c.issue] = r]
      /\ Db!End(r, {ReceiptRow(s), IssueRow(c.issue)})
      /\ draft' = [draft EXCEPT ![r] = None]
      /\ pc' = [pc EXCEPT ![r] = "done"]
      /\ UNCHANGED <<command, attempt, projectState, issueState>>
  BY <1>0, <1>1 DEF Commit, Outcome
<1>3. /\ Db!DbTypeOK'
      /\ open' = open \ {r}
      /\ \A x \in Rows : holder'[x] = IF holder[x] = r THEN None ELSE holder[x]
  BY <1>0, <1>2, EndReleases DEF IInv, TypeOK
<1>4. TypeOK'
  <2>1. [kind |-> "created", id |-> r] \in Answers /\ Error("unavailable") \in Answers
    BY ErrorIsAnswer DEF Answers
  <2>. QED
    BY <1>0, <1>2, <1>3, <2>1 DEF IInv, TypeOK, Steps
<1>5. LocksBelongToTransactions'
  BY <1>2, <1>3, NoneIsNothing DEF IInv, TypeOK, LocksBelongToTransactions, InTransaction
<1>6. CreatingIsProtected'
  <2>. SUFFICES ASSUME NEW q \in Requests, q # r, Creating(q)
                PROVE  /\ \A x \in Rows : holder[x] = q => holder'[x] = q
                       /\ receipts'[ScopeOf(command[q])] = None
                       /\ pc[q] = "commit" => PointerMatches(command[q])'
    BY <1>0, <1>2, RowsOfCommand, NoneIsNothing
       DEF IInv, TypeOK, CreatingIsProtected, Creating, Writable, Steps
  <2>1. \A x \in Rows : holder[x] = q => holder'[x] = q
    BY <1>3
  <2>2. command[q] \in Payload
    BY DEF IInv, TypeOK, CreatingIsProtected
  <2>3. receipts[ScopeOf(command[q])] = None /\ holder[ReceiptRow(ScopeOf(command[q]))] = q
    BY DEF IInv, CreatingIsProtected
  <2>4. receipts'[ScopeOf(command[q])] = None
    BY <1>1, <1>2, <2>2, <2>3, RowsOfCommand DEF IInv, TypeOK
  <2>5. ASSUME pc[q] = "commit" PROVE PointerMatches(command[q])'
    <3>1. holder[IssueRow(command[q].issue)] = q /\ current[command[q].issue] = command[q].expected
      BY <2>5 DEF IInv, CreatingIsProtected, PointerMatches
    <3>2. command[q].issue # c.issue
      BY <1>1, <3>1
    <3>. QED
      BY <1>2, <2>2, <3>1, <3>2, RowsOfCommand DEF PointerMatches, IInv, TypeOK
  <2>. QED
    BY <2>1, <2>4, <2>5
<1>7. ReplayingIsJustified'
  <2>. SUFFICES ASSUME NEW q \in Requests, q # r, receipts[ScopeOf(command[q])] # None
                PROVE  receipts'[ScopeOf(command[q])] = receipts[ScopeOf(command[q])]
    BY <1>0, <1>2 DEF IInv, TypeOK, ReplayingIsJustified, Creating
  <2>. QED
    BY <1>1, <1>2 DEF IInv, TypeOK
<1>8. ResolutionsAreFinal'
  <2>1. [kind |-> "created", id |-> r] # None /\ Error("unavailable") # None
    BY ErrorIsAnswer, NoneIsNothing DEF Answers
  <2>2. \A q \in Requests : (answer'[q] # None) <=> (pc'[q] = "done")
    BY <1>2, <2>1 DEF IInv, TypeOK, ResolutionsAreFinal
  <2>. QED
    BY <1>0, <1>2, <2>2 DEF IInv, TypeOK, ResolutionsAreFinal
<1>9. ReceiptNamesItsResolution'
  BY <1>0, <1>1, <1>2 DEF IInv, TypeOK, ReceiptNamesItsResolution
<1>10. HistoryIsLinear'
  <2>1. \A q \in resolutions : command[q].issue = c.issue =>
          command[q].expected # c.expected /\ command[q].expected # r
    BY <1>0, <1>1, NoneIsNothing DEF IInv, TypeOK, HistoryIsLinear
  <2>2. c.expected # None => c.expected \in resolutions /\ command[c.expected].issue = c.issue
    BY <1>0 DEF IInv, ResolutionsAreFinal
  <2>3. c.expected # r
    BY <1>0, <2>2, NoneIsNothing
  <2>4. \A q1, q2 \in resolutions' :
          command'[q1].issue = command'[q2].issue /\ command'[q1].expected = command'[q2].expected
            => q1 = q2
    BY <1>2, <2>1 DEF IInv, HistoryIsLinear
  <2>5. \A q \in resolutions' : command'[q].expected # None =>
          /\ command'[q].expected \in resolutions'
          /\ command'[command'[q].expected].issue = command'[q].issue
    BY <1>2, <2>2 DEF IInv, HistoryIsLinear
  <2>6. ASSUME NEW i \in Issues
        PROVE  LET history == {q \in resolutions' : command'[q].issue = i} IN
               /\ current'[i] = None <=> history = {}
               /\ current'[i] # None => current'[i] \in history
               /\ \A q \in history : command'[q].expected # current'[i]
    <3>1. CASE i = c.issue
      BY <1>0, <1>2, <2>1, <2>3, <3>1, NoneIsNothing DEF IInv, TypeOK
    <3>2. CASE i # c.issue
      BY <1>2, <3>2 DEF IInv, TypeOK, HistoryIsLinear
    <3>. QED
      BY <3>1, <3>2
  <2>. QED
    BY <2>4, <2>5, <2>6 DEF HistoryIsLinear
<1>11. SuccessIsTrue'
  BY <1>2, ErrorIsAnswer DEF IInv, TypeOK, SuccessIsTrue
<1>. QED
  BY <1>4, <1>5, <1>6, <1>7, <1>8, <1>9, <1>10, <1>11 DEF IInv

\* COMMIT of a replay stores nothing and names the resolution of the receipt.
LEMMA CommitReplayKeepsIInv ==
  ASSUME IInv, NEW r \in Requests, Commit(r), ~ Creating(r)
  PROVE  IInv'
<1>. USE DEF storeVars
<1>. DEFINE s == ScopeOf(command[r])
            id == receipts[s].resource
<1>0. /\ pc[r] = "commit" /\ command[r] \in Payload /\ s \in Scopes
      /\ r \notin resolutions
  <2>1. pc[r] = "commit" /\ command[r] \in Payload
    BY DEF Commit, IInv, TypeOK
  <2>. QED
    BY <2>1, RowsOfCommand DEF IInv, ResolutionsAreFinal
<1>1. /\ id \in resolutions
      /\ ScopeOf(command[id]) = s
      /\ RequestHash(command[id]) = RequestHash(command[r])
  BY <1>0 DEF IInv, ReplayingIsJustified, ReceiptNamesItsResolution
<1>2. /\ \/ answer' = [answer EXCEPT ![r] = [kind |-> "replayed", id |-> id]]
         \/ answer' = [answer EXCEPT ![r] = Error("unavailable")]
      /\ UNCHANGED storeVars
      /\ Db!End(r, {})
      /\ draft' = [draft EXCEPT ![r] = None]
      /\ pc' = [pc EXCEPT ![r] = "done"]
      /\ UNCHANGED <<command, attempt, projectState, issueState>>
  BY DEF Commit, Outcome, Creating
<1>3. /\ Db!DbTypeOK'
      /\ open' = open \ {r}
      /\ \A x \in Rows : holder'[x] = IF holder[x] = r THEN None ELSE holder[x]
  BY <1>2, EndReleases DEF IInv, TypeOK
<1>4. /\ [kind |-> "replayed", id |-> id] \in Answers
      /\ Error("unavailable") \in Answers
      /\ [kind |-> "replayed", id |-> id] # None
      /\ Error("unavailable") # None
  <2>1. id \in Requests
    BY <1>1 DEF IInv, TypeOK
  <2>2. [kind |-> "replayed", id |-> id] \in Answers
    BY <2>1 DEF Answers
  <2>. QED
    BY <2>2, ErrorIsAnswer, NoneIsNothing
<1>5. TypeOK'
  BY <1>0, <1>2, <1>3, <1>4 DEF IInv, TypeOK, Steps
<1>6. LocksBelongToTransactions'
  BY <1>2, <1>3, NoneIsNothing DEF IInv, TypeOK, LocksBelongToTransactions, InTransaction
<1>7. CreatingIsProtected'
  <2>. SUFFICES ASSUME NEW q \in Requests, q # r, Creating(q)
                PROVE  \A x \in Rows : holder[x] = q => holder'[x] = q
    BY <1>2, RowsOfCommand, NoneIsNothing
       DEF IInv, TypeOK, CreatingIsProtected, Creating, Writable, PointerMatches, Steps
  <2>. QED
    BY <1>3
<1>8. ReplayingIsJustified'
  BY <1>2 DEF IInv, TypeOK, ReplayingIsJustified, Creating
<1>9. ResolutionsAreFinal'
  BY <1>0, <1>2, <1>4 DEF IInv, TypeOK, ResolutionsAreFinal
<1>10. ReceiptNamesItsResolution' /\ HistoryIsLinear'
  BY <1>2, StoreFrame
<1>11. SuccessIsTrue'
  BY <1>1, <1>2, ErrorIsAnswer DEF IInv, TypeOK, SuccessIsTrue
<1>. QED
  BY <1>5, <1>6, <1>7, <1>8, <1>9, <1>10, <1>11 DEF IInv

\* No transaction was begun, so nothing is there to undo.
LEMMA ConnectFailsKeepsIInv ==
  ASSUME IInv, NEW r \in Requests, ConnectFails(r)
  PROVE  IInv'
<1>. USE DEF storeVars, dbVars
<1>1. Error("unavailable") \in Answers /\ Error("unavailable") # None
  BY ErrorIsAnswer, NoneIsNothing
<1>2. TypeOK'
  BY <1>1 DEF ConnectFails, IInv, TypeOK, Steps, Db!DbTypeOK
<1>3. LocksBelongToTransactions'
  BY DEF ConnectFails, IInv, TypeOK, LocksBelongToTransactions, InTransaction
<1>4. CreatingIsProtected'
  BY DEF ConnectFails, IInv, TypeOK, CreatingIsProtected, Creating, Writable, PointerMatches
<1>5. ReplayingIsJustified'
  BY DEF ConnectFails, IInv, TypeOK, ReplayingIsJustified, Creating
<1>6. ResolutionsAreFinal'
  BY <1>1 DEF ConnectFails, IInv, TypeOK, ResolutionsAreFinal
<1>7. ReceiptNamesItsResolution' /\ HistoryIsLinear' /\ SuccessIsTrue'
  BY StoreFrame, AnswerFrame DEF ConnectFails
<1>. QED
  BY <1>2, <1>3, <1>4, <1>5, <1>6, <1>7 DEF IInv

\* Archiving needs the row nobody holds, and a command that may commit holds both.
LEMMA ArchiveKeepsIInv ==
  ASSUME IInv, ArchiveProject \/ \E i \in Issues : ArchiveIssue(i)
  PROVE  IInv'
<1>. USE DEF storeVars
<1>0. PICK x \in Rows :
        /\ Db!Autocommit(x)
        /\ UNCHANGED <<command, pc, attempt, draft, answer, storeVars>>
        /\ \/ x = ProjectRow /\ projectState' = "ARCHIVED" /\ issueState' = issueState
           \/ \E i \in Issues : /\ x = IssueRow(i)
                                /\ issueState' = [issueState EXCEPT ![i] = "ARCHIVED"]
                                /\ projectState' = projectState
  <2>1. CASE ArchiveProject
    BY <2>1 DEF ArchiveProject, Rows
  <2>2. CASE \E i \in Issues : ArchiveIssue(i)
    BY <2>2 DEF ArchiveIssue, Rows
  <2>. QED
    BY <2>1, <2>2
<1>1. Db!DbTypeOK' /\ holder[x] = None /\ UNCHANGED <<open, holder>>
  BY <1>0, AutocommitKeepsType DEF IInv, TypeOK
<1>2. TypeOK'
  BY <1>0, <1>1 DEF IInv, TypeOK
<1>3. LocksBelongToTransactions'
  BY <1>0, <1>1 DEF IInv, TypeOK, LocksBelongToTransactions, InTransaction
<1>4. CreatingIsProtected'
  <2>. SUFFICES ASSUME NEW r \in Requests, Creating(r), pc[r] = "commit"
                PROVE  Writable(command[r].issue)'
    BY <1>0, <1>1 DEF IInv, CreatingIsProtected, Creating, PointerMatches
  <2>1. /\ command[r] \in Payload /\ Writable(command[r].issue)
        /\ holder[ProjectRow] = r /\ holder[IssueRow(command[r].issue)] = r
    BY DEF IInv, TypeOK, CreatingIsProtected
  <2>2. x # ProjectRow /\ x # IssueRow(command[r].issue)
    BY <1>1, <2>1, NoneIsNothing
  <2>. QED
    BY <1>0, <2>1, <2>2, RowsOfCommand DEF Writable, IInv, TypeOK
<1>5. ReplayingIsJustified' /\ ResolutionsAreFinal'
  BY <1>0 DEF IInv, ReplayingIsJustified, ResolutionsAreFinal, Creating
<1>6. ReceiptNamesItsResolution' /\ HistoryIsLinear'
  BY <1>0, StoreFrame
<1>7. SuccessIsTrue'
  BY <1>0 DEF IInv, SuccessIsTrue
<1>. QED
  BY <1>2, <1>3, <1>4, <1>5, <1>6, <1>7 DEF IInv

-----------------------------------------------------------------------------
(* Every step. *)

LEMMA ServeKeepsIInv ==
  ASSUME IInv, NEW r \in Requests, Serve(r)
  PROVE  IInv'
<1>1. CASE BeginTransaction(r)
  BY <1>1, BeginKeepsIInv
<1>2. CASE ReserveReceipt(r)
  BY <1>2, ReserveKeepsIInv
<1>3. CASE FindReceipt(r)
  BY <1>3, FindKeepsIInv
<1>4. CASE Replay(r)
  BY <1>4, ReplayKeepsIInv
<1>5. CASE LockProject(r)
  <2>1. ProjectRow \in Rows
    BY DEF Rows
  <2>. QED
    BY <1>5, <2>1, LockStepKeepsIInv DEF LockProject
<1>6. CASE LockIssue(r)
  <2>1. command[r] \in Payload
    BY <1>6 DEF LockIssue, IInv, TypeOK
  <2>2. IssueRow(command[r].issue) \in Rows
    BY <2>1, RowsOfCommand
  <2>. QED
    BY <1>6, <2>2, LockStepKeepsIInv DEF LockIssue
<1>7. CASE RefuseNew(r)
  <2>1. pc[r] \in InTransaction
    BY <1>7 DEF RefuseNew, InTransaction, Steps
  <2>2. PICK k \in Refusals : Refuse(r, k)
    BY <1>7 DEF RefuseNew, Refusals
  <2>. QED
    BY <2>1, <2>2, RefuseKeepsIInv
<1>8. CASE InsertNew(r)
  BY <1>8, InsertKeepsIInv
<1>9. CASE Commit(r)
  BY <1>9, CommitNewKeepsIInv, CommitReplayKeepsIInv
<1>10. CASE Conflict(r)
  BY <1>10, RetryKeepsIInv DEF Conflict, InTransaction, Steps
<1>. QED
  BY <1>1, <1>2, <1>3, <1>4, <1>5, <1>6, <1>7, <1>8, <1>9, <1>10 DEF Serve

LEMMA FailKeepsIInv ==
  ASSUME IInv, NEW r \in Requests, Fail(r)
  PROVE  IInv'
<1>1. CASE SerializationFailure(r)
  BY <1>1, RetryKeepsIInv DEF SerializationFailure
<1>2. CASE ConnectionLost(r)
  BY <1>2, RefuseKeepsIInv DEF ConnectionLost
<1>3. CASE ConnectFails(r)
  BY <1>3, ConnectFailsKeepsIInv
<1>. QED
  BY <1>1, <1>2, <1>3 DEF Fail

LEMMA NextKeepsIInv == IInv /\ [Next]_vars => IInv'
<1>. SUFFICES ASSUME IInv, [Next]_vars PROVE IInv'
  OBVIOUS
<1>1. ASSUME NEW r \in Requests, Arrive(r) PROVE IInv'
  BY <1>1, ArriveKeepsIInv
<1>2. ASSUME NEW r \in Requests, Serve(r) PROVE IInv'
  BY <1>2, ServeKeepsIInv
<1>3. ASSUME NEW r \in Requests, Fail(r) PROVE IInv'
  BY <1>3, FailKeepsIInv
<1>4. CASE ArchiveProject \/ \E i \in Issues : ArchiveIssue(i)
  BY <1>4, ArchiveKeepsIInv
<1>5. CASE UNCHANGED vars
  BY <1>5
     DEF vars, storeVars, dbVars, IInv, TypeOK, Db!DbTypeOK, LocksBelongToTransactions,
         CreatingIsProtected, Creating, Writable, PointerMatches, ReplayingIsJustified,
         ResolutionsAreFinal, ReceiptNamesItsResolution, HistoryIsLinear, SuccessIsTrue
<1>. QED
  BY <1>1, <1>2, <1>3, <1>4, <1>5 DEF Next

-----------------------------------------------------------------------------
(* The theorems. *)

\* The inductive invariant holds in every reachable state, whatever the clients
\* send, however their transactions interleave, fail and are retried.
THEOREM InvariantHolds == Spec => []IInv
<1>. QED
  BY InitIInv, NextKeepsIInv, PTL DEF Spec

\* Every variable of the command store keeps its type.
THEOREM TypeCorrect == Spec => []TypeOK
<1>1. IInv => TypeOK
  BY DEF IInv
<1>. QED
  BY <1>1, InvariantHolds, PTL

\* A committed receipt and a committed resolution always come in pairs: neither
\* create() failing at any statement nor a lost race leaves one alone.
THEOREM ReceiptsAndResolutionsPair == Spec => []ReceiptNamesItsResolution
<1>1. IInv => ReceiptNamesItsResolution
  BY DEF IInv
<1>. QED
  BY <1>1, InvariantHolds, PTL

\* No lost update: the resolutions of an issue form one line that ends in its
\* current resolution.
THEOREM NoLostUpdate == Spec => []HistoryIsLinear
<1>1. IInv => HistoryIsLinear
  BY DEF IInv
<1>. QED
  BY <1>1, InvariantHolds, PTL

\* A "created" or "replayed" answer names the committed resolution of that very
\* key and command.
THEOREM NoFalseSuccess == Spec => []SuccessIsTrue
<1>1. IInv => SuccessIsTrue
  BY DEF IInv
<1>. QED
  BY <1>1, InvariantHolds, PTL

\* Only Commit adds a resolution, and the command that commits still holds the
\* rows on which it passed the lifecycle gates.
LEMMA AddedOnlyWhenWritable ==
  ASSUME IInv, [Next]_vars, NEW r \in resolutions' \ resolutions
  PROVE  Writable(command[r].issue)
<1>. USE DEF storeVars
<1>1. ASSUME NEW q \in Requests, Commit(q) PROVE Writable(command[r].issue)
  <2>1. r = q /\ Creating(q) /\ pc[q] = "commit"
    BY <1>1 DEF Commit, Creating
  <2>. QED
    BY <2>1 DEF IInv, CreatingIsProtected
<1>2. ASSUME NEW q \in Requests, Serve(q), ~ Commit(q) PROVE UNCHANGED resolutions
  BY <1>2 DEF Serve, BeginTransaction, ReserveReceipt, FindReceipt, Replay, LockProject, LockIssue,
              RefuseNew, InsertNew, Conflict, Retry, Refuse
<1>3. ASSUME NEW q \in Requests, Arrive(q) \/ Fail(q) PROVE UNCHANGED resolutions
  BY <1>3 DEF Arrive, Fail, SerializationFailure, ConnectionLost, ConnectFails, Retry, Refuse
<1>4. ASSUME ArchiveProject \/ \E i \in Issues : ArchiveIssue(i) PROVE UNCHANGED resolutions
  BY <1>4 DEF ArchiveProject, ArchiveIssue
<1>. QED
  BY <1>1, <1>2, <1>3, <1>4 DEF Next, vars

\* However archiving falls between the gate and the COMMIT of a command, nothing
\* is added to an archived project or issue.
THEOREM ArchivesStayClosed == Spec => NothingAddedToArchive
<1>1. IInv /\ [Next]_vars => [\A r \in resolutions' \ resolutions : Writable(command[r].issue)]_vars
  BY AddedOnlyWhenWritable
<1>. QED
  BY <1>1, InvariantHolds, PTL DEF Spec, NothingAddedToArchive
-----------------------------------------------------------------------------
(* Nobody waits in a circle: the rows a command holds come before those it wants. *)

\* What a command that holds row x may be about to do.
Ahead(x) ==
  {"decide", "commit"}
    \cup (IF \E i \in Issues : x = IssueRow(i) THEN {} ELSE {"issue"})
    \cup (IF x \in {ReceiptRow(s) : s \in Scopes} THEN {"project"} ELSE {})

HoldersAreAhead == \A x \in Rows : holder[x] # None => pc[holder[x]] \in Ahead(x)

LEMMA AheadOfRows ==
  /\ Ahead(ProjectRow) = {"issue", "decide", "commit"}
  /\ \A i \in Issues : Ahead(IssueRow(i)) = {"decide", "commit"}
  /\ \A s \in Scopes : Ahead(ReceiptRow(s)) = {"project", "issue", "decide", "commit"}
<1>1. /\ \A i \in Issues : IssueRow(i) # ProjectRow
      /\ \A s \in Scopes : ReceiptRow(s) # ProjectRow
      /\ \A i \in Issues, s \in Scopes : IssueRow(i) # ReceiptRow(s)
  BY DEF IssueRow, ProjectRow, ReceiptRow
<1>2. Ahead(ProjectRow) = {"issue", "decide", "commit"}
  BY <1>1 DEF Ahead
<1>3. ASSUME NEW i \in Issues PROVE Ahead(IssueRow(i)) = {"decide", "commit"}
  BY <1>1 DEF Ahead
<1>4. ASSUME NEW s \in Scopes
      PROVE  Ahead(ReceiptRow(s)) = {"project", "issue", "decide", "commit"}
  BY <1>1 DEF Ahead
<1>. QED
  BY <1>2, <1>3, <1>4

\* A statement may take a row or give rows back, and goes on to a step the rows it
\* then holds allow.
LEMMA StepKeepsAhead ==
  ASSUME IInv, HoldersAreAhead, NEW r \in Requests, NEW s, pc' = [pc EXCEPT ![r] = s],
         \A x \in Rows : holder'[x] = holder[x] \/ holder'[x] \in {None, r},
         \A x \in Rows : holder'[x] = r => s \in Ahead(x)
  PROVE  HoldersAreAhead'
<1>. SUFFICES ASSUME NEW x \in Rows, holder'[x] # None
              PROVE  pc'[holder'[x]] \in Ahead(x)
  BY DEF HoldersAreAhead, Ahead
<1>1. holder[x] \in Requests \cup {None} /\ pc \in [Requests -> Steps]
  BY DEF IInv, TypeOK, Db!DbTypeOK
<1>2. CASE holder'[x] = r
  BY <1>1, <1>2
<1>3. CASE holder'[x] # r
  BY <1>1, <1>3 DEF HoldersAreAhead
<1>. QED
  BY <1>2, <1>3

LEMMA OutsideHoldsNothing ==
  ASSUME HoldersAreAhead, NEW r \in Requests,
         pc[r] \in {"idle", "begin", "reserve", "replay", "done"}
  PROVE  \A x \in Rows : holder[x] # r
  BY NoneIsNothing DEF HoldersAreAhead, Ahead

LEMMA EndKeepsAhead ==
  ASSUME IInv, HoldersAreAhead, NEW r \in Requests, NEW W \in SUBSET Rows, Db!End(r, W),
         NEW s, pc' = [pc EXCEPT ![r] = s]
  PROVE  HoldersAreAhead'
<1>1. \A x \in Rows : holder'[x] = IF holder[x] = r THEN None ELSE holder[x]
  BY EndReleases DEF IInv, TypeOK
<1>. QED
  BY <1>1, StepKeepsAhead, NoneIsNothing

LEMMA LockKeepsAhead ==
  ASSUME IInv, HoldersAreAhead, NEW r \in Requests, NEW x \in Rows, Db!Lock(r, x),
         NEW s, pc' = [pc EXCEPT ![r] = s], s \in Ahead(x),
         \A y \in Rows : holder[y] = r => s \in Ahead(y)
  PROVE  HoldersAreAhead'
<1>1. \A y \in Rows : holder'[y] = IF y = x THEN r ELSE holder[y]
  BY LockTakes DEF IInv, TypeOK
<1>. QED
  BY <1>1, StepKeepsAhead

LEMMA ServeKeepsAhead ==
  ASSUME IInv, HoldersAreAhead, NEW r \in Requests, Serve(r)
  PROVE  HoldersAreAhead'
<1>. USE DEF dbVars
<1>0. pc[r] # "idle" => /\ command[r] \in Payload
                        /\ ScopeOf(command[r]) \in Scopes
                        /\ command[r].issue \in Issues
                        /\ ReceiptRow(ScopeOf(command[r])) \in Rows
                        /\ IssueRow(command[r].issue) \in Rows
                        /\ ProjectRow \in Rows
  BY RowsOfCommand DEF IInv, TypeOK
<1>1. ASSUME NEW k, Refuse(r, k) PROVE HoldersAreAhead'
  BY <1>1, EndKeepsAhead DEF Refuse
<1>2. ASSUME Retry(r) PROVE HoldersAreAhead'
  BY <1>1, <1>2, EndKeepsAhead DEF Retry
<1>3. CASE BeginTransaction(r) \/ FindReceipt(r)
  <2>1. /\ pc[r] \in {"begin", "reserve"}
        /\ UNCHANGED holder
        /\ \E s : pc' = [pc EXCEPT ![r] = s]
    BY <1>3 DEF BeginTransaction, FindReceipt, Db!Begin
  <2>. QED
    BY <2>1, OutsideHoldsNothing, StepKeepsAhead
<1>4. CASE ReserveReceipt(r)
  <2>1. \A y \in Rows : holder[y] # r
    BY <1>4, OutsideHoldsNothing DEF ReserveReceipt
  <2>2. "project" \in Ahead(ReceiptRow(ScopeOf(command[r])))
    BY <1>0, <1>4, AheadOfRows DEF ReserveReceipt
  <2>3. /\ ReceiptRow(ScopeOf(command[r])) \in Rows
        /\ Db!Lock(r, ReceiptRow(ScopeOf(command[r])))
        /\ pc' = [pc EXCEPT ![r] = "project"]
    BY <1>0, <1>4 DEF ReserveReceipt
  <2>. QED
    BY <2>1, <2>2, <2>3, LockKeepsAhead
<1>5. CASE Replay(r)
  <2>1. \A y \in Rows : holder[y] # r
    BY <1>5, OutsideHoldsNothing DEF Replay
  <2>. QED
    BY <1>0, <1>1, <1>5, <2>1, LockKeepsAhead, AheadOfRows DEF Replay
<1>6. CASE LockProject(r)
  <2>1. \A y \in Rows : holder[y] = r => "issue" \in Ahead(y)
    BY <1>6, NoneIsNothing DEF LockProject, HoldersAreAhead, Ahead, IssueRow, ReceiptRow
  <2>. QED
    BY <1>0, <1>6, <2>1, LockKeepsAhead, AheadOfRows DEF LockProject
<1>7. CASE LockIssue(r)
  <2>1. \A y \in Rows : "decide" \in Ahead(y)
    BY DEF Ahead
  <2>. QED
    BY <1>0, <1>7, <2>1, LockKeepsAhead DEF LockIssue
<1>8. CASE InsertNew(r)
  <2>1. \A y \in Rows : "commit" \in Ahead(y)
    BY DEF Ahead
  <2>. QED
    BY <1>8, <2>1, StepKeepsAhead DEF InsertNew
<1>9. CASE Commit(r)
  <2>1. {ReceiptRow(ScopeOf(command[r])), IssueRow(command[r].issue)} \in SUBSET Rows
    BY <1>0, <1>9 DEF Commit
  <2>. QED
    BY <1>9, <2>1, EndKeepsAhead DEF Commit
<1>10. CASE RefuseNew(r) \/ Conflict(r)
  BY <1>1, <1>2, <1>10 DEF RefuseNew, Conflict
<1>. QED
  BY <1>3, <1>4, <1>5, <1>6, <1>7, <1>8, <1>9, <1>10 DEF Serve

LEMMA NextKeepsAhead ==
  ASSUME IInv, HoldersAreAhead, [Next]_vars
  PROVE  HoldersAreAhead'
<1>. USE DEF dbVars
<1>1. ASSUME NEW r \in Requests, Arrive(r) \/ ConnectFails(r) PROVE HoldersAreAhead'
  <2>1. pc[r] \in {"idle", "begin"} /\ UNCHANGED holder /\ \E s : pc' = [pc EXCEPT ![r] = s]
    BY <1>1 DEF Arrive, ConnectFails
  <2>. QED
    BY <2>1, OutsideHoldsNothing, StepKeepsAhead
<1>2. ASSUME NEW r \in Requests, Serve(r) PROVE HoldersAreAhead'
  BY <1>2, ServeKeepsAhead
<1>3. ASSUME NEW r \in Requests, SerializationFailure(r) \/ ConnectionLost(r)
      PROVE  HoldersAreAhead'
  BY <1>3, EndKeepsAhead DEF SerializationFailure, ConnectionLost, Retry, Refuse
<1>4. CASE ArchiveProject \/ \E i \in Issues : ArchiveIssue(i)
  BY <1>4 DEF ArchiveProject, ArchiveIssue, Db!Autocommit, HoldersAreAhead, Ahead
<1>5. CASE UNCHANGED vars
  BY <1>5 DEF vars, HoldersAreAhead, Ahead
<1>. QED
  BY <1>1, <1>2, <1>3, <1>4, <1>5 DEF Next, Fail

\* Of some commands, one that is furthest ahead waits for none of the others.
LEMMA AheadMeansNoCircle ==
  ASSUME IInv, HoldersAreAhead
  PROVE  NobodyWaitsInACircle
<1>. DEFINE Free(r, S) == \A x \in Wanted(r) : holder[x] \notin S \ {r}
<1>1. \A r \in Requests : Wanted(r) # {} => pc[r] \in {"reserve", "replay", "project", "issue"}
  BY DEF Wanted
<1>2. \A r \in Requests : pc[r] = "issue" =>
        \E i \in Issues : Wanted(r) = {IssueRow(i)} /\ IssueRow(i) \in Rows
  BY RowsOfCommand DEF Wanted, NextRow, IInv, TypeOK
<1>3. \A r \in Requests : pc[r] = "project" => Wanted(r) = {ProjectRow} /\ ProjectRow \in Rows
  BY DEF Wanted, NextRow, Rows
<1>4. \A r \in Requests : pc[r] \in {"reserve", "replay"} /\ Wanted(r) # {} =>
        \E s \in Scopes : Wanted(r) = {ReceiptRow(s)} /\ ReceiptRow(s) \in Rows
  BY RowsOfCommand DEF Wanted, NextRow, IInv, TypeOK
<1>5. \A x \in Rows : holder[x] # None => pc[holder[x]] \in InTransaction
  BY DEF IInv, LocksBelongToTransactions, TypeOK, Db!DbTypeOK
<1>6. ASSUME NEW S \in (SUBSET Requests) \ {{}} PROVE \E r \in S : Free(r, S)
  <2>1. CASE \E r \in S : Wanted(r) = {}
    BY <2>1
  <2>2. CASE \A r \in S : pc[r] \in {"reserve", "replay"} /\ Wanted(r) # {}
    <3>1. PICK r \in S : TRUE
      OBVIOUS
    <3>2. PICK s \in Scopes : Wanted(r) = {ReceiptRow(s)} /\ ReceiptRow(s) \in Rows
      BY <1>4, <2>2, <3>1
    <3>3. holder[ReceiptRow(s)] \notin S
      BY <2>2, <3>2, AheadOfRows, NoneIsNothing DEF HoldersAreAhead
    <3>. QED
      BY <3>2, <3>3
  <2>3. CASE \E r \in S : pc[r] = "issue"
    <3>1. PICK r \in S : pc[r] = "issue"
      BY <2>3
    <3>2. PICK i \in Issues : Wanted(r) = {IssueRow(i)} /\ IssueRow(i) \in Rows
      BY <1>2, <3>1
    <3>3. CASE holder[IssueRow(i)] \in S
      <4>1. pc[holder[IssueRow(i)]] \in {"decide", "commit"}
        BY <3>2, <3>3, AheadOfRows, NoneIsNothing DEF HoldersAreAhead
      <4>2. Wanted(holder[IssueRow(i)]) = {}
        BY <1>1, <3>3, <4>1
      <4>. QED
        BY <3>3, <4>2
    <3>. QED
      BY <3>2, <3>3
  <2>4. CASE (\E r \in S : pc[r] = "project") /\ ~ (\E r \in S : pc[r] = "issue")
    <3>1. PICK r \in S : pc[r] = "project"
      BY <2>4
    <3>2. Wanted(r) = {ProjectRow} /\ ProjectRow \in Rows
      BY <1>3, <3>1
    <3>3. CASE holder[ProjectRow] \in S
      <4>1. pc[holder[ProjectRow]] \in {"decide", "commit"}
        BY <2>4, <3>2, <3>3, AheadOfRows, NoneIsNothing DEF HoldersAreAhead
      <4>2. Wanted(holder[ProjectRow]) = {}
        BY <1>1, <3>3, <4>1
      <4>. QED
        BY <3>3, <4>2
    <3>. QED
      BY <3>2, <3>3
  <2>. QED
    BY <1>1, <2>1, <2>2, <2>3, <2>4
<1>. QED
  BY <1>5, <1>6 DEF NobodyWaitsInACircle

\* Receipt, project, issue: every command takes its locks in this order, so whatever
\* keys, issues and retries there are, some command always can go on.
THEOREM NobodyWaitsForGood == Spec => []NobodyWaitsInACircle
<1>1. Init => HoldersAreAhead
  BY DEF Init, Db!DbInit, HoldersAreAhead
<1>2. IInv /\ HoldersAreAhead /\ [Next]_vars => HoldersAreAhead'
  BY NextKeepsAhead
<1>3. IInv /\ HoldersAreAhead => NobodyWaitsInACircle
  BY AheadMeansNoCircle
<1>. QED
  BY <1>1, <1>2, <1>3, InvariantHolds, PTL DEF Spec
=============================================================================
