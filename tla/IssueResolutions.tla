-------------------------- MODULE IssueResolutions --------------------------
(***************************************************************************)
(* Working conclusions ("issue resolutions") of the private research       *)
(* workspace: POST /:projectId/issues/:issueId/resolutions, one database   *)
(* statement per action.  Every command runs in one SERIALIZABLE           *)
(* transaction that is retried at most MaxAttempts times; it reserves an   *)
(* idempotency receipt, locks the project and then the issue, compares the *)
(* issue's current resolution with the one the client saw, appends a new   *)
(* resolution, moves the issue's pointer and completes the receipt.        *)
(*                                                                         *)
(* One project is modelled: its row is locked by every writer, a receipt's *)
(* scope names it, and an issue belongs to one project, so the commands of *)
(* two projects share nothing.  A request is one HTTP call; the service    *)
(* draws one random UUID per call, so the request itself stands for the    *)
(* resolution id it proposes.                                              *)
(***************************************************************************)
EXTENDS Naturals

CONSTANTS Requests,    \* the HTTP calls, each with its proposed resolution id
          Issues,      \* the research issues of the project
          Keys,        \* Idempotency-Key values the clients use
          Bodies,      \* resolution type, preferred claim, rationale, evidence
          MaxAttempts, \* attempts of serializableWithRetry (3 in the code)
          None

ASSUME AttemptsAssumption == MaxAttempts \in Nat \ {0}

VARIABLES
  command,     \* command[r]: what the client asked, None before it arrives
  pc,          \* the statement request r is about to run
  attempt,     \* transactions r has already lost to a serialization failure
  draft,       \* the receipt r has written and not committed
  answer,      \* answer[r]: the response of the service, None while there is none
  receipts,    \* ops.idempotency_keys: committed receipt per scope and key
  resolutions, \* core.issue_resolutions: the committed ids
  current,     \* core.research_issues.current_resolution_id
  projectState, issueState, \* core.projects / research_issues.lifecycle_state
  open, holder, missed

dbVars == <<open, holder, missed>>
storeVars == <<receipts, resolutions, current>>
vars == <<command, pc, attempt, draft, answer, storeVars,
          projectState, issueState, dbVars>>

\* The idempotency scope names project and issue; the unique key is (scope, key).
Scopes == Issues \X Keys
ScopeOf(c) == <<c.issue, c.key>>

ProjectRow == <<"project", "p">>
IssueRow(i) == <<"issue", i>>
ReceiptRow(s) == <<"receipt", s>>
Rows == {ProjectRow} \cup {IssueRow(i) : i \in Issues}
                     \cup {ReceiptRow(s) : s \in Scopes}

Db == INSTANCE Postgres WITH Tx <- Requests, Row <- Rows

Payload == [issue : Issues, key : Keys, expected : Requests \cup {None}, body : Bodies]

\* The request hash covers everything but the key and the proposed id.
RequestHash(c) == [issue |-> c.issue, expected |-> c.expected, body |-> c.body]
Hashes == [issue : Issues, expected : Requests \cup {None}, body : Bodies]

Receipt == [hash : Hashes, status : {"IN_PROGRESS", "COMPLETED"},
            resource : Requests \cup {None}]

Steps == {"idle", "begin", "reserve", "replay", "project", "issue", "decide",
          "commit", "done"}
InTransaction == Steps \ {"idle", "begin", "done"}

\* "notFound" stands for the three 404 answers: scope, preferred claim, evidence.
Refusals == {"stale", "readOnly", "notFound"}
Answers == [kind : {"created", "replayed"}, id : Requests]
             \cup [kind : Refusals \cup {"conflict", "unavailable"}, id : {None}]
Error(k) == [kind |-> k, id |-> None]

ASSUME NoneAssumption == None \notin Requests \cup Payload \cup Receipt \cup Answers

TypeOK ==
  /\ command \in [Requests -> Payload \cup {None}]
  /\ \A r \in Requests : pc[r] # "idle" => command[r] \in Payload
  /\ pc \in [Requests -> Steps]
  /\ attempt \in [Requests -> 0 .. MaxAttempts - 1]
  /\ draft \in [Requests -> Receipt \cup {None}]
  /\ answer \in [Requests -> Answers \cup {None}]
  /\ receipts \in [Scopes -> Receipt \cup {None}]
  /\ resolutions \subseteq Requests
  /\ current \in [Issues -> Requests \cup {None}]
  /\ projectState \in {"ACTIVE", "ARCHIVED"}
  /\ issueState \in [Issues -> {"OPEN", "ARCHIVED"}]
  /\ Db!DbTypeOK

Init ==
  /\ command = [r \in Requests |-> None]
  /\ pc = [r \in Requests |-> "idle"]
  /\ attempt = [r \in Requests |-> 0]
  /\ draft = [r \in Requests |-> None]
  /\ answer = [r \in Requests |-> None]
  /\ receipts = [s \in Scopes |-> None]
  /\ resolutions = {}
  /\ current = [i \in Issues |-> None]
  /\ projectState = "ACTIVE"
  /\ issueState = [i \in Issues |-> "OPEN"]
  /\ Db!DbInit

-----------------------------------------------------------------------------
(* How a transaction ends. *)

\* Wrong on purpose (as is every Wrong... below): the client is released to the
\* pool without the ROLLBACK, its transaction stays open.
WrongRefuseWithoutRollback(r, kind) ==
  /\ answer' = [answer EXCEPT ![r] = Error(kind)]
  /\ pc' = [pc EXCEPT ![r] = "done"]
  /\ UNCHANGED <<command, attempt, draft, storeVars, projectState, issueState, dbVars>>

\* ROLLBACK and an error answer; the draft receipt disappears with everything else.
Refuse(r, kind) ==
  /\ Db!End(r, {})
  /\ draft' = [draft EXCEPT ![r] = None]
  /\ answer' = [answer EXCEPT ![r] = Error(kind)]
  /\ pc' = [pc EXCEPT ![r] = "done"]
  /\ UNCHANGED <<command, attempt, storeVars, projectState, issueState>>

\* Wrong: one attempt too many.
WrongRetryOnceMore(r) ==
  IF attempt[r] + 1 <= MaxAttempts
    THEN /\ Db!End(r, {})
         /\ draft' = [draft EXCEPT ![r] = None]
         /\ attempt' = [attempt EXCEPT ![r] = @ + 1]
         /\ pc' = [pc EXCEPT ![r] = "begin"]
         /\ UNCHANGED <<command, answer, storeVars, projectState, issueState>>
    ELSE Refuse(r, "unavailable")

\* SQLSTATE 40001: roll back and run the whole command again, or give up.
Retry(r) ==
  IF attempt[r] + 1 < MaxAttempts
    THEN /\ Db!End(r, {})
         /\ draft' = [draft EXCEPT ![r] = None]
         /\ attempt' = [attempt EXCEPT ![r] = @ + 1]
         /\ pc' = [pc EXCEPT ![r] = "begin"]
         /\ UNCHANGED <<command, answer, storeVars, projectState, issueState>>
    ELSE Refuse(r, "unavailable")

-----------------------------------------------------------------------------
(* The statements of one request. *)

\* A client sends a command: a first attempt, or the same or another body under
\* a key it or somebody else used before.  The expected pointer is one that was
\* current at some time, which is all a client can have read.
Arrive(r) ==
  /\ pc[r] = "idle"
  /\ \E c \in Payload :
       /\ c.expected \in {None} \cup {q \in resolutions : command[q].issue = c.issue}
       /\ command' = [command EXCEPT ![r] = c]
  /\ pc' = [pc EXCEPT ![r] = "begin"]
  /\ UNCHANGED <<attempt, draft, answer, storeVars, projectState, issueState, dbVars>>

\* BEGIN; the snapshot is the one of the INSERT of the receipt that follows.
BeginTransaction(r) ==
  /\ pc[r] = "begin"
  /\ Db!Begin(r)
  /\ pc' = [pc EXCEPT ![r] = "reserve"]
  /\ UNCHANGED <<command, attempt, draft, answer, storeVars, projectState, issueState>>

\* INSERT ... ON CONFLICT DO NOTHING finds no receipt: it is ours, uncommitted.
ReserveReceipt(r) ==
  LET s == ScopeOf(command[r]) IN
  /\ pc[r] = "reserve"
  /\ receipts[s] = None
  /\ Db!Lock(r, ReceiptRow(s))
  /\ draft' = [draft EXCEPT ![r] = [hash |-> RequestHash(command[r]),
                                   status |-> "IN_PROGRESS", resource |-> None]]
  /\ pc' = [pc EXCEPT ![r] = "project"]
  /\ UNCHANGED <<command, attempt, answer, storeVars, projectState, issueState>>

\* ... or it finds a committed one in its snapshot and inserts nothing.
FindReceipt(r) ==
  LET s == ScopeOf(command[r]) IN
  /\ pc[r] = "reserve"
  /\ receipts[s] # None
  /\ ReceiptRow(s) \notin missed[r]
  /\ pc' = [pc EXCEPT ![r] = "replay"]
  /\ UNCHANGED <<command, attempt, draft, answer, storeVars, projectState, issueState, dbVars>>

\* Wrong: a replayed command passes the lifecycle gate of a new one first.
WrongReplayWhileWritable(r) ==
  LET c == command[r]
      old == receipts[ScopeOf(c)]
  IN
  /\ pc[r] = "replay"
  /\ ReceiptRow(ScopeOf(c)) \notin missed[r]
  /\ ~ Db!Waits(r, ReceiptRow(ScopeOf(c)))
  /\ \/ old.hash # RequestHash(c) /\ Refuse(r, "conflict")
     \/ /\ old.hash = RequestHash(c)
        /\ projectState # "ACTIVE" \/ issueState[c.issue] = "ARCHIVED"
        /\ Refuse(r, "readOnly")
     \/ /\ old.hash = RequestHash(c)
        /\ projectState = "ACTIVE" /\ issueState[c.issue] # "ARCHIVED"
        /\ Db!Lock(r, ReceiptRow(ScopeOf(c)))
        /\ pc' = [pc EXCEPT ![r] = "commit"]
        /\ UNCHANGED <<command, attempt, draft, answer, storeVars, projectState, issueState>>

\* replay(): SELECT the receipt FOR UPDATE; only its hash and status decide.  No
\* pointer, lifecycle, claim or evidence gate applies to a completed command.
Replay(r) ==
  LET s == ScopeOf(command[r]) IN
  /\ pc[r] = "replay"
  /\ ReceiptRow(s) \notin missed[r]
  /\ ~ Db!Waits(r, ReceiptRow(s))
  /\ \/ /\ receipts[s].hash # RequestHash(command[r])
        /\ Refuse(r, "conflict")
     \/ /\ receipts[s].hash = RequestHash(command[r])
        /\ receipts[s].status # "COMPLETED"
        /\ Refuse(r, "unavailable")
     \/ /\ receipts[s].hash = RequestHash(command[r])
        /\ receipts[s].status = "COMPLETED"
        /\ Db!Lock(r, ReceiptRow(s))
        /\ pc' = [pc EXCEPT ![r] = "commit"]
        /\ UNCHANGED <<command, attempt, draft, answer, storeVars, projectState, issueState>>

\* Wrong: the project is read without FOR UPDATE.
WrongProjectNotLocked(r) ==
  /\ pc[r] = "project"
  /\ pc' = [pc EXCEPT ![r] = "issue"]
  /\ UNCHANGED <<command, attempt, draft, answer, storeVars, projectState, issueState, dbVars>>

\* loadProjectIssueScope with lock: first the project row, then the issue row.
LockProject(r) ==
  /\ pc[r] = "project"
  /\ Db!Lock(r, ProjectRow)
  /\ pc' = [pc EXCEPT ![r] = "issue"]
  /\ UNCHANGED <<command, attempt, draft, answer, storeVars, projectState, issueState>>

LockIssue(r) ==
  /\ pc[r] = "issue"
  /\ Db!Lock(r, IssueRow(command[r].issue))
  /\ pc' = [pc EXCEPT ![r] = "decide"]
  /\ UNCHANGED <<command, attempt, draft, answer, storeVars, projectState, issueState>>

\* Wrong: the expected pointer is not compared.
WrongPointerNotCompared(c) == TRUE

Writable(i) == projectState = "ACTIVE" /\ issueState[i] # "ARCHIVED"
PointerMatches(c) == current[c.issue] = c.expected

\* The gates of insertNew, on rows that are locked and unchanged since the
\* snapshot.  Scope, claim membership and evidence belong to other components:
\* whether they are found is left open.
RefuseNew(r) ==
  LET c == command[r] IN
  /\ pc[r] = "decide"
  /\ \/ ~ Writable(c.issue) /\ Refuse(r, "readOnly")
     \/ Writable(c.issue) /\ ~ PointerMatches(c) /\ Refuse(r, "stale")
     \/ Refuse(r, "notFound")

\* Wrong: the receipt is not completed.
WrongReceiptLeftInProgress(r) ==
  LET i == command[r].issue IN
  /\ pc[r] = "decide"
  /\ Writable(i)
  /\ PointerMatches(command[r])
  /\ pc' = [pc EXCEPT ![r] = "commit"]
  /\ UNCHANGED <<command, attempt, draft, answer, storeVars, projectState, issueState, dbVars>>

\* All gates pass: INSERT the resolution, UPDATE the pointer, read the row back
\* and complete the receipt.  Nothing is visible to others before COMMIT.
InsertNew(r) ==
  LET c == command[r] IN
  /\ pc[r] = "decide"
  /\ Writable(c.issue)
  /\ PointerMatches(c)
  /\ draft' = [draft EXCEPT ![r].status = "COMPLETED", ![r].resource = r]
  /\ pc' = [pc EXCEPT ![r] = "commit"]
  /\ UNCHANGED <<command, attempt, answer, storeVars, projectState, issueState, dbVars>>

\* Wrong: a replay answers with the id the retry proposed.
WrongProposedIdReplayed(r) ==
  [kind |-> IF draft[r] # None THEN "created" ELSE "replayed", id |-> r]

\* What the transaction returns: the proposed id, or the receipt's on a replay.
Outcome(r) ==
  IF draft[r] # None
    THEN [kind |-> "created", id |-> draft[r].resource]
    ELSE [kind |-> "replayed", id |-> receipts[ScopeOf(command[r])].resource]

\* COMMIT.  The reply of the database or of the service may be lost on the way:
\* the client then sees an error for a command that took effect.
Commit(r) ==
  LET c == command[r] IN
  /\ pc[r] = "commit"
  /\ \E a \in {Outcome(r), Error("unavailable")} : answer' = [answer EXCEPT ![r] = a]
  /\ IF draft[r] = None
       THEN UNCHANGED storeVars /\ Db!End(r, {})
       ELSE /\ receipts' = [receipts EXCEPT ![ScopeOf(c)] = draft[r]]
            /\ resolutions' = resolutions \cup {r}
            /\ current' = [current EXCEPT ![c.issue] = r]
            /\ Db!End(r, {ReceiptRow(ScopeOf(c)), IssueRow(c.issue)})
  /\ draft' = [draft EXCEPT ![r] = None]
  /\ pc' = [pc EXCEPT ![r] = "done"]
  /\ UNCHANGED <<command, attempt, projectState, issueState>>

\* The row the next statement locks, or collides with, was committed by another
\* transaction after the snapshot: PostgreSQL answers 40001.
NextRow(r) ==
  CASE pc[r] \in {"reserve", "replay"} -> ReceiptRow(ScopeOf(command[r]))
    [] pc[r] = "project" -> ProjectRow
    [] OTHER -> IssueRow(command[r].issue)

Conflict(r) ==
  /\ pc[r] \in {"reserve", "replay", "project", "issue"}
  /\ NextRow(r) \in missed[r]
  /\ Retry(r)

-----------------------------------------------------------------------------
(* What the environment does. *)

\* Serializable isolation may also fail a transaction for a dependency that is
\* no conflict on these rows, at any statement up to COMMIT.
SerializationFailure(r) == pc[r] \in InTransaction /\ Retry(r)

\* The connection, the query or the API process dies before COMMIT: the server
\* rolls back and the client gets 503 (or a broken connection).
ConnectionLost(r) == pc[r] \in InTransaction /\ Refuse(r, "unavailable")

\* pool.connect fails: no transaction was begun.
ConnectFails(r) ==
  /\ pc[r] = "begin"
  /\ answer' = [answer EXCEPT ![r] = Error("unavailable")]
  /\ pc' = [pc EXCEPT ![r] = "done"]
  /\ UNCHANGED <<command, attempt, draft, storeVars, projectState, issueState, dbVars>>

\* Archiving is done outside the API: one UPDATE, which waits for the row lock.
ArchiveProject ==
  /\ projectState = "ACTIVE"
  /\ projectState' = "ARCHIVED"
  /\ Db!Autocommit(ProjectRow)
  /\ UNCHANGED <<command, pc, attempt, draft, answer, storeVars, issueState>>

ArchiveIssue(i) ==
  /\ issueState[i] = "OPEN"
  /\ issueState' = [issueState EXCEPT ![i] = "ARCHIVED"]
  /\ Db!Autocommit(IssueRow(i))
  /\ UNCHANGED <<command, pc, attempt, draft, answer, storeVars, projectState>>

-----------------------------------------------------------------------------
\* What the service does by itself once a request has arrived.
Serve(r) ==
  \/ BeginTransaction(r) \/ ReserveReceipt(r) \/ FindReceipt(r) \/ Replay(r)
  \/ LockProject(r) \/ LockIssue(r) \/ RefuseNew(r) \/ InsertNew(r)
  \/ Commit(r) \/ Conflict(r)

Fail(r) == SerializationFailure(r) \/ ConnectionLost(r) \/ ConnectFails(r)

Next ==
  \/ \E r \in Requests : Arrive(r) \/ Serve(r) \/ Fail(r)
  \/ ArchiveProject
  \/ \E i \in Issues : ArchiveIssue(i)

Spec == Init /\ [][Next]_vars

\* The event loop and the database run every statement that can run; clients,
\* failures and archiving are under no obligation.
FairSpec == Spec /\ \A r \in Requests : WF_vars(Serve(r))
-----------------------------------------------------------------------------
(* Correctness. *)

\* The receipt and the resource are one: a committed receipt is COMPLETED and
\* names a committed resolution made by that very command, and every committed
\* resolution has the receipt of its key.  A crash, a lost reply or a lost race
\* between reservation and COMMIT must not leave one without the other.
ReceiptNamesItsResolution ==
  /\ \A s \in Scopes : receipts[s] # None =>
       LET q == receipts[s].resource IN
       /\ receipts[s].status = "COMPLETED"
       /\ q \in resolutions
       /\ ScopeOf(command[q]) = s
       /\ RequestHash(command[q]) = receipts[s].hash
  /\ \A q \in resolutions : receipts[ScopeOf(command[q])] # None
                            /\ receipts[ScopeOf(command[q])].resource = q

\* No lost update: the resolutions of an issue form one line, each appended to
\* the one its client had seen; two resolutions never have the same predecessor
\* and the issue's pointer is the end of the line.
HistoryIsLinear ==
  /\ \A q, r \in resolutions :
       command[q].issue = command[r].issue /\ command[q].expected = command[r].expected
         => q = r
  /\ \A q \in resolutions :
       command[q].expected # None =>
         /\ command[q].expected \in resolutions
         /\ command[command[q].expected].issue = command[q].issue
  /\ \A i \in Issues :
       LET history == {q \in resolutions : command[q].issue = i} IN
       /\ current[i] = None <=> history = {}
       /\ current[i] # None => current[i] \in history
       /\ \A q \in history : command[q].expected # current[i]

\* A success answer names the resolution that this key and this command made,
\* first time or on a retry after the reply was lost.
SuccessIsTrue ==
  \A r \in Requests :
    answer[r] # None /\ answer[r].kind \in {"created", "replayed"} =>
      /\ answer[r].id \in resolutions
      /\ ScopeOf(command[answer[r].id]) = ScopeOf(command[r])
      /\ RequestHash(command[answer[r].id]) = RequestHash(command[r])

\* Nothing is added to an archived project or issue, however the archiving falls
\* between the gate and the COMMIT: the row locks hold it off.
NothingAddedToArchive ==
  [][\A r \in resolutions' \ resolutions : Writable(command[r].issue)]_vars

\* Every request gets an answer: waiting on row locks never becomes a cycle and
\* the retries are bounded.
EveryRequestIsAnswered ==
  \A r \in Requests : pc[r] = "begin" ~> answer[r] # None

\* The rows the next statement of r waits for while somebody else holds them.
Wanted(r) ==
  IF pc[r] \in {"replay", "project", "issue"}
       \/ (pc[r] = "reserve" /\ receipts[ScopeOf(command[r])] = None)
    THEN {NextRow(r)} ELSE {}

\* Locks are held by commands that run, and of any commands some command waits for
\* none of the others: receipts are locked before the project, the project before
\* the issue.
NobodyWaitsInACircle ==
  /\ \A x \in Rows : holder[x] # None => pc[holder[x]] \in InTransaction
  /\ \A S \in (SUBSET Requests) \ {{}} :
       \E r \in S : \A x \in Wanted(r) : holder[x] \notin S \ {r}

\* The transactions implement the promised register.
Register == INSTANCE ResolutionRegister WITH
  winner <- [s \in Scopes |-> IF receipts[s] = None THEN None ELSE receipts[s].resource]
ImplementsRegister == Register!Spec

-----------------------------------------------------------------------------
(* Why it is correct: the inductive invariant. *)

\* r has inserted its receipt and not ended: it is on the way to a new resolution.
Creating(r) == draft[r] # None

\* Exactly the running commands have a transaction, and only they hold locks.
LocksBelongToTransactions ==
  /\ \A r \in Requests : r \in open <=> pc[r] \in InTransaction
  /\ \A x \in Rows : holder[x] # None => holder[x] \in open

\* A creating command holds the locks it took so far and has proposed itself; its
\* key is unused, and once it may commit its gates still hold.
CreatingIsProtected ==
  \A r \in Requests :
    LET c == command[r] IN
    /\ pc[r] \in {"idle", "begin", "reserve", "replay", "done"} => ~ Creating(r)
    /\ pc[r] \in {"project", "issue", "decide"} => Creating(r)
    /\ Creating(r) =>
         /\ draft[r].hash = RequestHash(c)
         /\ holder[ReceiptRow(ScopeOf(c))] = r
         /\ receipts[ScopeOf(c)] = None
         /\ pc[r] # "project" => holder[ProjectRow] = r
         /\ pc[r] \in {"decide", "commit"} => holder[IssueRow(c.issue)] = r
    /\ Creating(r) /\ pc[r] = "commit" =>
         /\ draft[r].status = "COMPLETED"
         /\ draft[r].resource = r
         /\ Writable(c.issue)
         /\ PointerMatches(c)

\* A replaying command has found a receipt, and returns only one of its own hash.
ReplayingIsJustified ==
  \A r \in Requests :
    /\ pc[r] = "replay" => receipts[ScopeOf(command[r])] # None
    /\ pc[r] = "commit" /\ ~ Creating(r) =>
         /\ receipts[ScopeOf(command[r])] # None
         /\ receipts[ScopeOf(command[r])].hash = RequestHash(command[r])

\* An answer ends its command, a resolution exists only once its command is over,
\* and a client has only seen resolutions that exist.
ResolutionsAreFinal ==
  /\ \A r \in Requests : (command[r] = None) <=> (pc[r] = "idle")
  /\ \A r \in Requests : (answer[r] # None) <=> (pc[r] = "done")
  /\ \A r \in resolutions : pc[r] = "done"
  /\ \A r \in Requests :
       pc[r] # "idle" /\ command[r].expected # None =>
         /\ command[r].expected \in resolutions
         /\ command[command[r].expected].issue = command[r].issue

IInv ==
  /\ TypeOK
  /\ LocksBelongToTransactions
  /\ CreatingIsProtected
  /\ ReplayingIsJustified
  /\ ResolutionsAreFinal
  /\ ReceiptNamesItsResolution
  /\ HistoryIsLinear
  /\ SuccessIsTrue
=============================================================================
