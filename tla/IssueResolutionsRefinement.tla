--------------------- MODULE IssueResolutionsRefinement ---------------------
(***************************************************************************)
(* The transactional command store implements the ResolutionRegister: the  *)
(* step that commits a new resolution, or that decides an answer, is one   *)
(* step of the register, every other step changes nothing the register     *)
(* shows.                                                                  *)
(***************************************************************************)
EXTENDS IssueResolutionsProofs

Winner == [s \in Scopes |-> IF receipts[s] = None THEN None ELSE receipts[s].resource]

\* A command that is served is waiting, and its slot is its scope.
LEMMA ServedIsWaiting ==
  ASSUME IInv, NEW r \in Requests, pc[r] \notin {"idle", "done"}
  PROVE  /\ Register!Waiting(r)
         /\ command[r] \in Payload
         /\ Register!Slot(r) = ScopeOf(command[r])
         /\ ScopeOf(command[r]) \in Scopes
<1>1. command[r] \in Payload
  BY DEF IInv, TypeOK
<1>2. command[r] # None /\ answer[r] = None
  BY DEF IInv, ResolutionsAreFinal
<1>. QED
  BY <1>1, <1>2, RowsOfCommand DEF Register!Waiting, Register!Slot, ScopeOf

\* A committed receipt shows who won its key, and whether the command is the same.
LEMMA ReceiptShowsWinner ==
  ASSUME IInv, NEW r \in Requests, command[r] \in Payload, receipts[ScopeOf(command[r])] # None
  PROVE  LET w == receipts[ScopeOf(command[r])].resource IN
         /\ Winner[ScopeOf(command[r])] = w
         /\ w \in resolutions
         /\ w # None
         /\ Register!SameCommand(w, r)
              <=> receipts[ScopeOf(command[r])].hash = RequestHash(command[r])
<1>. DEFINE s == ScopeOf(command[r])
            w == receipts[s].resource
<1>1. s \in Scopes
  BY RowsOfCommand
<1>2. /\ w \in resolutions /\ ScopeOf(command[w]) = s
      /\ RequestHash(command[w]) = receipts[s].hash
  BY <1>1 DEF IInv, ReceiptNamesItsResolution
<1>3. w \in Requests /\ w # None
  BY <1>2, NoneIsNothing DEF IInv, TypeOK
<1>4. Winner[s] = w
  BY <1>1 DEF Winner
<1>5. command[w].issue = command[r].issue
  BY <1>2 DEF ScopeOf
<1>6. Register!SameCommand(w, r) <=> RequestHash(command[w]) = RequestHash(command[r])
  BY <1>5 DEF Register!SameCommand, RequestHash
<1>. QED
  BY <1>2, <1>3, <1>4, <1>6

\* Giving up is allowed to every command that waits.
LEMMA RefuseImplements ==
  ASSUME IInv, NEW r \in Requests, pc[r] \in InTransaction, Refuse(r, "unavailable")
  PROVE  Register!GiveUp(r)
<1>1. Register!Waiting(r)
  BY ServedIsWaiting DEF InTransaction
<1>. QED
  BY <1>1 DEF Refuse, Error, storeVars, Register!GiveUp, Register!Tell

LEMMA RetryImplements ==
  ASSUME IInv, NEW r \in Requests, pc[r] \in InTransaction, Retry(r)
  PROVE  Register!GiveUp(r) \/ UNCHANGED Register!vars
<1>1. CASE attempt[r] + 1 < MaxAttempts
  BY <1>1 DEF Retry, storeVars, Register!vars
<1>2. CASE ~ (attempt[r] + 1 < MaxAttempts)
  BY <1>2, RefuseImplements DEF Retry
<1>. QED
  BY <1>1, <1>2

\* A replay that is refused has found a receipt of another command.
LEMMA ReplayImplements ==
  ASSUME IInv, NEW r \in Requests, Replay(r)
  PROVE  Register!Recall(r) \/ Register!GiveUp(r) \/ UNCHANGED Register!vars
<1>0. pc[r] = "replay" /\ pc[r] \in InTransaction
  BY DEF Replay, InTransaction, Steps
<1>1. CASE /\ receipts[ScopeOf(command[r])].hash # RequestHash(command[r])
           /\ Refuse(r, "conflict")
  <2>1. /\ Register!Waiting(r) /\ command[r] \in Payload
        /\ Register!Slot(r) = ScopeOf(command[r])
    BY <1>0, ServedIsWaiting
  <2>2. receipts[ScopeOf(command[r])] # None
    BY <1>0 DEF IInv, ReplayingIsJustified
  <2>3. /\ Winner[Register!Slot(r)] # None
        /\ ~ Register!SameCommand(Winner[Register!Slot(r)], r)
    BY <1>1, <2>1, <2>2, ReceiptShowsWinner
  <2>. QED
    BY <1>1, <2>1, <2>3
       DEF Refuse, Error, storeVars, Register!Recall, Register!Tell, Winner
<1>2. CASE Refuse(r, "unavailable")
  BY <1>0, <1>2, RefuseImplements
<1>3. CASE UNCHANGED <<command, answer, storeVars, projectState, issueState>>
  BY <1>3 DEF storeVars, Register!vars
<1>. QED
  BY <1>1, <1>2, <1>3 DEF Replay, storeVars

\* A gate that is closed on locked rows is closed.
LEMMA RefuseNewImplements ==
  ASSUME IInv, NEW r \in Requests, RefuseNew(r)
  PROVE  Register!Deny(r)
<1>0. pc[r] = "decide"
  BY DEF RefuseNew
<1>1. /\ Register!Waiting(r) /\ command[r] \in Payload
      /\ Register!Slot(r) = ScopeOf(command[r]) /\ ScopeOf(command[r]) \in Scopes
  BY <1>0, ServedIsWaiting
<1>2. receipts[ScopeOf(command[r])] = None
  BY <1>0 DEF IInv, CreatingIsProtected
<1>3. Winner[Register!Slot(r)] = None
  BY <1>1, <1>2 DEF Winner
<1>4. Register!Writable(command[r].issue) <=> Writable(command[r].issue)
  BY <1>1, RowsOfCommand DEF Register!Writable, Writable, IInv, TypeOK
<1>. QED
  BY <1>1, <1>3, <1>4
     DEF RefuseNew, Refuse, Error, PointerMatches, storeVars, Register!Deny, Register!Tell, Winner

\* COMMIT of a new resolution is the step in which the register takes it.
LEMMA CommitNewImplements ==
  ASSUME IInv, NEW r \in Requests, Commit(r), Creating(r)
  PROVE  Register!Apply(r)
<1>. DEFINE s == ScopeOf(command[r])
<1>0. pc[r] = "commit"
  BY DEF Commit
<1>1. /\ Register!Waiting(r) /\ command[r] \in Payload
      /\ Register!Slot(r) = s /\ s \in Scopes
  BY <1>0, ServedIsWaiting
<1>2. /\ draft[r] # None /\ draft[r].resource = r
      /\ receipts[s] = None
      /\ Writable(command[r].issue) /\ current[command[r].issue] = command[r].expected
  BY <1>0 DEF IInv, CreatingIsProtected, Creating, PointerMatches
<1>3. Winner[s] = None
  BY <1>1, <1>2 DEF Winner
<1>4. Register!Writable(command[r].issue)
  BY <1>1, <1>2, RowsOfCommand DEF Register!Writable, Writable, IInv, TypeOK
<1>5. /\ receipts' = [receipts EXCEPT ![s] = draft[r]]
      /\ current' = [current EXCEPT ![command[r].issue] = r]
      /\ \/ answer' = [answer EXCEPT ![r] = [kind |-> "created", id |-> r]]
         \/ answer' = [answer EXCEPT ![r] = [kind |-> "unavailable", id |-> None]]
      /\ UNCHANGED <<command, projectState, issueState>>
  BY <1>2 DEF Commit, Outcome, Error
<1>6. Winner' = [Winner EXCEPT ![s] = r]
  BY <1>1, <1>2, <1>5 DEF Winner, IInv, TypeOK
<1>. QED
  BY <1>1, <1>2, <1>3, <1>4, <1>5, <1>6 DEF Register!Apply, Register!Tell, Winner

LEMMA CommitReplayImplements ==
  ASSUME IInv, NEW r \in Requests, Commit(r), ~ Creating(r)
  PROVE  Register!Recall(r) \/ Register!GiveUp(r)
<1>. DEFINE s == ScopeOf(command[r])
<1>0. pc[r] = "commit"
  BY DEF Commit
<1>1. /\ Register!Waiting(r) /\ command[r] \in Payload
      /\ Register!Slot(r) = s /\ s \in Scopes
  BY <1>0, ServedIsWaiting
<1>2. receipts[s] # None /\ receipts[s].hash = RequestHash(command[r])
  BY <1>0 DEF IInv, ReplayingIsJustified
<1>3. /\ Winner[s] = receipts[s].resource /\ Winner[s] # None
      /\ Register!SameCommand(Winner[s], r)
  BY <1>1, <1>2, ReceiptShowsWinner
<1>4. /\ UNCHANGED <<command, receipts, current, projectState, issueState>>
      /\ \/ answer' = [answer EXCEPT ![r] = [kind |-> "replayed", id |-> receipts[s].resource]]
         \/ answer' = [answer EXCEPT ![r] = [kind |-> "unavailable", id |-> None]]
  BY DEF Commit, Outcome, Error, Creating, storeVars
<1>. QED
  BY <1>1, <1>3, <1>4 DEF Register!Recall, Register!GiveUp, Register!Tell, Winner

LEMMA NextImplements ==
  IInv /\ [Next]_vars => [Register!Next]_(Register!vars)
<1>. SUFFICES ASSUME IInv, [Next]_vars
              PROVE  Register!Next \/ UNCHANGED Register!vars
  OBVIOUS
<1>. USE DEF storeVars
<1>1. ASSUME NEW r \in Requests, Arrive(r) PROVE Register!Submit(r)
  <2>1. command[r] = None
    BY <1>1 DEF Arrive, IInv, ResolutionsAreFinal
  <2>. QED
    BY <1>1, <2>1 DEF Arrive, Payload, Register!Submit, Register!Payload
<1>2. ASSUME NEW r \in Requests, Serve(r)
      PROVE  \/ Register!Apply(r) \/ Register!Recall(r) \/ Register!Deny(r) \/ Register!GiveUp(r)
             \/ UNCHANGED Register!vars
  <2>1. CASE \/ BeginTransaction(r) \/ ReserveReceipt(r) \/ FindReceipt(r)
             \/ LockProject(r) \/ LockIssue(r) \/ InsertNew(r)
    BY <2>1 DEF BeginTransaction, ReserveReceipt, FindReceipt, LockProject, LockIssue, InsertNew,
                Register!vars
  <2>2. CASE Replay(r)
    BY <2>2, ReplayImplements
  <2>3. CASE RefuseNew(r)
    BY <2>3, RefuseNewImplements
  <2>4. CASE Commit(r)
    BY <2>4, CommitNewImplements, CommitReplayImplements
  <2>5. CASE Conflict(r)
    BY <2>5, RetryImplements DEF Conflict, InTransaction, Steps
  <2>. QED
    BY <1>2, <2>1, <2>2, <2>3, <2>4, <2>5 DEF Serve
<1>3. ASSUME NEW r \in Requests, Fail(r)
      PROVE  Register!GiveUp(r) \/ UNCHANGED Register!vars
  <2>1. CASE SerializationFailure(r)
    BY <2>1, RetryImplements DEF SerializationFailure
  <2>2. CASE ConnectionLost(r)
    BY <2>2, RefuseImplements DEF ConnectionLost
  <2>3. CASE ConnectFails(r)
    <3>1. Register!Waiting(r)
      BY <2>3, ServedIsWaiting DEF ConnectFails
    <3>. QED
      BY <2>3, <3>1 DEF ConnectFails, Error, Register!GiveUp, Register!Tell
  <2>. QED
    BY <1>3, <2>1, <2>2, <2>3 DEF Fail
<1>4. CASE ArchiveProject \/ \E i \in Issues : ArchiveIssue(i)
  BY <1>4 DEF ArchiveProject, ArchiveIssue, Register!Next, Register!Archive
<1>5. CASE UNCHANGED vars
  BY <1>5 DEF vars, Register!vars
<1>. QED
  BY <1>1, <1>2, <1>3, <1>4, <1>5 DEF Next, Register!Next

\* What the store does with transactions, locks, retries and lost replies, the
\* register does in one step per command: a compare-and-set per issue and at most
\* one effect per idempotency key.
THEOREM StoreImplementsRegister == Spec => ImplementsRegister
<1>1. Init => Register!Init
  BY DEF Init, Register!Init, Scopes
<1>2. IInv /\ [Next]_vars => [Register!Next]_(Register!vars)
  BY NextImplements
<1>. QED
  BY <1>1, <1>2, InvariantHolds, PTL DEF Spec, ImplementsRegister, Register!Spec
=============================================================================
