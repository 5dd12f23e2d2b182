------------------------------ MODULE Postgres ------------------------------
(***************************************************************************)
(* The part of PostgreSQL's transaction semantics the stores under         *)
(* apps/api/src/s32/postgres rely on: row locks held to the end of the     *)
(* transaction, and, for ISOLATION LEVEL SERIALIZABLE, a snapshot taken by *)
(* the first statement and a serialization failure (SQLSTATE 40001) when a *)
(* row committed since that snapshot is locked or collided with.  It is    *)
(* not code of the repository: it is modelled from how the stores use the  *)
(* database (BEGIN, INSERT ... ON CONFLICT, SELECT ... FOR UPDATE, COMMIT, *)
(* ROLLBACK).  The operators here are shared by the store modules.         *)
(***************************************************************************)
CONSTANTS Tx,    \* the transactions (one per running command)
          Row,   \* the rows that are locked or collided on
          None   \* no transaction

VARIABLES open,    \* the transactions that have begun and not ended
          holder,  \* holder[x]: who holds the lock on row x, or None
          missed   \* missed[t]: rows others committed since t's snapshot

DbTypeOK ==
  /\ open \subseteq Tx
  /\ holder \in [Row -> Tx \cup {None}]
  /\ missed \in [Tx -> SUBSET Row]

DbInit ==
  /\ open = {}
  /\ holder = [x \in Row |-> None]
  /\ missed = [t \in Tx |-> {}]

\* BEGIN and the snapshot of the first statement.
Begin(t) ==
  /\ t \notin open
  /\ open' = open \cup {t}
  /\ missed' = [missed EXCEPT ![t] = {}]
  /\ UNCHANGED holder

\* Another transaction that has not ended holds x: the statement waits.
Waits(t, x) == holder[x] \notin {None, t}

\* A statement of t that takes the lock on x succeeds: x is free, and, for a
\* serializable transaction, nobody committed a change of x after the snapshot.
Lock(t, x) ==
  /\ ~ Waits(t, x)
  /\ x \notin missed[t]
  /\ holder' = [holder EXCEPT ![x] = t]
  /\ UNCHANGED <<open, missed>>

\* BEGIN and statements of t that take the lock on x, at READ COMMITTED.
BeginLock(t, x) ==
  /\ t \notin open
  /\ ~ Waits(t, x)
  /\ open' = open \cup {t}
  /\ holder' = [holder EXCEPT ![x] = t]
  /\ missed' = [missed EXCEPT ![t] = {}]

\* COMMIT (W is the set of rows written) or ROLLBACK (W = {}): the locks are
\* released and the other open transactions have missed W.
End(t, W) ==
  /\ t \in open
  /\ open' = open \ {t}
  /\ holder' = [x \in Row |-> IF holder[x] = t THEN None ELSE holder[x]]
  /\ missed' = [u \in Tx |-> IF u \in open \ {t} THEN missed[u] \cup W ELSE {}]

\* A one-statement transaction of some other program writes row x.
Autocommit(x) ==
  /\ holder[x] = None
  /\ missed' = [u \in Tx |-> IF u \in open THEN missed[u] \cup {x} ELSE {}]
  /\ UNCHANGED <<open, holder>>
=============================================================================
