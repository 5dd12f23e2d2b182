------------------------- MODULE ResolutionRegister -------------------------
(***************************************************************************)
(* What the issue-resolution command promises, with no transaction, lock,  *)
(* snapshot or retry in it: per issue a compare-and-set register whose     *)
(* every value is a resolution, and per idempotency key at most one        *)
(* command that ever takes effect.  A command takes effect and is answered *)
(* in one step; an error 503 may be answered whether or not it took        *)
(* effect; every other answer is true at the moment it is given.           *)
(***************************************************************************)
CONSTANTS Requests, Issues, Keys, Bodies, None

VARIABLES
  command,   \* command[r]: what r asks, None before it is submitted
  answer,    \* answer[r]: what r is told, None before
  winner,    \* winner[s]: the request that took effect under scope and key s
  current,   \* current[i]: the current resolution of issue i
  projectState, issueState

vars == <<command, answer, winner, current, projectState, issueState>>

Payload == [issue : Issues, key : Keys, expected : Requests \cup {None}, body : Bodies]
Slot(r) == <<command[r].issue, command[r].key>>
SameCommand(q, r) == command[q].expected = command[r].expected
                       /\ command[q].body = command[r].body
Writable(i) == projectState = "ACTIVE" /\ issueState[i] = "OPEN"
Waiting(r) == command[r] # None /\ answer[r] = None

Init ==
  /\ command = [r \in Requests |-> None]
  /\ answer = [r \in Requests |-> None]
  /\ winner = [s \in Issues \X Keys |-> None]
  /\ current = [i \in Issues |-> None]
  /\ projectState = "ACTIVE"
  /\ issueState = [i \in Issues |-> "OPEN"]

Submit(r) ==
  /\ command[r] = None
  /\ \E c \in Payload : command' = [command EXCEPT ![r] = c]
  /\ UNCHANGED <<answer, winner, current, projectState, issueState>>

Tell(r, kind, id) == answer' = [answer EXCEPT ![r] = [kind |-> kind, id |-> id]]

\* The command takes effect; its answer says so or is lost.
Apply(r) ==
  /\ Waiting(r)
  /\ winner[Slot(r)] = None
  /\ Writable(command[r].issue)
  /\ current[command[r].issue] = command[r].expected
  /\ winner' = [winner EXCEPT ![Slot(r)] = r]
  /\ current' = [current EXCEPT ![command[r].issue] = r]
  /\ Tell(r, "created", r) \/ Tell(r, "unavailable", None)
  /\ UNCHANGED <<command, projectState, issueState>>

\* The key was used: the same command gets the original id, another one an error.
Recall(r) ==
  /\ Waiting(r)
  /\ winner[Slot(r)] # None
  /\ LET w == winner[Slot(r)] IN
     \/ SameCommand(w, r) /\ Tell(r, "replayed", w)
     \/ ~ SameCommand(w, r) /\ Tell(r, "conflict", None)
  /\ UNCHANGED <<command, winner, current, projectState, issueState>>

\* The key is unused and a gate is closed.
Deny(r) ==
  LET i == command[r].issue IN
  /\ Waiting(r)
  /\ winner[Slot(r)] = None
  /\ \/ ~ Writable(i) /\ Tell(r, "readOnly", None)
     \/ Writable(i) /\ current[i] # command[r].expected /\ Tell(r, "stale", None)
     \/ Tell(r, "notFound", None)
  /\ UNCHANGED <<command, winner, current, projectState, issueState>>

GiveUp(r) ==
  /\ Waiting(r)
  /\ Tell(r, "unavailable", None)
  /\ UNCHANGED <<command, winner, current, projectState, issueState>>

Archive ==
  /\ \/ projectState' = "ARCHIVED" /\ UNCHANGED issueState
     \/ \E i \in Issues : issueState' = [issueState EXCEPT ![i] = "ARCHIVED"]
        /\ UNCHANGED projectState
  /\ UNCHANGED <<command, answer, winner, current>>

Next ==
  \/ \E r \in Requests : Submit(r) \/ Apply(r) \/ Recall(r) \/ Deny(r) \/ GiveUp(r)
  \/ Archive

Spec == Init /\ [][Next]_vars
=============================================================================
