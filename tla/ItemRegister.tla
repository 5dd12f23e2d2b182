---------------------------- MODULE ItemRegister ----------------------------
(***************************************************************************)
(* What the items of a project and their notes promise, with no            *)
(* transaction, lock or snapshot in it: per edition a register of the item *)
(* it is bound to, and per item a compare-and-set register of the latest   *)
(* revision of its note.  A call takes effect and is answered in one step, *)
(* and a refusal is true at the moment it is given.  Only a note's gates   *)
(* are judged earlier: a call is admitted while its item is there and its  *)
(* project and edition are active, and may act after they were archived.   *)
(***************************************************************************)
CONSTANTS Calls, Editions, None

VARIABLES
  command,   \* command[c]: what c asks, None before
  answer,    \* answer[c]: what c is told, None before
  bound,     \* bound[e]: the item that binds edition e
  latest,    \* latest[b]: the latest revision of the note of item b
  admitted,  \* the calls that wait and have been admitted
  projectState, editionState

vars == <<command, answer, bound, latest, admitted, projectState, editionState>>

Commands == [op : {"add"}, edition : Editions]
              \cup [op : {"remove", "create", "get"}, item : Calls]
              \cup [op : {"append"}, item : Calls, base : Calls]

Waits(c, ops) == command[c] # None /\ answer[c] = None /\ command[c].op \in ops
Item(c) == command[c].item
Edition(c) == IF command[c].op = "add" THEN command[c].edition ELSE command[Item(c)].edition
Bound(b) == \E e \in Editions : bound[e] = b

\* What must be active for c: notes can be read in an archived project, and items
\* of an archived edition removed.
Active(c) ==
  /\ command[c].op # "get" => projectState = "ACTIVE"
  /\ command[c].op # "remove" => editionState[Edition(c)] = "ACTIVE"

Init ==
  /\ command = [c \in Calls |-> None]
  /\ answer = [c \in Calls |-> None]
  /\ bound = [e \in Editions |-> None]
  /\ latest = [b \in Calls |-> None]
  /\ admitted = {}
  /\ projectState = "ACTIVE"
  /\ editionState = [e \in Editions |-> "ACTIVE"]

Ask(c) ==
  /\ command[c] = None
  /\ \E m \in Commands : command' = [command EXCEPT ![c] = m]
  /\ UNCHANGED <<answer, bound, latest, admitted, projectState, editionState>>

\* An adder is admitted when somebody else has bound its edition.
Admit(c) ==
  /\ \/ Waits(c, {"add"}) /\ bound[Edition(c)] # None
     \/ Waits(c, {"create", "append", "get"}) /\ Bound(Item(c))
  /\ Active(c)
  /\ admitted' = admitted \cup {c}
  /\ UNCHANGED <<command, answer, bound, latest, projectState, editionState>>

Tell(c, kind) ==
  /\ answer' = [answer EXCEPT ![c] = kind]
  /\ admitted' = admitted \ {c}
  /\ UNCHANGED <<command, projectState, editionState>>

\* Done, which the caller may never learn: a 503 does not say that nothing was done.
Done(c, kind) == Tell(c, kind) \/ Tell(c, "unavailable")

Bind(c) ==
  /\ Waits(c, {"add"}) /\ Active(c) /\ bound[Edition(c)] = None
  /\ bound' = [bound EXCEPT ![Edition(c)] = c]
  /\ Done(c, "created")
  /\ UNCHANGED latest

\* An item is removed once, and never from under its note.
Unbind(c) ==
  /\ Waits(c, {"remove"}) /\ Bound(Item(c)) /\ latest[Item(c)] = None
  /\ bound' = [e \in Editions |-> IF bound[e] = Item(c) THEN None ELSE bound[e]]
  /\ Done(c, "removed")
  /\ UNCHANGED latest

\* A revision replaces the one its author had seen; the first one replaces nothing.
Write(c) ==
  /\ \/ Waits(c, {"create"}) /\ latest[Item(c)] = None
     \/ Waits(c, {"append"}) /\ latest[Item(c)] = command[c].base
  /\ c \in admitted /\ Bound(Item(c))
  /\ latest' = [latest EXCEPT ![Item(c)] = c]
  /\ Done(c, "created")
  /\ UNCHANGED bound

\* Nothing to do, or only to read.
Report(c) ==
  /\ c \in admitted
  /\ \/ Waits(c, {"add"}) /\ Tell(c, "existing")
     \/ Waits(c, {"get"}) /\ Tell(c, "found")
  /\ UNCHANGED <<bound, latest>>

Deny(c) ==
  /\ \/ Waits(c, {"remove", "create", "append", "get"}) /\ ~ Bound(Item(c)) /\ Tell(c, "notFound")
     \/ Waits(c, {"append"}) /\ latest[Item(c)] = None /\ Tell(c, "notFound")
     \/ Waits(c, {"add", "remove", "create", "append", "get"}) /\ ~ Active(c) /\ Tell(c, "readOnly")
     \/ Waits(c, {"remove"}) /\ latest[Item(c)] # None /\ Tell(c, "hasNote")
     \/ Waits(c, {"create"}) /\ latest[Item(c)] # None /\ Tell(c, "exists")
     \/ Waits(c, {"append"}) /\ latest[Item(c)] \notin {None, command[c].base} /\ Tell(c, "stale")
     \/ Waits(c, {"add", "remove", "create", "append", "get"}) /\ Tell(c, "unavailable")
  /\ UNCHANGED <<bound, latest>>

Archive ==
  /\ \/ projectState' = "ARCHIVED" /\ UNCHANGED editionState
     \/ \E e \in Editions : editionState' = [editionState EXCEPT ![e] = "ARCHIVED"]
        /\ UNCHANGED projectState
  /\ UNCHANGED <<command, answer, bound, latest, admitted>>

Next ==
  \/ \E c \in Calls : Ask(c) \/ Admit(c) \/ Bind(c) \/ Unbind(c) \/ Write(c) \/ Report(c) \/ Deny(c)
  \/ Archive

Spec == Init /\ [][Next]_vars
=============================================================================
