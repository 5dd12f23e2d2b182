---------------------------- MODULE ResearchRuns ----------------------------
(***************************************************************************)
(* Research runs, from the buttons of the browser to the rows of the       *)
(* database.  One browser tab shows one research issue.  Four components   *)
(* of that page post commands: the start composer, the terminal actions    *)
(* and the replay composer of the run whose detail is open, and the notice *)
(* above the history that retries a pending action of a run that is not on *)
(* the first page.  A command is sealed in a receipt, with a random        *)
(* Idempotency-Key, before it is posted.  There are two slots for such     *)
(* receipts, one for starts and one for all actions, each a variable of    *)
(* the page backed by session storage; a component also keeps the receipt  *)
(* it works with in its own state.                                         *)
(*                                                                         *)
(* The server runs each command in one SERIALIZABLE transaction, retried   *)
(* on serialization failures.  Module IssueResolutions takes such a        *)
(* transaction statement by statement; here it is one step, which either   *)
(* commits whole or changes nothing.  Requests may be executed late,       *)
(* replies may be lost, the page may be left or reloaded at any time, and  *)
(* other tabs or devices of the same owner post commands of their own.     *)
(*                                                                         *)
(* A call that creates a run stands for the run: the service draws one     *)
(* random id per call.  A key stands for its receipt.                      *)
(***************************************************************************)
EXTENDS FiniteSets

CONSTANTS Calls,   \* POST requests, each with the run id drawn for it
          Old,     \* runs that exist at the beginning
          Keys,    \* random Idempotency-Keys this tab may draw
          Bodies,  \* what a form may say: plan, evidence snapshot, output
          None,
          Unread   \* memoryReceipt = undefined: session storage not read yet

VARIABLES
  status,   \* core.research_runs.status, None where there is no run
  parent,   \* core.research_runs.replay_of
  receipts, \* completed rows of ops.idempotency_keys
  writable, \* the project is ACTIVE and the issue is not ARCHIVED
  posted,   \* posted[c]: key, command and component of a request, or None
  answer,   \* answer[c]: what the server answered, None while it has not
  origin,   \* what became of the component that posted c; "timer" when it has
            \* shown the success of a start and will close the form, "over"
            \* once nothing waits any more
  sealed,   \* sealed[k]: the command of the receipt with key k
  memory, stored, \* the two slots: memoryReceipt and the sessionStorage item
  ui,       \* the state of each component
  pend,     \* pendingReceipt of the terminal actions and the replay composer
  view,     \* the run whose detail is open
  prop,     \* the pending action of that run when its detail was opened
  seen,     \* the loaded detail shows an ended run
  offPage,  \* offPagePending: the run whose pending action the notice offers
  reload    \* a reload of the history and the detail is under way

serverVars == <<status, parent, receipts, writable>>
slotVars == <<sealed, memory, stored>>
pageVars == <<ui, pend, view, prop, seen, offPage, reload>>
vars == <<serverVars, posted, answer, origin, slotVars, pageVars>>

RunIds == Old \cup Calls
Ending == {"COMPLETE", "FAIL", "CANCEL"}
Creating == {"START", "REPLAY"}
Terminal == {"SUCCEEDED", "FAILED", "CANCELLED"}

\* Wrong on purpose, as is every Wrong... below: the action itself is stored.
WrongStatusOf(op) ==
  CASE op = "COMPLETE" -> "SUCCEEDED" [] op = "FAIL" -> "FAILED" [] OTHER -> op

\* The status an action ends a run with.
StatusOf(op) ==
  CASE op = "COMPLETE" -> "SUCCEEDED" [] op = "FAIL" -> "FAILED" [] OTHER -> "CANCELLED"

\* run is the run in the path, or replayOf of a start; failing and cancelling
\* send no output.
Command ==
  {m \in [op : Creating \cup Ending, run : RunIds \cup {None}, body : Bodies \cup {None}] :
     /\ m.run = None => m.op = "START"
     /\ m.body = None <=> m.op \in {"FAIL", "CANCEL"}}

\* The idempotency scope: action and run are part of it, replayOf is not; all
\* the rest of the command is in the request hash.
ScopeOf(m) == <<m.op, IF m.op = "START" THEN None ELSE m.run>>

Slots == {"start", "action"}
Components == {"start", "end", "replay", "history"}
SlotOf(o) == IF o = "start" THEN "start" ELSE "action"

\* "refused" stands for the definite 400, 404 and 409 answers; "unavailable"
\* for every 5xx; "signedOut" for 401 and 403, given before the handler runs;
\* "lost" for a request that fails in the network.
Success == [kind : {"created", "replayed"}, run : RunIds]
Failure == [kind : {"refused", "conflict", "unavailable", "signedOut", "lost"}, run : {None}]
Error(kind) == [kind |-> kind, run |-> None]
Answers == Success \cup Failure
Succeeded(a) == a # None /\ a.kind \in {"created", "replayed"}

Requests == [key : Keys \cup Calls, command : Command, by : Components \cup {"elsewhere"}]
Receipts == [command : Command, key : Keys \cup Calls, run : RunIds]

\* "ready" covers idle, open forms and success; "over" a composer that shows its
\* last message and offers nothing more until it is mounted again.
UiStates == {"ready", "busy", "unsure", "conflict", "over"}

ASSUME NoneIsNothing ==
  /\ Calls \cap (Old \cup Keys) = {}
  /\ None \notin RunIds \cup Keys \cup Bodies
  /\ None \notin Terminal \cup {"RUNNING"}
  /\ None \notin Command \cup Requests \cup Answers
  /\ Unread \notin Keys \cup {None}

TypeOK ==
  /\ status \in [RunIds -> Terminal \cup {"RUNNING", None}]
  /\ parent \in [RunIds -> RunIds \cup {None}]
  /\ receipts \subseteq Receipts
  /\ writable \in BOOLEAN
  /\ posted \in [Calls -> Requests \cup {None}]
  /\ answer \in [Calls -> Answers \cup {None}]
  /\ origin \in [Calls -> {"mounted", "unmounted", "timer", "over"}]
  /\ sealed \in [Keys -> Command \cup {None}]
  /\ memory \in [Slots -> Keys \cup {None, Unread}]
  /\ stored \in [Slots -> Keys \cup {None}]
  /\ ui \in [Components -> UiStates]
  /\ pend \in [{"end", "replay"} -> Keys \cup {None}]
  /\ view \in RunIds \cup {None}
  /\ prop \in Keys \cup {None}
  /\ seen \in BOOLEAN
  /\ offPage \in RunIds \cup {None}
  /\ reload \in BOOLEAN

\* The page has been opened in a new tab.
Init ==
  /\ status \in {f \in [RunIds -> {"RUNNING", "SUCCEEDED", None}] :
                   \A r \in RunIds : f[r] = None <=> r \in Calls}
  /\ parent = [r \in RunIds |-> None]
  /\ receipts = {}
  /\ writable = TRUE
  /\ posted = [c \in Calls |-> None]
  /\ answer = [c \in Calls |-> None]
  /\ origin = [c \in Calls |-> "mounted"]
  /\ sealed = [k \in Keys |-> None]
  /\ memory = [s \in Slots |-> Unread]
  /\ stored = [s \in Slots |-> None]
  /\ ui = [o \in Components |-> "ready"]
  /\ pend = [o \in {"end", "replay"} |-> None]
  /\ view = None
  /\ prop = None
  /\ seen = FALSE
  /\ offPage = None
  /\ reload = TRUE

-----------------------------------------------------------------------------
(* The server: one transaction per command. *)

Ended(r) == r # None /\ status[r] \in Terminal

\* Wrong: a run may be replayed while it is running.
WrongReplaysAnyRun(m) ==
  /\ m.op \in Ending => status[m.run] = "RUNNING"
  /\ m.op = "REPLAY" => status[m.run] # None
  /\ m.op = "START" /\ m.run # None => Ended(m.run)

\* What a new write finds on the rows it locks: a run is ended while it is
\* RUNNING, a replay refers to an ended run.
Gate(m) ==
  /\ m.op \in Ending => status[m.run] = "RUNNING"
  /\ m.op = "REPLAY" => Ended(m.run)
  /\ m.op = "START" /\ m.run # None => Ended(m.run)

\* Wrong: receipts are looked up under the proposed run, as if every call had a
\* scope of its own, so a retry finds nothing.
WrongReceiptsByRun(c) == {x \in receipts : x.run = c}

\* The receipt that reserveReceipt collides with: same scope, same key.
ReceiptsOf(c) ==
  {x \in receipts : /\ ScopeOf(x.command) = ScopeOf(posted[c].command)
                    /\ x.key = posted[c].key}

Pending(c) == posted[c] # None /\ answer[c] = None

Answer(c, a) ==
  /\ answer' = [answer EXCEPT ![c] = a]
  /\ UNCHANGED <<posted, origin, slotVars, pageVars>>

\* Wrong: the retry is answered with the run id drawn for it.
WrongReplayReceipt(c) ==
  /\ Pending(c)
  /\ \E x \in ReceiptsOf(c) :
       Answer(c, IF x.command = posted[c].command
                   THEN [kind |-> "replayed", run |-> c] ELSE Error("conflict"))
  /\ UNCHANGED serverVars

\* replayReceipt: a completed command answers before any gate of today; the same
\* key for another command of that scope is a conflict.
ReplayReceipt(c) ==
  /\ Pending(c)
  /\ \E x \in ReceiptsOf(c) :
       Answer(c, IF x.command = posted[c].command
                   THEN [kind |-> "replayed", run |-> x.run] ELSE Error("conflict"))
  /\ UNCHANGED serverVars

\* The gates of a new write refuse it, or the evidence or the objects its body
\* names are not available to the project.
RefuseNew(c) ==
  LET m == posted[c].command IN
  /\ Pending(c)
  /\ ReceiptsOf(c) = {}
  /\ ~ writable \/ ~ Gate(m) \/ m.body # None
  /\ Answer(c, Error("refused"))
  /\ UNCHANGED serverVars

\* start, replay: INSERT a RUNNING run and complete the receipt.  The reply to
\* COMMIT may be lost between the database and the service.
CreateRun(c) ==
  LET m == posted[c].command IN
  /\ Pending(c)
  /\ m.op \in Creating
  /\ ReceiptsOf(c) = {}
  /\ writable
  /\ Gate(m)
  /\ status' = [status EXCEPT ![c] = "RUNNING"]
  /\ parent' = [parent EXCEPT ![c] = m.run]
  /\ receipts' = receipts \cup {[command |-> m, key |-> posted[c].key, run |-> c]}
  /\ UNCHANGED writable
  /\ \E a \in {[kind |-> "created", run |-> c], Error("unavailable")} : Answer(c, a)

\* transition: UPDATE the run WHERE status = 'RUNNING' and complete the receipt.
EndRun(c) ==
  LET m == posted[c].command IN
  /\ Pending(c)
  /\ m.op \in Ending
  /\ ReceiptsOf(c) = {}
  /\ writable
  /\ Gate(m)
  /\ status' = [status EXCEPT ![m.run] = StatusOf(m.op)]
  /\ receipts' = receipts \cup {[command |-> m, key |-> posted[c].key, run |-> m.run]}
  /\ UNCHANGED <<parent, writable>>
  /\ \E a \in {[kind |-> "created", run |-> m.run], Error("unavailable")} : Answer(c, a)

\* Nothing is written: the session has expired, or the transaction was rolled
\* back for good (three serialization failures, a broken connection, a row that
\* fails a check).
AnswerNothingDone(c) ==
  /\ Pending(c)
  /\ \E kind \in {"signedOut", "unavailable"} : Answer(c, Error(kind))
  /\ UNCHANGED serverVars

Archive ==
  /\ writable
  /\ writable' = FALSE
  /\ UNCHANGED <<status, parent, receipts, posted, answer, origin, slotVars, pageVars>>

Serve(c) == ReplayReceipt(c) \/ RefuseNew(c) \/ CreateRun(c) \/ EndRun(c) \/ AnswerNothingDone(c)

-----------------------------------------------------------------------------
(* The receipt slots of the page. *)

\* loadPending...Receipt: what the slot holds, and the slot once it was read.
Held(s) == IF memory[s] = Unread THEN stored[s] ELSE memory[s]
Loaded == [s \in Slots |-> IF Held(s) # None THEN Held(s) ELSE memory[s]]

\* clearPending...Receipt, with the tombstone in memory.
Clear(s) ==
  /\ memory' = [memory EXCEPT ![s] = None]
  /\ stored' = [stored EXCEPT ![s] = None]
  /\ UNCHANGED sealed

\* Wrong: whatever receipt is pending serves the new intent.
WrongSeal(s, m, k) ==
  \/ /\ Held(s) = None
     /\ sealed[k] = None
     /\ sealed' = [sealed EXCEPT ![k] = m]
     /\ memory' = [memory EXCEPT ![s] = k]
     /\ stored' = [stored EXCEPT ![s] = k]
  \/ /\ Held(s) = k
     /\ memory' = [memory EXCEPT ![s] = k]
     /\ UNCHANGED <<sealed, stored>>

\* getOrCreate...Receipt: a pending receipt is reused for the same intent only; a
\* new one is sealed, with a fresh key, when none is pending.
Seal(s, m, k) ==
  \/ /\ Held(s) = None
     /\ sealed[k] = None
     /\ sealed' = [sealed EXCEPT ![k] = m]
     /\ memory' = [memory EXCEPT ![s] = k]
     /\ stored' = [stored EXCEPT ![s] = k]
  \/ /\ Held(s) = k
     /\ sealed[k] = m
     /\ memory' = [memory EXCEPT ![s] = k]
     /\ UNCHANGED <<sealed, stored>>

\* ... or Pending...IntentConflictError.
IntentConflict(o, m) ==
  LET s == SlotOf(o) IN
  /\ Held(s) # None
  /\ sealed[Held(s)] # m
  /\ memory' = Loaded
  /\ ui' = [ui EXCEPT ![o] = "conflict"]
  /\ UNCHANGED <<serverVars, posted, answer, origin, sealed, stored,
                 pend, view, prop, seen, offPage, reload>>

-----------------------------------------------------------------------------
(* The components post commands. *)

Send(c, o, k, m) ==
  /\ posted[c] = None
  /\ posted' = [posted EXCEPT ![c] = [key |-> k, command |-> m, by |-> o]]
  /\ UNCHANGED <<serverVars, answer, origin, view, prop, seen, offPage, reload>>

StartForm(b) == [op |-> "START", run |-> None, body |-> b]
ReplayForm(b) == [op |-> "REPLAY", run |-> view, body |-> b]
EndForms == {[op |-> "COMPLETE", run |-> view, body |-> b] : b \in Bodies}
              \cup {[op |-> op, run |-> view, body |-> None] : op \in {"FAIL", "CANCEL"}}

\* What the three forms offer: the start button unless a submission is under way,
\* the terminal actions of a running run (a form left open may outlive the run, where
\* a pending action keeps the composer), the replay of an ended one (its form can be
\* closed and opened again while it submits).
Offered(o) ==
  CASE o = "start" -> IF ui[o] # "busy" THEN {StartForm(b) : b \in Bodies} ELSE {}
    [] o = "end" -> IF view # None /\ (~ seen \/ prop # None) /\ ui[o] = "ready"
                      THEN EndForms ELSE {}
    [] o = "replay" -> IF view # None /\ seen /\ ui[o] \in {"ready", "busy"}
                         THEN {ReplayForm(b) : b \in Bodies} ELSE {}
    [] OTHER -> {}

Submit(c, o, m, k) ==
  /\ m \in Offered(o)
  /\ Seal(SlotOf(o), m, k)
  /\ Send(c, o, k, m)
  /\ ui' = [ui EXCEPT ![o] = "busy"]
  /\ pend' = IF o = "start" THEN pend ELSE [pend EXCEPT ![o] = k]

SubmitConflicts(o, m) == m \in Offered(o) /\ IntentConflict(o, m)

\* Retry with the same key: the receipt is the component's own, its command is
\* posted as it was sealed.  (The retry of the start composer is its submit.)
Retry(c, o, k) ==
  /\ o \in {"end", "replay"}
  /\ pend[o] = k
  /\ k # None
  /\ sealed[k].run = view
  /\ IF o = "end" THEN sealed[k].op \in Ending /\ ui[o] \in {"ready", "unsure"}
                  ELSE sealed[k].op = "REPLAY" /\ ui[o] = "unsure"
  /\ Send(c, o, k, sealed[k])
  /\ ui' = [ui EXCEPT ![o] = "busy"]
  /\ UNCHANGED <<slotVars, pend>>

\* The user gives an unconfirmed submission up.
Discard(o) ==
  /\ o # "history"
  /\ ui[o] \in {"unsure", "conflict"}
  /\ Clear(SlotOf(o))
  /\ ui' = [ui EXCEPT ![o] = "ready"]
  /\ pend' = IF o = "start" THEN pend ELSE [pend EXCEPT ![o] = None]
  /\ UNCHANGED <<serverVars, posted, answer, origin, view, prop, seen, offPage, reload>>

\* retryOffPagePending: every action but COMPLETE and FAIL, a replay included, is
\* sent as a cancellation, with the key of the receipt.
RetryOffPage(c, k) ==
  /\ offPage # None
  /\ ui["history"] = "ready"
  /\ Held("action") = k
  /\ k # None
  /\ sealed[k].run = offPage
  /\ Send(c, "history", k,
          IF sealed[k].op \in {"COMPLETE", "FAIL"} THEN sealed[k]
          ELSE [op |-> "CANCEL", run |-> offPage, body |-> None])
  /\ memory' = Loaded
  /\ ui' = [ui EXCEPT !["history"] = "busy"]
  /\ UNCHANGED <<sealed, stored, pend>>

\* Another tab or device of the owner, or a script; it never repeats a key.
PostElsewhere(c) ==
  /\ \E m \in Command :
       /\ m.run \in {None} \cup {r \in RunIds : status[r] # None}
       /\ Send(c, "elsewhere", c, m)
  /\ UNCHANGED <<slotVars, ui, pend>>

-----------------------------------------------------------------------------
(* The components hear of the outcome. *)

\* What the request ends with in the browser: the answer, or an error of the
\* network or of a proxy, before or after the server executes it.
Tellable(c) == {Error("lost"), Error("unavailable")} \cup ({answer[c]} \ {None})

\* Which results the component takes as settled, so that it clears the slot.
Settles(o, a) ==
  IF o = "history" THEN a.kind # "unavailable"
  ELSE Succeeded(a) \/ a.kind \in {"refused", "signedOut"}

UiAfter(o, a) ==
  CASE o = "history" -> IF Settles(o, a) THEN "ready" ELSE "unsure"
    [] a.kind = "conflict" -> "conflict"
    [] ~ Settles(o, a) -> "unsure"
    [] o = "start" \/ (o = "end" /\ Succeeded(a)) -> "ready"
    [] OTHER -> "over"

\* The continuation of the request runs.  It clears the slot of its kind even when
\* its component is gone, and changes the state of the component if it is not.
Hear(c) ==
  /\ posted[c] # None
  /\ posted[c].by # "elsewhere"
  /\ origin[c] \in {"mounted", "unmounted"}
  /\ \E a \in Tellable(c) :
       LET o == posted[c].by
           mounted == origin[c] = "mounted"
       IN
       /\ origin' = [origin EXCEPT ![c] =
                       IF o = "start" /\ mounted /\ Succeeded(a) THEN "timer" ELSE "over"]
       /\ IF Settles(o, a) THEN Clear(SlotOf(o)) ELSE UNCHANGED slotVars
       /\ ui' = IF mounted THEN [ui EXCEPT ![o] = UiAfter(o, a)] ELSE ui
       /\ pend' = IF mounted /\ Settles(o, a) /\ o \in {"end", "replay"}
                    THEN [pend EXCEPT ![o] = None] ELSE pend
       /\ offPage' = IF o = "history" /\ mounted /\ Settles(o, a) THEN None ELSE offPage
       /\ reload' = (\/ reload
                     \/ Succeeded(a)
                     \/ o = "history" /\ Settles(o, a)
                     \/ o = "end" /\ a.kind = "refused")
  /\ UNCHANGED <<serverVars, posted, answer, view, prop, seen>>

\* 1600 ms after a start succeeded its form is reset and closed, whatever it was
\* used for in the meantime.
CloseForm(c) ==
  /\ origin[c] = "timer"
  /\ origin' = [origin EXCEPT ![c] = "over"]
  /\ ui' = [ui EXCEPT !["start"] = "ready"]
  /\ UNCHANGED <<serverVars, posted, answer, slotVars, pend, view, prop, seen, offPage, reload>>

-----------------------------------------------------------------------------
(* The page is read, left and opened again. *)

\* The composers in the detail of run r: the terminal actions of a running run, or
\* of one opened with a pending action, and the replay of an ended run.
Shown(r, p, ended) ==
  {o \in {"end", "replay"} : r # None /\ IF o = "end" THEN ~ ended \/ p # None ELSE ended}

\* The pending action, if it is one of run r.
PendingOf(r) ==
  IF r # None /\ Held("action") # None /\ sealed[Held("action")].run = r
    THEN Held("action") ELSE None

\* The receipt a composer begins with: what the detail was opened with, else what
\* is pending now.
Restored(o) ==
  IF prop' # None THEN prop'
  ELSE IF o = "replay" /\ PendingOf(view') # None /\ sealed[PendingOf(view')].op # "REPLAY"
         THEN None ELSE PendingOf(view')

Unmount(gone, as) ==
  origin' = [c \in Calls |->
               IF posted[c] # None /\ posted[c].by \in gone /\ origin[c] # "over"
                 THEN IF origin[c] = "timer" THEN "over" ELSE as
                 ELSE origin[c]]

\* The composers of the detail as it is now: some stay, the others begin anew.
Mount(stay) ==
  /\ pend' = [o \in {"end", "replay"} |->
                CASE o \in stay -> pend[o]
                  [] o \in Shown(view', prop', seen') \ stay -> Restored(o)
                  [] OTHER -> None]
  /\ ui' = [o \in Components |->
              CASE o \in {"start", "history"} \cup stay -> ui[o]
                [] o = "replay" /\ pend'[o] # None -> "unsure"
                [] OTHER -> "ready"]
  /\ memory' = Loaded
  /\ Unmount({"end", "replay"} \ stay, "unmounted")

\* The history and the open detail are read again, and all composers mounted again
\* if that took a second attempt.  Newer runs may have pushed the open run, or the
\* run of the pending action, off the first page.
Refresh ==
  /\ reload
  /\ reload' = FALSE
  /\ view' \in {view, None}
  /\ prop' = IF view' = None THEN None ELSE prop
  /\ seen' = Ended(view')
  /\ offPage' \in {None} \cup {sealed[k].run : k \in {Held("action")} \ {None}}
  /\ view' # None => offPage' # view'
  /\ \E stay \in {{}, Shown(view, prop, seen) \cap Shown(view', prop', seen')} : Mount(stay)
  /\ UNCHANGED <<serverVars, posted, answer, sealed, stored>>

\* The user opens the detail of a run, or closes it.
Show(r) ==
  /\ r # view
  /\ r \in {None} \cup {x \in RunIds : status[x] # None}
  /\ view' = r
  /\ prop' = PendingOf(r)
  /\ seen' = Ended(r)
  /\ Mount({})
  /\ UNCHANGED <<serverVars, posted, answer, sealed, stored, offPage, reload>>

\* The user leaves the issue and comes back, within the application or by a reload
\* of the page, which ends the continuations and forgets the memory of the slots.
Return(as) ==
  /\ view' = None
  /\ prop' = None
  /\ seen' = FALSE
  /\ offPage' = None
  /\ reload' = TRUE
  /\ Unmount(Components, as)
  /\ memory' = IF as = "over" THEN [s \in Slots |-> Unread] ELSE Loaded
  /\ ui' = [o \in Components |->
              IF o = "start" /\ (IF as = "over" THEN stored[o] ELSE Held(o)) # None
                THEN "unsure" ELSE "ready"]
  /\ pend' = [o \in {"end", "replay"} |-> None]
  /\ UNCHANGED <<serverVars, posted, answer, sealed, stored>>

User ==
  \/ \E c \in Calls, o \in Components, k \in Keys :
       \/ \E m \in Offered(o) : Submit(c, o, m, k)
       \/ Retry(c, o, k)
       \/ RetryOffPage(c, k)
  \/ \E o \in Components : Discard(o) \/ \E m \in Offered(o) : SubmitConflicts(o, m)
  \/ \E r \in RunIds \cup {None} : Show(r)
  \/ \E as \in {"unmounted", "over"} : Return(as)

Next ==
  \/ User
  \/ \E c \in Calls : Serve(c) \/ Hear(c) \/ CloseForm(c) \/ PostElsewhere(c)
  \/ Refresh
  \/ Archive

Spec == Init /\ [][Next]_vars
-----------------------------------------------------------------------------
(* Correctness. *)

\* Whatever is repeated, delayed or reloaded, a key has at most one effect, and
\* each run that was created has the receipt of the call that created it.
KeysActOnce ==
  /\ \A x, y \in receipts : x.key = y.key => x = y
  /\ \A c \in Calls : status[c] # None =>
       \E x \in receipts : x.run = c /\ x.key = posted[c].key /\ x.command = posted[c].command
                           /\ x.command.op \in Creating

\* What a client was told stays true: the run it was given exists, made by this
\* very command under this key, or still ended the way it asked.
AnswersStayTrue ==
  \A c \in Calls : Succeeded(answer[c]) =>
    LET m == posted[c].command
        r == answer[c].run
    IN IF m.op \in Ending
         THEN r = m.run /\ status[r] = StatusOf(m.op)
         ELSE /\ r \in Calls
              /\ status[r] # None
              /\ posted[r].command = m
              /\ posted[r].key = posted[c].key
              /\ parent[r] = m.run

\* A run refers to one that had ended, and that stays ended: no two commands can
\* bring an ended run back, whichever comes first.
ReplaysFollowEndedRuns == \A r \in RunIds : parent[r] # None => Ended(parent[r])

\* This tab never answers for one key with two commands: no call of it is told
\* IDEMPOTENCY_CONFLICT, however its forms, retries and reloads interleave.
NoKeyConflicts ==
  \A c \in Calls : answer[c] # None => answer[c].kind # "conflict"

\* The server has answered a call that carried the command sealed under k.
Judged(k) ==
  \E c \in Calls : /\ posted[c] # None
                   /\ posted[c].key = k
                   /\ posted[c].command = sealed[k]
                   /\ answer[c] # None

\* A receipt leaves its slot only after the server has judged it, unless the user
\* gives it up: "Definitive outcome (already terminal / conflict / invalid)".
KeptUntilJudged ==
  [][\A s \in Slots, k \in Keys :
       Held(s) = k /\ Held(s)' # k
         => Judged(k) \/ \E o \in Components : Discard(o)]_vars
=============================================================================
