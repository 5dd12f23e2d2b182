------------------------- MODULE ResearchRunsProofs -------------------------
(***************************************************************************)
(* Proofs about ResearchRuns, for every set of requests, runs, keys and    *)
(* forms.                                                                  *)
(***************************************************************************)
EXTENDS ResearchRuns, TLAPS

-----------------------------------------------------------------------------
(* The inductive invariant. *)

\* What the notice above the history makes of a pending replay.
Cancellation(m) == [op |-> "CANCEL", run |-> m.run, body |-> None]

\* Whoever posts a key of this tab posts the command sealed under it, or cancels
\* the run that it replays.
RequestsAreSealed ==
  \A c \in Calls : posted[c] # None =>
    \/ posted[c].key = c
    \/ \E k \in Keys :
         /\ posted[c].key = k
         /\ sealed[k] # None
         /\ \/ posted[c].command = sealed[k]
            \/ sealed[k].op = "REPLAY" /\ posted[c].command = Cancellation(sealed[k])

\* A replay is sealed for a run that has ended.
SealedReplaysFollow ==
  \A k \in Keys : sealed[k] # None /\ sealed[k].op = "REPLAY" => Ended(sealed[k].run)

\* The start form of this tab starts no replays.
SealedForms ==
  \A k \in Keys : sealed[k] # None /\ sealed[k].op = "START" => sealed[k].run = None

\* The slots and the components hold keys of sealed commands.
SlotsAreSealed ==
  /\ \A s \in Slots : /\ stored[s] # None => sealed[stored[s]] # None
                      /\ memory[s] \in Keys => sealed[memory[s]] # None
  /\ \A o \in {"end", "replay"} : pend[o] # None => sealed[pend[o]] # None
  /\ prop # None => sealed[prop] # None
  /\ offPage # None => offPage \in RunIds

\* The loaded detail shows an ended run only if the run has ended.
ViewIsTrue == seen => Ended(view)

ClientInv ==
  /\ RequestsAreSealed
  /\ SealedReplaysFollow
  /\ SealedForms
  /\ SlotsAreSealed
  /\ ViewIsTrue

\* A request that was not posted has no effect and no answer, and a request that
\* has not been answered no effect.
NothingYet ==
  \A c \in Calls : /\ answer[c] # None => posted[c] # None
                   /\ status[c] # None => answer[c] # None

\* A receipt speaks of a request that was posted, and of what it did.
ReceiptsAreTrue ==
  \A x \in receipts :
    /\ \E c \in Calls : /\ posted[c] # None
                        /\ posted[c].key = x.key
                        /\ posted[c].command = x.command
    /\ x.key \in Keys => x.command = sealed[x.key]
    /\ x.command.op \in Creating =>
         /\ x.run \in Calls
         /\ status[x.run] # None
         /\ posted[x.run].command = x.command
         /\ posted[x.run].key = x.key
         /\ parent[x.run] = x.command.run
    /\ x.command.op \in Ending =>
         x.run = x.command.run /\ status[x.run] = StatusOf(x.command.op)

AnswersHaveReceipts ==
  \A c \in Calls : Succeeded(answer[c]) =>
    \E x \in receipts : /\ x.command = posted[c].command
                        /\ x.key = posted[c].key
                        /\ x.run = answer[c].run

ServerInv ==
  /\ NothingYet
  /\ ReceiptsAreTrue
  /\ AnswersHaveReceipts
  /\ KeysActOnce
  /\ ReplaysFollowEndedRuns
  /\ NoKeyConflicts

IInv == TypeOK /\ ClientInv /\ ServerInv

-----------------------------------------------------------------------------
(* Facts about the data. *)

LEMMA CommandFields ==
  ASSUME NEW m \in Command
  PROVE  /\ m.op \in Creating \cup Ending /\ m.run \in RunIds \cup {None}
         /\ m.body \in Bodies \cup {None} /\ m # None
         /\ m.run = None => m.op = "START"
         /\ m.body = None <=> m.op \in {"FAIL", "CANCEL"}
  BY NoneIsNothing DEF Command

LEMMA RequestFields ==
  ASSUME NEW q \in Requests
  PROVE  /\ q.key \in Keys \cup Calls /\ q.command \in Command
         /\ q.by \in Components \cup {"elsewhere"} /\ q # None
  BY NoneIsNothing DEF Requests

LEMMA ReceiptFields ==
  ASSUME NEW x \in Receipts
  PROVE  x.command \in Command /\ x.key \in Keys \cup Calls /\ x.run \in RunIds
  BY DEF Receipts

LEMMA NoneIsNoStatus ==
  /\ None \notin Terminal /\ None # "RUNNING" /\ "RUNNING" \notin Terminal
  /\ Creating \cap Ending = {}
  /\ \A op \in Ending : StatusOf(op) \in Terminal
  BY NoneIsNothing DEF Terminal, Creating, Ending, StatusOf

LEMMA AnswerFields ==
  /\ \A kind \in {"refused", "conflict", "unavailable", "signedOut", "lost"} :
       Error(kind) \in Answers /\ ~ Succeeded(Error(kind)) /\ Error(kind).kind = kind
  /\ \A kind \in {"created", "replayed"}, r \in RunIds :
       LET a == [kind |-> kind, run |-> r]
       IN  a \in Answers /\ Succeeded(a) /\ a.run = r /\ a.kind # "conflict"
  /\ None \notin Answers
<1>1. None \notin Answers
  BY NoneIsNothing
<1>2. ASSUME NEW kind \in {"refused", "conflict", "unavailable", "signedOut", "lost"}
      PROVE  Error(kind) \in Answers /\ ~ Succeeded(Error(kind)) /\ Error(kind).kind = kind
  BY DEF Error, Answers, Failure, Succeeded
<1>3. ASSUME NEW kind \in {"created", "replayed"}, NEW r \in RunIds
      PROVE  LET a == [kind |-> kind, run |-> r]
             IN  a \in Answers /\ Succeeded(a) /\ a.run = r /\ a.kind # "conflict"
  <2>1. [kind |-> kind, run |-> r] \in Answers
    BY DEF Answers, Success
  <2>2. QED
    BY <1>1, <2>1 DEF Succeeded
<1>4. QED
  BY <1>1, <1>2, <1>3

-----------------------------------------------------------------------------
(* What a step of one side leaves of the other. *)

\* An ended run stays ended and a run does not disappear.
RunsStay ==
  \A r \in RunIds : /\ status[r] \in Terminal => status'[r] = status[r]
                    /\ status[r] # None => status'[r] # None

LEMMA EndedStays ==
  ASSUME TypeOK, RunsStay, NEW r, r \in RunIds \cup {None}, Ended(r)
  PROVE  Ended(r)'
  BY DEF RunsStay, Ended

LEMMA ServerStepKeepsClientInv ==
  ASSUME TypeOK, ClientInv, RunsStay, UNCHANGED <<posted, slotVars, pageVars>>
  PROVE  ClientInv'
<1>1. UNCHANGED <<posted, sealed, memory, stored, pend, view, prop, seen, offPage>>
  BY DEF slotVars, pageVars
<1>2. RequestsAreSealed' /\ SealedForms' /\ SlotsAreSealed'
  BY <1>1 DEF ClientInv, RequestsAreSealed, SealedForms, SlotsAreSealed
<1>3. ViewIsTrue'
  BY <1>1, EndedStays DEF ClientInv, ViewIsTrue, TypeOK
<1>4. SealedReplaysFollow'
  <2>1. SUFFICES ASSUME NEW k \in Keys, sealed[k] # None, sealed[k].op = "REPLAY"
                 PROVE  Ended(sealed[k].run)'
    BY <1>1 DEF SealedReplaysFollow
  <2>2. sealed[k].run \in RunIds \cup {None}
    BY <2>1, CommandFields DEF TypeOK
  <2>3. Ended(sealed[k].run)
    BY <2>1 DEF ClientInv, SealedReplaysFollow
  <2>4. RunsStay /\ sealed'[k] = sealed[k]
    BY <1>1
  <2>5. QED
    BY <2>2, <2>3, <2>4, EndedStays DEF Ended
<1>5. QED
  BY <1>2, <1>3, <1>4 DEF ClientInv

\* Requests and seals are written once.
Extends ==
  /\ \A c \in Calls : posted[c] # None => posted'[c] = posted[c]
  /\ \A k \in Keys : sealed[k] # None => sealed'[k] = sealed[k]

LEMMA ClientStepKeepsServerInv ==
  ASSUME IInv, Extends, UNCHANGED <<serverVars, answer>>
  PROVE  ServerInv'
<1>1. UNCHANGED <<status, parent, receipts, answer>>
  BY DEF serverVars
<1>2. NothingYet'
  BY <1>1 DEF IInv, ServerInv, NothingYet, Extends
<1>3. ReceiptsAreTrue'
  <2>1. SUFFICES ASSUME NEW x \in receipts
                 PROVE  /\ \E c \in Calls : /\ posted'[c] # None
                                            /\ posted'[c].key = x.key
                                            /\ posted'[c].command = x.command
                        /\ x.key \in Keys => x.command = sealed'[x.key]
                        /\ x.command.op \in Creating =>
                             /\ posted'[x.run].command = x.command
                             /\ posted'[x.run].key = x.key
    BY <1>1 DEF IInv, ServerInv, ReceiptsAreTrue
  <2>2. x \in Receipts /\ x.command # None
    BY ReceiptFields, CommandFields DEF IInv, TypeOK
  <2>3. \E c \in Calls : /\ posted'[c] # None
                         /\ posted'[c].key = x.key
                         /\ posted'[c].command = x.command
    BY DEF IInv, ServerInv, ReceiptsAreTrue, Extends
  <2>4. x.key \in Keys => x.command = sealed'[x.key]
    BY <2>2 DEF IInv, ServerInv, ReceiptsAreTrue, Extends
  <2>5. ASSUME x.command.op \in Creating
        PROVE  posted'[x.run].command = x.command /\ posted'[x.run].key = x.key
    <3>1. x.run \in Calls /\ status[x.run] # None
      BY <2>5 DEF IInv, ServerInv, ReceiptsAreTrue
    <3>2. posted[x.run] # None
      BY <3>1 DEF IInv, ServerInv, NothingYet
    <3>3. QED
      BY <2>5, <3>1, <3>2 DEF IInv, ServerInv, ReceiptsAreTrue, Extends
  <2>6. QED
    BY <2>3, <2>4, <2>5
<1>4. AnswersHaveReceipts'
  <2>1. SUFFICES ASSUME NEW c \in Calls, Succeeded(answer[c])
                 PROVE  \E x \in receipts : /\ x.command = posted'[c].command
                                            /\ x.key = posted'[c].key
                                            /\ x.run = answer[c].run
    BY <1>1 DEF AnswersHaveReceipts, Succeeded
  <2>2. posted[c] # None
    BY <2>1 DEF IInv, ServerInv, NothingYet, Succeeded
  <2>3. QED
    BY <2>1, <2>2 DEF IInv, ServerInv, AnswersHaveReceipts, Extends
<1>5. KeysActOnce'
  <2>1. \A c \in Calls : status[c] # None => posted'[c] = posted[c]
    BY DEF IInv, ServerInv, NothingYet, Extends
  <2>2. QED
    BY <1>1, <2>1 DEF IInv, ServerInv, KeysActOnce
<1>6. ReplaysFollowEndedRuns' /\ NoKeyConflicts'
  BY <1>1 DEF IInv, ServerInv, ReplaysFollowEndedRuns, NoKeyConflicts, Ended
<1>7. QED
  BY <1>2, <1>3, <1>4, <1>5, <1>6 DEF ServerInv

-----------------------------------------------------------------------------
(* The slots and the requests of the page. *)

LEMMA HeldFacts ==
  ASSUME TypeOK, SlotsAreSealed, NEW s \in Slots
  PROVE  /\ Held(s) \in Keys \cup {None}
         /\ Held(s) # None => sealed[Held(s)] # None /\ sealed[Held(s)] \in Command
<1>1. Unread \notin Keys \cup {None} /\ None \notin Keys
  BY NoneIsNothing
<1>2. memory[s] \in Keys \cup {None, Unread} /\ stored[s] \in Keys \cup {None}
  BY DEF TypeOK
<1>3. Held(s) \in Keys \cup {None}
  BY <1>1, <1>2 DEF Held
<1>4. ASSUME Held(s) # None PROVE sealed[Held(s)] # None
  BY <1>1, <1>2, <1>4 DEF Held, SlotsAreSealed
<1>5. QED
  BY <1>3, <1>4 DEF TypeOK

LEMMA LoadedFacts ==
  ASSUME TypeOK, SlotsAreSealed, memory' = Loaded
  PROVE  /\ memory' \in [Slots -> Keys \cup {None, Unread}]
         /\ \A s \in Slots : memory'[s] \in Keys => sealed[memory'[s]] # None
<1>1. \A s \in Slots : Loaded[s] \in Keys \cup {None, Unread}
  BY HeldFacts DEF Loaded, TypeOK
<1>2. \A s \in Slots : Loaded[s] \in Keys => sealed[Loaded[s]] # None
  BY HeldFacts DEF Loaded, SlotsAreSealed
<1>3. QED
  BY <1>1, <1>2 DEF Loaded

LEMMA ClearFacts ==
  ASSUME TypeOK, SlotsAreSealed, NEW s \in Slots, Clear(s)
  PROVE  /\ memory' \in [Slots -> Keys \cup {None, Unread}]
         /\ stored' \in [Slots -> Keys \cup {None}]
         /\ sealed' = sealed
         /\ \A t \in Slots : /\ stored'[t] # None => sealed'[stored'[t]] # None
                             /\ memory'[t] \in Keys => sealed'[memory'[t]] # None
  BY NoneIsNothing DEF Clear, TypeOK, SlotsAreSealed

LEMMA SealFacts ==
  ASSUME TypeOK, SlotsAreSealed, NEW s \in Slots, NEW k \in Keys, NEW m \in Command,
         Seal(s, m, k)
  PROVE  /\ memory' \in [Slots -> Keys \cup {None, Unread}]
         /\ stored' \in [Slots -> Keys \cup {None}]
         /\ sealed' \in [Keys -> Command \cup {None}]
         /\ sealed'[k] = m
         /\ \A j \in Keys : sealed[j] # None => sealed'[j] = sealed[j]
         /\ \A j \in Keys : j # k => sealed'[j] = sealed[j]
         /\ \A t \in Slots : /\ stored'[t] # None => sealed'[stored'[t]] # None
                             /\ memory'[t] \in Keys => sealed'[memory'[t]] # None
<1>1. m # None
  BY CommandFields
<1>2. CASE /\ Held(s) = None
           /\ sealed[k] = None
           /\ sealed' = [sealed EXCEPT ![k] = m]
           /\ memory' = [memory EXCEPT ![s] = k]
           /\ stored' = [stored EXCEPT ![s] = k]
  BY <1>1, <1>2 DEF TypeOK, SlotsAreSealed
<1>3. CASE /\ Held(s) = k
           /\ sealed[k] = m
           /\ memory' = [memory EXCEPT ![s] = k]
           /\ UNCHANGED <<sealed, stored>>
  BY <1>1, <1>3 DEF TypeOK, SlotsAreSealed
<1>4. QED
  BY <1>2, <1>3 DEF Seal

LEMMA SendFacts ==
  ASSUME TypeOK, NEW c \in Calls, NEW o \in Components \cup {"elsewhere"},
         NEW k \in Keys \cup Calls, NEW m \in Command, Send(c, o, k, m)
  PROVE  /\ posted' \in [Calls -> Requests \cup {None}]
         /\ posted'[c] = [key |-> k, command |-> m, by |-> o]
         /\ \A d \in Calls : posted[d] # None => posted'[d] = posted[d]
         /\ \A d \in Calls : d # c => posted'[d] = posted[d]
         /\ UNCHANGED <<status, parent, receipts, writable, answer, origin, view, prop, seen,
                        offPage, reload>>
<1>1. [key |-> k, command |-> m, by |-> o] \in Requests
  BY DEF Requests
<1>2. QED
  BY <1>1 DEF TypeOK, Send, serverVars

LEMMA SendKeepsRequests ==
  ASSUME TypeOK, RequestsAreSealed,
         NEW c \in Calls, NEW o \in Components \cup {"elsewhere"},
         NEW k \in Keys \cup Calls, NEW m \in Command, Send(c, o, k, m),
         \A j \in Keys : sealed[j] # None => sealed'[j] = sealed[j],
         \/ k = c
         \/ /\ k \in Keys /\ sealed'[k] # None
            /\ m = sealed'[k] \/ (sealed'[k].op = "REPLAY" /\ m = Cancellation(sealed'[k]))
  PROVE  RequestsAreSealed'
<1>1. SUFFICES ASSUME NEW d \in Calls, posted'[d] # None
               PROVE  \/ posted'[d].key = d
                      \/ \E j \in Keys :
                           /\ posted'[d].key = j
                           /\ sealed'[j] # None
                           /\ \/ posted'[d].command = sealed'[j]
                              \/ /\ sealed'[j].op = "REPLAY"
                                 /\ posted'[d].command = Cancellation(sealed'[j])
  BY DEF RequestsAreSealed, Cancellation
<1>2. CASE d = c
  <2>1. posted'[d] = [key |-> k, command |-> m, by |-> o]
    BY <1>2, SendFacts
  <2>2. posted'[d].key = k /\ posted'[d].command = m
    BY <2>1
  <2>3. QED
    BY <1>2, <2>2
<1>3. CASE d # c
  <2>1. posted'[d] = posted[d] /\ posted[d] # None
    BY <1>1, <1>3, SendFacts
  <2>2. CASE posted[d].key = d
    BY <2>1, <2>2
  <2>3. CASE posted[d].key # d
    <3>1. PICK j \in Keys :
            /\ posted[d].key = j
            /\ sealed[j] # None
            /\ \/ posted[d].command = sealed[j]
               \/ sealed[j].op = "REPLAY" /\ posted[d].command = Cancellation(sealed[j])
      BY <2>1, <2>3 DEF RequestsAreSealed
    <3>2. sealed'[j] = sealed[j]
      BY <3>1
    <3>3. QED
      BY <2>1, <3>1, <3>2
  <2>4. QED
    BY <2>2, <2>3
<1>4. QED
  BY <1>2, <1>3

LEMMA OfferedFacts ==
  ASSUME TypeOK, ViewIsTrue, NEW o \in Components, NEW m \in Offered(o)
  PROVE  /\ m \in Command
         /\ m.op = "REPLAY" => Ended(m.run)
         /\ m.op = "START" => m.run = None
<1> USE NoneIsNothing
<1>1. CASE o = "start"
  BY <1>1 DEF Offered, StartForm, Command, Creating
<1>2. CASE o = "end"
  <2>1. m \in EndForms /\ view # None /\ view \in RunIds
    BY <1>2 DEF Offered, TypeOK
  <2>2. QED
    BY <2>1 DEF EndForms, Command, Ending
<1>3. CASE o = "replay"
  <2>1. (\E b \in Bodies : m = ReplayForm(b)) /\ seen = TRUE /\ view \in RunIds
    BY <1>3 DEF Offered, TypeOK
  <2>2. QED
    BY <2>1 DEF ReplayForm, Command, Creating, ViewIsTrue
<1>4. CASE o = "history"
  BY <1>4 DEF Offered
<1>5. QED
  BY <1>1, <1>2, <1>3, <1>4 DEF Components

-----------------------------------------------------------------------------
(* The steps of the page. *)

LEMMA SlotOfIsSlot == \A o : SlotOf(o) \in Slots
  BY DEF SlotOf, Slots

\* A step that posts nothing leaves the requests in order.
LEMMA RequestsStay ==
  ASSUME RequestsAreSealed, posted' = posted,
         \A j \in Keys : sealed[j] # None => sealed'[j] = sealed[j]
  PROVE  RequestsAreSealed'
<1>1. SUFFICES ASSUME NEW d \in Calls, posted[d] # None, posted[d].key # d
               PROVE  \E j \in Keys :
                        /\ posted[d].key = j
                        /\ sealed'[j] # None
                        /\ \/ posted[d].command = sealed'[j]
                           \/ /\ sealed'[j].op = "REPLAY"
                              /\ posted[d].command = Cancellation(sealed'[j])
  BY DEF RequestsAreSealed, Cancellation
<1>2. PICK j \in Keys :
        /\ posted[d].key = j
        /\ sealed[j] # None
        /\ \/ posted[d].command = sealed[j]
           \/ sealed[j].op = "REPLAY" /\ posted[d].command = Cancellation(sealed[j])
  BY <1>1 DEF RequestsAreSealed
<1>3. sealed'[j] = sealed[j]
  BY <1>2
<1>4. QED
  BY <1>2, <1>3

LEMMA SealedReplaysStay ==
  ASSUME SealedReplaysFollow, status' = status,
         \A j \in Keys : sealed'[j] # None =>
           sealed'[j] = sealed[j] \/ (sealed'[j].op = "REPLAY" => Ended(sealed'[j].run))
  PROVE  SealedReplaysFollow'
  BY DEF SealedReplaysFollow, Ended

\* A step that leaves the server, the seals and the slots alone, and posts nothing.
LEMMA PageStepKeepsIInv ==
  ASSUME IInv, UNCHANGED <<serverVars, posted, answer, sealed>>,
         TypeOK', SlotsAreSealed', ViewIsTrue'
  PROVE  IInv'
<1>1. Extends
  BY DEF Extends
<1>2. ServerInv'
  BY <1>1, ClientStepKeepsServerInv
<1>3. RequestsAreSealed'
  BY RequestsStay DEF IInv, ClientInv
<1>4. SealedReplaysFollow'
  BY SealedReplaysStay DEF IInv, ClientInv, serverVars
<1>5. SealedForms'
  BY DEF IInv, ClientInv, SealedForms
<1>6. QED
  BY <1>2, <1>3, <1>4, <1>5 DEF IInv, ClientInv

LEMMA SubmitKeepsIInv ==
  ASSUME IInv, NEW c \in Calls, NEW o \in Components, NEW k \in Keys,
         NEW m \in Offered(o), Submit(c, o, m, k)
  PROVE  IInv'
<1>1. TypeOK /\ RequestsAreSealed /\ SealedReplaysFollow /\ SlotsAreSealed /\ ViewIsTrue
  BY DEF IInv, ClientInv
<1>2. /\ m \in Command /\ m # None
      /\ m.op = "REPLAY" => Ended(m.run)
      /\ m.op = "START" => m.run = None
  BY <1>1, OfferedFacts, CommandFields
<1>3. Seal(SlotOf(o), m, k) /\ Send(c, o, k, m) /\ SlotOf(o) \in Slots
  BY SlotOfIsSlot DEF Submit
<1>4. /\ memory' \in [Slots -> Keys \cup {None, Unread}]
      /\ stored' \in [Slots -> Keys \cup {None}]
      /\ sealed' \in [Keys -> Command \cup {None}]
      /\ sealed'[k] = m
      /\ \A j \in Keys : sealed[j] # None => sealed'[j] = sealed[j]
      /\ \A j \in Keys : j # k => sealed'[j] = sealed[j]
      /\ \A t \in Slots : /\ stored'[t] # None => sealed'[stored'[t]] # None
                          /\ memory'[t] \in Keys => sealed'[memory'[t]] # None
  BY <1>1, <1>2, <1>3, SealFacts
<1>5. /\ posted' \in [Calls -> Requests \cup {None}]
      /\ \A d \in Calls : posted[d] # None => posted'[d] = posted[d]
      /\ UNCHANGED <<status, parent, receipts, writable, answer, origin, view, prop, seen,
                     offPage, reload>>
  BY <1>1, <1>2, <1>3, SendFacts
<1>6. /\ ui' \in [Components -> UiStates]
      /\ pend' \in [{"end", "replay"} -> Keys \cup {None}]
      /\ \A p \in {"end", "replay"} : pend'[p] = pend[p] \/ pend'[p] = k
  BY <1>1 DEF Submit, TypeOK, UiStates
<1>7. TypeOK'
  BY <1>1, <1>4, <1>5, <1>6 DEF TypeOK
<1>8. ServerInv'
  <2>1. Extends
    BY <1>4, <1>5 DEF Extends
  <2>2. UNCHANGED <<serverVars, answer>>
    BY <1>5 DEF serverVars
  <2>3. QED
    BY <2>1, <2>2, ClientStepKeepsServerInv
<1>9. RequestsAreSealed'
  BY <1>1, <1>2, <1>3, <1>4, SendKeepsRequests
<1>10. SealedReplaysFollow'
  BY <1>1, <1>2, <1>4, <1>5, SealedReplaysStay
<1>11. SlotsAreSealed'
  <2>1. \A p \in {"end", "replay"} : pend'[p] # None => sealed'[pend'[p]] # None
    BY <1>1, <1>2, <1>4, <1>6 DEF SlotsAreSealed, TypeOK
  <2>2. prop # None => sealed'[prop] # None
    BY <1>1, <1>4 DEF SlotsAreSealed, TypeOK
  <2>3. QED
    BY <1>1, <1>4, <1>5, <2>1, <2>2 DEF SlotsAreSealed
<1>12. ViewIsTrue'
  BY <1>1, <1>5 DEF ViewIsTrue, Ended
<1>13. SealedForms'
  BY <1>2, <1>4 DEF SealedForms, IInv, ClientInv
<1>14. QED
  BY <1>7, <1>8, <1>9, <1>10, <1>11, <1>12, <1>13 DEF IInv, ClientInv

LEMMA ConflictKeepsIInv ==
  ASSUME IInv, NEW o \in Components, NEW m \in Offered(o), SubmitConflicts(o, m)
  PROVE  IInv'
<1>1. TypeOK /\ SlotsAreSealed /\ ViewIsTrue
  BY DEF IInv, ClientInv
<1>2. UNCHANGED <<serverVars, posted, answer, origin, sealed, stored, pend, view, prop, seen,
                  offPage, reload>>
  BY DEF SubmitConflicts, IntentConflict
<1>3. /\ memory' \in [Slots -> Keys \cup {None, Unread}]
      /\ \A s \in Slots : memory'[s] \in Keys => sealed[memory'[s]] # None
  BY <1>1, LoadedFacts DEF SubmitConflicts, IntentConflict
<1>4. ui' \in [Components -> UiStates]
  BY <1>1 DEF SubmitConflicts, IntentConflict, TypeOK, UiStates
<1>5. TypeOK'
  BY <1>1, <1>2, <1>3, <1>4 DEF TypeOK, serverVars
<1>6. SlotsAreSealed' /\ ViewIsTrue'
  BY <1>1, <1>2, <1>3 DEF SlotsAreSealed, ViewIsTrue, Ended, serverVars
<1>7. QED
  BY <1>2, <1>5, <1>6, PageStepKeepsIInv

\* A request that is posted again, or cancels the run of a pending replay.
LEMMA RepostKeepsIInv ==
  ASSUME IInv, NEW c \in Calls, NEW o \in Components \cup {"elsewhere"},
         NEW k \in Keys \cup Calls, NEW m \in Command, Send(c, o, k, m),
         sealed' = sealed, stored' = stored,
         \/ k = c
         \/ /\ k \in Keys /\ sealed[k] # None
            /\ m = sealed[k] \/ (sealed[k].op = "REPLAY" /\ m = Cancellation(sealed[k])),
         memory' \in [Slots -> Keys \cup {None, Unread}],
         \A s \in Slots : memory'[s] \in Keys => sealed[memory'[s]] # None,
         ui' \in [Components -> UiStates], pend' = pend
  PROVE  IInv'
<1>1. TypeOK /\ RequestsAreSealed /\ SealedReplaysFollow /\ SlotsAreSealed /\ ViewIsTrue
  BY DEF IInv, ClientInv
<1>2. /\ posted' \in [Calls -> Requests \cup {None}]
      /\ \A d \in Calls : posted[d] # None => posted'[d] = posted[d]
      /\ UNCHANGED <<status, parent, receipts, writable, answer, origin, view, prop, seen,
                     offPage, reload>>
  BY <1>1, SendFacts
<1>3. TypeOK'
  BY <1>1, <1>2 DEF TypeOK
<1>4. ServerInv'
  <2>1. Extends
    BY <1>2 DEF Extends
  <2>2. UNCHANGED <<serverVars, answer>>
    BY <1>2 DEF serverVars
  <2>3. QED
    BY <2>1, <2>2, ClientStepKeepsServerInv
<1>5. RequestsAreSealed'
  BY <1>1, SendKeepsRequests
<1>6. SealedReplaysFollow'
  BY <1>1, <1>2, SealedReplaysStay
<1>7. SlotsAreSealed' /\ ViewIsTrue'
  BY <1>1, <1>2 DEF SlotsAreSealed, ViewIsTrue, Ended
<1>8. SealedForms'
  BY DEF IInv, ClientInv, SealedForms
<1>9. QED
  BY <1>3, <1>4, <1>5, <1>6, <1>7, <1>8 DEF IInv, ClientInv

LEMMA MemoryStays ==
  ASSUME TypeOK, SlotsAreSealed, UNCHANGED memory
  PROVE  /\ memory' \in [Slots -> Keys \cup {None, Unread}]
         /\ \A s \in Slots : memory'[s] \in Keys => sealed[memory'[s]] # None
  BY DEF TypeOK, SlotsAreSealed

LEMMA RetryKeepsIInv ==
  ASSUME IInv, NEW c \in Calls, NEW o \in Components, NEW k \in Keys, Retry(c, o, k)
  PROVE  IInv'
<1>1. TypeOK /\ SlotsAreSealed
  BY DEF IInv, ClientInv
<1>2. sealed[k] # None /\ sealed[k] \in Command
  BY <1>1 DEF Retry, SlotsAreSealed, TypeOK
<1>3. ui' \in [Components -> UiStates]
  BY <1>1 DEF Retry, TypeOK, UiStates
<1>4. Send(c, o, k, sealed[k]) /\ UNCHANGED <<sealed, stored, memory, pend>>
  BY DEF Retry, slotVars
<1>5. QED
  BY <1>1, <1>2, <1>3, <1>4, MemoryStays, RepostKeepsIInv

LEMMA RetryOffPageKeepsIInv ==
  ASSUME IInv, NEW c \in Calls, NEW k \in Keys, RetryOffPage(c, k)
  PROVE  IInv'
<1> DEFINE m == IF sealed[k].op \in {"COMPLETE", "FAIL"} THEN sealed[k]
                ELSE [op |-> "CANCEL", run |-> offPage, body |-> None]
<1>1. TypeOK /\ SlotsAreSealed /\ offPage # None
  BY DEF IInv, ClientInv, RetryOffPage
<1>2. "action" \in Slots /\ "history" \in Components
  BY DEF Slots, Components
<1>3. Held("action") = k /\ k # None /\ sealed[k].run = offPage
  BY DEF RetryOffPage
<1>4. sealed[k] # None /\ sealed[k] \in Command
  BY <1>1, <1>2, <1>3, HeldFacts
<1>5. m \in Command
  BY <1>1, <1>4 DEF TypeOK, Command, Ending
<1>6. Send(c, "history", k, m) /\ UNCHANGED <<sealed, stored, pend>> /\ memory' = Loaded
  BY DEF RetryOffPage
<1>7. ui' \in [Components -> UiStates]
  BY <1>1 DEF RetryOffPage, TypeOK, UiStates
<1>8. m = sealed[k] \/ (sealed[k].op = "REPLAY" /\ m = Cancellation(sealed[k]))
  <2>1. CASE sealed[k].op \in {"COMPLETE", "FAIL"}
    BY <2>1
  <2>2. CASE sealed[k].op = "REPLAY"
    BY <1>3, <2>2 DEF Cancellation
  <2>3. CASE sealed[k].op \notin {"COMPLETE", "FAIL", "REPLAY"}
    <3>1. sealed[k].op = "CANCEL" /\ sealed[k].body = None
      BY <1>1, <1>3, <1>4, <2>3, CommandFields DEF IInv, ClientInv, SealedForms, Creating, Ending
    <3>2. sealed[k] = [op |-> "CANCEL", run |-> offPage, body |-> None]
      BY <1>3, <1>4, <3>1 DEF Command
    <3>3. QED
      BY <2>3, <3>2
  <2>4. QED
    BY <2>1, <2>2, <2>3
<1>9. QED
  BY <1>1, <1>2, <1>4, <1>5, <1>6, <1>7, <1>8, LoadedFacts, RepostKeepsIInv

LEMMA PostElsewhereKeepsIInv ==
  ASSUME IInv, NEW c \in Calls, PostElsewhere(c)
  PROVE  IInv'
<1>1. TypeOK /\ SlotsAreSealed
  BY DEF IInv, ClientInv
<1>2. PICK m \in Command : Send(c, "elsewhere", c, m)
  BY DEF PostElsewhere
<1>3. UNCHANGED <<sealed, memory, stored, ui, pend>>
  BY DEF PostElsewhere, slotVars
<1>4. ui' \in [Components -> UiStates]
  BY <1>1, <1>3 DEF TypeOK
<1>5. QED
  BY <1>1, <1>2, <1>3, <1>4, MemoryStays, RepostKeepsIInv

LEMMA DiscardKeepsIInv ==
  ASSUME IInv, NEW o \in Components, Discard(o)
  PROVE  IInv'
<1>1. TypeOK /\ SlotsAreSealed /\ ViewIsTrue /\ SlotOf(o) \in Slots /\ Clear(SlotOf(o))
  BY SlotOfIsSlot DEF IInv, ClientInv, Discard
<1>2. /\ memory' \in [Slots -> Keys \cup {None, Unread}]
      /\ stored' \in [Slots -> Keys \cup {None}]
      /\ sealed' = sealed
      /\ \A t \in Slots : /\ stored'[t] # None => sealed'[stored'[t]] # None
                          /\ memory'[t] \in Keys => sealed'[memory'[t]] # None
  BY <1>1, ClearFacts
<1>3. UNCHANGED <<serverVars, posted, answer, origin, view, prop, seen, offPage, reload>>
  BY DEF Discard
<1>4. /\ ui' \in [Components -> UiStates]
      /\ pend' \in [{"end", "replay"} -> Keys \cup {None}]
      /\ \A p \in {"end", "replay"} : pend'[p] = pend[p] \/ pend'[p] = None
  BY <1>1 DEF Discard, TypeOK, UiStates
<1>5. TypeOK'
  BY <1>1, <1>2, <1>3, <1>4 DEF TypeOK, serverVars
<1>6. SlotsAreSealed' /\ ViewIsTrue'
  BY <1>1, <1>2, <1>3, <1>4 DEF SlotsAreSealed, ViewIsTrue, Ended, serverVars
<1>7. QED
  BY <1>2, <1>3, <1>5, <1>6, PageStepKeepsIInv

LEMMA HearKeepsIInv ==
  ASSUME IInv, NEW c \in Calls, Hear(c)
  PROVE  IInv'
<1>1. TypeOK /\ SlotsAreSealed /\ ViewIsTrue
  BY DEF IInv, ClientInv
<1>2. PICK a \in Tellable(c) :
        LET o == posted[c].by
            mounted == origin[c] = "mounted"
        IN
        /\ origin' = [origin EXCEPT ![c] =
                        IF o = "start" /\ mounted /\ Succeeded(a) THEN "timer" ELSE "over"]
        /\ IF Settles(o, a) THEN Clear(SlotOf(o)) ELSE UNCHANGED slotVars
        /\ ui' = IF mounted THEN [ui EXCEPT ![o] = UiAfter(o, a)] ELSE ui
        /\ pend' = IF mounted /\ Settles(o, a) /\ o \in {"end", "replay"}
                     THEN [pend EXCEPT ![o] = None] ELSE pend
        /\ offPage' = IF o = "history" /\ mounted /\ Settles(o, a) THEN None ELSE offPage
        /\ reload' = (\/ reload
                      \/ Succeeded(a)
                      \/ o = "history" /\ Settles(o, a)
                      \/ o = "end" /\ a.kind = "refused")
  BY DEF Hear
<1>3. UNCHANGED <<serverVars, posted, answer, view, prop, seen>>
  BY DEF Hear
<1>4. /\ memory' \in [Slots -> Keys \cup {None, Unread}]
      /\ stored' \in [Slots -> Keys \cup {None}]
      /\ sealed' = sealed
      /\ \A t \in Slots : /\ stored'[t] # None => sealed'[stored'[t]] # None
                          /\ memory'[t] \in Keys => sealed'[memory'[t]] # None
  <2>1. CASE Clear(SlotOf(posted[c].by))
    BY <1>1, <2>1, SlotOfIsSlot, ClearFacts
  <2>2. CASE UNCHANGED slotVars
    BY <1>1, <2>2 DEF TypeOK, SlotsAreSealed, slotVars
  <2>3. QED
    BY <1>2, <2>1, <2>2
<1>5. origin' \in [Calls -> {"mounted", "unmounted", "timer", "over"}]
  BY <1>1, <1>2 DEF TypeOK
<1>6. ui' \in [Components -> UiStates]
  <2>1. \A o : UiAfter(o, a) \in UiStates
    BY DEF UiAfter, UiStates
  <2>2. QED
    BY <1>1, <1>2, <2>1 DEF TypeOK
<1>7. /\ pend' \in [{"end", "replay"} -> Keys \cup {None}]
      /\ \A p \in {"end", "replay"} : pend'[p] = pend[p] \/ pend'[p] = None
  BY <1>1, <1>2 DEF TypeOK
<1>8. offPage' \in RunIds \cup {None} /\ (offPage' = offPage \/ offPage' = None)
  BY <1>1, <1>2 DEF TypeOK
<1>9. reload' \in BOOLEAN
  BY <1>1, <1>2 DEF TypeOK
<1>10. TypeOK'
  BY <1>1, <1>3, <1>4, <1>5, <1>6, <1>7, <1>8, <1>9 DEF TypeOK, serverVars
<1>11. SlotsAreSealed' /\ ViewIsTrue'
  BY <1>1, <1>3, <1>4, <1>7, <1>8 DEF SlotsAreSealed, ViewIsTrue, Ended, serverVars
<1>12. QED
  BY <1>3, <1>4, <1>10, <1>11, PageStepKeepsIInv

LEMMA CloseFormKeepsIInv ==
  ASSUME IInv, NEW c \in Calls, CloseForm(c)
  PROVE  IInv'
<1>1. TypeOK /\ SlotsAreSealed /\ ViewIsTrue
  BY DEF IInv, ClientInv
<1>2. UNCHANGED <<serverVars, posted, answer, sealed, memory, stored, pend, view, prop, seen,
                  offPage, reload>>
  BY DEF CloseForm, slotVars
<1>3. /\ origin' \in [Calls -> {"mounted", "unmounted", "timer", "over"}]
      /\ ui' \in [Components -> UiStates]
  BY <1>1 DEF CloseForm, TypeOK, UiStates
<1>4. TypeOK'
  BY <1>1, <1>2, <1>3 DEF TypeOK, serverVars
<1>5. SlotsAreSealed' /\ ViewIsTrue'
  BY <1>1, <1>2 DEF SlotsAreSealed, ViewIsTrue, Ended, serverVars
<1>6. QED
  BY <1>2, <1>4, <1>5, PageStepKeepsIInv

LEMMA PendingOfFacts ==
  ASSUME TypeOK, SlotsAreSealed, NEW r
  PROVE  /\ PendingOf(r) \in Keys \cup {None}
         /\ PendingOf(r) # None => sealed[PendingOf(r)] # None
  BY HeldFacts DEF PendingOf, Slots

LEMMA UnmountFacts ==
  ASSUME TypeOK, NEW gone, NEW as \in {"unmounted", "over"}, Unmount(gone, as)
  PROVE  origin' \in [Calls -> {"mounted", "unmounted", "timer", "over"}]
  BY DEF Unmount, TypeOK

LEMMA MountFacts ==
  ASSUME TypeOK, SlotsAreSealed, NEW stay, Mount(stay),
         prop' \in Keys \cup {None}, prop' # None => sealed[prop'] # None
  PROVE  /\ pend' \in [{"end", "replay"} -> Keys \cup {None}]
         /\ \A o \in {"end", "replay"} : pend'[o] # None => sealed[pend'[o]] # None
         /\ ui' \in [Components -> UiStates]
         /\ memory' \in [Slots -> Keys \cup {None, Unread}]
         /\ \A s \in Slots : memory'[s] \in Keys => sealed[memory'[s]] # None
         /\ origin' \in [Calls -> {"mounted", "unmounted", "timer", "over"}]
<1>1. \A o : /\ Restored(o) \in Keys \cup {None}
             /\ Restored(o) # None => sealed[Restored(o)] # None
  BY PendingOfFacts DEF Restored
<1>2. \A o \in {"end", "replay"} :
        pend'[o] = pend[o] \/ pend'[o] = Restored(o) \/ pend'[o] = None
  BY DEF Mount
<1>3. /\ pend' \in [{"end", "replay"} -> Keys \cup {None}]
      /\ \A o \in {"end", "replay"} : pend'[o] # None => sealed[pend'[o]] # None
  <2>1. \A o \in {"end", "replay"} : /\ pend[o] \in Keys \cup {None}
                                     /\ pend[o] # None => sealed[pend[o]] # None
    BY DEF TypeOK, SlotsAreSealed
  <2>2. pend' = [o \in {"end", "replay"} |-> pend'[o]]
    BY DEF Mount
  <2>3. QED
    BY <1>1, <1>2, <2>1, <2>2
<1>4. ui' \in [Components -> UiStates]
  <2>1. \A o \in Components : ui'[o] = ui[o] \/ ui'[o] = "unsure" \/ ui'[o] = "ready"
    BY DEF Mount
  <2>2. ui' = [o \in Components |-> ui'[o]]
    BY DEF Mount
  <2>3. QED
    BY <2>1, <2>2 DEF TypeOK, UiStates
<1>5. memory' = Loaded /\ Unmount({"end", "replay"} \ stay, "unmounted")
  BY DEF Mount
<1>6. QED
  BY <1>3, <1>4, <1>5, LoadedFacts, UnmountFacts

LEMMA RefreshKeepsIInv ==
  ASSUME IInv, Refresh
  PROVE  IInv'
<1>1. TypeOK /\ SlotsAreSealed /\ ViewIsTrue
  BY DEF IInv, ClientInv
<1>2. UNCHANGED <<serverVars, posted, answer, sealed, stored>>
  BY DEF Refresh
<1>3. /\ view' \in RunIds \cup {None} /\ seen' = Ended(view') /\ reload' = FALSE
      /\ prop' \in Keys \cup {None} /\ (prop' # None => sealed[prop'] # None)
  BY <1>1 DEF Refresh, TypeOK, SlotsAreSealed
<1>4. offPage' \in RunIds \cup {None}
  <2>1. CASE Held("action") = None
    BY <2>1 DEF Refresh
  <2>2. CASE Held("action") # None
    <3>1. sealed[Held("action")].run \in RunIds \cup {None}
      BY <1>1, <2>2, HeldFacts, CommandFields DEF Slots
    <3>2. QED
      BY <3>1 DEF Refresh
  <2>3. QED
    BY <2>1, <2>2
<1>5. /\ pend' \in [{"end", "replay"} -> Keys \cup {None}]
      /\ \A p \in {"end", "replay"} : pend'[p] # None => sealed[pend'[p]] # None
      /\ ui' \in [Components -> UiStates]
      /\ memory' \in [Slots -> Keys \cup {None, Unread}]
      /\ \A s \in Slots : memory'[s] \in Keys => sealed[memory'[s]] # None
      /\ origin' \in [Calls -> {"mounted", "unmounted", "timer", "over"}]
  <2>1. PICK stay \in {{}, Shown(view, prop, seen) \cap Shown(view', prop', seen')} : Mount(stay)
    BY DEF Refresh
  <2>2. QED
    BY <1>1, <1>3, <2>1, MountFacts
<1>6. TypeOK'
  BY <1>1, <1>2, <1>3, <1>4, <1>5 DEF TypeOK, serverVars, Ended
<1>7. SlotsAreSealed' /\ ViewIsTrue'
  BY <1>1, <1>2, <1>3, <1>4, <1>5 DEF SlotsAreSealed, ViewIsTrue, Ended, serverVars
<1>8. QED
  BY <1>2, <1>6, <1>7, PageStepKeepsIInv

LEMMA ShowKeepsIInv ==
  ASSUME IInv, NEW r \in RunIds \cup {None}, Show(r)
  PROVE  IInv'
<1>1. TypeOK /\ SlotsAreSealed /\ ViewIsTrue
  BY DEF IInv, ClientInv
<1>2. UNCHANGED <<serverVars, posted, answer, sealed, stored, offPage, reload>>
  BY DEF Show
<1>3. /\ view' = r /\ seen' = Ended(r) /\ Mount({})
      /\ prop' \in Keys \cup {None} /\ (prop' # None => sealed[prop'] # None)
  BY <1>1, PendingOfFacts DEF Show
<1>4. /\ pend' \in [{"end", "replay"} -> Keys \cup {None}]
      /\ \A p \in {"end", "replay"} : pend'[p] # None => sealed[pend'[p]] # None
      /\ ui' \in [Components -> UiStates]
      /\ memory' \in [Slots -> Keys \cup {None, Unread}]
      /\ \A s \in Slots : memory'[s] \in Keys => sealed[memory'[s]] # None
      /\ origin' \in [Calls -> {"mounted", "unmounted", "timer", "over"}]
  BY <1>1, <1>3, MountFacts
<1>5. TypeOK'
  BY <1>1, <1>2, <1>3, <1>4 DEF TypeOK, serverVars, Ended
<1>6. SlotsAreSealed' /\ ViewIsTrue'
  BY <1>1, <1>2, <1>3, <1>4 DEF SlotsAreSealed, ViewIsTrue, Ended, serverVars
<1>7. QED
  BY <1>2, <1>5, <1>6, PageStepKeepsIInv

LEMMA ReturnKeepsIInv ==
  ASSUME IInv, NEW as \in {"unmounted", "over"}, Return(as)
  PROVE  IInv'
<1>1. TypeOK /\ SlotsAreSealed /\ ViewIsTrue
  BY DEF IInv, ClientInv
<1>2. UNCHANGED <<serverVars, posted, answer, sealed, stored>>
  BY DEF Return
<1>3. /\ view' = None /\ prop' = None /\ seen' = FALSE /\ offPage' = None /\ reload' = TRUE
      /\ pend' = [o \in {"end", "replay"} |-> None]
      /\ ui' \in [Components -> UiStates]
  BY DEF Return, UiStates
<1>4. origin' \in [Calls -> {"mounted", "unmounted", "timer", "over"}]
  BY <1>1, UnmountFacts DEF Return
<1>5. /\ memory' \in [Slots -> Keys \cup {None, Unread}]
      /\ \A s \in Slots : memory'[s] \in Keys => sealed[memory'[s]] # None
  <2>1. CASE memory' = [s \in Slots |-> Unread]
    BY <2>1, NoneIsNothing
  <2>2. CASE memory' = Loaded
    BY <1>1, <2>2, LoadedFacts
  <2>3. QED
    BY <2>1, <2>2 DEF Return
<1>6. TypeOK'
  BY <1>1, <1>2, <1>3, <1>4, <1>5 DEF TypeOK, serverVars
<1>7. SlotsAreSealed' /\ ViewIsTrue'
  BY <1>1, <1>2, <1>3, <1>5 DEF SlotsAreSealed, ViewIsTrue, serverVars
<1>8. QED
  BY <1>2, <1>6, <1>7, PageStepKeepsIInv

-----------------------------------------------------------------------------
(* The steps of the server. *)

LEMMA PostedFacts ==
  ASSUME TypeOK, NEW c \in Calls, posted[c] # None
  PROVE  /\ posted[c].command \in Command /\ posted[c].key \in Keys \cup Calls
         /\ posted[c].command.op \in Creating \cup Ending
         /\ posted[c].command.run \in RunIds \cup {None}
  BY RequestFields, CommandFields DEF TypeOK

\* A key that belongs to a request of another tab belongs to it alone.
LEMMA OwnKeys ==
  ASSUME TypeOK, RequestsAreSealed, NEW c \in Calls, posted[c] # None, posted[c].key \in Calls
  PROVE  posted[c].key = c
  BY NoneIsNothing DEF RequestsAreSealed

\* The receipt that a request collides with is its own.
LEMMA CollisionsAreRetries ==
  ASSUME IInv, NEW c \in Calls, posted[c] # None, NEW x \in ReceiptsOf(c)
  PROVE  x.command = posted[c].command /\ x.key = posted[c].key /\ x \in receipts
<1>1. TypeOK /\ RequestsAreSealed /\ ReceiptsAreTrue
  BY DEF IInv, ClientInv, ServerInv
<1>2. x \in receipts /\ x.key = posted[c].key /\ ScopeOf(x.command) = ScopeOf(posted[c].command)
  BY DEF ReceiptsOf
<1>3. CASE posted[c].key \in Calls
  <2>1. PICK d \in Calls : /\ posted[d] # None
                           /\ posted[d].key = x.key
                           /\ posted[d].command = x.command
    BY <1>1, <1>2 DEF ReceiptsAreTrue
  <2>2. posted[c].key = c /\ posted[d].key = d
    BY <1>1, <1>2, <1>3, <2>1, OwnKeys
  <2>3. QED
    BY <1>2, <2>1, <2>2
<1>4. CASE posted[c].key \notin Calls
  <2>1. PICK k \in Keys :
          /\ posted[c].key = k
          /\ sealed[k] # None
          /\ \/ posted[c].command = sealed[k]
             \/ sealed[k].op = "REPLAY" /\ posted[c].command = Cancellation(sealed[k])
    BY <1>1, <1>4 DEF RequestsAreSealed
  <2>2. x.command = sealed[k]
    BY <1>1, <1>2, <2>1 DEF ReceiptsAreTrue
  <2>3. CASE sealed[k].op = "REPLAY" /\ posted[c].command = Cancellation(sealed[k])
    <3>1. x.command.op = "REPLAY" /\ posted[c].command.op = "CANCEL"
      BY <2>2, <2>3 DEF Cancellation
    <3>2. FALSE
      BY <1>2, <3>1 DEF ScopeOf
    <3>3. QED
      BY <3>2
  <2>4. QED
    BY <1>2, <2>1, <2>2, <2>3
<1>5. QED
  BY <1>3, <1>4

\* A command that passes the gates is the one its key was sealed for, and no
\* receipt has its key.
LEMMA WritersHaveFreshKeys ==
  ASSUME IInv, NEW c \in Calls, posted[c] # None, ReceiptsOf(c) = {},
         Gate(posted[c].command)
  PROVE  /\ posted[c].key \in Keys => posted[c].command = sealed[posted[c].key]
         /\ \A x \in receipts : x.key # posted[c].key
<1>1. TypeOK /\ RequestsAreSealed /\ SealedReplaysFollow /\ ReceiptsAreTrue
  BY DEF IInv, ClientInv, ServerInv
<1>2. ASSUME posted[c].key \in Keys PROVE posted[c].command = sealed[posted[c].key]
  <2>1. posted[c].key # c
    BY <1>2, NoneIsNothing
  <2>2. PICK k \in Keys :
          /\ posted[c].key = k
          /\ sealed[k] # None
          /\ \/ posted[c].command = sealed[k]
             \/ sealed[k].op = "REPLAY" /\ posted[c].command = Cancellation(sealed[k])
    BY <1>1, <2>1 DEF RequestsAreSealed
  <2>3. CASE sealed[k].op = "REPLAY" /\ posted[c].command = Cancellation(sealed[k])
    <3>1. Ended(sealed[k].run)
      BY <1>1, <2>2, <2>3 DEF SealedReplaysFollow
    <3>2. posted[c].command.op = "CANCEL" /\ posted[c].command.run = sealed[k].run
      BY <2>3 DEF Cancellation
    <3>3. status[sealed[k].run] = "RUNNING"
      BY <3>2 DEF Gate, Ending
    <3>4. QED
      BY <3>1, <3>3, NoneIsNoStatus DEF Ended
  <2>4. QED
    BY <2>2, <2>3
<1>3. ASSUME NEW x \in receipts, x.key = posted[c].key PROVE FALSE
  <2>1. x.command = posted[c].command
    <3>1. CASE posted[c].key \in Keys
      BY <1>1, <1>2, <1>3, <3>1 DEF ReceiptsAreTrue
    <3>2. CASE posted[c].key \in Calls
      <4>1. PICK d \in Calls : /\ posted[d] # None
                               /\ posted[d].key = x.key
                               /\ posted[d].command = x.command
        BY <1>1 DEF ReceiptsAreTrue
      <4>2. posted[c].key = c /\ posted[d].key = d
        BY <1>1, <1>3, <3>2, <4>1, OwnKeys
      <4>3. QED
        BY <1>3, <4>1, <4>2
    <3>3. QED
      BY <1>1, <3>1, <3>2, PostedFacts
  <2>2. x \in ReceiptsOf(c)
    BY <1>3, <2>1 DEF ReceiptsOf
  <2>3. QED
    BY <2>2
<1>4. QED
  BY <1>2, <1>3

\* An answer that changes no row.
LEMMA AnswerKeepsIInv ==
  ASSUME IInv, NEW c \in Calls, Pending(c), NEW a \in Answers, Answer(c, a),
         UNCHANGED serverVars, a.kind # "conflict",
         Succeeded(a) => \E x \in receipts : /\ x.command = posted[c].command
                                             /\ x.key = posted[c].key
                                             /\ x.run = a.run
  PROVE  IInv'
<1>1. TypeOK /\ ClientInv /\ ServerInv
  BY DEF IInv
<1>2. UNCHANGED <<status, parent, receipts, writable, posted, origin, slotVars, pageVars>>
  BY DEF Answer, serverVars
<1>3. /\ answer' \in [Calls -> Answers \cup {None}]
      /\ answer'[c] = a
      /\ \A d \in Calls : d # c => answer'[d] = answer[d]
  BY <1>1 DEF Answer, TypeOK
<1>4. TypeOK'
  BY <1>1, <1>2, <1>3 DEF TypeOK, slotVars, pageVars
<1>5. ClientInv'
  <2>1. RunsStay
    BY <1>2 DEF RunsStay
  <2>2. QED
    BY <1>1, <1>2, <2>1, ServerStepKeepsClientInv
<1>6. NothingYet'
  BY <1>1, <1>2, <1>3, NoneIsNothing DEF ServerInv, NothingYet, Pending
<1>7. ReceiptsAreTrue' /\ KeysActOnce' /\ ReplaysFollowEndedRuns'
  BY <1>1, <1>2 DEF ServerInv, ReceiptsAreTrue, KeysActOnce, ReplaysFollowEndedRuns, Ended,
                    slotVars
<1>8. AnswersHaveReceipts'
  <2>1. SUFFICES ASSUME NEW d \in Calls, Succeeded(answer'[d])
                 PROVE  \E x \in receipts : /\ x.command = posted[d].command
                                            /\ x.key = posted[d].key
                                            /\ x.run = answer'[d].run
    BY <1>2 DEF AnswersHaveReceipts, Succeeded
  <2>2. CASE d = c
    BY <1>3, <2>1, <2>2
  <2>3. CASE d # c
    BY <1>1, <1>3, <2>1, <2>3 DEF ServerInv, AnswersHaveReceipts
  <2>4. QED
    BY <2>2, <2>3
<1>9. NoKeyConflicts'
  BY <1>1, <1>3 DEF ServerInv, NoKeyConflicts
<1>10. QED
  BY <1>4, <1>5, <1>6, <1>7, <1>8, <1>9 DEF IInv, ServerInv

LEMMA ReplayReceiptKeepsIInv ==
  ASSUME IInv, NEW c \in Calls, ReplayReceipt(c)
  PROVE  IInv'
<1>1. PICK x \in ReceiptsOf(c) :
        Answer(c, IF x.command = posted[c].command
                    THEN [kind |-> "replayed", run |-> x.run] ELSE Error("conflict"))
  BY DEF ReplayReceipt
<1>2. Pending(c) /\ posted[c] # None /\ UNCHANGED serverVars
  BY DEF ReplayReceipt, Pending
<1>3. x.command = posted[c].command /\ x.key = posted[c].key /\ x \in receipts
  BY <1>2, CollisionsAreRetries
<1> DEFINE a == [kind |-> "replayed", run |-> x.run]
<1>4. x.run \in RunIds
  BY <1>3, ReceiptFields DEF IInv, TypeOK
<1>5. a \in Answers /\ a.run = x.run /\ a.kind # "conflict"
  BY <1>4, AnswerFields
<1>6. Answer(c, a)
  BY <1>1, <1>3
<1>7. QED
  BY <1>2, <1>3, <1>5, <1>6, AnswerKeepsIInv

LEMMA FailureKeepsIInv ==
  ASSUME IInv, NEW c \in Calls, RefuseNew(c) \/ AnswerNothingDone(c)
  PROVE  IInv'
<1>1. PICK kind \in {"refused", "signedOut", "unavailable"} : Answer(c, Error(kind))
  BY DEF RefuseNew, AnswerNothingDone
<1>2. Pending(c) /\ UNCHANGED serverVars
  BY DEF RefuseNew, AnswerNothingDone
<1>3. Error(kind) \in Answers /\ ~ Succeeded(Error(kind)) /\ Error(kind).kind # "conflict"
  BY AnswerFields
<1>4. QED
  BY <1>1, <1>2, <1>3, AnswerKeepsIInv

LEMMA ArchiveKeepsIInv ==
  ASSUME IInv, Archive
  PROVE  IInv'
<1>1. TypeOK'
  BY DEF IInv, TypeOK, Archive, slotVars, pageVars
<1>2. ClientInv'
  BY ServerStepKeepsClientInv DEF IInv, Archive, RunsStay
<1>3. ServerInv'
  BY DEF IInv, Archive, ServerInv, NothingYet, ReceiptsAreTrue, AnswersHaveReceipts,
         KeysActOnce, ReplaysFollowEndedRuns, NoKeyConflicts, Ended, slotVars
<1>4. QED
  BY <1>1, <1>2, <1>3 DEF IInv

\* A command that takes effect: it creates run r, which is its own, or ends r.
Effect(c, r, a) ==
  LET m == posted[c].command IN
  /\ Pending(c)
  /\ ReceiptsOf(c) = {}
  /\ Gate(m)
  /\ receipts' = receipts \cup {[command |-> m, key |-> posted[c].key, run |-> r]}
  /\ writable' = writable
  /\ Answer(c, a)
  /\ m.op \in Creating =>
       /\ r = c
       /\ status' = [status EXCEPT ![c] = "RUNNING"]
       /\ parent' = [parent EXCEPT ![c] = m.run]
  /\ m.op \in Ending =>
       /\ r = m.run
       /\ status' = [status EXCEPT ![r] = StatusOf(m.op)]
       /\ parent' = parent

LEMMA EffectKeepsIInv ==
  ASSUME IInv, NEW c \in Calls, NEW r \in RunIds, Effect(c, r, [kind |-> "created", run |-> r])
                                     \/ Effect(c, r, Error("unavailable"))
  PROVE  IInv'
<1> DEFINE m == posted[c].command
           key == posted[c].key
           x == [command |-> m, key |-> key, run |-> r]
<1>1. TypeOK /\ ClientInv /\ ServerInv
  BY DEF IInv
<1>2. PICK a \in {[kind |-> "created", run |-> r], Error("unavailable")} : Effect(c, r, a)
  OBVIOUS
<1>3. a \in Answers /\ a # None /\ a.kind # "conflict" /\ (Succeeded(a) => a.run = r)
  BY AnswerFields
<1>4. Pending(c) /\ ReceiptsOf(c) = {} /\ Gate(m) /\ posted[c] # None /\ answer[c] = None
  BY <1>2 DEF Effect, Pending
<1>5. /\ receipts' = receipts \cup {x} /\ writable' = writable
      /\ UNCHANGED <<posted, origin, slotVars, pageVars>>
  BY <1>2 DEF Effect, Answer
<1>6. UNCHANGED <<sealed, memory, stored, ui, pend, view, prop, seen, offPage, reload>>
  BY <1>5 DEF slotVars, pageVars
<1>7. m \in Command /\ key \in Keys \cup Calls /\ m.op \in Creating \cup Ending
      /\ m.run \in RunIds \cup {None}
  BY <1>1, <1>4, PostedFacts
<1>8. /\ answer' \in [Calls -> Answers \cup {None}]
      /\ answer'[c] = a
      /\ \A d \in Calls : d # c => answer'[d] = answer[d]
  BY <1>1, <1>2, <1>3 DEF Effect, Answer, TypeOK
<1>9. status[c] = None
  BY <1>1, <1>4 DEF ServerInv, NothingYet
<1>10. CASE m.op \in Creating
  <2>1. r = c /\ m.op \notin Ending /\ c \in RunIds
    BY <1>2, <1>10, NoneIsNoStatus DEF Effect, RunIds
  <2>2. /\ status' \in [RunIds -> Terminal \cup {"RUNNING", None}]
        /\ parent' \in [RunIds -> RunIds \cup {None}]
        /\ status'[c] = "RUNNING" /\ parent'[c] = m.run
        /\ \A q \in RunIds : q # c => status'[q] = status[q] /\ parent'[q] = parent[q]
    BY <1>1, <1>2, <1>7, <1>10, <2>1 DEF Effect, TypeOK
  <2>3. RunsStay
    BY <1>9, <2>2, NoneIsNoStatus DEF RunsStay
  <2>4. x \in Receipts
    BY <1>7, <2>1 DEF Receipts
  <2>5. TypeOK'
    BY <1>1, <1>5, <1>6, <1>8, <2>2, <2>4 DEF TypeOK
  <2>6. ClientInv'
    BY <1>1, <1>5, <2>3, ServerStepKeepsClientInv
  <2>7. NothingYet'
    BY <1>1, <1>3, <1>4, <1>5, <1>8, <2>2 DEF ServerInv, NothingYet, RunIds
  <2>8. ReceiptsAreTrue'
    <3>1. ASSUME NEW y \in receipts
          PROVE  /\ \E d \in Calls : /\ posted[d] # None
                                     /\ posted[d].key = y.key
                                     /\ posted[d].command = y.command
                 /\ y.key \in Keys => y.command = sealed[y.key]
                 /\ y.command.op \in Creating =>
                      /\ y.run \in Calls
                      /\ status'[y.run] # None
                      /\ posted[y.run].command = y.command
                      /\ posted[y.run].key = y.key
                      /\ parent'[y.run] = y.command.run
                 /\ y.command.op \in Ending =>
                      y.run = y.command.run /\ status'[y.run] = StatusOf(y.command.op)
      <4>1. y \in Receipts /\ y.run \in RunIds
        BY <1>1, ReceiptFields DEF TypeOK
      <4>2. y.command.op \in Creating \cup Ending => y.run # c
        BY <1>1, <1>9, NoneIsNoStatus DEF ServerInv, ReceiptsAreTrue
      <4>3. y.command.op \in Creating \cup Ending
        BY <4>1, ReceiptFields, CommandFields
      <4>4. status'[y.run] = status[y.run] /\ parent'[y.run] = parent[y.run]
        BY <2>2, <4>1, <4>2, <4>3
      <4>5. QED
        BY <1>1, <4>4 DEF ServerInv, ReceiptsAreTrue
    <3>2. x.key \in Keys => x.command = sealed[x.key]
      BY <1>4, WritersHaveFreshKeys
    <3>3. QED
      BY <1>4, <1>5, <1>6, <1>10, <2>1, <2>2, <3>1, <3>2, NoneIsNoStatus DEF ReceiptsAreTrue
  <2>9. AnswersHaveReceipts'
    <3>1. SUFFICES ASSUME NEW d \in Calls, Succeeded(answer'[d])
                   PROVE  \E y \in receipts' : /\ y.command = posted[d].command
                                               /\ y.key = posted[d].key
                                               /\ y.run = answer'[d].run
      BY <1>5 DEF AnswersHaveReceipts, Succeeded
    <3>2. CASE d = c
      <4>1. x \in receipts' /\ answer'[d].run = r
        BY <1>3, <1>5, <1>8, <3>1, <3>2
      <4>2. x.command = posted[d].command /\ x.key = posted[d].key /\ x.run = r
        BY <3>2
      <4>3. QED
        BY <4>1, <4>2
    <3>3. CASE d # c
      BY <1>1, <1>5, <1>8, <3>1, <3>3 DEF ServerInv, AnswersHaveReceipts
    <3>4. QED
      BY <3>2, <3>3
  <2>10. KeysActOnce'
    <3>1. \A y \in receipts : y.key # key
      BY <1>4, WritersHaveFreshKeys
    <3>2. \A y, z \in receipts' : y.key = z.key => y = z
      BY <1>1, <1>5, <3>1 DEF ServerInv, KeysActOnce
    <3>3. ASSUME NEW d \in Calls, status'[d] # None
          PROVE  \E y \in receipts' : y.run = d /\ y.key = posted[d].key
                                      /\ y.command = posted[d].command
                                      /\ y.command.op \in Creating
      <4>1. CASE d = c
        <5>1. x \in receipts' /\ posted' = posted
          BY <1>5
        <5>2. x.run = d /\ x.key = posted[d].key /\ x.command = posted[d].command
                /\ x.command.op \in Creating
          BY <1>10, <2>1, <4>1
        <5>3. QED
          BY <5>1, <5>2
      <4>2. CASE d # c
        <5>1. status[d] # None
          BY <2>2, <3>3, <4>2 DEF RunIds
        <5>2. PICK y \in receipts : y.run = d /\ y.key = posted[d].key
                                    /\ y.command = posted[d].command
                                    /\ y.command.op \in Creating
          BY <1>1, <5>1 DEF ServerInv, KeysActOnce
        <5>3. y \in receipts' /\ posted'[d] = posted[d]
          BY <1>5, <5>2
        <5>4. QED
          BY <5>2, <5>3
      <4>3. QED
        BY <4>1, <4>2
    <3>4. QED
      BY <1>5, <3>2, <3>3 DEF KeysActOnce
  <2>11. ReplaysFollowEndedRuns'
    <3>1. SUFFICES ASSUME NEW q \in RunIds, parent'[q] # None
                   PROVE  parent'[q] # None /\ status'[parent'[q]] \in Terminal
      BY DEF ReplaysFollowEndedRuns, Ended
    <3>2. parent'[q] \in RunIds
      BY <2>2, <3>1
    <3>3. status[parent'[q]] \in Terminal
      <4>1. CASE q = c
        BY <1>4, <1>10, <2>2, <3>1, <4>1 DEF Gate, Ended, Creating
      <4>2. CASE q # c
        BY <1>1, <2>2, <3>1, <4>2 DEF ServerInv, ReplaysFollowEndedRuns, Ended
      <4>3. QED
        BY <4>1, <4>2
    <3>4. status'[parent'[q]] \in Terminal
      BY <2>3, <3>2, <3>3 DEF RunsStay
    <3>5. QED
      BY <3>1, <3>4
  <2>12. NoKeyConflicts'
    BY <1>1, <1>3, <1>8 DEF ServerInv, NoKeyConflicts
  <2>13. QED
    BY <2>5, <2>6, <2>7, <2>8, <2>9, <2>10, <2>11, <2>12 DEF IInv, ServerInv
<1>11. CASE m.op \in Ending
  <2>1. r = m.run /\ m.op \notin Creating /\ status[r] = "RUNNING"
    BY <1>2, <1>4, <1>11, NoneIsNoStatus DEF Effect, Gate
  <2>2. /\ status' \in [RunIds -> Terminal \cup {"RUNNING", None}]
        /\ parent' = parent
        /\ status'[r] = StatusOf(m.op) /\ status'[r] \in Terminal
        /\ \A q \in RunIds : q # r => status'[q] = status[q]
    BY <1>1, <1>2, <1>11, NoneIsNoStatus DEF Effect, TypeOK
  <2>3. RunsStay
    BY <2>1, <2>2, NoneIsNoStatus DEF RunsStay
  <2>4. x \in Receipts
    BY <1>7 DEF Receipts
  <2>5. TypeOK'
    BY <1>1, <1>5, <1>6, <1>8, <2>2, <2>4 DEF TypeOK
  <2>6. ClientInv'
    BY <1>1, <1>5, <2>3, ServerStepKeepsClientInv
  <2>7. NothingYet'
    <3>1. \A d \in Calls : status'[d] # None => status[d] # None
      BY <2>1, <2>2, NoneIsNoStatus DEF RunIds
    <3>2. QED
      BY <1>1, <1>3, <1>4, <1>5, <1>8, <3>1 DEF ServerInv, NothingYet
  <2>8. ReceiptsAreTrue'
    <3>1. ASSUME NEW y \in receipts
          PROVE  /\ \E d \in Calls : /\ posted[d] # None
                                     /\ posted[d].key = y.key
                                     /\ posted[d].command = y.command
                 /\ y.key \in Keys => y.command = sealed[y.key]
                 /\ y.command.op \in Creating =>
                      /\ y.run \in Calls
                      /\ status'[y.run] # None
                      /\ posted[y.run].command = y.command
                      /\ posted[y.run].key = y.key
                      /\ parent'[y.run] = y.command.run
                 /\ y.command.op \in Ending =>
                      y.run = y.command.run /\ status'[y.run] = StatusOf(y.command.op)
      <4>1. y.run \in RunIds
        BY <1>1, ReceiptFields DEF TypeOK
      <4>2. y.command.op \in Ending => y.run # r
        BY <1>1, <2>1, NoneIsNoStatus DEF ServerInv, ReceiptsAreTrue
      <4>3. QED
        BY <1>1, <2>2, <2>3, <4>1, <4>2 DEF ServerInv, ReceiptsAreTrue, RunsStay
    <3>2. x.key \in Keys => x.command = sealed[x.key]
      BY <1>4, WritersHaveFreshKeys
    <3>3. QED
      BY <1>4, <1>5, <1>6, <1>11, <2>1, <2>2, <3>1, <3>2 DEF ReceiptsAreTrue
  <2>9. AnswersHaveReceipts'
    <3>1. SUFFICES ASSUME NEW d \in Calls, Succeeded(answer'[d])
                   PROVE  \E y \in receipts' : /\ y.command = posted[d].command
                                               /\ y.key = posted[d].key
                                               /\ y.run = answer'[d].run
      BY <1>5 DEF AnswersHaveReceipts, Succeeded
    <3>2. CASE d = c
      <4>1. x \in receipts' /\ answer'[d].run = r
        BY <1>3, <1>5, <1>8, <3>1, <3>2
      <4>2. x.command = posted[d].command /\ x.key = posted[d].key /\ x.run = r
        BY <3>2
      <4>3. QED
        BY <4>1, <4>2
    <3>3. CASE d # c
      BY <1>1, <1>5, <1>8, <3>1, <3>3 DEF ServerInv, AnswersHaveReceipts
    <3>4. QED
      BY <3>2, <3>3
  <2>10. KeysActOnce'
    <3>1. \A y \in receipts : y.key # key
      BY <1>4, WritersHaveFreshKeys
    <3>2. \A y, z \in receipts' : y.key = z.key => y = z
      BY <1>1, <1>5, <3>1 DEF ServerInv, KeysActOnce
    <3>3. \A d \in Calls : status'[d] # None => status[d] # None
      BY <2>1, <2>2, NoneIsNoStatus DEF RunIds
    <3>4. QED
      BY <1>1, <1>5, <3>2, <3>3 DEF ServerInv, KeysActOnce
  <2>11. ReplaysFollowEndedRuns'
    BY <1>1, <2>2, <2>3 DEF ServerInv, ReplaysFollowEndedRuns, Ended, RunsStay, TypeOK
  <2>12. NoKeyConflicts'
    BY <1>1, <1>3, <1>8 DEF ServerInv, NoKeyConflicts
  <2>13. QED
    BY <2>5, <2>6, <2>7, <2>8, <2>9, <2>10, <2>11, <2>12 DEF IInv, ServerInv
<1>12. QED
  BY <1>7, <1>10, <1>11

LEMMA CreateRunKeepsIInv ==
  ASSUME IInv, NEW c \in Calls, CreateRun(c)
  PROVE  IInv'
<1>1. posted[c].command.op \in Creating /\ posted[c].command.op \notin Ending /\ c \in RunIds
  BY NoneIsNoStatus DEF CreateRun, RunIds
<1>2. \E a \in {[kind |-> "created", run |-> c], Error("unavailable")} : Effect(c, c, a)
  BY <1>1 DEF CreateRun, Effect
<1>3. QED
  BY <1>1, <1>2, EffectKeepsIInv

LEMMA EndRunKeepsIInv ==
  ASSUME IInv, NEW c \in Calls, EndRun(c)
  PROVE  IInv'
<1> DEFINE r == posted[c].command.run
<1>1. /\ posted[c].command.op \in Ending /\ posted[c].command.op \notin Creating
      /\ posted[c] # None /\ status[r] = "RUNNING" /\ Gate(posted[c].command)
  BY NoneIsNoStatus DEF EndRun, Pending, Gate
<1>2. r \in RunIds \cup {None}
  BY <1>1, PostedFacts DEF IInv
<1>3. r # None
  BY <1>1, RequestFields, CommandFields DEF IInv, TypeOK, Ending
<1>4. \E a \in {[kind |-> "created", run |-> r], Error("unavailable")} : Effect(c, r, a)
  BY <1>1 DEF EndRun, Effect
<1>5. r \in RunIds
  BY <1>2, <1>3
<1>6. QED
  BY <1>4, <1>5, EffectKeepsIInv

-----------------------------------------------------------------------------
(* The theorems. *)

LEMMA InitIInv == Init => IInv
<1>1. SUFFICES ASSUME Init
               PROVE  IInv
  OBVIOUS
<1>2. TypeOK
  <2>1. status \in [RunIds -> Terminal \cup {"RUNNING", None}]
    BY <1>1 DEF Init, Terminal
  <2>2. parent \in [RunIds -> RunIds \cup {None}]
    BY <1>1 DEF Init
  <2>3. /\ receipts \subseteq Receipts /\ writable \in BOOLEAN
        /\ posted \in [Calls -> Requests \cup {None}]
        /\ answer \in [Calls -> Answers \cup {None}]
        /\ origin \in [Calls -> {"mounted", "unmounted", "timer", "over"}]
    BY <1>1 DEF Init
  <2>4. /\ sealed \in [Keys -> Command \cup {None}]
        /\ memory \in [Slots -> Keys \cup {None, Unread}]
        /\ stored \in [Slots -> Keys \cup {None}]
        /\ pend \in [{"end", "replay"} -> Keys \cup {None}]
    BY <1>1 DEF Init
  <2>5. ui \in [Components -> UiStates] /\ view \in RunIds \cup {None} /\ seen \in BOOLEAN
        /\ prop \in Keys \cup {None}
        /\ offPage \in RunIds \cup {None} /\ reload \in BOOLEAN
    BY <1>1 DEF Init, UiStates
  <2>6. QED
    BY <2>1, <2>2, <2>3, <2>4, <2>5 DEF TypeOK
<1>3. ClientInv
  BY <1>1, NoneIsNothing
     DEF Init, ClientInv, RequestsAreSealed, SealedReplaysFollow, SealedForms,
         SlotsAreSealed, ViewIsTrue
<1>4. \A c \in Calls : status[c] = None /\ answer[c] = None /\ ~ Succeeded(answer[c])
  BY <1>1 DEF Init, RunIds, Succeeded
<1>5. ServerInv
  BY <1>1, <1>4
     DEF Init, ServerInv, NothingYet, ReceiptsAreTrue, AnswersHaveReceipts, KeysActOnce,
         ReplaysFollowEndedRuns, NoKeyConflicts
<1>6. QED
  BY <1>2, <1>3, <1>5 DEF IInv

LEMMA UserKeepsIInv ==
  ASSUME IInv, User
  PROVE  IInv'
<1>1. ASSUME NEW c \in Calls, NEW o \in Components, NEW k \in Keys,
             \E m \in Offered(o) : Submit(c, o, m, k)
      PROVE  IInv'
  BY <1>1, SubmitKeepsIInv
<1>2. ASSUME NEW c \in Calls, NEW o \in Components, NEW k \in Keys, Retry(c, o, k)
      PROVE  IInv'
  BY <1>2, RetryKeepsIInv
<1>3. ASSUME NEW c \in Calls, NEW k \in Keys, RetryOffPage(c, k)
      PROVE  IInv'
  BY <1>3, RetryOffPageKeepsIInv
<1>4. ASSUME NEW o \in Components, Discard(o)
      PROVE  IInv'
  BY <1>4, DiscardKeepsIInv
<1>5. ASSUME NEW o \in Components, \E m \in Offered(o) : SubmitConflicts(o, m)
      PROVE  IInv'
  BY <1>5, ConflictKeepsIInv
<1>6. ASSUME NEW r \in RunIds \cup {None}, Show(r)
      PROVE  IInv'
  BY <1>6, ShowKeepsIInv
<1>7. ASSUME NEW as \in {"unmounted", "over"}, Return(as)
      PROVE  IInv'
  BY <1>7, ReturnKeepsIInv
<1>8. QED
  BY <1>1, <1>2, <1>3, <1>4, <1>5, <1>6, <1>7 DEF User

LEMMA StutterKeepsIInv ==
  ASSUME IInv, UNCHANGED vars
  PROVE  IInv'
<1>1. UNCHANGED <<serverVars, posted, answer, sealed>>
      /\ UNCHANGED <<origin, memory, stored, ui, pend, view, prop, seen, offPage, reload>>
  BY DEF vars, slotVars, pageVars
<1>2. UNCHANGED <<status, parent, receipts, writable>>
  BY <1>1 DEF serverVars
<1>3. TypeOK'
  BY <1>1, <1>2 DEF IInv, TypeOK
<1>4. SlotsAreSealed' /\ ViewIsTrue'
  BY <1>1, <1>2 DEF IInv, ClientInv, SlotsAreSealed, ViewIsTrue, Ended
<1>5. QED
  BY <1>1, <1>3, <1>4, PageStepKeepsIInv

LEMMA NextKeepsIInv == IInv /\ [Next]_vars => IInv'
<1>1. SUFFICES ASSUME IInv, [Next]_vars
               PROVE  IInv'
  OBVIOUS
<1>2. CASE User
  BY <1>1, <1>2, UserKeepsIInv
<1>3. ASSUME NEW c \in Calls, Serve(c)
      PROVE  IInv'
  BY <1>1, <1>3, ReplayReceiptKeepsIInv, FailureKeepsIInv, CreateRunKeepsIInv, EndRunKeepsIInv
     DEF Serve
<1>4. ASSUME NEW c \in Calls, Hear(c) \/ CloseForm(c) \/ PostElsewhere(c)
      PROVE  IInv'
  BY <1>1, <1>4, HearKeepsIInv, CloseFormKeepsIInv, PostElsewhereKeepsIInv
<1>5. CASE Refresh
  BY <1>1, <1>5, RefreshKeepsIInv
<1>6. CASE Archive
  BY <1>1, <1>6, ArchiveKeepsIInv
<1>7. CASE UNCHANGED vars
  BY <1>1, <1>7, StutterKeepsIInv
<1>8. QED
  BY <1>1, <1>2, <1>3, <1>4, <1>5, <1>6, <1>7 DEF Next

LEMMA Invariant == Spec => []IInv
  BY InitIInv, NextKeepsIInv, PTL DEF Spec

\* Every variable of the page, the requests and the database has its type.
THEOREM TypeCorrect == Spec => []TypeOK
<1>1. IInv => TypeOK
  BY DEF IInv
<1>2. QED
  BY <1>1, Invariant, PTL

\* However often a command is posted, delayed or answered late, its key has one
\* effect, and a run has the receipt of the call that created it.
THEOREM KeysHaveOneEffect == Spec => []KeysActOnce
<1>1. IInv => KeysActOnce
  BY DEF IInv, ServerInv
<1>2. QED
  BY <1>1, Invariant, PTL

\* An answer of success speaks of a run that this very command made or ended, and
\* goes on doing so.
THEOREM AnswersAreTrue == Spec => []AnswersStayTrue
<1>1. ASSUME IInv, NEW c \in Calls, Succeeded(answer[c])
      PROVE  LET m == posted[c].command
                 r == answer[c].run
             IN IF m.op \in Ending
                  THEN r = m.run /\ status[r] = StatusOf(m.op)
                  ELSE /\ r \in Calls
                       /\ status[r] # None
                       /\ posted[r].command = m
                       /\ posted[r].key = posted[c].key
                       /\ parent[r] = m.run
  <2>1. PICK x \in receipts : /\ x.command = posted[c].command
                              /\ x.key = posted[c].key
                              /\ x.run = answer[c].run
    BY <1>1 DEF IInv, ServerInv, AnswersHaveReceipts
  <2>2. x.command.op \in Creating \cup Ending
    BY <1>1, ReceiptFields, CommandFields DEF IInv, TypeOK
  <2>3. CASE x.command.op \in Ending
    BY <1>1, <2>1, <2>3 DEF IInv, ServerInv, ReceiptsAreTrue
  <2>4. CASE x.command.op \in Creating
    BY <1>1, <2>1, <2>4, NoneIsNoStatus DEF IInv, ServerInv, ReceiptsAreTrue
  <2>5. QED
    BY <2>2, <2>3, <2>4
<1>2. IInv => AnswersStayTrue
  BY <1>1 DEF AnswersStayTrue
<1>3. QED
  BY <1>2, Invariant, PTL

\* The run that a replay refers to has ended and stays ended.
THEOREM ReplaysFollow == Spec => []ReplaysFollowEndedRuns
<1>1. IInv => ReplaysFollowEndedRuns
  BY DEF IInv, ServerInv
<1>2. QED
  BY <1>1, Invariant, PTL

\* No interleaving of the forms, the retries and the reloads of a tab makes it
\* post one key with two commands of one scope.
THEOREM NoConflicts == Spec => []NoKeyConflicts
<1>1. IInv => NoKeyConflicts
  BY DEF IInv, ServerInv
<1>2. QED
  BY <1>1, Invariant, PTL
=============================================================================
