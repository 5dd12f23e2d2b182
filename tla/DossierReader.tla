---------------------------- MODULE DossierReader ----------------------------
(***************************************************************************)
(* createDossierReader (dossier-reader.ts): the queue of GETs behind the   *)
(* page of one research issue, with the part of dossier-model.ts that      *)
(* decides which of them may start and which answers count.                *)
(*                                                                         *)
(* JavaScript runs a callback to its end.  The one subtlety is that        *)
(* publish() calls subscribers, who may call the reader back in the middle *)
(* of whatever it was doing; "stack" holds what is still to be done, the   *)
(* innermost first.  A fetch answers, and a promise continues, only when   *)
(* the stack is empty, and those of different reads in any order.          *)
(***************************************************************************)
EXTENDS Naturals, Sequences, FiniteSets

CONSTANTS
  Question,     \* the stream of the issue itself
  Sections,     \* the other streams: claims, resolutions, runs, a claim's assessments... (lists)
  Paged,        \* the sections read page by page
  LastPage,     \* bound: pages 0..LastPage of a paged section
  Initial,      \* the sections that start() reads, in its order
  Scopes,       \* [projectId, issueId, authGeneration]
  Concurrency,
  MaxCalls,     \* bound: calls of the reader's interface
  None

VARIABLES
  job, count,   \* job[1..count]: the ReadJobs, in the order they were queued
  sources,      \* model.sources: per stream, what the page shows
  scope,        \* model.scope
  epoch, booted, closed,
  active, activeStreams, busyKeys,
  stack,        \* what the running callback has still to do
  calls         \* how many calls were made, for the bound

slots == <<active, activeStreams, busyKeys>>
jobs == <<job, count>>
model == <<sources, scope>>
vars == <<jobs, model, epoch, booted, closed, slots, stack, calls>>

Streams == {Question} \cup Sections

\* Page 0 is read without a cursor, page n with the cursor that page n-1 came with.
Requests == [stream : Streams, page : {0}] \cup [stream : Paged, page : 1..LastPage]
First(s) == [stream |-> s, page |-> 0]

\* A call queues one read, or boots; a boot reads the issue and the initial sections.
Reads == 1..(1 + MaxCalls) * (1 + Len(Initial))

Phases == {"queued", "loading", "fetching", "received", "accepted", "rejected",
           "resuming", "settled", "done"}
Jobs == [request : Requests, epoch : Nat, boot : BOOLEAN, phase : Phases,
         scope : Scopes, answer : {"true", "false", None}]

\* page and reader: the last page received and the read that brought it.
Source == [pending : Reads \cup {None}, page : 0..LastPage \cup {None},
           reader : Reads \cup {None}, failed : BOOLEAN]

Frames == [do : {"pump", "dispatch", "publish", "start", "accept", "sections"}, of : Nat]
Frame(do, of) == [do |-> do, of |-> of]

ASSUME ReaderParameters ==
  /\ Question \notin Sections /\ Paged \subseteq Sections
  /\ LastPage \in Nat /\ MaxCalls \in Nat
  /\ Concurrency \in 1..4
  /\ Initial \in Seq(Sections) /\ Initial # <<>>
  /\ None \notin Nat \cup Jobs \cup Source \cup {"true", "false"}

Queued == {j \in Reads : job[j] # None /\ job[j].phase = "queued"}
ActiveReads == {active[r] : r \in Requests} \ {None}
NothingRead == [s \in Streams |-> None]

Init ==
  /\ job = [j \in Reads |-> None]
  /\ count = 0
  /\ sources = NothingRead
  /\ scope \in Scopes
  /\ epoch = 0
  /\ booted = FALSE
  /\ closed = FALSE
  /\ active = [r \in Requests |-> None]
  /\ activeStreams = {}
  /\ busyKeys = {}
  /\ stack = <<>>
  /\ calls = 0

-----------------------------------------------------------------------------
(* What the model (dossier-model.ts) says of a read. *)

\* view().question.status is "ready"
QuestionReady ==
  /\ sources[Question] # None
  /\ sources[Question].pending = None
  /\ sources[Question].page # None
  /\ ~sources[Question].failed

\* startDossierRead gives a ticket
Ticketed(r) ==
  LET q == sources[Question]
      s == sources[r.stream]
  IN /\ r.stream # Question => q # None /\ q.page # None /\ ~q.failed
     /\ s # None => s.pending = None
     /\ r.page > 0 => s # None /\ s.page = r.page - 1

Loading(j) ==
  LET s == job[j].request.stream
      had == sources[s]
  IN [sources EXCEPT ![s] =
        [pending |-> j, failed |-> FALSE,
         page |-> IF had = None THEN None ELSE had.page,
         reader |-> IF had = None THEN None ELSE had.reader]]

\* accepts: sequence numbers are never reused, so the ticket stands for its scope too.
Accepts(j) ==
  LET s == sources[job[j].request.stream] IN s # None /\ s.pending = j

\* receiveDossierRead and failDossierRead; a refused ticket changes nothing.
Received(j) ==
  IF Accepts(j)
    THEN [sources EXCEPT ![job[j].request.stream] =
            [pending |-> None, page |-> job[j].request.page, reader |-> j, failed |-> FALSE]]
    ELSE sources

\* Wrong on purpose, as is every Wrong... below: the error is noted and the ticket stays.
WrongStaysPending(j) ==
  IF Accepts(j) THEN [sources EXCEPT ![job[j].request.stream].failed = TRUE] ELSE sources

Failed(j) ==
  IF Accepts(j)
    THEN [sources EXCEPT ![job[j].request.stream].pending = None,
                         ![job[j].request.stream].failed = TRUE]
    ELSE sources
OnlyAnError(j) ==
  IF Accepts(j)
    THEN [NothingRead EXCEPT ![Question] =
            [pending |-> None, page |-> None, reader |-> None, failed |-> TRUE]]
    ELSE sources

\* Wrong: any page of the stream will do.
WrongAnyPageWillDo(j) ==
  LET s == sources[job[j].request.stream] IN s # None /\ s.page # None

\* After publish(): is it this read's page that the model holds?
Committed(j) ==
  LET s == sources[job[j].request.stream] IN s # None /\ s.reader = j /\ ~s.failed

-----------------------------------------------------------------------------
(* Pieces of the reader. *)

Dead(j) == closed \/ job[j].epoch # epoch

\* Wrong: a read is turned away, not queued, when all slots are taken.
WrongRefusedWhenFull(r) ==
  /\ ~closed
  /\ r \notin busyKeys
  /\ Cardinality(ActiveReads) < Concurrency
  /\ r.stream # Question => QuestionReady

\* read(): anything else is answered false at once and leaves no trace.
Takes(r) ==
  /\ ~closed
  /\ r \notin busyKeys
  /\ r.stream # Question => QuestionReady

\* read() puts the request in the queue and pumps; "rest" is what its caller does next.
Enqueue(r, boot, rest) ==
  /\ count + 1 \in Reads \* never false: there is a read for every call
  /\ count' = count + 1
  /\ job' = [job EXCEPT ![count + 1] =
               [request |-> r, epoch |-> epoch, boot |-> boot, phase |-> "queued",
                scope |-> scope, answer |-> None]]
  /\ busyKeys' = busyKeys \cup {r}
  /\ stack' = <<Frame("pump", 0)>> \o rest

\* The first resolve() of a promise is the one that counts.
Resolved(a, ok) == IF a = None THEN ok ELSE a

\* Wrong: what is only queued is forgotten, not answered.
WrongQueueForgotten ==
  [j \in Reads |->
     IF j \in Queued THEN [job[j] EXCEPT !.phase = "done"]
     ELSE IF j \in ActiveReads THEN [job[j] EXCEPT !.answer = Resolved(@, "false")]
     ELSE job[j]]

Cancelled ==
  [j \in Reads |->
     IF j \in Queued THEN [job[j] EXCEPT !.phase = "done", !.answer = "false"]
     ELSE IF j \in ActiveReads THEN [job[j] EXCEPT !.answer = Resolved(@, "false")]
     ELSE job[j]]

\* cancelOutstanding, but for the jobs
FreeEverything ==
  /\ epoch' = epoch + 1
  /\ active' = [r \in Requests |-> None]
  /\ activeStreams' = {}
  /\ busyKeys' = {}

Boot(rest) ==
  /\ booted' = (booted \/ ~closed)
  /\ IF ~closed /\ ~booted /\ Takes(First(Question))
       THEN Enqueue(First(Question), TRUE, rest)
       ELSE stack' = rest /\ UNCHANGED <<jobs, busyKeys>>
  /\ UNCHANGED <<model, epoch, closed, active, activeStreams>>

-----------------------------------------------------------------------------
(* The interface, called by the page or by a subscriber being notified. *)

Notifying == stack # <<>> /\ Head(stack).do = "publish"

Called ==
  /\ calls < MaxCalls
  /\ stack = <<>> \/ Notifying
  /\ calls' = calls + 1

\* Only the first start() of a scope does anything, and it costs nothing of the bound.
Start == (stack = <<>> \/ Notifying) /\ ~closed /\ ~booted /\ Boot(stack) /\ UNCHANGED calls

\* The page reads sections; the issue itself only start() reads.
Read(r) ==
  /\ Called
  /\ r.stream # Question
  /\ Takes(r)
  /\ Enqueue(r, FALSE, stack)
  /\ UNCHANGED <<model, epoch, booted, closed, active, activeStreams>>

\* Wrong: the pages of the former scope stay until they are read again.
WrongPagesKept ==
  [s \in Streams |-> IF sources[s] = None THEN None ELSE [sources[s] EXCEPT !.pending = None]]

\* resetDossier
Emptied == NothingRead

\* refresh, when next is the present scope, and changeScope
Reset(next) ==
  /\ Called
  /\ ~closed
  /\ FreeEverything
  /\ job' = Cancelled
  /\ sources' = Emptied
  /\ scope' = next
  /\ booted' = FALSE
  /\ stack' = <<Frame("publish", 0), Frame("start", 0)>> \o stack
  /\ UNCHANGED <<count, closed>>

Dispose ==
  /\ Called
  /\ ~closed
  /\ FreeEverything
  /\ job' = Cancelled
  /\ sources' = Emptied
  /\ closed' = TRUE
  /\ UNCHANGED <<count, scope, booted, stack>>

-----------------------------------------------------------------------------
(* The rest of a running callback. *)

Running(do) == stack # <<>> /\ Head(stack).do = do

PublishReturns ==
  /\ Notifying
  /\ stack' = Tail(stack)
  /\ UNCHANGED <<jobs, model, epoch, booted, closed, slots, calls>>

StartAfterReset == Running("start") /\ Boot(Tail(stack)) /\ UNCHANGED calls

\* Wrong: a read may overtake an earlier page of its stream.
WrongAnyStream == Queued

\* The queue is searched for the first read whose stream is idle.
Startable == {j \in Queued : job[j].request.stream \notin activeStreams}
Chosen(j) == j \in Startable /\ \A k \in Startable : j <= k

Pumping == Running("pump") /\ ~closed /\ Cardinality(ActiveReads) < Concurrency

PumpReturns ==
  /\ Running("pump")
  /\ Pumping => Startable = {}
  /\ stack' = Tail(stack)
  /\ UNCHANGED <<jobs, model, epoch, booted, closed, slots, calls>>

\* Wrong: the key of a dropped read stays busy.
WrongDropKeepsKey(j) ==
  /\ Pumping
  /\ Chosen(j)
  /\ Dead(j) \/ ~Ticketed(job[j].request)
  /\ job' = [job EXCEPT ![j].phase = "done", ![j].answer = "false"]
  /\ UNCHANGED <<count, model, epoch, booted, closed, active, activeStreams, busyKeys, stack, calls>>

PumpDrops(j) ==
  /\ Pumping
  /\ Chosen(j)
  /\ Dead(j) \/ ~Ticketed(job[j].request)
  /\ job' = [job EXCEPT ![j].phase = "done", ![j].answer = "false"]
  /\ busyKeys' = busyKeys \ {job[j].request}
  /\ UNCHANGED <<count, model, epoch, booted, closed, active, activeStreams, stack, calls>>

\* Wrong: the request is put where its stream belongs.
WrongKeyForStream(j) ==
  /\ Pumping
  /\ Chosen(j)
  /\ ~Dead(j) /\ Ticketed(job[j].request)
  /\ sources' = Loading(j)
  /\ job' = [job EXCEPT ![j].phase = "loading"]
  /\ active' = [active EXCEPT ![job[j].request] = j]
  /\ activeStreams' = activeStreams \cup {job[j].request}
  /\ stack' = <<Frame("publish", 0), Frame("dispatch", j)>> \o stack
  /\ UNCHANGED <<count, scope, epoch, booted, closed, busyKeys, calls>>

PumpStarts(j) ==
  /\ Pumping
  /\ Chosen(j)
  /\ ~Dead(j) /\ Ticketed(job[j].request)
  /\ sources' = Loading(j)
  /\ job' = [job EXCEPT ![j].phase = "loading"]
  /\ active' = [active EXCEPT ![job[j].request] = j]
  /\ activeStreams' = activeStreams \cup {job[j].request.stream}
  /\ stack' = <<Frame("publish", 0), Frame("dispatch", j)>> \o stack
  /\ UNCHANGED <<count, scope, epoch, booted, closed, busyKeys, calls>>

\* After that publish(): the GET is sent and the loop goes on, or pump() returns.
Dispatch ==
  /\ Running("dispatch")
  /\ LET j == Head(stack).of
     IN IF Dead(j)
          THEN /\ job' = [job EXCEPT ![j].phase = "done"]
               /\ stack' = Tail(Tail(stack))
          ELSE /\ job' = [job EXCEPT ![j].phase = "fetching", ![j].scope = scope]
               /\ stack' = Tail(stack)
  /\ UNCHANGED <<count, model, epoch, booted, closed, slots, calls>>

\* The end of the handler of a response, after its publish().
Accept ==
  /\ Running("accept")
  /\ LET j == Head(stack).of
     IN job' = [job EXCEPT ![j].phase = IF Committed(j) THEN "accepted" ELSE "rejected"]
  /\ stack' = Tail(stack)
  /\ UNCHANGED <<count, model, epoch, booted, closed, slots, calls>>

\* The continuation of start() asks for its sections one by one.
AskSection ==
  /\ Running("sections")
  /\ LET n == Head(stack).of
         r == First(Initial[n])
         rest == IF n = Len(Initial) THEN Tail(stack)
                                     ELSE <<Frame("sections", n + 1)>> \o Tail(stack)
     IN IF Takes(r) THEN Enqueue(r, FALSE, rest)
                    ELSE stack' = rest /\ UNCHANGED <<jobs, busyKeys>>
  /\ UNCHANGED <<model, epoch, booted, closed, active, activeStreams, calls>>

-----------------------------------------------------------------------------
(* Answers and the promises that wait for them. *)

Idle(j, phase) == stack = <<>> /\ job[j] # None /\ job[j].phase = phase

\* An answer, or the AbortError, of a read that was cancelled: then(), catch(), resolve()
\* and finally() all come to nothing, in whatever order the others continue.
IgnoreAnswer(j) ==
  /\ Idle(j, "fetching")
  /\ Dead(j)
  /\ job' = [job EXCEPT ![j].phase = "done"]
  /\ UNCHANGED <<count, model, epoch, booted, closed, slots, stack, calls>>

ReceiveData(j) ==
  /\ Idle(j, "fetching")
  /\ ~Dead(j)
  /\ sources' = Received(j)
  /\ job' = [job EXCEPT ![j].phase = "received"]
  /\ stack' = <<Frame("publish", 0), Frame("accept", j)>>
  /\ UNCHANGED <<count, scope, epoch, booted, closed, slots, calls>>

\* An answer of another record, or one that contradicts what was read before.
ReceiveMisfit(j) ==
  /\ Idle(j, "fetching")
  /\ ~Dead(j)
  /\ sources' = Failed(j)
  /\ job' = [job EXCEPT ![j].phase = "received"]
  /\ stack' = <<Frame("publish", 0), Frame("accept", j)>>
  /\ UNCHANGED <<count, scope, epoch, booted, closed, slots, calls>>

\* The network, or any other status of the server.
ReceiveError(j) ==
  /\ Idle(j, "fetching")
  /\ ~Dead(j)
  /\ sources' = Failed(j)
  /\ job' = [job EXCEPT ![j].phase = "rejected"]
  /\ stack' = <<Frame("publish", 0)>>
  /\ UNCHANGED <<count, scope, epoch, booted, closed, slots, calls>>

\* 404 for the issue: the model starts again, the other reads go on.
QuestionGone(j) ==
  /\ Idle(j, "fetching")
  /\ ~Dead(j)
  /\ job[j].request.stream = Question
  /\ sources' = OnlyAnError(j)
  /\ job' = [job EXCEPT ![j].phase = "rejected"]
  /\ stack' = <<Frame("publish", 0)>>
  /\ UNCHANGED <<count, scope, epoch, booted, closed, slots, calls>>

\* 401 or 403, for whatever was asked
SessionLost(j) ==
  /\ Idle(j, "fetching")
  /\ ~Dead(j)
  /\ sources' = OnlyAnError(j)
  /\ FreeEverything
  /\ job' = [Cancelled EXCEPT ![j].phase = "rejected"]
  /\ stack' = <<Frame("publish", 0)>>
  /\ UNCHANGED <<count, scope, booted, closed, calls>>

\* job.resolve(ok); what waits for the promise runs before the finally().
Answer(j, ok) ==
  /\ Idle(j, IF ok = "true" THEN "accepted" ELSE "rejected")
  /\ job' = [job EXCEPT ![j].answer = Resolved(@, ok),
                        ![j].phase = IF job[j].boot THEN "resuming" ELSE "settled"]
  /\ UNCHANGED <<count, model, epoch, booted, closed, slots, stack, calls>>

Resume(j) ==
  /\ Idle(j, "resuming")
  /\ job' = [job EXCEPT ![j].phase = "settled"]
  /\ stack' = IF job[j].answer = "true" /\ ~Dead(j) THEN <<Frame("sections", 1)>> ELSE <<>>
  /\ UNCHANGED <<count, model, epoch, booted, closed, slots, calls>>

\* Wrong: the slot is freed and nobody looks at the queue.
WrongNoPump(j) ==
  /\ Idle(j, "settled")
  /\ job' = [job EXCEPT ![j].phase = "done"]
  /\ IF Dead(j)
       THEN UNCHANGED slots
       ELSE /\ active' = [active EXCEPT ![job[j].request] = None]
            /\ activeStreams' = activeStreams \ {job[j].request.stream}
            /\ busyKeys' = busyKeys \ {job[j].request}
  /\ UNCHANGED <<count, model, epoch, booted, closed, stack, calls>>

Finally(j) ==
  /\ Idle(j, "settled")
  /\ job' = [job EXCEPT ![j].phase = "done"]
  /\ IF Dead(j)
       THEN UNCHANGED <<slots, stack>>
       ELSE /\ active' = [active EXCEPT ![job[j].request] = None]
            /\ activeStreams' = activeStreams \ {job[j].request.stream}
            /\ busyKeys' = busyKeys \ {job[j].request}
            /\ stack' = <<Frame("pump", 0)>>
  /\ UNCHANGED <<count, model, epoch, booted, closed, calls>>

-----------------------------------------------------------------------------
Interface == Start \/ Dispose \/ (\E r \in Requests : Read(r)) \/ (\E s \in Scopes : Reset(s))

RunOn ==
  \/ PublishReturns \/ StartAfterReset \/ PumpReturns \/ Dispatch \/ Accept \/ AskSection
  \/ \E j \in Reads : PumpDrops(j) \/ PumpStarts(j)

Respond(j) ==
  \/ IgnoreAnswer(j) \/ ReceiveData(j) \/ ReceiveMisfit(j) \/ ReceiveError(j)
  \/ QuestionGone(j) \/ SessionLost(j)

Continue(j) == (\E ok \in {"true", "false"} : Answer(j, ok)) \/ Resume(j) \/ Finally(j)

Next == Interface \/ RunOn \/ \E j \in Reads : Respond(j) \/ Continue(j)

Spec == Init /\ [][Next]_vars

\* A callback runs on, a settled promise continues, a GET ends one way or another.
Fairness ==
  /\ WF_vars(RunOn)
  /\ \A j \in Reads : WF_vars(Respond(j)) /\ WF_vars(Continue(j))

FairSpec == Spec /\ Fairness

-----------------------------------------------------------------------------
TypeOK ==
  /\ job \in [Reads -> Jobs \cup {None}]
  /\ count \in 0..(1 + MaxCalls) * (1 + Len(Initial))
  /\ \A j \in Reads : job[j] # None <=> j <= count
  /\ sources \in [Streams -> Source \cup {None}]
  /\ scope \in Scopes /\ epoch \in Nat /\ calls \in 0..MaxCalls
  /\ booted \in BOOLEAN /\ closed \in BOOLEAN
  /\ active \in [Requests -> Reads \cup {None}]
  /\ activeStreams \subseteq Streams /\ busyKeys \subseteq Requests
  /\ stack \in Seq(Frames)

\* A GET that is out and not aborted, or about to go.
Live(j) == job[j] # None /\ job[j].phase \in {"loading", "fetching"} /\ ~Dead(j)

\* Never more than Concurrency GETs are out, even when a subscriber queues reads while
\* pump() publishes the start of another (pump 122-147).
ReadsAreBounded == Cardinality({j \in Reads : Live(j)}) <= Concurrency

\* The three collections that read(), pump(), finally() and cancelOutstanding() keep
\* apart agree at every step: a busy key has one read, queued or active, that is not
\* over, and no read of a former epoch keeps a slot.
SlotsAgree ==
  /\ busyKeys = {job[j].request : j \in Queued \cup ActiveReads}
  /\ activeStreams = {job[j].request.stream : j \in ActiveReads}
  /\ \A j \in Queued \cup ActiveReads : ~Dead(j) /\ job[j].phase # "done"
  /\ \A j, k \in Queued \cup ActiveReads : job[j].request = job[k].request => j = k

\* When the callbacks are done no read waits that could start: a slot or a stream that
\* comes free always finds the queue (finally 170-176, and the return of pump at 147).
NoReadForgotten ==
  stack = <<>> => Cardinality(ActiveReads) = Concurrency \/ Startable = {}

\* Whatever the page shows was asked for in the present scope and since the last reset,
\* and no section is shown of an issue that was not read (read 184, startDossierRead).
NothingStaleShown ==
  \A s \in Streams : sources[s] # None =>
    /\ sources[s].page # None =>
         LET j == sources[s].reader
         IN job[j].scope = scope /\ job[j].epoch = epoch /\ job[j].request.stream = s
    /\ s # Question => sources[Question] # None /\ sources[Question].page # None

\* A section that says "loading" has a read at work that will end it.
LoadingHasARead ==
  \A s \in Streams : sources[s] # None /\ sources[s].pending # None =>
    LET j == sources[s].pending
    IN job[j].request.stream = s /\ active[job[j].request] = j /\ ~Dead(j)

\* A page that waits behind an earlier one of its stream is refused only after that one is
\* over, when it is known which page is next (pump 123, startDossierRead 130-132).
RefusedInItsTurn ==
  [][\A j \in Queued : job'[j].phase = "done" /\ epoch' = epoch =>
       \A k \in ActiveReads : job[k].request.stream # job[j].request.stream]_vars

\* A read answered true has brought the page that the model holds of its stream, no
\* former one, and nobody refreshed before the promise was resolved (pump 149-169).
TrueMeansShown ==
  [][\A j \in Reads :
       job[j] # None /\ job[j].answer # "true" /\ job'[j].answer = "true" =>
         ~Dead(j) /\ Committed(j) /\ sources[job[j].request.stream].page = job[j].request.page]_vars

\* Once all has come to rest an issue that is shown has had its initial sections read,
\* whatever was refreshed, cancelled or queued meanwhile (start 191-202).
SectionsFollow ==
  (stack = <<>> /\ Queued \cup ActiveReads = {} /\ QuestionReady) =>
    \A n \in DOMAIN Initial : sources[Initial[n]] # None

-----------------------------------------------------------------------------
(* The inductive invariant. *)

\* TypeOK without the bounds on how often the reader is called.
Typed ==
  /\ job \in [Reads -> Jobs \cup {None}]
  /\ count \in Nat /\ epoch \in Nat /\ closed \in BOOLEAN /\ scope \in Scopes
  /\ \A j \in Reads : job[j] # None <=> j <= count
  /\ sources \in [Streams -> Source \cup {None}]
  /\ active \in [Requests -> Reads \cup {None}]
  /\ stack \in Seq(Frames)

\* What a frame of stack st finds when its turn comes, given the jobs jb.
FrameFits(st, jb, i) ==
  /\ st[i].do \in {"dispatch", "accept"} =>
       /\ st[i].of \in Reads
       /\ jb[st[i].of] # None
       /\ jb[st[i].of].phase = IF st[i].do = "dispatch" THEN "loading" ELSE "received"
  /\ st[i].do = "dispatch" => i < Len(st) /\ st[i+1].do = "pump"
  /\ st[i].do = "sections" => st[i].of \in 1..Len(Initial)

WellFormed(st, jb) ==
  /\ \A i \in 1..Len(st) : FrameFits(st, jb, i)
  /\ \A i, k \in 1..Len(st) :
       /\ st[i].do \in {"dispatch", "accept"} /\ st[k].do = st[i].do
       /\ st[i].of = st[k].of
       => i = k

\* Between its start and its end a read of the present epoch has its slot, and no other.
AtWork(j) == job[j] # None /\ job[j].phase \notin {"queued", "done"} /\ ~Dead(j)

SlotsOwned ==
  /\ \A r \in Requests : active[r] # None => AtWork(active[r]) /\ job[active[r]].request = r
  /\ \A j \in Reads : AtWork(j) => active[job[j].request] = j
  /\ \A j \in Queued : ~Dead(j) /\ active[job[j].request] = None
  /\ \A j, k \in Queued : job[j].request = job[k].request => j = k
  /\ \A r, q \in Requests :
       active[r] # None /\ active[q] # None /\ r.stream = q.stream => r = q
  /\ busyKeys = {job[j].request : j \in Queued} \cup {r \in Requests : active[r] # None}
  /\ activeStreams = {r.stream : r \in {q \in Requests : active[q] # None}}
  /\ Cardinality(ActiveReads) <= Concurrency

\* A GET of the present epoch was sent for the present scope.
SentForScope ==
  \A j \in Reads : job[j] # None =>
    /\ job[j].epoch <= epoch
    /\ job[j].phase = "fetching" /\ job[j].epoch = epoch => job[j].scope = scope

\* What the model says of a stream, a read of the present epoch at work has put there.
SourcesFollowReads ==
  /\ \A s \in Streams : sources[s] # None =>
       /\ sources[s].page = None <=> sources[s].reader = None
       /\ sources[s].reader # None =>
            LET j == sources[s].reader
            IN job[j] # None /\ job[j].request.page = sources[s].page
       /\ sources[s].pending # None =>
            LET j == sources[s].pending
            IN AtWork(j) /\ job[j].phase \in {"loading", "fetching"} /\ job[j].request.stream = s
  /\ \A j \in Reads : AtWork(j) =>
       /\ job[j].phase \in {"loading", "fetching"} => Accepts(j)
       /\ job[j].phase = "accepted" =>
            Committed(j) /\ sources[job[j].request.stream].page = job[j].request.page

\* Nothing else is read before the issue is.
Waiting(j) == job[j] # None /\ ~Dead(j) /\ job[j].phase \in {"queued", "loading", "fetching"}
QuestionFirst ==
  /\ ~booted \/ closed =>
       /\ sources = NothingRead
       /\ Queued = {}
       /\ \A r \in Requests : active[r] = None
  /\ \A j \in Reads : Waiting(j) /\ job[j].request.stream = Question =>
       /\ \A k \in Reads : k \in Queued \/ AtWork(k) => k = j
       /\ \A s \in Sections : sources[s] = None
       /\ sources[Question] # None => sources[Question].pending = j

\* Whoever is cancelled is answered; who is not waits for its own end.
AnswersFollowReads ==
  \A j \in Reads : job[j] # None =>
    /\ Dead(j) \/ job[j].phase \in {"resuming", "settled", "done"} => job[j].answer # None
    /\ ~Dead(j) /\ job[j].phase \notin {"resuming", "settled", "done"} => job[j].answer = None

\* While a read could start a pump() that will see it is on the stack: not one that
\* returns as soon as it finds its own read cancelled.
PumpIsComing ==
  Startable # {} /\ Cardinality(ActiveReads) < Concurrency =>
    \E i \in 1..Len(stack) :
      /\ stack[i].do = "pump"
      /\ i > 1 /\ stack[i-1].do = "dispatch" => ~Dead(stack[i-1].of)

IInv ==
  /\ Typed
  /\ WellFormed(stack, job)
  /\ SlotsOwned
  /\ SentForScope
  /\ SourcesFollowReads
  /\ QuestionFirst
  /\ AnswersFollowReads
  /\ PumpIsComing
  /\ NothingStaleShown

-----------------------------------------------------------------------------
\* Every read that is taken is answered: cancelled, refused, failed or shown.
EveryReadIsAnswered ==
  \A j \in Reads : (job[j] # None) ~> (job[j] # None /\ job[j].answer # None)
=============================================================================
