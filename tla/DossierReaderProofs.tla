------------------------- MODULE DossierReaderProofs -------------------------
(***************************************************************************)
(* The safety of the dossier reader for any sections, any limit on         *)
(* concurrent reads and any number of calls: slots and queue agree, only   *)
(* what is present is shown, the sections of an issue follow it, and the   *)
(* bounds of the model on calls and reads play no part.                    *)
(***************************************************************************)
EXTENDS DossierReader, FiniteSetTheorems, TLAPS

USE ReaderParameters

-----------------------------------------------------------------------------
(* Values. *)

LEMMA ReadsAreNumbers ==
  /\ Reads \subseteq Nat \ {0}
  /\ None \notin Reads
  /\ \A n \in Nat : n + 1 \in Reads => n + 1 # None
BY DEF Reads

\* A request names its stream; the first page of a stream is a request.
LEMMA RequestsNameStreams ==
  /\ \A r \in Requests : r.stream \in Streams
  /\ \A s \in Streams : First(s) \in Requests /\ First(s).stream = s /\ First(s).page = 0
  /\ \A r \in Requests : r.page \in 0..LastPage
BY DEF Requests, First, Streams

LEMMA SectionsAreStreams ==
  \A n \in 1..Len(Initial) :
    First(Initial[n]) \in Requests /\ First(Initial[n]).stream \in Sections
<1> TAKE n \in 1..Len(Initial)
<1>1. Initial[n] \in Sections
  OBVIOUS
<1> QED
  BY <1>1, RequestsNameStreams DEF Streams

LEMMA NoneIsNoValue ==
  /\ \A x \in Jobs : x # None
  /\ \A x \in Source : x # None
  /\ \A n \in Nat : n # None
  /\ None # "true" /\ None # "false"
OBVIOUS

\* The reads that hold a slot are finitely many.
LEMMA FewReads ==
  ASSUME Typed
  PROVE  ActiveReads \subseteq Reads /\ IsFiniteSet(ActiveReads) /\ Cardinality(ActiveReads) \in Nat
<1>1. ActiveReads \subseteq Reads
  BY DEF Typed, ActiveReads
<1>2. (1 + MaxCalls) * (1 + Len(Initial)) \in Nat
  OBVIOUS
<1>3. IsFiniteSet(Reads)
  BY <1>2, FS_Interval DEF Reads
<1> QED
  BY <1>1, <1>3, FS_Subset, FS_CardinalityType

-----------------------------------------------------------------------------
(* The stack. *)

LEMMA TailIsWellFormed ==
  ASSUME NEW st \in Seq(Frames), NEW jb, st # <<>>, WellFormed(st, jb)
  PROVE  Tail(st) \in Seq(Frames) /\ WellFormed(Tail(st), jb)
<1> DEFINE t == Tail(st)
<1>1. t \in Seq(Frames) /\ Len(t) = Len(st) - 1 /\ Len(st) \in Nat
  OBVIOUS
<1>2. \A i \in 1..Len(t) : t[i] = st[i+1] /\ i + 1 \in 1..Len(st)
  BY <1>1
<1>3. \A i \in 1..Len(t) : FrameFits(t, jb, i)
  <2> SUFFICES ASSUME NEW i \in 1..Len(t) PROVE FrameFits(t, jb, i)
    OBVIOUS
  <2>1. FrameFits(st, jb, i+1)
    BY <1>2 DEF WellFormed
  <2>2. i + 1 < Len(st) => t[i+1] = st[i+2]
    BY <1>1, <1>2
  <2> QED
    BY <2>1, <2>2, <1>1, <1>2 DEF FrameFits
<1>4. \A i, k \in 1..Len(t) :
        /\ t[i].do \in {"dispatch", "accept"} /\ t[k].do = t[i].do
        /\ t[i].of = t[k].of
        => i = k
  <2> SUFFICES ASSUME NEW i \in 1..Len(t), NEW k \in 1..Len(t),
                      t[i].do \in {"dispatch", "accept"}, t[k].do = t[i].do, t[i].of = t[k].of
               PROVE  i = k
    OBVIOUS
  <2>1. i + 1 = k + 1
    BY <1>2 DEF WellFormed
  <2> QED
    BY <2>1
<1> QED
  BY <1>1, <1>3, <1>4 DEF WellFormed

\* A frame that names no read may be put on top.
LEMMA PushedIsWellFormed ==
  ASSUME NEW st \in Seq(Frames), NEW jb, WellFormed(st, jb),
         NEW f \in Frames, f.do \notin {"dispatch", "accept"},
         f.do = "sections" => f.of \in 1..Len(Initial)
  PROVE  <<f>> \o st \in Seq(Frames) /\ WellFormed(<<f>> \o st, jb)
<1> DEFINE t == <<f>> \o st
<1>1. t \in Seq(Frames) /\ Len(t) = Len(st) + 1 /\ Len(st) \in Nat
  OBVIOUS
<1>2. t[1] = f /\ \A i \in 1..Len(t) : i # 1 => t[i] = st[i-1] /\ i - 1 \in 1..Len(st)
  BY <1>1
<1>3. \A i \in 1..Len(t) : FrameFits(t, jb, i)
  <2> SUFFICES ASSUME NEW i \in 1..Len(t) PROVE FrameFits(t, jb, i)
    OBVIOUS
  <2>1. CASE i = 1
    BY <2>1, <1>2 DEF FrameFits
  <2>2. CASE i # 1
    <3>1. FrameFits(st, jb, i-1)
      BY <2>2, <1>2 DEF WellFormed
    <3>2. i < Len(t) => t[i+1] = st[i]
      BY <1>1, <1>2
    <3> QED
      BY <3>1, <3>2, <2>2, <1>1, <1>2 DEF FrameFits
  <2> QED
    BY <2>1, <2>2
<1>4. \A i, k \in 1..Len(t) :
        /\ t[i].do \in {"dispatch", "accept"} /\ t[k].do = t[i].do
        /\ t[i].of = t[k].of
        => i = k
  <2> SUFFICES ASSUME NEW i \in 1..Len(t), NEW k \in 1..Len(t),
                      t[i].do \in {"dispatch", "accept"}, t[k].do = t[i].do, t[i].of = t[k].of
               PROVE  i = k
    OBVIOUS
  <2>1. i # 1 /\ k # 1
    BY <1>2
  <2>2. i - 1 = k - 1
    BY <2>1, <1>2 DEF WellFormed
  <2> QED
    BY <2>2
<1> QED
  BY <1>1, <1>3, <1>4 DEF WellFormed

\* What the frames need of the jobs is their phase, while it is loading or received.
LEMMA SamePhasesKeepWellFormed ==
  ASSUME NEW st \in Seq(Frames), NEW jb, NEW kb, WellFormed(st, jb),
         \A j \in Reads : jb[j] # None /\ jb[j].phase \in {"loading", "received"}
                            => kb[j] # None /\ kb[j].phase = jb[j].phase
  PROVE  WellFormed(st, kb)
BY DEF WellFormed, FrameFits

LEMMA EmptyIsWellFormed ==
  ASSUME NEW jb
  PROVE  <<>> \in Seq(Frames) /\ WellFormed(<<>>, jb)
BY DEF WellFormed

-----------------------------------------------------------------------------
(* Steps that only change the stack. *)

\* What is read off the jobs and slots alone stays what it is.
LEMMA StackStepKeepsIInv ==
  ASSUME IInv, UNCHANGED <<jobs, model, epoch, closed, slots>>, booted => booted',
         stack' \in Seq(Frames), WellFormed(stack', job), PumpIsComing'
  PROVE  IInv'
<1> USE DEF jobs, model, slots
<1>1. Typed'
  BY DEF IInv, Typed
<1>2. WellFormed(stack, job)'
  OBVIOUS
<1>3. SlotsOwned'
  BY DEF IInv, SlotsOwned, AtWork, Dead, Queued, ActiveReads
<1>4. SentForScope'
  BY DEF IInv, SentForScope
<1>5. SourcesFollowReads'
  BY DEF IInv, SourcesFollowReads, AtWork, Dead, Accepts, Committed
<1>6. QuestionFirst'
  BY DEF IInv, QuestionFirst, Queued, AtWork, Dead, Waiting
<1>7. AnswersFollowReads'
  BY DEF IInv, AnswersFollowReads, Dead
<1>8. NothingStaleShown'
  BY DEF IInv, NothingStaleShown
<1> QED
  BY <1>1, <1>2, <1>3, <1>4, <1>5, <1>6, <1>7, <1>8 DEF IInv

\* When the frame on top is done and it was no pump(), the one that will see the queue
\* is still below.
LEMMA PumpStaysBelow ==
  ASSUME IInv, stack # <<>>, stack' = Tail(stack),
         Startable' = Startable, ActiveReads' = ActiveReads,
         \A k \in Reads : job[k] # None => (Dead(k)' <=> Dead(k)),
         Head(stack).do = "pump" => Startable = {} \/ Cardinality(ActiveReads) >= Concurrency,
         Head(stack).do = "dispatch" => ~Dead(Head(stack).of)
  PROVE  PumpIsComing'
<1>1. stack \in Seq(Frames) /\ WellFormed(stack, job) /\ Cardinality(ActiveReads) \in Nat
  BY FewReads DEF IInv, Typed
<1>2. /\ Len(stack') = Len(stack) - 1 /\ Len(stack) \in Nat
      /\ \A i \in 1..Len(stack') : stack'[i] = stack[i+1]
  BY <1>1
<1> SUFFICES ASSUME Startable # {}, Cardinality(ActiveReads) < Concurrency
             PROVE  \E i \in 1..Len(stack') :
                      /\ stack'[i].do = "pump"
                      /\ i > 1 /\ stack'[i-1].do = "dispatch" => ~(closed' \/ job'[stack'[i-1].of].epoch # epoch')
  BY DEF PumpIsComing, Dead
<1>3. PICK i \in 1..Len(stack) :
        /\ stack[i].do = "pump"
        /\ i > 1 /\ stack[i-1].do = "dispatch" => ~Dead(stack[i-1].of)
  BY DEF IInv, PumpIsComing
<1>4. i # 1
  BY <1>1, <1>3
<1>5. i - 1 \in 1..Len(stack') /\ stack'[i-1] = stack[i] /\ (i - 1 > 1 => stack'[i-2] = stack[i-1])
  BY <1>2, <1>4
<1>6. (i - 1) > 1 /\ stack'[(i - 1) - 1].do = "dispatch" => ~(closed' \/ job'[stack'[(i - 1) - 1].of].epoch # epoch')
  <2> SUFFICES ASSUME i - 1 > 1, stack'[i - 2].do = "dispatch" PROVE ~(closed' \/ job'[stack'[i - 2].of].epoch # epoch')
    BY <1>1
  <2>1. stack'[i - 2] = stack[i - 1] /\ i - 1 \in 1..Len(stack)
    BY <1>5, <1>2
  <2>2. stack[i-1].of \in Reads /\ job[stack[i-1].of] # None
    BY <2>1, <1>1 DEF WellFormed, FrameFits
  <2> QED
    BY <1>3, <2>1, <2>2, <1>1 DEF Dead
<1> QED
  BY <1>3, <1>5, <1>6

\* With the jobs and the slots what is said of the queue stays.
LEMMA SameQueue ==
  ASSUME UNCHANGED <<jobs, epoch, closed, slots>>
  PROVE  Startable' = Startable /\ ActiveReads' = ActiveReads /\ \A k : Dead(k)' <=> Dead(k)
BY DEF Startable, Queued, ActiveReads, Dead, jobs, slots

LEMMA PublishReturnsKeepsIInv ==
  ASSUME IInv, PublishReturns
  PROVE  IInv'
<1>1. /\ stack \in Seq(Frames) /\ stack # <<>> /\ stack' = Tail(stack)
      /\ Head(stack).do = "publish" /\ WellFormed(stack, job)
      /\ UNCHANGED <<jobs, model, epoch, booted, closed, slots>>
  BY DEF IInv, Typed, PublishReturns, Notifying
<1>2. PumpIsComing'
  BY <1>1, SameQueue, PumpStaysBelow
<1>3. stack' \in Seq(Frames) /\ WellFormed(stack', job)
  BY <1>1, TailIsWellFormed
<1>4. booted' = booted
  BY <1>1
<1> QED
  BY <1>1, <1>2, <1>3, <1>4, StackStepKeepsIInv

LEMMA PumpReturnsKeepsIInv ==
  ASSUME IInv, PumpReturns
  PROVE  IInv'
<1>1. /\ stack \in Seq(Frames) /\ stack # <<>> /\ stack' = Tail(stack)
      /\ Head(stack).do = "pump" /\ WellFormed(stack, job)
      /\ UNCHANGED <<jobs, model, epoch, booted, closed, slots>>
  BY DEF IInv, Typed, PumpReturns, Running
<1>2. Startable = {} \/ Cardinality(ActiveReads) >= Concurrency
  <2>1. closed => Startable = {}
    BY DEF IInv, QuestionFirst, Startable
  <2> QED
    BY <2>1, FewReads DEF IInv, PumpReturns, Pumping
<1>3. PumpIsComing'
  BY <1>1, <1>2, SameQueue, PumpStaysBelow
<1>4. stack' \in Seq(Frames) /\ WellFormed(stack', job)
  BY <1>1, TailIsWellFormed
<1>5. booted' = booted
  BY <1>1
<1> QED
  BY <1>1, <1>3, <1>4, <1>5, StackStepKeepsIInv

-----------------------------------------------------------------------------
(* Reads are queued. *)

LEMMA EnqueueKeepsIInv ==
  ASSUME IInv, NEW r \in Requests, NEW boot \in BOOLEAN, NEW rest \in Seq(Frames),
         WellFormed(rest, job), Takes(r), Enqueue(r, boot, rest), booted => booted',
         r.stream = Question => ~booted /\ booted',
         UNCHANGED <<model, epoch, closed, active, activeStreams>>
  PROVE  IInv'
<1> DEFINE new == count + 1
           rec == [request |-> r, epoch |-> epoch, boot |-> boot, phase |-> "queued",
                   scope |-> scope, answer |-> None]
<1> USE DEF model
<1>1. /\ new \in Reads /\ job[new] = None /\ job'[new] = rec /\ rec \in Jobs /\ rec # None
      /\ \A k \in Reads : k # new => job'[k] = job[k]
      /\ ~closed
  BY NoneIsNoValue DEF IInv, Typed, Enqueue, Takes, Jobs, Phases
<1>2. Queued' = Queued \cup {new} /\ new \notin Queued
  BY <1>1 DEF Queued
<1>3. \A j \in Reads : AtWork(j)' <=> AtWork(j)
  BY <1>1 DEF AtWork, Dead
<1>4. ActiveReads' = ActiveReads
  BY DEF ActiveReads
<1>5. Typed'
  <2>1. job' \in [Reads -> Jobs \cup {None}]
    BY <1>1 DEF IInv, Typed, Enqueue
  <2>2. \A j \in Reads : job'[j] # None <=> j <= count'
    BY <1>1, ReadsAreNumbers DEF IInv, Typed, Enqueue
  <2>3. Frame("pump", 0) \in Frames
    BY DEF Frames, Frame
  <2>4. stack' \in Seq(Frames)
    BY <2>3 DEF Enqueue
  <2> QED
    BY <2>1, <2>2, <2>4 DEF IInv, Typed, Enqueue
<1>6. WellFormed(stack, job)'
  <2>1. Frame("pump", 0) \in Frames /\ Frame("pump", 0).do = "pump"
    BY DEF Frames, Frame
  <2>2. WellFormed(<<Frame("pump", 0)>> \o rest, job)
    BY <2>1, PushedIsWellFormed
  <2>3. \A j \in Reads : job[j] # None => job'[j] = job[j]
    BY <1>1
  <2>4. WellFormed(<<Frame("pump", 0)>> \o rest, job')
    <3> DEFINE st == <<Frame("pump", 0)>> \o rest
    <3>1. st \in Seq(Frames) /\ WellFormed(st, job)
      BY <2>1, <2>2
    <3> HIDE DEF st
    <3>2. WellFormed(st, job')
      BY <2>3, <3>1, SamePhasesKeepWellFormed
    <3> QED
      BY <3>2 DEF st
  <2> QED
    BY <2>4 DEF Enqueue
<1>7. SlotsOwned'
  <2>1. r \notin busyKeys /\ busyKeys' = busyKeys \cup {r}
    BY DEF Takes, Enqueue
  <2>2. active[r] = None /\ \A j \in Queued : job[j].request # r
    BY <2>1 DEF IInv, SlotsOwned
  <2>3. \A q \in Requests : active[q] # None => active[q] # new /\ active[q] \in Reads
    BY <1>1 DEF IInv, SlotsOwned, AtWork, Typed
  <2>4. (\A q \in Requests : active[q] # None => AtWork(active[q]) /\ job[active[q]].request = q)'
    BY <2>3, <1>1 DEF IInv, SlotsOwned, AtWork, Dead
  <2>5. \A j \in Reads : AtWork(j)' => active'[job'[j].request] = j
    BY <1>1, <1>3 DEF IInv, SlotsOwned, AtWork
  <2>6. \A j \in Queued' : ~Dead(j)' /\ active'[job'[j].request] = None
    BY <1>1, <1>2, <2>2 DEF IInv, SlotsOwned, Dead, Queued
  <2>7. \A j, k \in Queued' : job'[j].request = job'[k].request => j = k
    BY <1>1, <1>2, <2>2 DEF IInv, SlotsOwned, Queued
  <2>8. busyKeys' = {job'[j].request : j \in Queued'} \cup {q \in Requests : active'[q] # None}
    <3>1. {job'[j].request : j \in Queued'} = {job[j].request : j \in Queued} \cup {r}
      BY <1>1, <1>2 DEF Queued
    <3> QED
      BY <3>1, <2>1 DEF IInv, SlotsOwned
  <2> QED
    BY <2>4, <2>5, <2>6, <2>7, <2>8, <1>4 DEF IInv, SlotsOwned
<1>8. SentForScope'
  BY <1>1 DEF IInv, SentForScope, Typed
<1>9. SourcesFollowReads'
  <2>1. \A s \in Streams : sources[s] # None =>
          /\ sources[s].page = None <=> sources[s].reader = None
          /\ sources[s].reader # None =>
               /\ sources[s].reader \in Reads \ {new}
               /\ job[sources[s].reader] # None
               /\ job[sources[s].reader].request.page = sources[s].page
          /\ sources[s].pending # None =>
               /\ sources[s].pending \in Reads \ {new}
               /\ AtWork(sources[s].pending)
               /\ job[sources[s].pending].phase \in {"loading", "fetching"}
               /\ job[sources[s].pending].request.stream = s
    BY <1>1 DEF IInv, Typed, Source, SourcesFollowReads, AtWork
  <2>2. \A j \in Reads : AtWork(j) => j # new
    BY <1>1 DEF AtWork
  <2>3. \A j \in Reads : AtWork(j) =>
          /\ job[j].phase \in {"loading", "fetching"} => Accepts(j)
          /\ job[j].phase = "accepted" =>
               Committed(j) /\ sources[job[j].request.stream].page = job[j].request.page
    BY DEF IInv, SourcesFollowReads
  <2> QED
    BY <2>1, <2>2, <2>3, <1>1, <1>3 DEF SourcesFollowReads, Accepts, Committed
<1>10. QuestionFirst'
  <2>1. CASE r.stream = Question
    <3>1. sources = NothingRead /\ Queued = {} /\ \A q \in Requests : active[q] = None
      BY <2>1 DEF IInv, QuestionFirst
    <3>2. \A k \in Reads : ~AtWork(k)
      BY <3>1, ReadsAreNumbers DEF IInv, SlotsOwned, AtWork, Typed, Jobs
    <3>3. \A k \in Reads : k \in Queued' \/ AtWork(k)' => k = new
      BY <3>1, <3>2, <1>2, <1>3
    <3>4. \A j \in Reads : Waiting(j)' => j = new
      BY <3>3, <1>1 DEF Waiting, AtWork, Queued
    <3> QED
      BY <3>1, <3>3, <3>4, <2>1, <1>1 DEF QuestionFirst, NothingRead, Streams
  <2>2. CASE r.stream # Question
    <3>1. sources[Question] # None /\ sources[Question].pending = None
      BY <2>2 DEF Takes, QuestionReady
    <3>2. booted
      BY <3>1 DEF IInv, QuestionFirst, NothingRead, Streams
    <3>3. \A j \in Reads : ~(Waiting(j)' /\ job'[j].request.stream = Question)
      <4> SUFFICES ASSUME NEW j \in Reads, Waiting(j)', job'[j].request.stream = Question
                   PROVE  FALSE
        OBVIOUS
      <4>1. j # new
        BY <2>2, <1>1
      <4>2. Waiting(j) /\ job[j].request.stream = Question
        BY <4>1, <1>1 DEF Waiting, Dead
      <4> QED
        BY <4>2, <3>1, ReadsAreNumbers DEF IInv, QuestionFirst
    <3> QED
      BY <3>2, <3>3, <1>1 DEF QuestionFirst
  <2> QED
    BY <2>1, <2>2
<1>11. AnswersFollowReads'
  BY <1>1 DEF IInv, AnswersFollowReads, Dead
<1>12. PumpIsComing'
  <2>1. stack' \in Seq(Frames) /\ stack'[1].do = "pump" /\ 1 \in 1..Len(stack')
    BY <1>5 DEF Enqueue, Frame, Typed
  <2> QED
    BY <2>1 DEF PumpIsComing
<1>13. NothingStaleShown'
  <2>1. \A s \in Streams : sources[s] # None /\ sources[s].page # None =>
          job'[sources[s].reader] = job[sources[s].reader]
    BY <1>1 DEF IInv, Typed, Source, SourcesFollowReads
  <2> QED
    BY <2>1, <1>1 DEF IInv, NothingStaleShown
<1> QED
  BY <1>5, <1>6, <1>7, <1>8, <1>9, <1>10, <1>11, <1>12, <1>13 DEF IInv

LEMMA BootKeepsIInv ==
  ASSUME IInv, NEW rest \in Seq(Frames), WellFormed(rest, job), Boot(rest),
         UNCHANGED <<jobs, epoch, closed, slots>> /\ stack' = rest => PumpIsComing'
  PROVE  IInv'
<1>1. CASE ~closed /\ ~booted /\ Takes(First(Question))
  <2>1. First(Question) \in Requests /\ First(Question).stream = Question
    BY RequestsNameStreams DEF Streams
  <2>2. /\ Enqueue(First(Question), TRUE, rest) /\ ~booted /\ booted'
        /\ UNCHANGED <<model, epoch, closed, active, activeStreams>>
    BY <1>1 DEF Boot
  <2> QED
    BY <2>1, <2>2, <1>1, EnqueueKeepsIInv
<1>2. CASE ~(~closed /\ ~booted /\ Takes(First(Question)))
  <2>1. UNCHANGED <<jobs, model, epoch, closed, slots>> /\ stack' = rest /\ (booted => booted')
    BY <1>2 DEF Boot, slots
  <2> QED
    BY <2>1, StackStepKeepsIInv
<1> QED
  BY <1>1, <1>2

LEMMA StartKeepsIInv ==
  ASSUME IInv, Start
  PROVE  IInv'
<1>1. stack \in Seq(Frames) /\ WellFormed(stack, job) /\ Boot(stack)
  BY DEF IInv, Typed, Start
<1>2. UNCHANGED <<jobs, epoch, closed, slots>> /\ stack' = stack => PumpIsComing'
  BY DEF IInv, PumpIsComing, Startable, Queued, ActiveReads, Dead, jobs, slots
<1> QED
  BY <1>1, <1>2, BootKeepsIInv

LEMMA StartAfterResetKeepsIInv ==
  ASSUME IInv, StartAfterReset
  PROVE  IInv'
<1>1. /\ stack \in Seq(Frames) /\ stack # <<>> /\ Head(stack).do = "start"
      /\ WellFormed(stack, job) /\ Boot(Tail(stack))
  BY DEF IInv, Typed, StartAfterReset, Running
<1>2. UNCHANGED <<jobs, epoch, closed, slots>> /\ stack' = Tail(stack) => PumpIsComing'
  BY <1>1, SameQueue, PumpStaysBelow
<1>3. Tail(stack) \in Seq(Frames) /\ WellFormed(Tail(stack), job)
  BY <1>1, TailIsWellFormed
<1> QED
  BY <1>1, <1>2, <1>3, BootKeepsIInv

LEMMA ReadKeepsIInv ==
  ASSUME IInv, NEW r \in Requests, Read(r)
  PROVE  IInv'
<1>1. /\ stack \in Seq(Frames) /\ WellFormed(stack, job)
      /\ Takes(r) /\ Enqueue(r, FALSE, stack) /\ r.stream # Question
      /\ UNCHANGED <<model, epoch, closed, active, activeStreams>> /\ booted' = booted
  BY DEF IInv, Typed, Read
<1> QED
  BY <1>1, EnqueueKeepsIInv

LEMMA AskSectionKeepsIInv ==
  ASSUME IInv, AskSection
  PROVE  IInv'
<1> DEFINE n == Head(stack).of
           r == First(Initial[n])
           rest == IF n = Len(Initial) THEN Tail(stack)
                                       ELSE <<Frame("sections", n + 1)>> \o Tail(stack)
<1>1. /\ stack \in Seq(Frames) /\ stack # <<>> /\ Head(stack).do = "sections"
      /\ WellFormed(stack, job)
      /\ UNCHANGED <<model, epoch, closed, active, activeStreams>> /\ booted' = booted
  BY DEF IInv, Typed, AskSection, Running
<1>2. n \in 1..Len(Initial)
  <2>1. 1 \in 1..Len(stack) /\ stack[1] = Head(stack)
    BY <1>1
  <2> QED
    BY <2>1, <1>1 DEF WellFormed, FrameFits
<1>3. r \in Requests /\ r.stream # Question
  BY <1>2, SectionsAreStreams
<1>4. Tail(stack) \in Seq(Frames) /\ WellFormed(Tail(stack), job)
  BY <1>1, TailIsWellFormed
<1>5. rest \in Seq(Frames) /\ WellFormed(rest, job)
  <2>1. CASE n = Len(Initial)
    BY <2>1, <1>4
  <2>2. CASE n # Len(Initial)
    <3>1. /\ Frame("sections", n + 1) \in Frames /\ Frame("sections", n + 1).do = "sections"
          /\ Frame("sections", n + 1).of \in 1..Len(Initial)
      BY <2>2, <1>2 DEF Frames, Frame
    <3> QED
      BY <3>1, <2>2, <1>4, PushedIsWellFormed
  <2> QED
    BY <2>1, <2>2
<1>6. CASE Takes(r)
  <2>1. Enqueue(r, FALSE, rest)
    BY <1>6 DEF AskSection
  <2> HIDE DEF rest, r
  <2> QED
    BY <2>1, <1>1, <1>3, <1>5, <1>6, EnqueueKeepsIInv
<1>7. CASE ~Takes(r)
  <2>1. stack' = rest /\ UNCHANGED <<jobs, model, epoch, closed, slots>>
    BY <1>7, <1>1 DEF AskSection, slots
  <2>2. Startable' = Startable /\ ActiveReads' = ActiveReads /\ \A j : Dead(j)' = Dead(j)
    BY <2>1 DEF Startable, Queued, ActiveReads, Dead, jobs, slots
  <2>3. PumpIsComing'
    <3> SUFFICES ASSUME Startable # {}, Cardinality(ActiveReads) < Concurrency
                 PROVE  \E i \in 1..Len(rest) :
                          /\ rest[i].do = "pump"
                          /\ i > 1 /\ rest[i-1].do = "dispatch" => ~Dead(rest[i-1].of)
      BY <2>1, <2>2 DEF PumpIsComing
    <3>1. PICK i \in 1..Len(stack) :
            /\ stack[i].do = "pump"
            /\ i > 1 /\ stack[i-1].do = "dispatch" => ~Dead(stack[i-1].of)
      BY DEF IInv, PumpIsComing
    <3>2. i # 1 /\ stack[1].do = "sections"
      BY <1>1, <3>1
    <3>3. CASE n = Len(Initial)
      <4>1. Len(rest) = Len(stack) - 1 /\ \A k \in 1..Len(rest) : rest[k] = stack[k+1]
        BY <3>3, <1>1
      <4>2. rest[i-1] = stack[i] /\ i - 1 \in 1..Len(rest) /\ (i - 1 > 1 => rest[(i-1)-1] = stack[i-1])
        BY <4>1, <3>2, <1>1
      <4> QED
        BY <4>2, <3>1, <1>1
    <3>4. CASE n # Len(Initial)
      <4>1. /\ Len(rest) = Len(stack) /\ rest[1].do = "sections"
            /\ \A k \in 1..Len(rest) : k # 1 => rest[k] = stack[k]
        BY <3>4, <1>1 DEF Frame
      <4>2. rest[i] = stack[i] /\ i \in 1..Len(rest) /\ (i - 1 > 1 => rest[i-1] = stack[i-1])
        BY <4>1, <3>2, <1>1
      <4> QED
        BY <4>1, <4>2, <3>1, <1>1
    <3> QED
      BY <3>3, <3>4
  <2> HIDE DEF rest
  <2> QED
    BY <2>1, <2>3, <1>1, <1>5, StackStepKeepsIInv
<1> QED
  BY <1>6, <1>7

-----------------------------------------------------------------------------
(* Everything is cancelled. *)

\* cancelOutstanding answers whatever was not answered and leaves nothing queued.
LEMMA CancelledFacts ==
  ASSUME IInv
  PROVE  /\ Cancelled \in [Reads -> Jobs \cup {None}]
         /\ \A k \in Reads : Cancelled[k] = None <=> job[k] = None
         /\ \A k \in Reads : job[k] # None =>
              /\ Cancelled[k].epoch = job[k].epoch
              /\ Cancelled[k].request = job[k].request
              /\ Cancelled[k].phase # "queued"
              /\ job[k].phase # "queued" => Cancelled[k].phase = job[k].phase
              /\ Cancelled[k].answer # None
<1> SUFFICES ASSUME NEW k \in Reads
             PROVE  /\ Cancelled[k] \in Jobs \cup {None}
                    /\ Cancelled[k] = None <=> job[k] = None
                    /\ job[k] # None =>
                          /\ Cancelled[k].epoch = job[k].epoch
                          /\ Cancelled[k].request = job[k].request
                          /\ Cancelled[k].phase # "queued"
                          /\ job[k].phase # "queued" => Cancelled[k].phase = job[k].phase
                          /\ Cancelled[k].answer # None
  BY DEF Cancelled
<1>1. job[k] \in Jobs \cup {None}
  BY DEF IInv, Typed
<1>2. CASE job[k] = None
  <2>1. k \notin Queued
    BY <1>2 DEF Queued
  <2>2. k \notin ActiveReads
    BY <1>2 DEF IInv, SlotsOwned, AtWork, ActiveReads
  <2> QED
    BY <2>1, <2>2, <1>2 DEF Cancelled
<1>3. CASE k \in Queued
  <2>1. Cancelled[k] = [job[k] EXCEPT !.phase = "done", !.answer = "false"] /\ job[k] \in Jobs
    BY <1>1, <1>3 DEF Cancelled, Queued
  <2> QED
    BY <2>1, <1>3, NoneIsNoValue DEF Jobs, Phases, Queued
<1>4. CASE job[k] # None /\ k \notin Queued /\ k \in ActiveReads
  <2>1. Cancelled[k] = [job[k] EXCEPT !.answer = Resolved(@, "false")] /\ job[k] \in Jobs
    BY <1>1, <1>4 DEF Cancelled
  <2> QED
    BY <2>1, <1>4, NoneIsNoValue DEF Jobs, Phases, Queued, Resolved
<1>5. CASE job[k] # None /\ k \notin Queued /\ k \notin ActiveReads
  <2>1. Cancelled[k] = job[k]
    BY <1>5 DEF Cancelled
  <2>2. ~AtWork(k)
    BY <1>5, <1>1, ReadsAreNumbers DEF IInv, SlotsOwned, ActiveReads, Jobs
  <2>3. Dead(k) \/ job[k].phase = "done"
    BY <2>2, <1>5 DEF AtWork, Queued
  <2> QED
    BY <2>1, <2>3, <1>1, <1>5 DEF IInv, AnswersFollowReads, Queued
<1> QED
  BY <1>2, <1>3, <1>4, <1>5

LEMMA CancelKeepsIInv ==
  ASSUME IInv, FreeEverything, count' = count,
         job' \in [Reads -> Jobs \cup {None}],
         \A k \in Reads : job'[k] = None <=> job[k] = None,
         \A k \in Reads : job[k] # None =>
           /\ job'[k].epoch = job[k].epoch
           /\ job'[k].phase # "queued"
           /\ job'[k].answer # None,
         scope' \in Scopes, closed' \in BOOLEAN,
         sources' \in [Streams -> Source \cup {None}],
         \A s \in Streams : sources'[s] # None =>
           /\ s = Question
           /\ sources'[s].page = None /\ sources'[s].reader = None /\ sources'[s].pending = None,
         ~booted' \/ closed' => sources' = NothingRead,
         stack' \in Seq(Frames), WellFormed(stack', job')
  PROVE  IInv'
<1>1. \A k \in Reads : job'[k] # None => Dead(k)'
  BY DEF IInv, SentForScope, FreeEverything, Typed, Jobs, Dead
<1>2. Queued' = {} /\ \A k \in Reads : ~AtWork(k)' /\ ~Waiting(k)'
  BY <1>1 DEF Queued, AtWork, Waiting
<1>3. active' = [r \in Requests |-> None] /\ epoch' = epoch + 1
  BY DEF FreeEverything
<1>4. Typed'
  BY <1>3 DEF IInv, Typed
<1>5. WellFormed(stack, job)'
  OBVIOUS
<1>6. SlotsOwned'
  <2>1. ActiveReads' = {}
    BY <1>3 DEF ActiveReads
  <2>2. Cardinality(ActiveReads') <= Concurrency
    BY <2>1, FS_EmptySet
  <2>3. busyKeys' = {job'[j].request : j \in Queued'} \cup {r \in Requests : active'[r] # None}
    BY <1>2, <1>3 DEF FreeEverything
  <2>4. activeStreams' = {r.stream : r \in {q \in Requests : active'[q] # None}}
    BY <1>3 DEF FreeEverything
  <2> QED
    BY <1>2, <1>3, <2>2, <2>3, <2>4 DEF SlotsOwned
<1>7. SentForScope'
  BY <1>3 DEF IInv, SentForScope, Typed, Jobs
<1>8. SourcesFollowReads'
  BY <1>2 DEF SourcesFollowReads
<1>9. QuestionFirst'
  BY <1>2, <1>3 DEF QuestionFirst
<1>10. AnswersFollowReads'
  BY <1>1 DEF AnswersFollowReads
<1>11. PumpIsComing'
  BY <1>2 DEF PumpIsComing, Startable
<1>12. NothingStaleShown'
  BY DEF NothingStaleShown
<1> QED
  BY <1>4, <1>5, <1>6, <1>7, <1>8, <1>9, <1>10, <1>11, <1>12 DEF IInv

LEMMA ResetKeepsIInv ==
  ASSUME IInv, NEW next \in Scopes, Reset(next)
  PROVE  IInv'
<1>1. /\ FreeEverything /\ count' = count /\ closed' = closed /\ scope' = next
      /\ job' = Cancelled /\ sources' = NothingRead
      /\ stack \in Seq(Frames) /\ WellFormed(stack, job) /\ closed \in BOOLEAN
  BY DEF IInv, Typed, Reset, Emptied
<1>2. /\ Frame("publish", 0) \in Frames /\ Frame("publish", 0).do = "publish"
      /\ Frame("start", 0) \in Frames /\ Frame("start", 0).do = "start"
  BY DEF Frames, Frame
<1> DEFINE st == <<Frame("start", 0)>> \o stack
           tt == <<Frame("publish", 0)>> \o st
<1>3. st \in Seq(Frames) /\ WellFormed(st, job)
  BY <1>1, <1>2, PushedIsWellFormed
<1> HIDE DEF st
<1>4. tt \in Seq(Frames) /\ WellFormed(tt, job)
  BY <1>2, <1>3, PushedIsWellFormed
<1>5. stack' = tt
  BY <1>1, <1>2 DEF Reset, st
<1> HIDE DEF tt
<1>6. WellFormed(stack', job')
  BY <1>1, <1>4, <1>5, CancelledFacts, SamePhasesKeepWellFormed
<1>7. sources' \in [Streams -> Source \cup {None}] /\ \A s \in Streams : sources'[s] = None
  BY <1>1 DEF NothingRead
<1> QED
  BY <1>1, <1>4, <1>5, <1>6, <1>7, CancelledFacts, CancelKeepsIInv

LEMMA DisposeKeepsIInv ==
  ASSUME IInv, Dispose
  PROVE  IInv'
<1>1. /\ FreeEverything /\ count' = count /\ closed' = TRUE /\ scope' = scope /\ scope \in Scopes
      /\ job' = Cancelled /\ sources' = NothingRead /\ stack' = stack
      /\ stack \in Seq(Frames) /\ WellFormed(stack, job)
  BY DEF IInv, Typed, Dispose, Emptied
<1>2. WellFormed(stack', job')
  BY <1>1, CancelledFacts, SamePhasesKeepWellFormed
<1>3. sources' \in [Streams -> Source \cup {None}] /\ \A s \in Streams : sources'[s] = None
  BY <1>1 DEF NothingRead
<1> QED
  BY <1>1, <1>2, <1>3, CancelledFacts, CancelKeepsIInv

LEMMA SessionLostKeepsIInv ==
  ASSUME IInv, NEW j \in Reads, SessionLost(j)
  PROVE  IInv'
<1>1. /\ FreeEverything /\ count' = count /\ closed' = closed /\ scope' = scope
      /\ booted' = booted /\ scope \in Scopes /\ ~closed /\ stack = <<>> /\ closed \in BOOLEAN
      /\ job' = [Cancelled EXCEPT ![j].phase = "rejected"] /\ sources' = OnlyAnError(j)
      /\ stack' = <<Frame("publish", 0)>>
      /\ job[j] # None /\ job[j].phase = "fetching" /\ ~Dead(j)
  BY DEF IInv, Typed, SessionLost, Idle, Dead
<1>2. AtWork(j) /\ Accepts(j)
  BY <1>1 DEF IInv, SourcesFollowReads, AtWork
<1>3. booted
  BY <1>1, <1>2, ReadsAreNumbers DEF IInv, QuestionFirst, SlotsOwned, AtWork, Typed, Jobs
<1>4. /\ sources' \in [Streams -> Source \cup {None}]
      /\ \A s \in Streams : sources'[s] # None =>
           /\ s = Question
           /\ sources'[s].page = None /\ sources'[s].reader = None /\ sources'[s].pending = None
  BY <1>1, <1>2 DEF OnlyAnError, NothingRead, Source, Streams
<1>5. Cancelled[j] \in Jobs /\ Cancelled \in [Reads -> Jobs \cup {None}]
  BY <1>1, CancelledFacts
<1>6. /\ job' \in [Reads -> Jobs \cup {None}]
      /\ \A k \in Reads : job'[k] = None <=> job[k] = None
      /\ \A k \in Reads : job[k] # None =>
           job'[k].epoch = job[k].epoch /\ job'[k].phase # "queued" /\ job'[k].answer # None
  <2>1. job'[j] = [Cancelled[j] EXCEPT !.phase = "rejected"] /\ job'[j] \in Jobs
    BY <1>1, <1>5 DEF Jobs, Phases
  <2>2. \A k \in Reads : k # j => job'[k] = Cancelled[k]
    BY <1>1, <1>5
  <2>3. job' \in [Reads -> Jobs \cup {None}]
    BY <1>1, <1>5, <2>1, <2>2
  <2>4. job'[j].epoch = Cancelled[j].epoch /\ job'[j].phase = "rejected" /\ job'[j].answer = Cancelled[j].answer
    BY <2>1, <1>5 DEF Jobs
  <2> QED
    BY <2>1, <2>2, <2>3, <2>4, <1>1, CancelledFacts, NoneIsNoValue
<1>7. stack' \in Seq(Frames) /\ WellFormed(stack', job')
  BY <1>1 DEF WellFormed, FrameFits, Frame, Frames
<1> QED
  BY <1>1, <1>3, <1>4, <1>6, <1>7, CancelKeepsIInv

-----------------------------------------------------------------------------
(* One read goes on. *)

\* A frame names the read it is about: of another read anything may change.
LEMMA UnnamedMayChange ==
  ASSUME NEW st \in Seq(Frames), NEW jb, NEW kb, NEW j \in Reads, WellFormed(st, jb),
         \A k \in Reads : k # j => kb[k] = jb[k],
         \A i \in 1..Len(st) : st[i].do \in {"dispatch", "accept"} => st[i].of # j
  PROVE  WellFormed(st, kb)
BY DEF WellFormed, FrameFits

\* The read goes from one phase to another and keeps what it holds.
LEMMA PhaseStepKeepsIInv ==
  ASSUME IInv, NEW j \in Reads, NEW rec \in Jobs, job[j] # None, job[j].phase # "queued",
         job' = [job EXCEPT ![j] = rec],
         UNCHANGED <<count, model, epoch, booted, closed, slots>>,
         rec.request = job[j].request, rec.epoch = job[j].epoch, rec.phase # "queued",
         rec.scope \in {job[j].scope, scope}, rec.phase = "fetching" => rec.scope = scope,
         ~Dead(j) => job[j].phase # "done" /\ rec.phase # "done",
         ~Dead(j) => (rec.phase \in {"loading", "fetching"} <=> job[j].phase \in {"loading", "fetching"}),
         ~Dead(j) /\ rec.phase = "accepted" => Committed(j),
         Dead(j) \/ rec.phase \in {"resuming", "settled", "done"} => rec.answer # None,
         ~Dead(j) /\ rec.phase \notin {"resuming", "settled", "done"} => rec.answer = None,
         stack' \in Seq(Frames), WellFormed(stack', job'), PumpIsComing'
  PROVE  IInv'
<1> USE DEF model, slots
<1>1. /\ job' \in [Reads -> Jobs \cup {None}] /\ job'[j] = rec /\ rec # None
      /\ \A k \in Reads : k # j => job'[k] = job[k]
      /\ \A k \in Reads : /\ job'[k] = None <=> job[k] = None
                          /\ job[k] # None => /\ job'[k].request = job[k].request
                                              /\ job'[k].epoch = job[k].epoch
  BY NoneIsNoValue DEF IInv, Typed
<1>2. Queued' = Queued /\ j \notin Queued /\ ActiveReads' = ActiveReads
  BY <1>1 DEF Queued, ActiveReads
<1>3. \A k \in Reads : job[k] # None => (Dead(k)' <=> Dead(k))
  BY <1>1 DEF Dead
<1>4. \A k \in Reads : (AtWork(k)' <=> AtWork(k)) /\ (Waiting(k)' <=> Waiting(k))
  BY <1>1, <1>3 DEF AtWork, Waiting
<1>5. Typed'
  BY <1>1 DEF IInv, Typed
<1>6. WellFormed(stack, job)'
  OBVIOUS
<1>7. SlotsOwned'
  <2>1. \A r \in Requests : active[r] # None =>
          active[r] \in Reads /\ AtWork(active[r]) /\ job[active[r]].request = r
    BY DEF IInv, Typed, SlotsOwned
  <2>2. (\A r \in Requests : active[r] # None => AtWork(active[r]) /\ job[active[r]].request = r)'
    BY <2>1, <1>1, <1>4 DEF AtWork
  <2>3. \A k \in Reads : AtWork(k)' => active'[job'[k].request] = k
    BY <1>1, <1>4 DEF IInv, SlotsOwned, AtWork
  <2>4. \A k \in Queued' : ~Dead(k)' /\ active'[job'[k].request] = None
    BY <1>1, <1>2, <1>3 DEF IInv, SlotsOwned, Queued
  <2>5. \A k, m \in Queued' : job'[k].request = job'[m].request => k = m
    BY <1>1, <1>2 DEF IInv, SlotsOwned, Queued
  <2>6. {job'[k].request : k \in Queued'} = {job[k].request : k \in Queued}
    BY <1>1, <1>2 DEF Queued
  <2> QED
    BY <2>2, <2>3, <2>4, <2>5, <2>6, <1>2 DEF IInv, SlotsOwned
<1>8. SentForScope'
  BY <1>1 DEF IInv, SentForScope
<1>9. SourcesFollowReads'
  <2>1. \A s \in Streams : sources[s] # None =>
          /\ sources[s].page = None <=> sources[s].reader = None
          /\ sources[s].reader # None =>
               /\ sources[s].reader \in Reads
               /\ job[sources[s].reader] # None
               /\ job[sources[s].reader].request.page = sources[s].page
          /\ sources[s].pending # None =>
               /\ sources[s].pending \in Reads
               /\ AtWork(sources[s].pending)
               /\ job[sources[s].pending].phase \in {"loading", "fetching"}
               /\ job[sources[s].pending].request.stream = s
    BY DEF IInv, Typed, Source, SourcesFollowReads
  <2>2. \A k \in Reads : AtWork(k) =>
          /\ job'[k].phase \in {"loading", "fetching"} <=> job[k].phase \in {"loading", "fetching"}
          /\ job[k] # None
    BY <1>1 DEF AtWork
  <2>3. (\A s \in Streams : sources[s] # None =>
          /\ sources[s].page = None <=> sources[s].reader = None
          /\ sources[s].reader # None =>
               LET k == sources[s].reader
               IN job[k] # None /\ job[k].request.page = sources[s].page
          /\ sources[s].pending # None =>
               LET k == sources[s].pending
               IN AtWork(k) /\ job[k].phase \in {"loading", "fetching"} /\ job[k].request.stream = s)'
    BY <2>1, <2>2, <1>1, <1>4
  <2>4. \A k \in Reads : AtWork(k) /\ job[k].phase \in {"loading", "fetching"} => Accepts(k)
    BY DEF IInv, SourcesFollowReads
  <2>5. \A k \in Reads : AtWork(k)' /\ job'[k].phase \in {"loading", "fetching"} => Accepts(k)'
    BY <2>2, <2>4, <1>1, <1>4 DEF Accepts
  <2>6. \A k \in Reads : AtWork(k) /\ job'[k].phase = "accepted" =>
          Committed(k) /\ sources[job[k].request.stream].page = job[k].request.page
    <3> SUFFICES ASSUME NEW k \in Reads, AtWork(k), job'[k].phase = "accepted"
                 PROVE  Committed(k) /\ sources[job[k].request.stream].page = job[k].request.page
      OBVIOUS
    <3>1. CASE k = j
      <4>1. Committed(k) /\ job[k] # None /\ job[k].request.stream \in Streams
        BY <3>1, <1>1, RequestsNameStreams DEF AtWork, Jobs, IInv, Typed
      <4> QED
        BY <4>1, <2>1, ReadsAreNumbers DEF Committed
    <3>2. CASE k # j
      BY <3>2, <1>1 DEF IInv, SourcesFollowReads
    <3> QED
      BY <3>1, <3>2
  <2>7. \A k \in Reads : AtWork(k)' /\ job'[k].phase = "accepted" =>
          Committed(k)' /\ sources'[job'[k].request.stream].page = job'[k].request.page
    BY <2>6, <2>2, <1>1, <1>4 DEF Committed
  <2> QED
    BY <2>3, <2>5, <2>7 DEF SourcesFollowReads
<1>10. QuestionFirst'
  <2>1. \A k \in Reads : Waiting(k)' => Waiting(k) /\ job'[k].request = job[k].request
    BY <1>1, <1>4 DEF Waiting
  <2> QED
    BY <2>1, <1>2, <1>4 DEF IInv, QuestionFirst
<1>11. AnswersFollowReads'
  BY <1>1, <1>3 DEF IInv, AnswersFollowReads
<1>12. NothingStaleShown'
  <2>1. \A s \in Streams : sources[s] # None /\ sources[s].page # None =>
          LET k == sources[s].reader
          IN /\ job[k].scope = scope => job'[k].scope = scope
             /\ job'[k].epoch = job[k].epoch /\ job'[k].request = job[k].request
    BY <1>1 DEF IInv, Typed, Source, SourcesFollowReads
  <2> QED
    BY <2>1 DEF IInv, NothingStaleShown
<1> QED
  BY <1>5, <1>6, <1>7, <1>8, <1>9, <1>10, <1>11, <1>12 DEF IInv

\* A step between callbacks that leaves the queue alone: whatever could start was
\* already waiting for a slot.
LEMMA PumpNotNeeded ==
  ASSUME IInv, stack = <<>>, ActiveReads' = ActiveReads, Queued' = Queued,
         activeStreams' = activeStreams, \A j \in Queued : job'[j].request = job[j].request
  PROVE  PumpIsComing'
<1>1. ~(Startable # {} /\ Cardinality(ActiveReads) < Concurrency)
  BY DEF IInv, PumpIsComing
<1>2. Startable' = Startable
  BY DEF Startable
<1> QED
  BY <1>1, <1>2 DEF PumpIsComing

\* The top frame is about a read in the phase that fits it, and no other frame names it.
LEMMA TopFrameNames ==
  ASSUME IInv, stack # <<>>, Head(stack).do \in {"dispatch", "accept"}
  PROVE  LET j == Head(stack).of
         IN /\ j \in Reads /\ job[j] \in Jobs
            /\ job[j].phase = IF Head(stack).do = "dispatch" THEN "loading" ELSE "received"
            /\ Head(stack).do = "dispatch" => Len(stack) > 1 /\ stack[2].do = "pump"
            /\ \A i \in 1..Len(Tail(stack)) :
                 Tail(stack)[i].do \in {"dispatch", "accept"} => Tail(stack)[i].of # j
<1> DEFINE j == Head(stack).of
<1>1. stack \in Seq(Frames) /\ WellFormed(stack, job)
  BY DEF IInv, Typed
<1>2. /\ 1 \in 1..Len(stack) /\ stack[1] = Head(stack)
      /\ \A i \in 1..Len(Tail(stack)) : i + 1 \in 1..Len(stack) /\ Tail(stack)[i] = stack[i+1]
  BY <1>1
<1>3. /\ j \in Reads /\ job[j] # None
      /\ job[j].phase = IF Head(stack).do = "dispatch" THEN "loading" ELSE "received"
      /\ Head(stack).do = "dispatch" => Len(stack) > 1 /\ stack[2].do = "pump"
  BY <1>1, <1>2 DEF WellFormed, FrameFits
<1>4. job[j] \in Jobs
  BY <1>3 DEF IInv, Typed
<1>5. ASSUME NEW i \in 1..Len(Tail(stack)), Tail(stack)[i].do \in {"dispatch", "accept"}
      PROVE  Tail(stack)[i].of # j
  <2>1. CASE Tail(stack)[i].do = Head(stack).do
    <3>1. i + 1 # 1
      OBVIOUS
    <3> QED
      BY <3>1, <2>1, <1>1, <1>2 DEF WellFormed
  <2>2. CASE Tail(stack)[i].do # Head(stack).do
    <3>1. FrameFits(stack, job, i+1)
      BY <1>1, <1>2 DEF WellFormed
    <3> QED
      BY <3>1, <2>2, <1>2, <1>3, <1>5 DEF FrameFits
  <2> QED
    BY <2>1, <2>2
<1> QED
  BY <1>3, <1>4, <1>5

LEMMA DispatchKeepsIInv ==
  ASSUME IInv, Dispatch
  PROVE  IInv'
<1> DEFINE j == Head(stack).of
           rec == IF Dead(j) THEN [job[j] EXCEPT !.phase = "done"]
                             ELSE [job[j] EXCEPT !.phase = "fetching", !.scope = scope]
<1>1. /\ stack # <<>> /\ Head(stack).do = "dispatch"
      /\ stack \in Seq(Frames) /\ WellFormed(stack, job) /\ scope \in Scopes
      /\ UNCHANGED <<count, model, epoch, booted, closed, slots>>
      /\ job \in [Reads -> Jobs \cup {None}]
  BY DEF IInv, Typed, Dispatch, Running
<1>2. /\ j \in Reads /\ job[j] \in Jobs /\ job[j] # None /\ job[j].phase = "loading"
      /\ Len(stack) > 1 /\ stack[2].do = "pump"
      /\ \A i \in 1..Len(Tail(stack)) :
           Tail(stack)[i].do \in {"dispatch", "accept"} => Tail(stack)[i].of # j
  BY <1>1, TopFrameNames, NoneIsNoValue
<1>3. /\ rec \in Jobs /\ rec.request = job[j].request /\ rec.epoch = job[j].epoch
      /\ rec.answer = job[j].answer
      /\ rec.phase = IF Dead(j) THEN "done" ELSE "fetching"
      /\ rec.scope = IF Dead(j) THEN job[j].scope ELSE scope
  BY <1>1, <1>2 DEF Jobs, Phases
<1>4. job' = [job EXCEPT ![j] = rec] /\ stack' = IF Dead(j) THEN Tail(Tail(stack)) ELSE Tail(stack)
  BY <1>1, <1>2 DEF Dispatch
<1>5. Tail(stack) \in Seq(Frames) /\ WellFormed(Tail(stack), job) /\ Tail(stack) # <<>>
  <2> HIDE DEF j, rec
  <2>1. Tail(stack) # <<>>
    <3> DEFINE t == Tail(stack)
    <3>1. t \in Seq(Frames) /\ Len(t) = Len(stack) - 1 /\ Len(stack) > 1 /\ Len(stack) \in Nat
      BY <1>1, <1>2
    <3> HIDE DEF t
    <3>2. t # <<>>
      BY <3>1
    <3> QED
      BY <3>2 DEF t
  <2> QED
    BY <2>1, <1>1, TailIsWellFormed
<1>6. WellFormed(Tail(stack), job')
  <2> DEFINE t == Tail(stack)
  <2>1. t \in Seq(Frames) /\ WellFormed(t, job)
    BY <1>5
  <2>2. \A i \in 1..Len(t) : t[i].do \in {"dispatch", "accept"} => t[i].of # j
    BY <1>2
  <2>3. \A k \in Reads : k # j => job'[k] = job[k]
    BY <1>1, <1>4
  <2> HIDE DEF t, j, rec
  <2>4. WellFormed(t, job')
    BY <2>1, <2>2, <2>3, <1>2, UnnamedMayChange
  <2> QED
    BY <2>4 DEF t
<1>7. stack' \in Seq(Frames) /\ WellFormed(stack', job')
  BY <1>4, <1>5, <1>6, TailIsWellFormed
<1>8. /\ ActiveReads' = ActiveReads /\ Queued' = Queued
      /\ Startable' = Startable /\ \A k \in Reads : job[k] # None => (Dead(k)' <=> Dead(k))
  <2>1. /\ job'[j] = rec /\ rec # None
        /\ \A k \in Reads : k # j => job'[k] = job[k]
    BY <1>1, <1>2, <1>3, <1>4, NoneIsNoValue
  <2> HIDE DEF j, rec
  <2>2. ActiveReads' = ActiveReads /\ Queued' = Queued /\ j \notin Queued
    BY <2>1, <1>1, <1>2, <1>3 DEF ActiveReads, Queued, slots
  <2>3. Startable' = Startable
    BY <2>1, <2>2, <1>1 DEF Startable, slots, Queued
  <2> QED
    BY <2>1, <2>2, <2>3, <1>1, <1>3 DEF Dead
<1>9. PumpIsComing'
  <2> SUFFICES ASSUME Startable # {}, Cardinality(ActiveReads) < Concurrency
               PROVE  \E i \in 1..Len(stack') :
                        /\ stack'[i].do = "pump"
                        /\ i > 1 /\ stack'[i-1].do = "dispatch" => ~(closed' \/ job'[stack'[i-1].of].epoch # epoch')
    BY <1>8 DEF PumpIsComing, Dead
  <2>1. PICK i \in 1..Len(stack) :
          /\ stack[i].do = "pump"
          /\ i > 1 /\ stack[i-1].do = "dispatch" => ~Dead(stack[i-1].of)
    BY DEF IInv, PumpIsComing
  <2>2. i # 1 /\ stack[1].do = "dispatch" /\ stack[1].of = j
    BY <1>1, <2>1
  <2>3. i > 1 /\ stack[i-1].do = "dispatch" => ~(closed' \/ job'[stack[i-1].of].epoch # epoch')
    <3> SUFFICES ASSUME i > 1, stack[i-1].do = "dispatch" PROVE ~(closed' \/ job'[stack[i-1].of].epoch # epoch')
      OBVIOUS
    <3>1. i - 1 \in 1..Len(stack)
      BY <1>1
    <3>2. stack[i-1].of \in Reads /\ job[stack[i-1].of] # None
      BY <3>1, <1>1 DEF WellFormed, FrameFits
    <3> QED
      BY <3>2, <2>1, <1>8 DEF Dead
  <2> HIDE DEF j, rec
  <2>4. CASE ~Dead(j)
    <3>1. /\ stack'[i-1] = stack[i] /\ i - 1 \in 1..Len(stack')
          /\ (i - 1 > 1 => stack'[(i-1)-1] = stack[i-1])
      BY <2>4, <2>2, <1>1, <1>4
    <3> QED
      BY <3>1, <2>1, <2>3, <1>1
  <2>5. CASE Dead(j)
    <3>1. i # 2
      BY <2>5, <2>1, <2>2
    <3>2. /\ stack'[i-2] = stack[i] /\ i - 2 \in 1..Len(stack')
          /\ (i - 2 > 1 => stack'[(i-2)-1] = stack[i-1])
      <4>1. Len(stack') = Len(stack) - 2 /\ \A k \in 1..Len(stack') : stack'[k] = stack[k+2]
        <5> DEFINE t == Tail(stack)
        <5>1. t \in Seq(Frames) /\ t # <<>> /\ stack' = Tail(t)
          BY <2>5, <1>4, <1>5
        <5>2. Len(t) = Len(stack) - 1 /\ \A k \in 1..Len(t) : t[k] = stack[k+1]
          BY <1>1
        <5> HIDE DEF t
        <5>3. Len(stack') = Len(t) - 1 /\ \A k \in 1..Len(stack') : stack'[k] = t[k+1]
          BY <5>1
        <5> QED
          BY <5>1, <5>2, <5>3, <1>1
      <4>2. i \in 3..Len(stack) /\ Len(stack) \in Nat
        BY <3>1, <2>2, <1>1
      <4> QED
        BY <4>1, <4>2
    <3> QED
      BY <3>2, <2>1, <2>3, <1>1
  <2> QED
    BY <2>4, <2>5
<1>10. Dead(j) => job[j].answer # None
  BY <1>2 DEF IInv, AnswersFollowReads
<1>11. ~Dead(j) => job[j].answer = None
  BY <1>2 DEF IInv, AnswersFollowReads
<1> HIDE DEF j, rec
<1> QED
  BY <1>1, <1>2, <1>3, <1>4, <1>7, <1>9, <1>10, <1>11, PhaseStepKeepsIInv

LEMMA AcceptKeepsIInv ==
  ASSUME IInv, Accept
  PROVE  IInv'
<1> DEFINE j == Head(stack).of
           rec == [job[j] EXCEPT !.phase = IF Committed(j) THEN "accepted" ELSE "rejected"]
<1>1. /\ stack # <<>> /\ Head(stack).do = "accept" /\ stack' = Tail(stack)
      /\ stack \in Seq(Frames) /\ WellFormed(stack, job)
      /\ UNCHANGED <<count, model, epoch, booted, closed, slots>>
      /\ job \in [Reads -> Jobs \cup {None}]
  BY DEF IInv, Typed, Accept, Running
<1>2. /\ j \in Reads /\ job[j] \in Jobs /\ job[j] # None /\ job[j].phase = "received"
      /\ \A i \in 1..Len(Tail(stack)) :
           Tail(stack)[i].do \in {"dispatch", "accept"} => Tail(stack)[i].of # j
  BY <1>1, TopFrameNames, NoneIsNoValue
<1>3. /\ rec \in Jobs /\ rec.request = job[j].request /\ rec.epoch = job[j].epoch
      /\ rec.answer = job[j].answer /\ rec.scope = job[j].scope
      /\ rec.phase \in {"accepted", "rejected"} /\ (rec.phase = "accepted" => Committed(j))
  BY <1>2 DEF Jobs, Phases
<1>4. job' = [job EXCEPT ![j] = rec]
  BY <1>1, <1>2 DEF Accept
<1>5. stack' \in Seq(Frames) /\ WellFormed(stack', job)
  BY <1>1, TailIsWellFormed
<1>6. WellFormed(stack', job')
  <2>1. \A k \in Reads : k # j => job'[k] = job[k]
    BY <1>1, <1>4
  <2>2. \A i \in 1..Len(stack') : stack'[i].do \in {"dispatch", "accept"} => stack'[i].of # j
    BY <1>1, <1>2
  <2> HIDE DEF j, rec
  <2> QED
    BY <2>1, <2>2, <1>2, <1>5, UnnamedMayChange
<1>7. PumpIsComing'
  <2>1. /\ job'[j] = rec /\ rec # None
        /\ \A k \in Reads : k # j => job'[k] = job[k]
    BY <1>1, <1>2, <1>3, <1>4, NoneIsNoValue
  <2> HIDE DEF j, rec
  <2>2. ActiveReads' = ActiveReads /\ Queued' = Queued /\ j \notin Queued
    BY <2>1, <1>1, <1>2, <1>3 DEF ActiveReads, Queued, slots
  <2>3. Startable' = Startable
    BY <2>1, <2>2, <1>1 DEF Startable, slots, Queued
  <2>4. \A k \in Reads : job[k] # None => (Dead(k)' <=> Dead(k))
    BY <2>1, <1>1, <1>3 DEF Dead
  <2> QED
    BY <2>2, <2>3, <2>4, <1>1, PumpStaysBelow
<1>8. Dead(j) => job[j].answer # None
  BY <1>2 DEF IInv, AnswersFollowReads
<1>9. ~Dead(j) => job[j].answer = None
  BY <1>2 DEF IInv, AnswersFollowReads
<1> HIDE DEF j, rec
<1> QED
  BY <1>1, <1>2, <1>3, <1>4, <1>5, <1>6, <1>7, <1>8, <1>9, PhaseStepKeepsIInv

\* Between callbacks: the stack stays empty or gets what follows a promise.
LEMMA IdlePhaseStepKeepsIInv ==
  ASSUME IInv, NEW j \in Reads, NEW rec \in Jobs, stack = <<>>,
         job[j] \in Jobs, job[j].phase \notin {"queued", "loading", "received"},
         job' = [job EXCEPT ![j] = rec],
         UNCHANGED <<count, model, epoch, booted, closed, slots>>,
         rec.request = job[j].request, rec.epoch = job[j].epoch, rec.scope = job[j].scope,
         rec.phase \in {"resuming", "settled", "done"}, rec.answer # None,
         ~Dead(j) => /\ job[j].phase # "done" /\ rec.phase # "done"
                     /\ job[j].phase # "fetching",
         stack' \in Seq(Frames), WellFormed(stack', job)
  PROVE  IInv'
<1>1. /\ job'[j] = rec /\ rec # None /\ job[j] # None
      /\ \A k \in Reads : k # j => job'[k] = job[k]
  BY NoneIsNoValue DEF IInv, Typed
<1>2. ActiveReads' = ActiveReads /\ Queued' = Queued /\ j \notin Queued
  BY <1>1 DEF ActiveReads, Queued, slots
<1>3. PumpIsComing'
  BY <1>1, <1>2, PumpNotNeeded DEF slots
<1>4. WellFormed(stack', job')
  <2>1. \A k \in Reads : job[k] # None /\ job[k].phase \in {"loading", "received"} => job'[k] = job[k]
    BY <1>1
  <2>2. \A k \in Reads : job[k] # None /\ job[k].phase \in {"loading", "received"} =>
          job'[k] # None /\ job'[k].phase = job[k].phase
    BY <2>1
  <2> DEFINE st == stack'
             kb == job'
  <2>3. /\ st \in Seq(Frames) /\ WellFormed(st, job)
        /\ \A k \in Reads : job[k] # None /\ job[k].phase \in {"loading", "received"} =>
             kb[k] # None /\ kb[k].phase = job[k].phase
    BY <2>2
  <2> HIDE DEF st, kb
  <2>4. WellFormed(st, kb)
    BY <2>3, SamePhasesKeepWellFormed
  <2> QED
    BY <2>4 DEF st, kb
<1> QED
  BY <1>1, <1>3, <1>4, PhaseStepKeepsIInv

LEMMA IgnoreAnswerKeepsIInv ==
  ASSUME IInv, NEW j \in Reads, IgnoreAnswer(j)
  PROVE  IInv'
<1> DEFINE rec == [job[j] EXCEPT !.phase = "done"]
<1>1. /\ stack = <<>> /\ stack' = stack /\ job[j] # None /\ job[j].phase = "fetching" /\ Dead(j)
      /\ job[j] \in Jobs /\ UNCHANGED <<count, model, epoch, booted, closed, slots>>
      /\ job' = [job EXCEPT ![j] = rec]
  BY DEF IInv, Typed, IgnoreAnswer, Idle
<1>2. /\ rec \in Jobs /\ rec.request = job[j].request /\ rec.epoch = job[j].epoch
      /\ rec.scope = job[j].scope /\ rec.phase = "done" /\ rec.answer = job[j].answer
  BY <1>1 DEF Jobs, Phases
<1>3. job[j].answer # None
  BY <1>1 DEF IInv, AnswersFollowReads
<1>4. stack' \in Seq(Frames) /\ WellFormed(stack', job)
  BY <1>1, EmptyIsWellFormed
<1> HIDE DEF rec
<1> QED
  BY <1>1, <1>2, <1>3, <1>4, IdlePhaseStepKeepsIInv

LEMMA AnswerKeepsIInv ==
  ASSUME IInv, NEW j \in Reads, NEW ok \in {"true", "false"}, Answer(j, ok)
  PROVE  IInv'
<1> DEFINE rec == [job[j] EXCEPT !.answer = Resolved(@, ok),
                                 !.phase = IF job[j].boot THEN "resuming" ELSE "settled"]
<1>1. /\ stack = <<>> /\ stack' = stack /\ job[j] # None
      /\ job[j].phase \in {"accepted", "rejected"}
      /\ job[j] \in Jobs /\ UNCHANGED <<count, model, epoch, booted, closed, slots>>
      /\ job' = [job EXCEPT ![j].answer = Resolved(@, ok),
                            ![j].phase = IF job[j].boot THEN "resuming" ELSE "settled"]
      /\ job \in [Reads -> Jobs \cup {None}]
  BY DEF IInv, Typed, Answer, Idle
<1>2. job' = [job EXCEPT ![j] = rec]
  BY <1>1
<1>3. Resolved(job[j].answer, ok) \in {"true", "false"}
  BY <1>1 DEF Resolved, Jobs
<1>4. /\ rec \in Jobs /\ rec.request = job[j].request /\ rec.epoch = job[j].epoch
      /\ rec.scope = job[j].scope /\ rec.phase \in {"resuming", "settled"}
      /\ rec.answer = Resolved(job[j].answer, ok)
  BY <1>1, <1>3 DEF Jobs, Phases
<1>5. rec.answer # None
  BY <1>3, <1>4, NoneIsNoValue
<1>6. stack' \in Seq(Frames) /\ WellFormed(stack', job)
  BY <1>1, EmptyIsWellFormed
<1> HIDE DEF rec
<1> QED
  BY <1>1, <1>2, <1>4, <1>5, <1>6, IdlePhaseStepKeepsIInv

LEMMA ResumeKeepsIInv ==
  ASSUME IInv, NEW j \in Reads, Resume(j)
  PROVE  IInv'
<1> DEFINE rec == [job[j] EXCEPT !.phase = "settled"]
<1>1. /\ stack = <<>> /\ stack' \in {<<Frame("sections", 1)>>, <<>>}
      /\ job[j] # None /\ job[j].phase = "resuming"
      /\ job[j] \in Jobs /\ UNCHANGED <<count, model, epoch, booted, closed, slots>>
      /\ job' = [job EXCEPT ![j] = rec]
  BY DEF IInv, Typed, Resume, Idle
<1>2. /\ rec \in Jobs /\ rec.request = job[j].request /\ rec.epoch = job[j].epoch
      /\ rec.scope = job[j].scope /\ rec.phase = "settled" /\ rec.answer = job[j].answer
  BY <1>1 DEF Jobs, Phases
<1>3. job[j].answer # None
  BY <1>1 DEF IInv, AnswersFollowReads
<1>4. stack' \in Seq(Frames) /\ WellFormed(stack', job)
  <2>1. CASE stack' = <<>>
    BY <2>1, EmptyIsWellFormed
  <2>2. CASE stack' = <<Frame("sections", 1)>>
    <3>1. Frame("sections", 1) = [do |-> "sections", of |-> 1] /\ 1 \in 1..Len(Initial)
      BY DEF Frame
    <3> QED
      BY <2>2, <3>1 DEF Frames, WellFormed, FrameFits
  <2> QED
    BY <2>1, <2>2, <1>1
<1> HIDE DEF rec
<1> QED
  BY <1>1, <1>2, <1>3, <1>4, IdlePhaseStepKeepsIInv

-----------------------------------------------------------------------------
(* Slots come free. *)

\* Of a read of the present epoch finally() frees the slot, the stream and the key, and
\* none of them is another read's.
LEMMA FreedKeepsIInv ==
  ASSUME IInv, NEW j \in Reads, AtWork(j), job[j].phase = "settled",
         job' = [job EXCEPT ![j].phase = "done"],
         active' = [active EXCEPT ![job[j].request] = None],
         activeStreams' = activeStreams \ {job[j].request.stream},
         busyKeys' = busyKeys \ {job[j].request},
         stack' = <<Frame("pump", 0)>>,
         UNCHANGED <<count, model, epoch, booted, closed>>
  PROVE  IInv'
<1> DEFINE req == job[j].request
<1> USE DEF model
<1>1. /\ job[j] \in Jobs /\ job \in [Reads -> Jobs \cup {None}] /\ job[j] # None
      /\ active \in [Requests -> Reads \cup {None}]
      /\ req \in Requests /\ active[req] = j /\ j # None
  BY ReadsAreNumbers DEF IInv, Typed, AtWork, Jobs, SlotsOwned
<1>2. /\ job'[j] \in Jobs /\ job'[j] # None /\ job'[j].phase = "done"
      /\ \A k \in Reads : k # j => job'[k] = job[k]
      /\ \A k \in Reads : /\ job'[k] = None <=> job[k] = None
                          /\ job[k] # None => /\ job'[k].request = job[k].request
                                              /\ job'[k].epoch = job[k].epoch
                                              /\ job'[k].scope = job[k].scope
                                              /\ job'[k].answer = job[k].answer
  <2>1. job'[j] = [job[j] EXCEPT !.phase = "done"]
    BY <1>1
  <2>2. job'[j] \in Jobs /\ job'[j] # None
    BY <2>1, <1>1, NoneIsNoValue DEF Jobs, Phases
  <2> QED
    BY <2>1, <2>2, <1>1 DEF Jobs
<1>3. /\ active'[req] = None
      /\ \A r \in Requests : r # req => active'[r] = active[r]
      /\ \A r \in Requests : active[r] = j => r = req
  BY <1>1 DEF IInv, SlotsOwned
<1>4. Queued' = Queued /\ j \notin Queued
  BY <1>2, <1>1 DEF Queued
<1>5. \A k \in Reads : /\ AtWork(k)' <=> AtWork(k) /\ k # j
                       /\ job[k] # None => (Dead(k)' <=> Dead(k))
                       /\ Waiting(k)' => Waiting(k)
  BY <1>2 DEF AtWork, Dead, Waiting
<1> HIDE DEF req
<1>6. Typed'
  <2>1. job' \in [Reads -> Jobs \cup {None}]
    BY <1>1, <1>2
  <2>2. active' \in [Requests -> Reads \cup {None}]
    BY <1>1
  <2>3. stack' \in Seq(Frames)
    BY DEF Frame, Frames
  <2> QED
    BY <2>1, <2>2, <2>3, <1>2 DEF IInv, Typed
<1>7. WellFormed(stack, job)'
  BY DEF WellFormed, FrameFits, Frame
<1>8. SlotsOwned'
  <2>1. \A r \in Requests : active'[r] # None =>
          r # req /\ active[r] \in Reads \ {j} /\ AtWork(active[r]) /\ job[active[r]].request = r
    BY <1>1, <1>3 DEF IInv, SlotsOwned
  <2>2. \A r \in Requests : active'[r] # None =>
          r # req /\ active'[r] = active[r]
    BY <1>3
  <2>3. (\A r \in Requests : active[r] # None => AtWork(active[r]) /\ job[active[r]].request = r)'
    BY <2>1, <2>2, <1>2, <1>5 DEF AtWork
  <2>4. \A k \in Reads : AtWork(k)' => active'[job'[k].request] = k
    <3> SUFFICES ASSUME NEW k \in Reads, AtWork(k), k # j PROVE active'[job'[k].request] = k
      BY <1>5
    <3>1. job[k].request \in Requests /\ active[job[k].request] = k
      BY DEF IInv, SlotsOwned, Typed, AtWork, Jobs
    <3>2. job[k].request # req
      BY <3>1, <1>1
    <3> QED
      BY <3>1, <3>2, <1>2, <1>3
  <2>5. \A k \in Queued' : ~Dead(k)' /\ active'[job'[k].request] = None
    <3> SUFFICES ASSUME NEW k \in Queued PROVE ~Dead(k)' /\ active'[job'[k].request] = None
      BY <1>4
    <3>1. k \in Reads /\ job[k] # None /\ job[k].request \in Requests
      BY DEF Queued, IInv, Typed, Jobs
    <3>2. ~Dead(k) /\ active[job[k].request] = None
      BY DEF IInv, SlotsOwned
    <3> QED
      BY <3>1, <3>2, <1>2, <1>3, <1>5
  <2>6. \A k, m \in Queued' : job'[k].request = job'[m].request => k = m
    BY <1>2, <1>4 DEF IInv, SlotsOwned, Queued
  <2>7. \A r, q \in Requests :
          active'[r] # None /\ active'[q] # None /\ r.stream = q.stream => r = q
    BY <2>2 DEF IInv, SlotsOwned
  <2>8. \A k \in Queued : job'[k].request = job[k].request /\ job[k].request # req
    BY <1>1, <1>2 DEF IInv, SlotsOwned, Queued
  <2>9. busyKeys' = {job'[k].request : k \in Queued'} \cup {r \in Requests : active'[r] # None}
    <3>1. {job'[k].request : k \in Queued'} = {job[k].request : k \in Queued}
      BY <2>8, <1>4
    <3>2. {r \in Requests : active'[r] # None} = {r \in Requests : active[r] # None} \ {req}
      BY <1>3
    <3>3. req \notin {job[k].request : k \in Queued}
      BY <2>8
    <3>4. busyKeys = {job[k].request : k \in Queued} \cup {r \in Requests : active[r] # None}
      BY DEF IInv, SlotsOwned
    <3> QED
      BY <3>1, <3>2, <3>3, <3>4 DEF req
  <2>10. activeStreams' = {r.stream : r \in {q \in Requests : active'[q] # None}}
    <3>1. {q \in Requests : active'[q] # None} = {q \in Requests : active[q] # None} \ {req}
      BY <1>3
    <3>2. \A q \in Requests : active[q] # None /\ q.stream = req.stream => q = req
      BY <1>1 DEF IInv, SlotsOwned
    <3>3. activeStreams = {r.stream : r \in {q \in Requests : active[q] # None}}
      BY DEF IInv, SlotsOwned
    <3> QED
      BY <3>1, <3>2, <3>3 DEF req
  <2>11. Cardinality(ActiveReads') <= Concurrency
    <3>1. ActiveReads' \subseteq ActiveReads
      BY <2>2 DEF ActiveReads
    <3>2. /\ IsFiniteSet(ActiveReads) /\ Cardinality(ActiveReads) \in Nat
          /\ Cardinality(ActiveReads) <= Concurrency
      BY FewReads DEF IInv, SlotsOwned
    <3>3. Cardinality(ActiveReads') <= Cardinality(ActiveReads) /\ Cardinality(ActiveReads') \in Nat
      BY <3>1, <3>2, FS_Subset, FS_CardinalityType
    <3> QED
      BY <3>2, <3>3
  <2> QED
    BY <2>3, <2>4, <2>5, <2>6, <2>7, <2>9, <2>10, <2>11 DEF SlotsOwned
<1>9. SentForScope'
  BY <1>2 DEF IInv, SentForScope
<1>10. SourcesFollowReads'
  <2>1. \A s \in Streams : sources[s] # None =>
          /\ sources[s].page = None <=> sources[s].reader = None
          /\ sources[s].reader # None =>
               /\ sources[s].reader \in Reads
               /\ job[sources[s].reader] # None
               /\ job[sources[s].reader].request.page = sources[s].page
          /\ sources[s].pending # None =>
               /\ sources[s].pending \in Reads \ {j}
               /\ AtWork(sources[s].pending)
               /\ job[sources[s].pending].phase \in {"loading", "fetching"}
               /\ job[sources[s].pending].request.stream = s
    BY DEF IInv, Typed, Source, SourcesFollowReads
  <2>2. (\A s \in Streams : sources[s] # None =>
          /\ sources[s].page = None <=> sources[s].reader = None
          /\ sources[s].reader # None =>
               LET k == sources[s].reader
               IN job[k] # None /\ job[k].request.page = sources[s].page
          /\ sources[s].pending # None =>
               LET k == sources[s].pending
               IN AtWork(k) /\ job[k].phase \in {"loading", "fetching"} /\ job[k].request.stream = s)'
    BY <2>1, <1>2, <1>5
  <2>3. \A k \in Reads : AtWork(k)' => AtWork(k) /\ job'[k] = job[k]
    BY <1>2, <1>5
  <2> QED
    BY <2>2, <2>3 DEF IInv, SourcesFollowReads, Accepts, Committed
<1>11. QuestionFirst'
  <2>1. booted /\ ~closed
    BY <1>1 DEF IInv, QuestionFirst
  <2>2. \A k \in Reads : Waiting(k)' => Waiting(k) /\ job'[k].request = job[k].request
    BY <1>2, <1>5 DEF Waiting
  <2> QED
    BY <2>1, <2>2, <1>4, <1>5 DEF IInv, QuestionFirst
<1>12. AnswersFollowReads'
  BY <1>2, <1>5 DEF IInv, AnswersFollowReads
<1>13. PumpIsComing'
  <2>1. stack'[1].do = "pump" /\ 1 \in 1..Len(stack')
    BY DEF Frame
  <2> QED
    BY <2>1 DEF PumpIsComing
<1>14. NothingStaleShown'
  <2>1. \A s \in Streams : sources[s] # None /\ sources[s].page # None =>
          LET k == sources[s].reader
          IN job'[k].scope = job[k].scope /\ job'[k].epoch = job[k].epoch
             /\ job'[k].request = job[k].request
    BY <1>2 DEF IInv, Typed, Source, SourcesFollowReads
  <2> QED
    BY <2>1 DEF IInv, NothingStaleShown
<1> QED
  BY <1>6, <1>7, <1>8, <1>9, <1>10, <1>11, <1>12, <1>13, <1>14 DEF IInv

LEMMA FinallyKeepsIInv ==
  ASSUME IInv, NEW j \in Reads, Finally(j)
  PROVE  IInv'
<1>1. /\ stack = <<>> /\ job[j] # None /\ job[j].phase = "settled" /\ job[j] \in Jobs
      /\ job' = [job EXCEPT ![j].phase = "done"]
      /\ UNCHANGED <<count, model, epoch, booted, closed>>
  BY DEF IInv, Typed, Finally, Idle
<1>2. CASE Dead(j)
  <2> DEFINE rec == [job[j] EXCEPT !.phase = "done"]
  <2>1. job' = [job EXCEPT ![j] = rec] /\ stack' = stack /\ UNCHANGED slots
    BY <1>1, <1>2 DEF Finally
  <2>2. /\ rec \in Jobs /\ rec.request = job[j].request /\ rec.epoch = job[j].epoch
        /\ rec.scope = job[j].scope /\ rec.phase = "done" /\ rec.answer = job[j].answer
    BY <1>1 DEF Jobs, Phases
  <2>3. job[j].answer # None
    BY <1>1 DEF IInv, AnswersFollowReads
  <2>4. stack' \in Seq(Frames) /\ WellFormed(stack', job)
    BY <1>1, <2>1, EmptyIsWellFormed
  <2> HIDE DEF rec
  <2> QED
    BY <1>1, <1>2, <2>1, <2>2, <2>3, <2>4, IdlePhaseStepKeepsIInv DEF slots
<1>3. CASE ~Dead(j)
  <2>1. AtWork(j)
    BY <1>1, <1>3 DEF AtWork
  <2>2. /\ active' = [active EXCEPT ![job[j].request] = None]
        /\ activeStreams' = activeStreams \ {job[j].request.stream}
        /\ busyKeys' = busyKeys \ {job[j].request}
        /\ stack' = <<Frame("pump", 0)>>
    BY <1>3 DEF Finally
  <2> QED
    BY <1>1, <2>1, <2>2, FreedKeepsIInv
<1> QED
  BY <1>2, <1>3

-----------------------------------------------------------------------------
(* Answers of the present epoch. *)

\* Two reads at work read different streams.
LEMMA OneReadPerStream ==
  ASSUME IInv, NEW j \in Reads, NEW k \in Reads, AtWork(j), AtWork(k),
         job[j].request.stream = job[k].request.stream
  PROVE  j = k
<1>1. /\ job[j].request \in Requests /\ job[k].request \in Requests
      /\ active[job[j].request] = j /\ active[job[k].request] = k
  BY DEF IInv, Typed, SlotsOwned, AtWork, Jobs
<1>2. job[j].request = job[k].request
  BY <1>1, ReadsAreNumbers DEF IInv, SlotsOwned
<1> QED
  BY <1>1, <1>2

\* The ticket of the read is used up: its stream shows the page, an error beside what it
\* had, or, of the issue, nothing but an error.  Other streams are not touched.
LEMMA AnsweredKeepsIInv ==
  ASSUME IInv, NEW j \in Reads, stack = <<>>, job[j] # None, job[j].phase = "fetching", ~Dead(j),
         NEW phase \in {"received", "rejected"}, job' = [job EXCEPT ![j].phase = phase],
         UNCHANGED <<count, scope, epoch, booted, closed, slots>>,
         sources' \in [Streams -> Source \cup {None}],
         \A s \in Streams : s # job[j].request.stream => sources'[s] = sources[s],
         sources'[job[j].request.stream] # None,
         sources'[job[j].request.stream].pending = None,
         LET had == sources[job[j].request.stream]
             has == sources'[job[j].request.stream]
         IN \/ has.page = job[j].request.page /\ has.reader = j
            \/ has.page = had.page /\ has.reader = had.reader
            \/ job[j].request.stream = Question /\ has.page = None /\ has.reader = None,
         stack' \in Seq(Frames), WellFormed(stack', job')
  PROVE  IInv'
<1> DEFINE here == job[j].request.stream
<1> USE DEF slots
<1>1. /\ job[j] \in Jobs /\ job \in [Reads -> Jobs \cup {None}]
      /\ AtWork(j) /\ here \in Streams /\ job[j].request \in Requests
      /\ job[j].request.page \in 0..LastPage
  BY RequestsNameStreams DEF IInv, Typed, AtWork, Jobs
<1>2. sources[here] # None /\ sources[here].pending = j
  BY <1>1 DEF IInv, SourcesFollowReads, Accepts
<1>3. /\ job'[j] \in Jobs /\ job'[j] # None /\ job'[j].phase = phase
      /\ \A k \in Reads : k # j => job'[k] = job[k]
      /\ \A k \in Reads : /\ job'[k] = None <=> job[k] = None
                          /\ job[k] # None => /\ job'[k].request = job[k].request
                                              /\ job'[k].epoch = job[k].epoch
                                              /\ job'[k].scope = job[k].scope
                                              /\ job'[k].answer = job[k].answer
  <2>1. job'[j] = [job[j] EXCEPT !.phase = phase]
    BY <1>1
  <2>2. job'[j] \in Jobs /\ job'[j] # None
    BY <2>1, <1>1, NoneIsNoValue DEF Jobs, Phases
  <2> QED
    BY <2>1, <2>2, <1>1 DEF Jobs
<1>4. Queued' = Queued /\ j \notin Queued /\ ActiveReads' = ActiveReads
  BY <1>1, <1>3 DEF Queued, ActiveReads
<1>5. \A k \in Reads : /\ AtWork(k)' <=> AtWork(k)
                       /\ job[k] # None => (Dead(k)' <=> Dead(k))
                       /\ Waiting(k)' => Waiting(k) /\ k # j
  BY <1>1, <1>3 DEF AtWork, Dead, Waiting
<1>6. here = Question => \A s \in Sections : sources[s] = None
  BY <1>1 DEF IInv, QuestionFirst, Waiting
<1>7. \A k \in Reads : AtWork(k) /\ k # j => job[k].request.stream # here
  BY <1>1, OneReadPerStream
<1> HIDE DEF here
<1>8. Typed'
  <2>1. job' \in [Reads -> Jobs \cup {None}]
    BY <1>1, <1>3
  <2> QED
    BY <2>1, <1>3 DEF IInv, Typed
<1>9. WellFormed(stack, job)'
  OBVIOUS
<1>10. SlotsOwned'
  <2>1. \A r \in Requests : active[r] # None =>
          active[r] \in Reads /\ AtWork(active[r]) /\ job[active[r]].request = r
    BY DEF IInv, Typed, SlotsOwned
  <2>2. (\A r \in Requests : active[r] # None => AtWork(active[r]) /\ job[active[r]].request = r)'
    BY <2>1, <1>3, <1>5 DEF AtWork
  <2>3. \A k \in Reads : AtWork(k)' => active'[job'[k].request] = k
    BY <1>3, <1>5 DEF IInv, SlotsOwned, AtWork
  <2>4. \A k \in Queued' : ~Dead(k)' /\ active'[job'[k].request] = None
    BY <1>3, <1>4, <1>5 DEF IInv, SlotsOwned, Queued
  <2>5. \A k, m \in Queued' : job'[k].request = job'[m].request => k = m
    BY <1>3, <1>4 DEF IInv, SlotsOwned, Queued
  <2>6. {job'[k].request : k \in Queued'} = {job[k].request : k \in Queued}
    BY <1>3, <1>4 DEF Queued
  <2> QED
    BY <2>2, <2>3, <2>4, <2>5, <2>6, <1>4 DEF IInv, SlotsOwned
<1>11. SentForScope'
  BY <1>3 DEF IInv, SentForScope
<1>12. SourcesFollowReads'
  <2>1. \A s \in Streams : s # here /\ sources[s] # None =>
          /\ sources[s].page = None <=> sources[s].reader = None
          /\ sources[s].reader # None =>
               /\ sources[s].reader \in Reads
               /\ job[sources[s].reader] # None
               /\ job[sources[s].reader].request.page = sources[s].page
          /\ sources[s].pending # None =>
               /\ sources[s].pending \in Reads \ {j}
               /\ AtWork(sources[s].pending)
               /\ job[sources[s].pending].phase \in {"loading", "fetching"}
               /\ job[sources[s].pending].request.stream = s
    BY DEF IInv, Typed, Source, SourcesFollowReads, here
  <2>2. LET has == sources'[here]
        IN /\ has.page = None <=> has.reader = None
           /\ has.reader # None =>
                /\ has.reader \in Reads
                /\ job[has.reader] # None
                /\ job[has.reader].request.page = has.page
    <3>1. /\ sources[here].page = None <=> sources[here].reader = None
          /\ sources[here].reader # None =>
               /\ sources[here].reader \in Reads
               /\ job[sources[here].reader] # None
               /\ job[sources[here].reader].request.page = sources[here].page
      BY <1>1, <1>2 DEF IInv, Typed, Source, SourcesFollowReads
    <3>2. job[j].request.page # None /\ j # None
      BY <1>1, ReadsAreNumbers, NoneIsNoValue
    <3> QED
      BY <3>1, <3>2, <1>1, <1>2 DEF here
  <2>3. (\A s \in Streams : sources[s] # None =>
          /\ sources[s].page = None <=> sources[s].reader = None
          /\ sources[s].reader # None =>
               LET k == sources[s].reader
               IN job[k] # None /\ job[k].request.page = sources[s].page
          /\ sources[s].pending # None =>
               LET k == sources[s].pending
               IN AtWork(k) /\ job[k].phase \in {"loading", "fetching"} /\ job[k].request.stream = s)'
    <3> SUFFICES ASSUME NEW s \in Streams, sources'[s] # None
                 PROVE
          /\ sources'[s].page = None <=> sources'[s].reader = None
          /\ sources'[s].reader # None =>
               /\ job'[sources'[s].reader] # None
               /\ job'[sources'[s].reader].request.page = sources'[s].page
          /\ sources'[s].pending # None =>
               /\ sources'[s].pending \in Reads /\ AtWork(sources[s].pending)
               /\ sources'[s].pending = sources[s].pending
               /\ job'[sources'[s].pending].phase \in {"loading", "fetching"}
               /\ job'[sources'[s].pending].request.stream = s
      BY <1>5
    <3>1. CASE s = here
      BY <3>1, <2>2, <1>3 DEF here
    <3>2. CASE s # here
      <4>1. sources'[s] = sources[s]
        BY <3>2 DEF here
      <4> QED
        BY <4>1, <3>2, <2>1, <1>3
    <3> QED
      BY <3>1, <3>2
  <2>4. \A k \in Reads : AtWork(k)' /\ job'[k].phase \in {"loading", "fetching", "accepted"} =>
          /\ AtWork(k) /\ k # j /\ job'[k] = job[k]
          /\ sources'[job[k].request.stream] = sources[job[k].request.stream]
    <3> SUFFICES ASSUME NEW k \in Reads, AtWork(k),
                        job'[k].phase \in {"loading", "fetching", "accepted"}
                 PROVE  /\ k # j /\ job'[k] = job[k]
                        /\ sources'[job[k].request.stream] = sources[job[k].request.stream]
      BY <1>5
    <3>1. k # j
      BY <1>3
    <3>2. job[k].request.stream \in Streams
      BY RequestsNameStreams DEF AtWork, IInv, Typed, Jobs
    <3> QED
      BY <3>1, <3>2, <1>3, <1>7 DEF here
  <2>5. \A k \in Reads : AtWork(k)' /\ job'[k].phase \in {"loading", "fetching"} => Accepts(k)'
    <3>1. \A k \in Reads : AtWork(k) /\ job[k].phase \in {"loading", "fetching"} => Accepts(k)
      BY DEF IInv, SourcesFollowReads
    <3> QED
      BY <3>1, <2>4 DEF Accepts
  <2>6. \A k \in Reads : AtWork(k)' /\ job'[k].phase = "accepted" =>
          Committed(k)' /\ sources'[job'[k].request.stream].page = job'[k].request.page
    <3>1. \A k \in Reads : AtWork(k) /\ job[k].phase = "accepted" =>
            Committed(k) /\ sources[job[k].request.stream].page = job[k].request.page
      BY DEF IInv, SourcesFollowReads
    <3> QED
      BY <3>1, <2>4 DEF Committed
  <2> QED
    BY <2>3, <2>5, <2>6 DEF SourcesFollowReads
<1>13. QuestionFirst'
  <2>1. booted /\ ~closed
    BY <1>1, <1>2 DEF IInv, QuestionFirst, NothingRead
  <2>2. \A k \in Reads : ~(Waiting(k)' /\ job'[k].request.stream = Question)
    <3> SUFFICES ASSUME NEW k \in Reads, Waiting(k)', job'[k].request.stream = Question
                 PROVE  FALSE
      OBVIOUS
    <3>1. Waiting(k) /\ job[k].request.stream = Question /\ k # j
      BY <1>3, <1>5 DEF Waiting
    <3> QED
      BY <3>1, <1>1 DEF IInv, QuestionFirst
  <2> QED
    BY <2>1, <2>2 DEF QuestionFirst
<1>14. AnswersFollowReads'
  BY <1>3, <1>5 DEF IInv, AnswersFollowReads
<1>15. PumpIsComing'
  BY <1>3, <1>4, PumpNotNeeded DEF Queued
<1>16. NothingStaleShown'
  <2>1. \A s \in Streams : sources[s] # None /\ sources[s].page # None =>
          LET k == sources[s].reader
          IN /\ k \in Reads /\ job[k] # None
             /\ job[k].scope = scope /\ job[k].epoch = epoch /\ job[k].request.stream = s
    BY DEF IInv, NothingStaleShown, Typed, Source, SourcesFollowReads
  <2>2. job[j].scope = scope /\ job[j].epoch = epoch
    BY <1>1 DEF IInv, SentForScope, Dead
  <2> SUFFICES ASSUME NEW s \in Streams, sources'[s] # None
               PROVE  /\ sources'[s].page # None =>
                           LET k == sources'[s].reader
                           IN /\ job'[k].scope = scope /\ job'[k].epoch = epoch
                              /\ job'[k].request.stream = s
                      /\ s # Question => sources'[Question] # None /\ sources'[Question].page # None
    BY DEF NothingStaleShown
  <2>3. sources[s] # None
    BY <1>2 DEF here
  <2>4. s # Question => sources[Question] # None /\ sources[Question].page # None
    BY <2>3 DEF IInv, NothingStaleShown
  <2>5. s # Question => sources'[Question] # None /\ sources'[Question].page # None
    <3>1. s # Question => here # Question
      BY <1>6, <2>3 DEF Streams
    <3> QED
      BY <3>1, <2>4 DEF here, Streams
  <2>6. CASE s # here
    <3>1. sources'[s] = sources[s]
      BY <2>6 DEF here
    <3> QED
      BY <3>1, <2>1, <2>5, <1>3
  <2>7. CASE s = here
    <3>1. CASE sources'[s].reader = j
      BY <3>1, <2>2, <2>5, <2>7, <1>3, <1>1 DEF here
    <3>2. CASE sources'[s].page = sources[s].page /\ sources'[s].reader = sources[s].reader
      BY <3>2, <2>1, <2>3, <2>5, <1>3
    <3>3. CASE sources'[s].page = None
      BY <3>3, <2>5
    <3> QED
      BY <3>1, <3>2, <3>3, <2>7 DEF here
  <2> QED
    BY <2>6, <2>7
<1> QED
  BY <1>8, <1>9, <1>10, <1>11, <1>12, <1>13, <1>14, <1>15, <1>16 DEF IInv

LEMMA AnswerFrames ==
  ASSUME NEW j \in Reads, NEW jb, jb[j] # None, jb[j].phase = "received"
  PROVE  /\ <<Frame("publish", 0)>> \in Seq(Frames) /\ WellFormed(<<Frame("publish", 0)>>, jb)
         /\ <<Frame("publish", 0), Frame("accept", j)>> \in Seq(Frames)
         /\ WellFormed(<<Frame("publish", 0), Frame("accept", j)>>, jb)
BY ReadsAreNumbers DEF WellFormed, FrameFits, Frame, Frames

LEMMA PublishIsWellFormed ==
  ASSUME NEW jb
  PROVE  <<Frame("publish", 0)>> \in Seq(Frames) /\ WellFormed(<<Frame("publish", 0)>>, jb)
BY DEF WellFormed, FrameFits, Frame, Frames

\* What the four answers have in common.
LEMMA AnsweredFacts ==
  ASSUME IInv, NEW j \in Reads, NEW phase \in {"received", "rejected"}, Idle(j, "fetching"), ~Dead(j),
         job' = [job EXCEPT ![j].phase = phase]
  PROVE  /\ stack = <<>> /\ job[j] # None /\ job[j].phase = "fetching"
         /\ job[j].request \in Requests /\ job[j].request.stream \in Streams
         /\ job[j].request.page \in 0..LastPage
         /\ Accepts(j) /\ sources \in [Streams -> Source \cup {None}]
         /\ sources[job[j].request.stream] \in Source
         /\ job'[j] # None /\ job'[j].phase = phase
<1>1. /\ stack = <<>> /\ job[j] \in Jobs /\ job[j].phase = "fetching" /\ job[j] # None
      /\ job[j].request \in Requests /\ job[j].request.stream \in Streams
      /\ job[j].request.page \in 0..LastPage
      /\ sources \in [Streams -> Source \cup {None}]
      /\ job \in [Reads -> Jobs \cup {None}]
  BY RequestsNameStreams DEF IInv, Typed, Idle, Jobs
<1>2. Accepts(j)
  BY <1>1 DEF IInv, SourcesFollowReads, AtWork
<1>3. sources[job[j].request.stream] \in Source
  BY <1>1, <1>2 DEF Accepts
<1>4. job'[j] = [job[j] EXCEPT !.phase = phase]
  BY <1>1
<1>5. job'[j] \in Jobs /\ job'[j].phase = phase /\ job'[j] # None
  BY <1>4, <1>1, NoneIsNoValue DEF Jobs, Phases
<1> QED
  BY <1>1, <1>2, <1>3, <1>5

LEMMA ReceiveDataKeepsIInv ==
  ASSUME IInv, NEW j \in Reads, ReceiveData(j)
  PROVE  IInv'
<1>1. /\ Idle(j, "fetching") /\ ~Dead(j) /\ sources' = Received(j)
      /\ job' = [job EXCEPT ![j].phase = "received"]
      /\ stack' = <<Frame("publish", 0), Frame("accept", j)>>
      /\ UNCHANGED <<count, scope, epoch, booted, closed, slots>>
  BY DEF ReceiveData
<1>2. stack' \in Seq(Frames) /\ WellFormed(stack', job')
  BY <1>1, AnsweredFacts, AnswerFrames
<1>3. Accepts(j)
  BY <1>1, AnsweredFacts
<1>4. sources' = [sources EXCEPT ![job[j].request.stream] =
                    [pending |-> None, page |-> job[j].request.page, reader |-> j, failed |-> FALSE]]
  BY <1>1, <1>3 DEF Received
<1>5. [pending |-> None, page |-> job[j].request.page, reader |-> j, failed |-> FALSE] \in Source
  BY <1>1, AnsweredFacts DEF Source
<1>6. /\ stack = <<>> /\ job[j] # None /\ job[j].phase = "fetching"
      /\ job[j].request.stream \in Streams /\ Accepts(j)
      /\ sources \in [Streams -> Source \cup {None}]
      /\ sources[job[j].request.stream] \in Source
  BY <1>1, AnsweredFacts
<1> DEFINE page == [pending |-> None, page |-> job[j].request.page, reader |-> j, failed |-> FALSE]
<1>7. page \in Source /\ page # None /\ page.pending = None
      /\ page.page = job[j].request.page /\ page.reader = j
  BY <1>5, NoneIsNoValue
<1>8. sources' = [sources EXCEPT ![job[j].request.stream] = page]
  BY <1>4
<1> HIDE DEF page
<1>9. /\ sources' \in [Streams -> Source \cup {None}]
      /\ sources'[job[j].request.stream] = page
      /\ \A s \in Streams : s # job[j].request.stream => sources'[s] = sources[s]
  BY <1>6, <1>7, <1>8
<1> QED
  BY <1>1, <1>2, <1>6, <1>7, <1>9, AnsweredKeepsIInv

\* Failed leaves the page and uses the ticket up.
LEMMA FailedFacts ==
  ASSUME NEW j \in Reads, Accepts(j), sources \in [Streams -> Source \cup {None}],
         job[j].request.stream \in Streams, sources[job[j].request.stream] \in Source
  PROVE  LET had == sources[job[j].request.stream]
             has == Failed(j)[job[j].request.stream]
         IN /\ Failed(j) \in [Streams -> Source \cup {None}]
            /\ \A s \in Streams : s # job[j].request.stream => Failed(j)[s] = sources[s]
            /\ has # None /\ has.pending = None
            /\ has.page = had.page /\ has.reader = had.reader
<1> DEFINE here == job[j].request.stream
           has == [sources[here] EXCEPT !.pending = None, !.failed = TRUE]
<1>1. has \in Source /\ has.pending = None
      /\ has.page = sources[here].page /\ has.reader = sources[here].reader
  BY DEF Source
<1>2. Failed(j) = [sources EXCEPT ![here] = has]
  BY DEF Failed
<1> HIDE DEF has
<1> QED
  BY <1>1, <1>2, NoneIsNoValue

LEMMA ReceiveMisfitKeepsIInv ==
  ASSUME IInv, NEW j \in Reads, ReceiveMisfit(j)
  PROVE  IInv'
<1>1. /\ Idle(j, "fetching") /\ ~Dead(j) /\ sources' = Failed(j)
      /\ job' = [job EXCEPT ![j].phase = "received"]
      /\ stack' = <<Frame("publish", 0), Frame("accept", j)>>
      /\ UNCHANGED <<count, scope, epoch, booted, closed, slots>>
  BY DEF ReceiveMisfit
<1>2. stack' \in Seq(Frames) /\ WellFormed(stack', job')
  BY <1>1, AnsweredFacts, AnswerFrames
<1>3. /\ stack = <<>> /\ job[j] # None /\ job[j].phase = "fetching"
      /\ job[j].request.stream \in Streams /\ Accepts(j)
      /\ sources \in [Streams -> Source \cup {None}]
      /\ sources[job[j].request.stream] \in Source
  BY <1>1, AnsweredFacts
<1>4. LET had == sources[job[j].request.stream]
          has == sources'[job[j].request.stream]
      IN /\ sources' \in [Streams -> Source \cup {None}]
         /\ \A s \in Streams : s # job[j].request.stream => sources'[s] = sources[s]
         /\ has # None /\ has.pending = None
         /\ has.page = had.page /\ has.reader = had.reader
  BY <1>1, <1>3, FailedFacts
<1> QED
  BY <1>1, <1>2, <1>3, <1>4, AnsweredKeepsIInv

LEMMA ReceiveErrorKeepsIInv ==
  ASSUME IInv, NEW j \in Reads, ReceiveError(j)
  PROVE  IInv'
<1>1. /\ Idle(j, "fetching") /\ ~Dead(j) /\ sources' = Failed(j)
      /\ job' = [job EXCEPT ![j].phase = "rejected"]
      /\ stack' = <<Frame("publish", 0)>>
      /\ UNCHANGED <<count, scope, epoch, booted, closed, slots>>
  BY DEF ReceiveError
<1>2. stack' \in Seq(Frames) /\ WellFormed(stack', job')
  BY <1>1, PublishIsWellFormed
<1>3. /\ stack = <<>> /\ job[j] # None /\ job[j].phase = "fetching"
      /\ job[j].request.stream \in Streams /\ Accepts(j)
      /\ sources \in [Streams -> Source \cup {None}]
      /\ sources[job[j].request.stream] \in Source
  BY <1>1, AnsweredFacts
<1>4. LET had == sources[job[j].request.stream]
          has == sources'[job[j].request.stream]
      IN /\ sources' \in [Streams -> Source \cup {None}]
         /\ \A s \in Streams : s # job[j].request.stream => sources'[s] = sources[s]
         /\ has # None /\ has.pending = None
         /\ has.page = had.page /\ has.reader = had.reader
  BY <1>1, <1>3, FailedFacts
<1> QED
  BY <1>1, <1>2, <1>3, <1>4, AnsweredKeepsIInv

LEMMA QuestionGoneKeepsIInv ==
  ASSUME IInv, NEW j \in Reads, QuestionGone(j)
  PROVE  IInv'
<1>1. /\ Idle(j, "fetching") /\ ~Dead(j) /\ sources' = OnlyAnError(j)
      /\ job' = [job EXCEPT ![j].phase = "rejected"]
      /\ stack' = <<Frame("publish", 0)>> /\ job[j].request.stream = Question
      /\ UNCHANGED <<count, scope, epoch, booted, closed, slots>>
  BY DEF QuestionGone
<1>2. stack' \in Seq(Frames) /\ WellFormed(stack', job')
  BY <1>1, PublishIsWellFormed
<1> DEFINE error == [pending |-> None, page |-> None, reader |-> None, failed |-> TRUE]
<1>3. Accepts(j) /\ sources \in [Streams -> Source \cup {None}]
  BY <1>1, AnsweredFacts
<1>4. sources' = [NothingRead EXCEPT ![Question] = error]
  BY <1>1, <1>3 DEF OnlyAnError
<1>5. error \in Source /\ error.pending = None /\ error.page = None /\ error.reader = None
  BY DEF Source
<1>6. \A s \in Sections : sources[s] = None
  <2>1. Waiting(j)
    BY <1>1 DEF Waiting, Idle
  <2> QED
    BY <2>1, <1>1 DEF IInv, QuestionFirst
<1> HIDE DEF error
<1>7. /\ sources' \in [Streams -> Source \cup {None}]
      /\ sources'[Question] = error /\ error # None
      /\ \A s \in Streams : s # Question => sources'[s] = sources[s]
  BY <1>4, <1>5, <1>6, NoneIsNoValue DEF NothingRead, Streams
<1>8. /\ stack = <<>> /\ job[j] # None /\ job[j].phase = "fetching"
      /\ job[j].request.stream \in Streams /\ Accepts(j)
      /\ sources \in [Streams -> Source \cup {None}]
      /\ sources[job[j].request.stream] \in Source
  BY <1>1, AnsweredFacts
<1> QED
  BY <1>1, <1>2, <1>5, <1>7, <1>8, AnsweredKeepsIInv

-----------------------------------------------------------------------------
(* The queue is looked through. *)

\* The read that pump() has found is of the present epoch and its stream is idle.
LEMMA ChosenFacts ==
  ASSUME IInv, NEW j \in Reads, Pumping, Chosen(j)
  PROVE  /\ j \in Queued /\ job[j] \in Jobs /\ job[j] # None /\ job[j].phase = "queued"
         /\ job \in [Reads -> Jobs \cup {None}]
         /\ job[j].request \in Requests /\ job[j].request.stream \in Streams
         /\ job[j].request.stream \notin activeStreams
         /\ ~Dead(j) /\ active[job[j].request] = None /\ booted /\ ~closed
         /\ Cardinality(ActiveReads) < Concurrency /\ Cardinality(ActiveReads) \in Nat
         /\ stack \in Seq(Frames) /\ stack # <<>> /\ stack[1].do = "pump" /\ 1 \in 1..Len(stack)
<1>1. j \in Queued /\ job[j].request.stream \notin activeStreams
  BY DEF Chosen, Startable
<1>2. /\ job[j] \in Jobs /\ job[j] # None /\ job[j].phase = "queued"
      /\ job \in [Reads -> Jobs \cup {None}]
      /\ job[j].request \in Requests /\ job[j].request.stream \in Streams
  BY <1>1, RequestsNameStreams DEF Queued, IInv, Typed, Jobs
<1>3. ~Dead(j) /\ active[job[j].request] = None /\ booted /\ ~closed
  BY <1>1 DEF IInv, SlotsOwned, QuestionFirst
<1>4. Cardinality(ActiveReads) < Concurrency /\ Cardinality(ActiveReads) \in Nat
  BY FewReads DEF Pumping, IInv
<1>5. stack \in Seq(Frames) /\ stack # <<>> /\ Head(stack).do = "pump"
  BY DEF Pumping, Running, IInv, Typed
<1>6. stack[1].do = "pump" /\ 1 \in 1..Len(stack)
  BY <1>5
<1> QED
  BY <1>1, <1>2, <1>3, <1>4, <1>5, <1>6

LEMMA PumpDropsKeepsIInv ==
  ASSUME IInv, NEW j \in Reads, PumpDrops(j)
  PROVE  IInv'
<1>1. /\ Pumping /\ Chosen(j)
      /\ job' = [job EXCEPT ![j].phase = "done", ![j].answer = "false"]
      /\ busyKeys' = busyKeys \ {job[j].request}
  BY DEF PumpDrops
<1>same. /\ count' = count /\ sources' = sources /\ scope' = scope /\ epoch' = epoch
         /\ booted' = booted /\ closed' = closed /\ stack' = stack
         /\ active' = active /\ activeStreams' = activeStreams
  BY DEF PumpDrops, model
<1>2. /\ j \in Queued /\ job[j] \in Jobs /\ job[j] # None /\ job[j].phase = "queued"
      /\ job \in [Reads -> Jobs \cup {None}] /\ job[j].request \in Requests
      /\ ~Dead(j) /\ active[job[j].request] = None /\ booted /\ ~closed
      /\ stack \in Seq(Frames) /\ stack[1].do = "pump" /\ 1 \in 1..Len(stack)
  BY <1>1, ChosenFacts
<1>3. /\ job'[j] \in Jobs /\ job'[j] # None /\ job'[j].phase = "done" /\ job'[j].answer = "false"
      /\ \A k \in Reads : k # j => job'[k] = job[k]
      /\ \A k \in Reads : /\ job'[k] = None <=> job[k] = None
                          /\ job[k] # None => /\ job'[k].request = job[k].request
                                              /\ job'[k].epoch = job[k].epoch
                                              /\ job'[k].scope = job[k].scope
  <2>1. job'[j] = [job[j] EXCEPT !.phase = "done", !.answer = "false"]
    BY <1>1, <1>2
  <2>2. job'[j] \in Jobs /\ job'[j] # None
    BY <2>1, <1>2, NoneIsNoValue DEF Jobs, Phases
  <2> QED
    BY <2>1, <2>2, <1>1, <1>2 DEF Jobs
<1>4. Queued' = Queued \ {j} /\ ActiveReads' = ActiveReads
  BY <1>same, <1>3 DEF Queued, ActiveReads
<1>5. \A k \in Reads : /\ AtWork(k)' <=> AtWork(k)
                       /\ AtWork(k) => k # j
                       /\ job[k] # None => (Dead(k)' <=> Dead(k))
                       /\ Waiting(k)' => Waiting(k)
  BY <1>same, <1>2, <1>3 DEF AtWork, Dead, Waiting
<1>6. Typed'
  <2>1. job' \in [Reads -> Jobs \cup {None}]
    BY <1>1, <1>2, <1>3
  <2> QED
    BY <2>1, <1>same, <1>3 DEF IInv, Typed
<1>7. WellFormed(stack, job)'
  <2>1. \A k \in Reads : job[k] # None /\ job[k].phase \in {"loading", "received"} =>
          job'[k] # None /\ job'[k].phase = job[k].phase
    BY <1>2, <1>3
  <2>2. stack \in Seq(Frames) /\ WellFormed(stack, job)
    BY DEF IInv, Typed
  <2>3. WellFormed(stack, job')
    <3> DEFINE kb == job'
    <3>1. \A k \in Reads : job[k] # None /\ job[k].phase \in {"loading", "received"} =>
            kb[k] # None /\ kb[k].phase = job[k].phase
      BY <2>1
    <3> HIDE DEF kb
    <3>2. WellFormed(stack, kb)
      BY <2>2, <3>1, SamePhasesKeepWellFormed
    <3> QED
      BY <3>2 DEF kb
  <2> QED
    BY <2>3, <1>same
<1>8. SlotsOwned'
  <2>1. \A r \in Requests : active[r] # None =>
          active[r] \in Reads /\ AtWork(active[r]) /\ job[active[r]].request = r
    BY DEF IInv, Typed, SlotsOwned
  <2>2. (\A r \in Requests : active[r] # None => AtWork(active[r]) /\ job[active[r]].request = r)'
    BY <2>1, <1>same, <1>3, <1>5 DEF AtWork
  <2>3. \A k \in Reads : AtWork(k)' => active'[job'[k].request] = k
    BY <1>same, <1>3, <1>5 DEF IInv, SlotsOwned, AtWork
  <2>4. \A k \in Queued' : ~Dead(k)' /\ active'[job'[k].request] = None
    BY <1>same, <1>3, <1>4, <1>5 DEF IInv, SlotsOwned, Queued
  <2>5. \A k, m \in Queued' : job'[k].request = job'[m].request => k = m
    BY <1>3, <1>4 DEF IInv, SlotsOwned, Queued
  <2>6. busyKeys' = {job'[k].request : k \in Queued'} \cup {r \in Requests : active'[r] # None}
    <3>1. {job'[k].request : k \in Queued'} = {job[k].request : k \in Queued} \ {job[j].request}
      BY <1>2, <1>3, <1>4 DEF Queued, IInv, SlotsOwned
    <3> QED
      BY <3>1, <1>1, <1>same, <1>2 DEF IInv, SlotsOwned
  <2> QED
    BY <2>2, <2>3, <2>4, <2>5, <2>6, <1>same, <1>4 DEF IInv, SlotsOwned
<1>9. SentForScope'
  BY <1>same, <1>3 DEF IInv, SentForScope
<1>10. SourcesFollowReads'
  <2>1. \A s \in Streams : sources[s] # None =>
          /\ sources[s].page = None <=> sources[s].reader = None
          /\ sources[s].reader # None =>
               /\ sources[s].reader \in Reads
               /\ job[sources[s].reader] # None
               /\ job[sources[s].reader].request.page = sources[s].page
          /\ sources[s].pending # None =>
               /\ sources[s].pending \in Reads \ {j}
               /\ AtWork(sources[s].pending)
               /\ job[sources[s].pending].phase \in {"loading", "fetching"}
               /\ job[sources[s].pending].request.stream = s
    BY <1>2 DEF IInv, Typed, Source, SourcesFollowReads
  <2>2. (\A s \in Streams : sources[s] # None =>
          /\ sources[s].page = None <=> sources[s].reader = None
          /\ sources[s].reader # None =>
               LET k == sources[s].reader
               IN job[k] # None /\ job[k].request.page = sources[s].page
          /\ sources[s].pending # None =>
               LET k == sources[s].pending
               IN AtWork(k) /\ job[k].phase \in {"loading", "fetching"} /\ job[k].request.stream = s)'
    BY <2>1, <1>same, <1>3, <1>5
  <2>3. \A k \in Reads : AtWork(k)' => AtWork(k) /\ job'[k] = job[k]
    BY <1>3, <1>5
  <2> QED
    BY <2>2, <2>3, <1>same DEF IInv, SourcesFollowReads, Accepts, Committed
<1>11. QuestionFirst'
  <2>1. \A k \in Reads : Waiting(k)' => Waiting(k) /\ job'[k].request = job[k].request
    BY <1>3, <1>5 DEF Waiting
  <2> QED
    BY <2>1, <1>same, <1>2, <1>4, <1>5 DEF IInv, QuestionFirst
<1>12. AnswersFollowReads'
  BY <1>same, <1>3, <1>5, NoneIsNoValue DEF IInv, AnswersFollowReads
<1>13. PumpIsComing'
  BY <1>same, <1>2 DEF PumpIsComing
<1>14. NothingStaleShown'
  <2>1. \A s \in Streams : sources[s] # None /\ sources[s].page # None =>
          LET k == sources[s].reader
          IN job'[k].scope = job[k].scope /\ job'[k].epoch = job[k].epoch
             /\ job'[k].request = job[k].request
    BY <1>3 DEF IInv, Typed, Source, SourcesFollowReads
  <2> QED
    BY <2>1, <1>same DEF IInv, NothingStaleShown
<1> QED
  BY <1>6, <1>7, <1>8, <1>9, <1>10, <1>11, <1>12, <1>13, <1>14 DEF IInv

\* pump() puts the dispatch of a read on top of itself.
LEMMA DispatchedIsWellFormed ==
  ASSUME NEW st \in Seq(Frames), NEW jb, NEW j \in Reads, WellFormed(st, jb),
         jb[j] # None, jb[j].phase = "loading", st # <<>>, st[1].do = "pump",
         \A i \in 1..Len(st) : st[i].do = "dispatch" => st[i].of # j
  PROVE  /\ <<Frame("dispatch", j)>> \o st \in Seq(Frames)
         /\ WellFormed(<<Frame("dispatch", j)>> \o st, jb)
<1> DEFINE f == Frame("dispatch", j)
           t == <<f>> \o st
<1>1. f \in Frames /\ f.do = "dispatch" /\ f.of = j
  BY ReadsAreNumbers DEF Frame, Frames
<1> HIDE DEF f
<1>2. t \in Seq(Frames) /\ Len(t) = Len(st) + 1 /\ Len(st) \in Nat \ {0}
  BY <1>1
<1>3. t[1] = f /\ \A i \in 1..Len(t) : i # 1 => t[i] = st[i-1] /\ i - 1 \in 1..Len(st)
  BY <1>1, <1>2
<1>4. \A i \in 1..Len(t) : FrameFits(t, jb, i)
  <2> SUFFICES ASSUME NEW i \in 1..Len(t) PROVE FrameFits(t, jb, i)
    OBVIOUS
  <2>1. CASE i = 1
    <3>1. t[1 + 1] = st[1]
      BY <1>2, <1>3
    <3> QED
      BY <2>1, <3>1, <1>1, <1>2, <1>3 DEF FrameFits
  <2>2. CASE i # 1
    <3>1. FrameFits(st, jb, i-1)
      BY <2>2, <1>3 DEF WellFormed
    <3>2. i < Len(t) => t[i+1] = st[i]
      BY <1>2, <1>3
    <3> QED
      BY <3>1, <3>2, <2>2, <1>2, <1>3 DEF FrameFits
  <2> QED
    BY <2>1, <2>2
<1>5. \A i, k \in 1..Len(t) :
        /\ t[i].do \in {"dispatch", "accept"} /\ t[k].do = t[i].do
        /\ t[i].of = t[k].of
        => i = k
  <2> SUFFICES ASSUME NEW i \in 1..Len(t), NEW k \in 1..Len(t),
                      t[i].do \in {"dispatch", "accept"}, t[k].do = t[i].do, t[i].of = t[k].of
               PROVE  i = k
    OBVIOUS
  <2>1. i # 1 /\ k # 1 => i - 1 = k - 1
    BY <1>3 DEF WellFormed
  <2>2. i = 1 <=> k = 1
    BY <1>1, <1>3
  <2> QED
    BY <2>1, <2>2
<1> QED
  BY <1>2, <1>4, <1>5 DEF WellFormed, f

LEMMA PumpStartsKeepsIInv ==
  ASSUME IInv, NEW j \in Reads, PumpStarts(j)
  PROVE  IInv'
<1> DEFINE req == job[j].request
           here == job[j].request.stream
<1>1. /\ Pumping /\ Chosen(j) /\ Ticketed(job[j].request)
      /\ sources' = Loading(j)
      /\ job' = [job EXCEPT ![j].phase = "loading"]
      /\ active' = [active EXCEPT ![req] = j]
      /\ activeStreams' = activeStreams \cup {here}
      /\ stack' = <<Frame("publish", 0), Frame("dispatch", j)>> \o stack
  BY DEF PumpStarts
<1>same. /\ count' = count /\ scope' = scope /\ epoch' = epoch
         /\ booted' = booted /\ closed' = closed /\ busyKeys' = busyKeys
  BY DEF PumpStarts
<1>2. /\ j \in Queued /\ job[j] \in Jobs /\ job[j] # None /\ job[j].phase = "queued"
      /\ job \in [Reads -> Jobs \cup {None}] /\ req \in Requests /\ here \in Streams
      /\ here \notin activeStreams
      /\ ~Dead(j) /\ active[req] = None /\ booted /\ ~closed
      /\ Cardinality(ActiveReads) < Concurrency /\ Cardinality(ActiveReads) \in Nat
      /\ stack \in Seq(Frames) /\ stack # <<>> /\ stack[1].do = "pump" /\ 1 \in 1..Len(stack)
  BY <1>1, ChosenFacts
<1>3. /\ job'[j] \in Jobs /\ job'[j] # None /\ job'[j].phase = "loading"
      /\ \A k \in Reads : k # j => job'[k] = job[k]
      /\ \A k \in Reads : /\ job'[k] = None <=> job[k] = None
                          /\ job[k] # None => /\ job'[k].request = job[k].request
                                              /\ job'[k].epoch = job[k].epoch
                                              /\ job'[k].scope = job[k].scope
                                              /\ job'[k].answer = job[k].answer
  <2>1. job'[j] = [job[j] EXCEPT !.phase = "loading"]
    BY <1>1, <1>2
  <2>2. job'[j] \in Jobs /\ job'[j] # None
    BY <2>1, <1>2, NoneIsNoValue DEF Jobs, Phases
  <2> QED
    BY <2>1, <2>2, <1>1, <1>2 DEF Jobs
<1>4. Queued' = Queued \ {j}
  BY <1>3 DEF Queued
<1>5. \A k \in Reads : /\ AtWork(k)' <=> AtWork(k) \/ k = j
                       /\ AtWork(k) => k # j
                       /\ job[k] # None => (Dead(k)' <=> Dead(k))
                       /\ Waiting(k)' => Waiting(k)
  BY <1>same, <1>2, <1>3 DEF AtWork, Dead, Waiting
<1>6. active'[req] = j /\ j # None /\ \A r \in Requests : r # req => active'[r] = active[r]
  BY <1>1, <1>2, ReadsAreNumbers DEF IInv, Typed
\* Nobody at work reads this stream.
<1>7. /\ \A r \in Requests : active[r] # None => r.stream # here
      /\ \A k \in Reads : AtWork(k) => job[k].request \in Requests /\ job[k].request.stream # here
  <2>1. \A r \in Requests : active[r] # None => r.stream # here
    BY <1>2 DEF IInv, SlotsOwned
  <2>2. \A k \in Reads : AtWork(k) => job[k].request \in Requests /\ active[job[k].request] = k
    BY DEF IInv, Typed, SlotsOwned, AtWork, Jobs
  <2> QED
    BY <2>1, <2>2, ReadsAreNumbers
<1>8. /\ sources' \in [Streams -> Source \cup {None}]
      /\ \A s \in Streams : s # here => sources'[s] = sources[s]
      /\ sources'[here] # None /\ sources'[here].pending = j
      /\ sources[here] # None => /\ sources'[here].page = sources[here].page
                                 /\ sources'[here].reader = sources[here].reader
      /\ sources[here] = None => sources'[here].page = None /\ sources'[here].reader = None
  <2> DEFINE new == [pending |-> j, failed |-> FALSE,
                     page |-> IF sources[here] = None THEN None ELSE sources[here].page,
                     reader |-> IF sources[here] = None THEN None ELSE sources[here].reader]
  <2>1. new \in Source
    BY <1>2 DEF IInv, Typed, Source
  <2>2. /\ new.pending = j
        /\ sources[here] # None => new.page = sources[here].page /\ new.reader = sources[here].reader
        /\ sources[here] = None => new.page = None /\ new.reader = None
    OBVIOUS
  <2>3. sources' = [sources EXCEPT ![here] = new]
    BY <1>1 DEF Loading
  <2> HIDE DEF new, here
  <2> QED
    BY <2>1, <2>2, <2>3, <1>2, NoneIsNoValue DEF IInv, Typed
<1> HIDE DEF req, here
<1>9. Typed' /\ WellFormed(stack, job)'
  <2>1. job' \in [Reads -> Jobs \cup {None}]
    BY <1>1, <1>2, <1>3
  <2>2. active' \in [Requests -> Reads \cup {None}]
    BY <1>1, <1>2 DEF IInv, Typed
  <2>3. WellFormed(stack, job')
    <3> DEFINE kb == job'
    <3>1. /\ stack \in Seq(Frames) /\ WellFormed(stack, job)
          /\ \A k \in Reads : job[k] # None /\ job[k].phase \in {"loading", "received"} =>
               kb[k] # None /\ kb[k].phase = job[k].phase
      BY <1>2, <1>3 DEF IInv
    <3> HIDE DEF kb
    <3>2. WellFormed(stack, kb)
      BY <3>1, SamePhasesKeepWellFormed
    <3> QED
      BY <3>2 DEF kb
  <2>4. \A i \in 1..Len(stack) : stack[i].do = "dispatch" => stack[i].of # j
    BY <1>2 DEF IInv, WellFormed, FrameFits
  <2> DEFINE st == <<Frame("dispatch", j)>> \o stack
             tt == <<Frame("publish", 0)>> \o st
  <2>5. st \in Seq(Frames) /\ WellFormed(st, job')
    BY <2>3, <2>4, <1>2, <1>3, DispatchedIsWellFormed
  <2>6. Frame("publish", 0) \in Frames /\ Frame("publish", 0).do = "publish"
    BY DEF Frames, Frame
  <2>7. Frame("dispatch", j) \in Frames
    BY ReadsAreNumbers DEF Frames, Frame
  <2>8. stack' = tt
    BY <2>6, <2>7, <1>1, <1>2
  <2> HIDE DEF st
  <2>9. tt \in Seq(Frames) /\ WellFormed(tt, job')
    BY <2>5, <2>6, PushedIsWellFormed
  <2> HIDE DEF tt
  <2>10. stack' \in Seq(Frames) /\ WellFormed(stack', job')
    BY <2>8, <2>9
  <2> QED
    BY <2>1, <2>2, <2>10, <1>3, <1>8, <1>same DEF IInv, Typed
<1>10. SlotsOwned'
  <2>1. \A r \in Requests : active[r] # None =>
          /\ active[r] \in Reads \ {j} /\ AtWork(active[r]) /\ job[active[r]].request = r
          /\ r # req
    BY <1>2, <1>5 DEF IInv, Typed, SlotsOwned
  <2>2. \A r \in Requests : active'[r] # None =>
          /\ (active'[r] \in Reads /\ AtWork(active'[r])) \/ active'[r] = j
          /\ job[active'[r]].request = r /\ job[active'[r]] # None
    <3> SUFFICES ASSUME NEW r \in Requests, active'[r] # None
                 PROVE  /\ (active'[r] \in Reads /\ AtWork(active'[r])) \/ active'[r] = j
                        /\ job[active'[r]].request = r /\ job[active'[r]] # None
      OBVIOUS
    <3>1. CASE r = req
      BY <3>1, <1>2, <1>6 DEF req
    <3>2. CASE r # req
      <4>1. active'[r] = active[r] /\ active[r] # None
        BY <3>2, <1>6
      <4>2. active[r] \in Reads /\ AtWork(active[r]) /\ job[active[r]].request = r
        BY <4>1, <2>1
      <4> QED
        BY <4>1, <4>2 DEF AtWork
    <3> QED
      BY <3>1, <3>2
  <2>3. (\A r \in Requests : active[r] # None => AtWork(active[r]) /\ job[active[r]].request = r)'
    BY <2>2, <1>3, <1>5
  <2>4. \A k \in Reads : AtWork(k)' => active'[job'[k].request] = k
    <3> SUFFICES ASSUME NEW k \in Reads, AtWork(k) \/ k = j PROVE active'[job'[k].request] = k
      BY <1>5
    <3>1. CASE k = j
      BY <3>1, <1>2, <1>3, <1>6 DEF req
    <3>2. CASE AtWork(k)
      <4>1. job[k].request \in Requests /\ active[job[k].request] = k /\ job[k] # None
        BY <3>2 DEF IInv, Typed, SlotsOwned, AtWork, Jobs
      <4>2. job[k].request # req
        BY <4>1, <1>2, ReadsAreNumbers
      <4> QED
        BY <4>1, <4>2, <1>3, <1>6
    <3> QED
      BY <3>1, <3>2
  <2>5. \A k \in Queued' : ~Dead(k)' /\ active'[job'[k].request] = None
    <3> SUFFICES ASSUME NEW k \in Queued, k # j PROVE ~Dead(k)' /\ active'[job'[k].request] = None
      BY <1>4
    <3>1. k \in Reads /\ job[k] # None /\ job[k].request \in Requests
      BY DEF Queued, IInv, Typed, Jobs
    <3>2. ~Dead(k) /\ active[job[k].request] = None /\ job[k].request # req
      BY <1>2 DEF IInv, SlotsOwned, req
    <3> QED
      BY <3>1, <3>2, <1>3, <1>5, <1>6
  <2>6. \A k, m \in Queued' : job'[k].request = job'[m].request => k = m
    BY <1>3, <1>4 DEF IInv, SlotsOwned, Queued
  <2>7. \A r, q \in Requests :
          active'[r] # None /\ active'[q] # None /\ r.stream = q.stream => r = q
    <3>1. \A r \in Requests : active'[r] # None => r = req \/ active[r] # None
      BY <1>6
    <3>2. req.stream = here
      BY DEF req, here
    <3> QED
      BY <3>1, <3>2, <1>7 DEF IInv, SlotsOwned
  <2>8. busyKeys' = {job'[k].request : k \in Queued'} \cup {r \in Requests : active'[r] # None}
    <3>1. {job'[k].request : k \in Queued'} = {job[k].request : k \in Queued} \ {req}
      BY <1>2, <1>3, <1>4 DEF Queued, IInv, SlotsOwned, req
    <3>2. {r \in Requests : active'[r] # None} = {r \in Requests : active[r] # None} \cup {req}
      BY <1>2, <1>6
    <3>3. req \in {job[k].request : k \in Queued}
      BY <1>2 DEF req
    <3>4. busyKeys = {job[k].request : k \in Queued} \cup {r \in Requests : active[r] # None}
      BY DEF IInv, SlotsOwned
    <3> QED
      BY <3>1, <3>2, <3>3, <3>4, <1>same
  <2>9. activeStreams' = {r.stream : r \in {q \in Requests : active'[q] # None}}
    <3>1. {q \in Requests : active'[q] # None} = {q \in Requests : active[q] # None} \cup {req}
      BY <1>2, <1>6
    <3>2. activeStreams = {r.stream : r \in {q \in Requests : active[q] # None}}
      BY DEF IInv, SlotsOwned
    <3>3. req.stream = here
      BY DEF req, here
    <3> QED
      BY <3>1, <3>2, <3>3, <1>1
  <2>10. Cardinality(ActiveReads') <= Concurrency
    <3>1. ActiveReads' \subseteq ActiveReads \cup {j}
      BY <1>6 DEF ActiveReads
    <3>2. IsFiniteSet(ActiveReads) /\ Cardinality(ActiveReads) \in Nat
      BY FewReads DEF IInv
    <3>3. /\ IsFiniteSet(ActiveReads \cup {j})
          /\ Cardinality(ActiveReads \cup {j}) \in Nat
          /\ Cardinality(ActiveReads \cup {j}) <= Cardinality(ActiveReads) + 1
      <4>1. /\ IsFiniteSet(ActiveReads \cup {j})
            /\ \/ Cardinality(ActiveReads \cup {j}) = Cardinality(ActiveReads)
               \/ Cardinality(ActiveReads \cup {j}) = Cardinality(ActiveReads) + 1
        BY <3>2, FS_AddElement
      <4> QED
        BY <4>1, <3>2
    <3>4. Cardinality(ActiveReads') <= Cardinality(ActiveReads \cup {j}) /\ Cardinality(ActiveReads') \in Nat
      BY <3>1, <3>3, FS_Subset, FS_CardinalityType
    <3> QED
      BY <3>2, <3>3, <3>4, <1>2
  <2> QED
    BY <2>3, <2>4, <2>5, <2>6, <2>7, <2>8, <2>9, <2>10 DEF SlotsOwned
<1>11. SentForScope'
  BY <1>3, <1>same DEF IInv, SentForScope
<1>12. SourcesFollowReads'
  <2>1. \A s \in Streams : sources[s] # None =>
          /\ sources[s].page = None <=> sources[s].reader = None
          /\ sources[s].reader # None =>
               /\ sources[s].reader \in Reads
               /\ job[sources[s].reader] # None
               /\ job[sources[s].reader].request.page = sources[s].page
          /\ sources[s].pending # None =>
               /\ sources[s].pending \in Reads \ {j}
               /\ AtWork(sources[s].pending)
               /\ job[sources[s].pending].phase \in {"loading", "fetching"}
               /\ job[sources[s].pending].request.stream = s
    BY <1>2 DEF IInv, Typed, Source, SourcesFollowReads
  <2>2. \A s \in Streams : sources'[s] # None =>
          /\ sources'[s].page = None <=> sources'[s].reader = None
          /\ sources'[s].reader # None =>
               /\ sources'[s].reader \in Reads
               /\ job[sources'[s].reader] # None
               /\ job[sources'[s].reader].request.page = sources'[s].page
          /\ sources'[s].pending # None =>
               /\ sources'[s].pending \in Reads
               /\ \/ sources'[s].pending = j /\ s = here
                  \/ /\ sources'[s].pending # j /\ AtWork(sources'[s].pending)
                     /\ job[sources'[s].pending].phase \in {"loading", "fetching"}
                     /\ job[sources'[s].pending].request.stream = s
    <3> TAKE s \in Streams
    <3>1. CASE s = here
      BY <3>1, <2>1, <1>8
    <3>2. CASE s # here
      <4>1. sources'[s] = sources[s]
        BY <3>2, <1>8
      <4> QED
        BY <4>1, <2>1
    <3> QED
      BY <3>1, <3>2
  <2>3. (\A s \in Streams : sources[s] # None =>
          /\ sources[s].page = None <=> sources[s].reader = None
          /\ sources[s].reader # None =>
               LET k == sources[s].reader
               IN job[k] # None /\ job[k].request.page = sources[s].page
          /\ sources[s].pending # None =>
               LET k == sources[s].pending
               IN AtWork(k) /\ job[k].phase \in {"loading", "fetching"} /\ job[k].request.stream = s)'
    <3> SUFFICES ASSUME NEW s \in Streams, sources'[s] # None
                 PROVE
          /\ sources'[s].page = None <=> sources'[s].reader = None
          /\ sources'[s].reader # None =>
               /\ job'[sources'[s].reader] # None
               /\ job'[sources'[s].reader].request.page = sources'[s].page
          /\ sources'[s].pending # None =>
               /\ sources'[s].pending \in Reads
               /\ AtWork(sources'[s].pending) \/ sources'[s].pending = j
               /\ job'[sources'[s].pending].phase \in {"loading", "fetching"}
               /\ job'[sources'[s].pending].request.stream = s
      BY <1>5
    <3>1. job'[j].request.stream = here
      BY <1>2, <1>3 DEF here
    <3> QED
      BY <3>1, <2>2, <1>3
  <2>4. \A k \in Reads : AtWork(k) =>
          /\ k # j /\ job'[k] = job[k]
          /\ sources'[job[k].request.stream] = sources[job[k].request.stream]
    BY <1>3, <1>5, <1>7, <1>8, RequestsNameStreams
  <2>5. Accepts(j)' /\ job'[j].phase # "accepted"
    BY <1>2, <1>3, <1>8 DEF Accepts, here
  <2>6. \A k \in Reads : AtWork(k)' /\ job'[k].phase \in {"loading", "fetching"} => Accepts(k)'
    <3>1. \A k \in Reads : AtWork(k) /\ job[k].phase \in {"loading", "fetching"} => Accepts(k)
      BY DEF IInv, SourcesFollowReads
    <3>2. \A k \in Reads : AtWork(k) /\ job'[k].phase \in {"loading", "fetching"} => Accepts(k)'
      BY <3>1, <2>4 DEF Accepts
    <3> QED
      BY <3>2, <2>5, <1>5
  <2>7. \A k \in Reads : AtWork(k)' /\ job'[k].phase = "accepted" =>
          Committed(k)' /\ sources'[job'[k].request.stream].page = job'[k].request.page
    <3>1. \A k \in Reads : AtWork(k) /\ job[k].phase = "accepted" =>
            Committed(k) /\ sources[job[k].request.stream].page = job[k].request.page
      BY DEF IInv, SourcesFollowReads
    <3>2. \A k \in Reads : AtWork(k) /\ job'[k].phase = "accepted" =>
            Committed(k)' /\ sources'[job'[k].request.stream].page = job'[k].request.page
      BY <3>1, <2>4 DEF Committed
    <3> QED
      BY <3>2, <2>5, <1>5
  <2> QED
    BY <2>3, <2>6, <2>7 DEF SourcesFollowReads
<1>13. QuestionFirst'
  <2> SUFFICES ASSUME NEW k \in Reads, Waiting(k)', job'[k].request.stream = Question
               PROVE  /\ \A m \in Reads : m \in Queued' \/ AtWork(m)' => m = k
                      /\ \A s \in Sections : sources'[s] = None
                      /\ sources'[Question] # None => sources'[Question].pending = k
    BY <1>2, <1>same DEF QuestionFirst
  <2>1. Waiting(k) /\ job[k].request.stream = Question
    BY <1>3, <1>5 DEF Waiting
  <2>2. /\ \A m \in Reads : m \in Queued \/ AtWork(m) => m = k
        /\ \A s \in Sections : sources[s] = None
    BY <2>1 DEF IInv, QuestionFirst
  <2>3. k = j
    BY <2>2, <1>2
  <2>4. here = Question
    BY <2>1, <2>3 DEF here
  <2>5. \A s \in Sections : sources'[s] = None
    BY <2>2, <2>4, <1>8 DEF Streams
  <2> QED
    BY <2>2, <2>3, <2>4, <2>5, <1>4, <1>5, <1>8
<1>14. AnswersFollowReads'
  BY <1>2, <1>3, <1>5 DEF IInv, AnswersFollowReads
<1>15. PumpIsComing'
  <2>1. /\ stack'[2].do = "dispatch" /\ stack'[2].of = j /\ stack'[3].do = "pump"
        /\ 3 \in 1..Len(stack') /\ 3 - 1 = 2
    <3>1. /\ stack'[2] = Frame("dispatch", j) /\ stack'[3] = stack[1]
          /\ Len(stack') = Len(stack) + 2 /\ Len(stack) \in Nat \ {0}
      BY <1>1, <1>2
    <3> QED
      BY <3>1, <1>2 DEF Frame
  <2>2. ~(closed' \/ job'[j].epoch # epoch')
    BY <1>2, <1>5 DEF Dead
  <2> QED
    BY <2>1, <2>2 DEF PumpIsComing, Dead
<1>16. NothingStaleShown'
  <2>1. \A s \in Streams : sources[s] # None /\ sources[s].page # None =>
          LET k == sources[s].reader
          IN /\ job'[k].scope = job[k].scope /\ job'[k].epoch = job[k].epoch
             /\ job'[k].request = job[k].request
    BY <1>3 DEF IInv, Typed, Source, SourcesFollowReads
  <2>2. \A s \in Streams : sources'[s] # None /\ sources'[s].page # None =>
          /\ sources[s] # None /\ sources[s].page # None
          /\ sources'[s].page = sources[s].page /\ sources'[s].reader = sources[s].reader
    BY <1>8
  <2>3. here # Question => sources[Question] # None /\ sources[Question].page # None
    BY <1>1 DEF Ticketed, here
  <2>4. \A s \in Streams : sources'[s] # None /\ s # Question =>
          sources[Question] # None /\ sources[Question].page # None
    <3> TAKE s \in Streams
    <3>1. CASE s = here
      BY <3>1, <2>3
    <3>2. CASE s # here
      BY <3>2, <1>8 DEF IInv, NothingStaleShown
    <3> QED
      BY <3>1, <3>2
  <2>5. sources[Question] # None /\ sources[Question].page # None =>
          sources'[Question] # None /\ sources'[Question].page # None
    BY <1>8 DEF Streams
  <2> QED
    BY <2>1, <2>2, <2>4, <2>5, <1>same DEF IInv, NothingStaleShown
<1> QED
  BY <1>9, <1>10, <1>11, <1>12, <1>13, <1>14, <1>15, <1>16 DEF IInv

-----------------------------------------------------------------------------
(* The theorems. *)

LEMMA InitEstablishesIInv ==
  Init => IInv
<1> SUFFICES ASSUME Init PROVE IInv
  OBVIOUS
<1>1. /\ job = [j \in Reads |-> None] /\ count = 0 /\ sources = NothingRead /\ scope \in Scopes
      /\ epoch = 0 /\ booted = FALSE /\ closed = FALSE /\ active = [r \in Requests |-> None]
      /\ activeStreams = {} /\ busyKeys = {} /\ stack = <<>>
  BY DEF Init
<1>2. Queued = {} /\ ActiveReads = {} /\ \A j \in Reads : ~AtWork(j) /\ ~Waiting(j)
  BY <1>1 DEF Queued, ActiveReads, AtWork, Waiting
<1>3. Typed
  <2>1. \A j \in Reads : job[j] # None <=> j <= count
    BY <1>1, ReadsAreNumbers
  <2>2. stack \in Seq(Frames)
    BY <1>1
  <2>3. job \in [Reads -> Jobs \cup {None}] /\ sources \in [Streams -> Source \cup {None}]
        /\ active \in [Requests -> Reads \cup {None}]
    BY <1>1 DEF NothingRead
  <2>4. count \in Nat /\ epoch \in Nat /\ closed \in BOOLEAN
    BY <1>1
  <2> QED
    BY <2>1, <2>2, <2>3, <2>4, <1>1 DEF Typed
<1>4. WellFormed(stack, job)
  BY <1>1, EmptyIsWellFormed
<1>5. SlotsOwned
  <2>1. Cardinality(ActiveReads) <= Concurrency
    BY <1>2, FS_EmptySet
  <2>2. activeStreams = {r.stream : r \in {q \in Requests : active[q] # None}}
    BY <1>1
  <2>3. busyKeys = {job[j].request : j \in Queued} \cup {r \in Requests : active[r] # None}
    BY <1>1, <1>2
  <2> QED
    BY <2>1, <2>2, <2>3, <1>1, <1>2 DEF SlotsOwned
<1>6. SentForScope /\ AnswersFollowReads
  BY <1>1 DEF SentForScope, AnswersFollowReads
<1>7. SourcesFollowReads /\ NothingStaleShown
  BY <1>1, <1>2 DEF SourcesFollowReads, NothingStaleShown, NothingRead
<1>8. QuestionFirst
  BY <1>1, <1>2 DEF QuestionFirst
<1>9. PumpIsComing
  BY <1>2 DEF PumpIsComing, Startable
<1> QED
  BY <1>3, <1>4, <1>5, <1>6, <1>7, <1>8, <1>9 DEF IInv

LEMMA StutterKeepsIInv ==
  ASSUME IInv, UNCHANGED vars
  PROVE  IInv'
<1>1. UNCHANGED <<jobs, model, epoch, booted, closed, slots, stack>>
  BY DEF vars
<1>2. stack' \in Seq(Frames) /\ WellFormed(stack', job)
  BY <1>1 DEF IInv, Typed
<1>3. PumpIsComing'
  BY <1>1, SameQueue DEF IInv, PumpIsComing, Dead, jobs
<1>4. booted' = booted
  BY <1>1
<1> QED
  BY <1>1, <1>2, <1>3, <1>4, StackStepKeepsIInv

\* IInv is inductive: what the model says of a stream, the slots, the queue, the stack and
\* the promises belong to the same reads after whatever callback, call or answer.
LEMMA NextKeepsIInv ==
  IInv /\ [Next]_vars => IInv'
<1> SUFFICES ASSUME IInv, [Next]_vars PROVE IInv'
  OBVIOUS
<1>1. CASE Interface
  BY <1>1, StartKeepsIInv, DisposeKeepsIInv, ReadKeepsIInv, ResetKeepsIInv DEF Interface
<1>2. CASE RunOn
  BY <1>2, PublishReturnsKeepsIInv, StartAfterResetKeepsIInv, PumpReturnsKeepsIInv,
     DispatchKeepsIInv, AcceptKeepsIInv, AskSectionKeepsIInv, PumpDropsKeepsIInv,
     PumpStartsKeepsIInv DEF RunOn
<1>3. ASSUME NEW j \in Reads, Respond(j) PROVE IInv'
  BY <1>3, IgnoreAnswerKeepsIInv, ReceiveDataKeepsIInv, ReceiveMisfitKeepsIInv,
     ReceiveErrorKeepsIInv, QuestionGoneKeepsIInv, SessionLostKeepsIInv DEF Respond
<1>4. ASSUME NEW j \in Reads, Continue(j) PROVE IInv'
  BY <1>4, AnswerKeepsIInv, ResumeKeepsIInv, FinallyKeepsIInv DEF Continue
<1>5. CASE UNCHANGED vars
  BY <1>5, StutterKeepsIInv
<1> QED
  BY <1>1, <1>2, <1>3, <1>4, <1>5 DEF Next

\* The inductive invariant of the reader, for any sections, scopes and concurrency.
THEOREM InvariantHolds == Spec => []IInv
<1> QED
  BY InitEstablishesIInv, NextKeepsIInv, PTL DEF Spec

\* Never more than Concurrency GETs are out (pump 122-147): each has a slot of its own.
THEOREM ReadsBounded == Spec => []ReadsAreBounded
<1>1. IInv => ReadsAreBounded
  <2> SUFFICES ASSUME IInv PROVE ReadsAreBounded
    OBVIOUS
  <2> DEFINE live == {j \in Reads : Live(j)}
  <2>1. \A j \in Reads : Live(j) => AtWork(j) /\ j \in ActiveReads
    <3> SUFFICES ASSUME NEW j \in Reads, Live(j) PROVE AtWork(j) /\ j \in ActiveReads
      OBVIOUS
    <3>1. AtWork(j) /\ job[j].request \in Requests
      BY DEF Live, AtWork, IInv, Typed, Jobs
    <3>2. active[job[j].request] = j
      BY <3>1 DEF IInv, SlotsOwned
    <3> QED
      BY <3>1, <3>2, ReadsAreNumbers DEF ActiveReads
  <2>2. live \subseteq ActiveReads
    BY <2>1
  <2>3. /\ IsFiniteSet(ActiveReads) /\ Cardinality(ActiveReads) \in Nat
        /\ Cardinality(ActiveReads) <= Concurrency
    BY FewReads DEF IInv, SlotsOwned
  <2>4. Cardinality(live) <= Cardinality(ActiveReads) /\ Cardinality(live) \in Nat
    BY <2>2, <2>3, FS_Subset, FS_CardinalityType
  <2>5. Cardinality(live) <= Concurrency
    BY <2>3, <2>4
  <2> QED
    BY <2>5 DEF ReadsAreBounded
<1> QED
  BY <1>1, InvariantHolds, PTL

\* busyKeys, activeStreams, active and the queue agree (read, pump, finally,
\* cancelOutstanding).
THEOREM SlotsStayInStep == Spec => []SlotsAgree
<1>1. IInv => SlotsAgree
  <2> SUFFICES ASSUME IInv PROVE SlotsAgree
    OBVIOUS
  <2>1. \A r \in Requests : active[r] # None =>
          /\ active[r] \in ActiveReads /\ job[active[r]].request = r /\ AtWork(active[r])
    BY DEF IInv, SlotsOwned, ActiveReads
  <2>2. \A j \in ActiveReads :
          /\ job[j].request \in Requests /\ active[job[j].request] = j /\ j # None
          /\ job[j].phase # "done" /\ job[j].phase # "queued" /\ ~Dead(j)
    BY <2>1 DEF ActiveReads, AtWork
  <2>3. \A j \in Queued :
          /\ job[j].phase = "queued" /\ ~Dead(j) /\ active[job[j].request] = None
    BY DEF IInv, SlotsOwned, Queued
  <2>4. busyKeys = {job[j].request : j \in Queued \cup ActiveReads}
    <3>1. {r \in Requests : active[r] # None} = {job[j].request : j \in ActiveReads}
      BY <2>1, <2>2
    <3> QED
      BY <3>1 DEF IInv, SlotsOwned
  <2>5. activeStreams = {job[j].request.stream : j \in ActiveReads}
    <3>1. {q \in Requests : active[q] # None} = {job[j].request : j \in ActiveReads}
      BY <2>1, <2>2
    <3>2. activeStreams = {r.stream : r \in {q \in Requests : active[q] # None}}
      BY DEF IInv, SlotsOwned
    <3> QED
      BY <3>1, <3>2
  <2>6. \A j, k \in Queued \cup ActiveReads : job[j].request = job[k].request => j = k
    <3>1. \A j, k \in Queued : job[j].request = job[k].request => j = k
      BY DEF IInv, SlotsOwned
    <3> QED
      BY <3>1, <2>2, <2>3
  <2> QED
    BY <2>2, <2>3, <2>4, <2>5, <2>6 DEF SlotsAgree
<1> QED
  BY <1>1, InvariantHolds, PTL

\* No slot or stream comes free without the queue being looked through (finally 170-176,
\* pump 147).
THEOREM QueueNotForgotten == Spec => []NoReadForgotten
<1>1. IInv => NoReadForgotten
  <2> SUFFICES ASSUME IInv, stack = <<>>, Startable # {} PROVE Cardinality(ActiveReads) = Concurrency
    BY DEF NoReadForgotten
  <2>1. ~(Cardinality(ActiveReads) < Concurrency)
    BY DEF IInv, PumpIsComing
  <2>2. Cardinality(ActiveReads) <= Concurrency /\ Cardinality(ActiveReads) \in Nat
    BY FewReads DEF IInv, SlotsOwned
  <2> QED
    BY <2>1, <2>2
<1> QED
  BY <1>1, InvariantHolds, PTL

\* Nothing of a former scope or epoch is shown, and no section without its issue
\* (changeScope, refresh, receiveDossierRead).
THEOREM ShownIsPresent == Spec => []NothingStaleShown
<1>1. IInv => NothingStaleShown
  BY DEF IInv
<1> QED
  BY <1>1, InvariantHolds, PTL

\* A stream that is loading has a read that will end it (startDossierRead, finally).
THEOREM LoadingIsAtWork == Spec => []LoadingHasARead
<1>1. IInv => LoadingHasARead
  <2> SUFFICES ASSUME IInv, NEW s \in Streams, sources[s] # None, sources[s].pending # None
               PROVE  LET j == sources[s].pending
                      IN job[j].request.stream = s /\ active[job[j].request] = j /\ ~Dead(j)
    BY DEF LoadingHasARead
  <2>1. sources[s].pending \in Reads
    BY DEF IInv, Typed, Source
  <2>2. AtWork(sources[s].pending) /\ job[sources[s].pending].request.stream = s
    BY DEF IInv, SourcesFollowReads
  <2> QED
    BY <2>1, <2>2 DEF IInv, SlotsOwned, AtWork
<1> QED
  BY <1>1, InvariantHolds, PTL

\* Every other step leaves an answer as it is, or makes it false.
LEMMA OnlyAnswerSaysTrue ==
  ASSUME IInv, Next, NEW j \in Reads, job[j] # None, job[j].answer # "true",
         ~\E ok \in {"true", "false"} : Answer(j, ok)
  PROVE  job'[j].answer # "true"
<1>1. job \in [Reads -> Jobs \cup {None}] /\ job[j] \in Jobs
  BY DEF IInv, Typed
<1>2. ASSUME NEW r, NEW boot, NEW rest, Enqueue(r, boot, rest) PROVE job'[j] = job[j]
  <2>1. j # count + 1
    BY DEF IInv, Typed, Reads
  <2> QED
    BY <2>1, <1>1, <1>2 DEF Enqueue
<1>3. Cancelled[j].answer # "true"
  <2>1. CASE j \in Queued
    <3>1. Cancelled[j] = [job[j] EXCEPT !.phase = "done", !.answer = "false"]
      BY <2>1 DEF Cancelled
    <3> QED
      BY <3>1, <1>1 DEF Jobs
  <2>2. CASE j \notin Queued /\ j \in ActiveReads
    <3>1. Cancelled[j] = [job[j] EXCEPT !.answer = Resolved(@, "false")]
      BY <2>2 DEF Cancelled
    <3> QED
      BY <3>1, <1>1 DEF Jobs, Resolved
  <2>3. CASE j \notin Queued /\ j \notin ActiveReads
    BY <2>3 DEF Cancelled
  <2> QED
    BY <2>1, <2>2, <2>3
<1>4. ASSUME NEW k \in Reads, NEW rec, job' = [job EXCEPT ![k] = rec],
             k = j => rec.answer # "true"
      PROVE  job'[j].answer # "true"
  BY <1>1, <1>4
<1>5. ASSUME Start \/ StartAfterReset PROVE job'[j].answer # "true"
  <2>1. PICK rest : Boot(rest)
    BY <1>5 DEF Start, StartAfterReset
  <2> QED
    BY <2>1, <1>2 DEF Boot, jobs
<1>6. ASSUME NEW r \in Requests, Read(r) PROVE job'[j].answer # "true"
  BY <1>2, <1>6 DEF Read
<1>7. ASSUME AskSection PROVE job'[j].answer # "true"
  BY <1>2, <1>7 DEF AskSection, jobs
<1>8. ASSUME Dispose \/ (\E next \in Scopes : Reset(next)) PROVE job'[j].answer # "true"
  BY <1>3, <1>8 DEF Dispose, Reset
<1>9. ASSUME PublishReturns \/ PumpReturns PROVE job'[j].answer # "true"
  BY <1>9 DEF PublishReturns, PumpReturns, jobs
<1>10. ASSUME NEW k \in Reads, SessionLost(k) PROVE job'[j].answer # "true"
  <2>1. Cancelled \in [Reads -> Jobs \cup {None}]
    BY CancelledFacts
  <2>2. job' = [Cancelled EXCEPT ![k].phase = "rejected"]
    BY <1>10 DEF SessionLost
  <2>3. Cancelled[j] \in Jobs
    BY <2>1, CancelledFacts
  <2>4. job'[j] = IF j = k THEN [Cancelled[j] EXCEPT !.phase = "rejected"] ELSE Cancelled[j]
    BY <2>1, <2>2
  <2>5. [Cancelled[j] EXCEPT !.phase = "rejected"].answer = Cancelled[j].answer
    BY <2>3 DEF Jobs
  <2> QED
    BY <2>4, <2>5, <1>3
\* A read whose phase is all that changes.
<1>11. ASSUME NEW k \in Reads, NEW phase, job' = [job EXCEPT ![k].phase = phase]
       PROVE  job'[j].answer # "true"
  <2>1. job' = [job EXCEPT ![k] = [job[k] EXCEPT !.phase = phase]]
    BY <1>11
  <2>2. [job[j] EXCEPT !.phase = phase].answer = job[j].answer
    BY <1>1 DEF Jobs
  <2> QED
    BY <2>1, <2>2, <1>4
<1>12. ASSUME NEW k \in Reads,
              \/ IgnoreAnswer(k) \/ ReceiveData(k) \/ ReceiveMisfit(k) \/ ReceiveError(k)
              \/ QuestionGone(k) \/ Resume(k) \/ Finally(k) \/ PumpStarts(k)
       PROVE  job'[j].answer # "true"
  <2>1. PICK phase \in Phases : job' = [job EXCEPT ![k].phase = phase]
    BY <1>12 DEF IgnoreAnswer, ReceiveData, ReceiveMisfit, ReceiveError, QuestionGone,
                 Resume, Finally, PumpStarts, Phases
  <2> QED
    BY <2>1, <1>11
<1>13. ASSUME Accept \/ Dispatch PROVE job'[j].answer # "true"
  <2> DEFINE k == Head(stack).of
  <2>1. k \in Reads
    BY <1>13, TopFrameNames DEF Accept, Dispatch, Running
  <2>2. CASE Dispatch /\ ~Dead(k)
    <3>1. job' = [job EXCEPT ![k].phase = "fetching", ![k].scope = scope]
      BY <2>2 DEF Dispatch
    <3>2. job' = [job EXCEPT ![k] = [job[k] EXCEPT !.phase = "fetching", !.scope = scope]]
      BY <3>1
    <3>3. [job[j] EXCEPT !.phase = "fetching", !.scope = scope].answer = job[j].answer
      BY <1>1 DEF Jobs
    <3> HIDE DEF k
    <3> QED
      BY <2>1, <3>2, <3>3, <1>4
  <2>3. CASE ~(Dispatch /\ ~Dead(k))
    <3>1. PICK phase \in Phases : job' = [job EXCEPT ![k].phase = phase]
      BY <2>3, <1>13 DEF Dispatch, Accept, Phases
    <3> HIDE DEF k
    <3> QED
      BY <2>1, <3>1, <1>11
  <2> QED
    BY <2>2, <2>3
<1>14. ASSUME NEW k \in Reads, PumpDrops(k) PROVE job'[j].answer # "true"
  <2>1. job' = [job EXCEPT ![k] = [job[k] EXCEPT !.phase = "done", !.answer = "false"]]
    BY <1>14 DEF PumpDrops
  <2>2. [job[j] EXCEPT !.phase = "done", !.answer = "false"].answer = "false"
    BY <1>1 DEF Jobs
  <2> QED
    BY <2>1, <2>2, <1>4
<1>15. ASSUME NEW k \in Reads, NEW ok \in {"true", "false"}, Answer(k, ok), k # j
       PROVE  job'[j].answer # "true"
  BY <1>1, <1>15 DEF Answer
<1> QED
  BY <1>5, <1>6, <1>7, <1>8, <1>9, <1>10, <1>12, <1>13, <1>14, <1>15
     DEF Next, Interface, RunOn, Respond, Continue

\* A promise says true only of the page the model holds, in the epoch in which it was
\* asked for (pump 149-169): an answered read of a former epoch has been told false.
THEOREM TrueIsShown == Spec => TrueMeansShown
<1>1. ASSUME IInv, Next, NEW j \in Reads,
             job[j] # None, job[j].answer # "true", job'[j].answer = "true"
      PROVE  ~Dead(j) /\ Committed(j) /\ sources[job[j].request.stream].page = job[j].request.page
  <2>1. PICK ok \in {"true", "false"} : Answer(j, ok)
    BY <1>1, OnlyAnswerSaysTrue
  <2>2. job[j] \in Jobs /\ job'[j].answer = Resolved(job[j].answer, ok)
    BY <2>1, <1>1 DEF Answer, IInv, Typed, Jobs
  <2>3. ok = "true" /\ job[j].answer = None
    BY <2>2, <1>1 DEF Resolved
  <2>4. job[j].phase = "accepted" /\ ~Dead(j)
    BY <2>1, <2>3, <1>1 DEF Answer, Idle, IInv, AnswersFollowReads
  <2>5. AtWork(j)
    BY <2>4, <1>1 DEF AtWork
  <2> QED
    BY <2>4, <2>5, <1>1 DEF IInv, SourcesFollowReads
<1>2. IInv /\ [Next]_vars =>
        [\A j \in Reads :
           job[j] # None /\ job[j].answer # "true" /\ job'[j].answer = "true" =>
             ~Dead(j) /\ Committed(j) /\ sources[job[j].request.stream].page = job[j].request.page]_vars
  BY <1>1
<1> QED
  BY <1>2, InvariantHolds, PTL DEF Spec, TrueMeansShown

-----------------------------------------------------------------------------
(* What a step does to one read. *)

\* The steps of read j, from its turn in the queue to its end.
StepOf(j) ==
  \/ PumpDrops(j) \/ PumpStarts(j) \/ Continue(j)
  \/ IgnoreAnswer(j) \/ ReceiveData(j) \/ ReceiveMisfit(j) \/ ReceiveError(j) \/ QuestionGone(j)
  \/ (Dispatch \/ Accept) /\ j = Head(stack).of

\* Every other read is left alone, and what j reads stays what it is.
LEMMA OneReadAtATime ==
  ASSUME IInv, NEW j \in Reads, StepOf(j)
  PROVE  /\ job[j] \in Jobs /\ job'[j] \in Jobs
         /\ job'[j].request = job[j].request /\ job'[j].epoch = job[j].epoch
         /\ job'[j].boot = job[j].boot
         /\ \A k \in Reads : k # j => job'[k] = job[k]
         /\ UNCHANGED <<count, epoch, booted, closed, calls>>
<1>1. job' \in [Reads -> Jobs \cup {None}] /\ job \in [Reads -> Jobs \cup {None}] /\ scope \in Scopes
  <2>1. IInv'
    BY PumpDropsKeepsIInv, PumpStartsKeepsIInv, AnswerKeepsIInv, ResumeKeepsIInv, FinallyKeepsIInv,
       IgnoreAnswerKeepsIInv, ReceiveDataKeepsIInv, ReceiveMisfitKeepsIInv, ReceiveErrorKeepsIInv,
       QuestionGoneKeepsIInv, DispatchKeepsIInv, AcceptKeepsIInv DEF StepOf, Continue
  <2> QED  BY <2>1 DEF IInv, Typed
<1>2. job[j] \in Jobs
  <2>1. CASE (Dispatch \/ Accept) /\ j = Head(stack).of
    BY <2>1, TopFrameNames DEF Dispatch, Accept, Running
  <2>2. CASE ~((Dispatch \/ Accept) /\ j = Head(stack).of)
    <3>1. job[j] # None
      <4>1. CASE PumpDrops(j) \/ PumpStarts(j)
        BY <4>1 DEF PumpDrops, PumpStarts, Chosen, Startable, Queued
      <4>2. CASE \E phase : Idle(j, phase)
        BY <4>2 DEF Idle
      <4>3. Continue(j) \/ IgnoreAnswer(j) \/ ReceiveData(j) \/ ReceiveMisfit(j) \/ ReceiveError(j) \/ QuestionGone(j)
              => \E phase : Idle(j, phase)
        BY Zenon DEF Continue, Answer, Resume, Finally, IgnoreAnswer, ReceiveData, ReceiveMisfit, ReceiveError, QuestionGone
      <4> QED  BY <2>2, <4>1, <4>2, <4>3 DEF StepOf
    <3> QED  BY <1>1, <3>1
  <2> QED  BY <2>1, <2>2
<1>3. UNCHANGED <<count, epoch, booted, closed, calls>>
  BY DEF StepOf, PumpDrops, PumpStarts, Continue, Answer, Resume, Finally, IgnoreAnswer, ReceiveData, ReceiveMisfit,
     ReceiveError, QuestionGone, Dispatch, Accept, model
<1> DEFINE Same == /\ job'[j].request = job[j].request /\ job'[j].epoch = job[j].epoch
                   /\ job'[j].boot = job[j].boot /\ \A k \in Reads : k # j => job'[k] = job[k]
<1>4. ASSUME NEW phase, NEW ans, NEW sc, NEW rec, rec = [job[j] EXCEPT !.phase = phase, !.answer = ans, !.scope = sc],
             job' = [job EXCEPT ![j] = rec]
      PROVE  Same
  <2>1. rec.request = job[j].request /\ rec.epoch = job[j].epoch /\ rec.boot = job[j].boot
    BY <1>2, <1>4 DEF Jobs
  <2>2. job'[j] = rec /\ \A k \in Reads : k # j => job'[k] = job[k]
    BY <1>1, <1>4
  <2> QED  BY <2>1, <2>2
<1>5. ASSUME NEW phase, job' = [job EXCEPT ![j].phase = phase] PROVE Same
  <2>1. [job[j] EXCEPT !.phase = phase] = [job[j] EXCEPT !.phase = phase, !.answer = job[j].answer, !.scope = job[j].scope]
    BY <1>2 DEF Jobs
  <2> QED  BY <1>4, <1>5, <2>1
<1>6. ASSUME NEW phase, NEW ans, job' = [job EXCEPT ![j].phase = phase, ![j].answer = ans] PROVE Same
  <2>1. [job[j] EXCEPT !.phase = phase, !.answer = ans] = [job[j] EXCEPT !.phase = phase, !.answer = ans, !.scope = job[j].scope]
    BY <1>2 DEF Jobs
  <2>2. job' = [job EXCEPT ![j] = [job[j] EXCEPT !.phase = phase, !.answer = ans]]
    BY <1>6
  <2> QED  BY <1>4, <2>1, <2>2
<1>7. ASSUME NEW phase, NEW sc, job' = [job EXCEPT ![j].phase = phase, ![j].scope = sc] PROVE Same
  <2>1. [job[j] EXCEPT !.phase = phase, !.scope = sc] = [job[j] EXCEPT !.phase = phase, !.answer = job[j].answer, !.scope = sc]
    BY <1>2 DEF Jobs
  <2>2. job' = [job EXCEPT ![j] = [job[j] EXCEPT !.phase = phase, !.scope = sc]]
    BY <1>7
  <2> QED  BY <1>4, <2>1, <2>2
<1>8. ASSUME PumpDrops(j) PROVE Same
  BY <1>6, <1>8 DEF PumpDrops
<1>9. ASSUME \E ok \in {"true", "false"} : Answer(j, ok) PROVE Same
  <2>1. PICK ok \in {"true", "false"} : Answer(j, ok)
    BY <1>9
  <2>2. job' = [job EXCEPT ![j] = [job[j] EXCEPT !.answer = Resolved(job[j].answer, ok),
                                                 !.phase = IF job[j].boot THEN "resuming" ELSE "settled"]]
    BY <2>1 DEF Answer
  <2>3. [job[j] EXCEPT !.answer = Resolved(job[j].answer, ok), !.phase = IF job[j].boot THEN "resuming" ELSE "settled"]
          = [job[j] EXCEPT !.phase = IF job[j].boot THEN "resuming" ELSE "settled",
                           !.answer = Resolved(job[j].answer, ok), !.scope = job[j].scope]
    BY <1>2 DEF Jobs
  <2> QED  BY <1>4, <2>2, <2>3
<1>10. ASSUME Dispatch /\ j = Head(stack).of PROVE Same
  BY <1>5, <1>7, <1>10 DEF Dispatch
<1>11. ASSUME Accept /\ j = Head(stack).of PROVE Same
  BY <1>5, <1>11 DEF Accept
<1>12. ASSUME PumpStarts(j) \/ Resume(j) \/ Finally(j) \/ IgnoreAnswer(j) \/ ReceiveData(j) \/ ReceiveMisfit(j)
            \/ ReceiveError(j) \/ QuestionGone(j) PROVE Same
  BY <1>5, <1>12 DEF PumpStarts, Resume, Finally, IgnoreAnswer, ReceiveData, ReceiveMisfit, ReceiveError, QuestionGone
<1>13. Same
  BY <1>8, <1>9, <1>10, <1>11, <1>12 DEF StepOf, Continue
<1>14. job'[j] \in Jobs
  <2>1. job[j] # None /\ j \in Reads  BY <1>2, NoneIsNoValue
  <2>2. job'[j] # None
    <3>1. IInv'
      BY PumpDropsKeepsIInv, PumpStartsKeepsIInv, AnswerKeepsIInv, ResumeKeepsIInv, FinallyKeepsIInv,
         IgnoreAnswerKeepsIInv, ReceiveDataKeepsIInv, ReceiveMisfitKeepsIInv, ReceiveErrorKeepsIInv,
         QuestionGoneKeepsIInv, DispatchKeepsIInv, AcceptKeepsIInv DEF StepOf, Continue
    <3>2. j <= count
      BY <2>1 DEF IInv, Typed
    <3> QED  BY <1>3, <3>1, <3>2 DEF IInv, Typed
  <2> QED  BY <1>1, <2>2
<1> QED  BY <1>2, <1>3, <1>13, <1>14

LEMMA KindsOfStep ==
  ASSUME IInv, Next
  PROVE  \/ \E j \in Reads : StepOf(j) \/ SessionLost(j)
         \/ Dispose \/ \E s \in Scopes : Reset(s)
         \/ Start \/ StartAfterReset \/ AskSection \/ \E r \in Requests : Read(r)
         \/ PublishReturns \/ PumpReturns
<1>1. Dispatch \/ Accept => Head(stack).of \in Reads
  BY TopFrameNames DEF Dispatch, Accept, Running
<1> QED  BY <1>1 DEF Next, Interface, RunOn, Respond, StepOf

\* A read is put behind the others, and they are what they were.
LEMMA EnqueueAdds ==
  ASSUME IInv, NEW r \in Requests, NEW boot \in BOOLEAN, NEW rest, Enqueue(r, boot, rest)
  PROVE  LET new == count + 1 IN
         /\ new \in Reads /\ count' = new /\ job[new] = None
         /\ job'[new] \in Jobs /\ job'[new].request = r /\ job'[new].boot = boot /\ job'[new].epoch = epoch
         /\ job'[new].phase = "queued"
         /\ \A k \in Reads : k # new => job'[k] = job[k]
<1> DEFINE new == count + 1
           rec == [request |-> r, epoch |-> epoch, boot |-> boot, phase |-> "queued",
                   scope |-> scope, answer |-> None]
<1>1. new \in Reads /\ count' = new /\ job' = [job EXCEPT ![new] = rec]
  BY DEF Enqueue
<1>2. count \in Nat /\ job \in [Reads -> Jobs \cup {None}] /\ epoch \in Nat /\ scope \in Scopes
  BY DEF IInv, Typed
<1>3. job[new] = None
  BY <1>1, <1>2 DEF IInv, Typed
<1>4. rec \in Jobs
  BY <1>2 DEF Jobs, Phases
<1> QED  BY <1>1, <1>2, <1>3, <1>4

\* What is in the queue leaves it through its own step, or by being cancelled.
LEMMA TheQueueWaits ==
  ASSUME IInv, Next, NEW j \in Queued, job'[j].phase = "done", epoch' = epoch
  PROVE  PumpDrops(j)
<1>1. j \in Reads /\ job[j] # None /\ job[j].phase = "queued" /\ job \in [Reads -> Jobs \cup {None}]
  BY DEF Queued, IInv, Typed
<1>2. job'[j] # job[j]
  BY <1>1
<1>3. ASSUME NEW k \in Reads, StepOf(k) PROVE PumpDrops(j)
  <2>1. k = j
    BY <1>1, <1>2, <1>3, OneReadAtATime
  <2>2. ~ PumpStarts(j)
    <3> SUFFICES ASSUME PumpStarts(j) PROVE FALSE
      OBVIOUS
    <3>1. job' = [job EXCEPT ![j] = [job[j] EXCEPT !.phase = "loading"]]
      BY DEF PumpStarts
    <3> QED  BY <1>1, <3>1 DEF Jobs
  <2>3. ~ \E phase \in Phases \ {"queued"} : Idle(j, phase)
    BY <1>1 DEF Idle
  <2>4. Continue(j) \/ IgnoreAnswer(j) \/ ReceiveData(j) \/ ReceiveMisfit(j) \/ ReceiveError(j) \/ QuestionGone(j)
          => \E phase \in Phases \ {"queued"} : Idle(j, phase)
    BY DEF Continue, Answer, Resume, Finally, IgnoreAnswer, ReceiveData, ReceiveMisfit, ReceiveError, QuestionGone, Phases
  <2>5. ~ ((Dispatch \/ Accept) /\ j = Head(stack).of)
    BY <1>1, TopFrameNames DEF Dispatch, Accept, Running
  <2> QED  BY <1>3, <2>1, <2>2, <2>3, <2>4, <2>5 DEF StepOf
<1>4. ~ FreeEverything
  BY DEF FreeEverything, IInv, Typed
<1>5. ASSUME NEW r \in Requests, NEW boot \in BOOLEAN, NEW rest, Enqueue(r, boot, rest) PROVE FALSE
  BY <1>1, <1>2, <1>5, EnqueueAdds
<1>6. ~ (Start \/ StartAfterReset)
  <2>1. First(Question) \in Requests
    BY RequestsNameStreams DEF Streams
  <2> QED  BY <1>2, <1>5, <2>1 DEF Start, StartAfterReset, Boot, jobs
<1>7. ~ AskSection
  <2> SUFFICES ASSUME AskSection PROVE FALSE
    OBVIOUS
  <2>1. Head(stack).of \in 1..Len(Initial)
    <3>1. stack # <<>> /\ stack \in Seq(Frames) /\ FrameFits(stack, job, 1) /\ Head(stack) = stack[1]
      BY DEF AskSection, Running, IInv, Typed, WellFormed
    <3> QED  BY <3>1 DEF FrameFits, AskSection, Running
  <2>2. First(Initial[Head(stack).of]) \in Requests
    BY <2>1, SectionsAreStreams
  <2> QED  BY <1>2, <1>5, <2>2 DEF AskSection, jobs
<1>8. \A r \in Requests : ~ Read(r)
  BY <1>5 DEF Read
<1>9. ~ PublishReturns /\ ~ PumpReturns
  BY <1>2 DEF PublishReturns, PumpReturns, jobs
<1> QED
  BY <1>3, <1>4, <1>6, <1>7, <1>8, <1>9, KindsOfStep DEF SessionLost, Dispose, Reset

\* A page that waits behind an earlier one of its stream is refused only after that one
\* is over (pump 123, startDossierRead 130-132).
THEOREM RefusedAfterItsStream == Spec => RefusedInItsTurn
<1>1. ASSUME IInv, Next, NEW j \in Queued, job'[j].phase = "done", epoch' = epoch, NEW k \in ActiveReads
      PROVE  job[k].request.stream # job[j].request.stream
  <2>1. PumpDrops(j)
    BY <1>1, TheQueueWaits
  <2>2. job[j].request.stream \notin activeStreams
    BY <2>1 DEF PumpDrops, Chosen, Startable
  <2>3. k \in Reads /\ \E r \in Requests : active[r] = k /\ job[k].request = r
    BY <1>1, NoneIsNoValue DEF ActiveReads, IInv, SlotsOwned, Typed
  <2>4. job[k].request.stream \in activeStreams
    BY <1>1, <2>3 DEF IInv, SlotsOwned, ActiveReads
  <2> QED  BY <2>2, <2>4
<1>2. IInv /\ [Next]_vars =>
        [\A j \in Queued : job'[j].phase = "done" /\ epoch' = epoch =>
           \A k \in ActiveReads : job[k].request.stream # job[j].request.stream]_vars
  BY <1>1
<1> QED
  BY <1>2, InvariantHolds, PTL DEF Spec, RefusedInItsTurn

-----------------------------------------------------------------------------
(* The initial sections of an issue are read.                              *)

\* A read of start() that is at work or waits for its turn.
Booting(j) == job[j] # None /\ ~Dead(j) /\ job[j].boot /\ job[j].phase \notin {"settled", "done"}

\* The loop of start() is going to come to section n.
LoopsTo(st, n) == \E i \in 1..Len(st) : st[i].do = "sections" /\ st[i].of <= n

\* The issue is read, and start() will hear of it.
IssueRead(j) ==
  /\ Booting(j) /\ job[j].request.stream = Question /\ sources[Question].reader = j
  /\ \/ job[j].phase \in {"received", "accepted"}
     \/ job[j].phase = "resuming" /\ job[j].answer = "true"

\* Section n of the issue that is shown is read, or is in the queue, or start() is
\* going to ask for it.
Follows(n) ==
  \/ sources[Initial[n]] # None
  \/ \E j \in Queued : job[j].request = First(Initial[n])
  \/ LoopsTo(stack, n)
  \/ \E j \in Reads : IssueRead(j)

LEMMA SectionsAreSections ==
  /\ DOMAIN Initial = 1..Len(Initial)
  /\ \A n \in 1..Len(Initial) : Initial[n] \in Sections /\ Initial[n] \in Streams /\ Initial[n] # Question
                                /\ First(Initial[n]).stream = Initial[n]
BY ReaderParameters DEF First, Streams

\* The loop goes on when something else has run on top of it.
LEMMA LoopsUnderneath ==
  ASSUME NEW st \in Seq(Frames), NEW f \in Frames, NEW n, LoopsTo(st, n)
  PROVE  LoopsTo(<<f>> \o st, n)
<1>1. PICK i \in 1..Len(st) : st[i].do = "sections" /\ st[i].of <= n
  BY DEF LoopsTo
<1>2. i + 1 \in 1..Len(<<f>> \o st) /\ (<<f>> \o st)[i + 1] = st[i]
  OBVIOUS
<1> QED  BY <1>1, <1>2 DEF LoopsTo

LEMMA LoopsAfter ==
  ASSUME NEW st \in Seq(Frames), st # <<>>, NEW n, LoopsTo(st, n), Head(st).do # "sections" \/ ~ (Head(st).of <= n)
  PROVE  LoopsTo(Tail(st), n)
<1>1. PICK i \in 1..Len(st) : st[i].do = "sections" /\ st[i].of <= n
  BY DEF LoopsTo
<1>2. i # 1
  BY <1>1
<1>3. i - 1 \in 1..Len(Tail(st)) /\ Tail(st)[i - 1] = st[i]
  BY <1>2
<1> QED  BY <1>1, <1>3 DEF LoopsTo

\* An issue that is shown stays shown, and what follows it stays coming, when a step
\* drops no section, no read from the queue and no loop.
LEMMA FollowsStill ==
  ASSUME QuestionReady => \A n \in 1..Len(Initial) : Follows(n),
         QuestionReady' => QuestionReady /\ sources'[Question] = sources[Question],
         QuestionReady' => \A s \in Sections : sources[s] # None => sources'[s] # None,
         QuestionReady' => \A j \in Queued : job[j].request.page = 0 =>
                             \/ j \in Queued' /\ job'[j].request = job[j].request
                             \/ sources'[job[j].request.stream] # None,
         QuestionReady' => \A n \in 1..Len(Initial) : LoopsTo(stack, n) => LoopsTo(stack', n),
         QuestionReady' => \A j \in Reads : IssueRead(j) =>
                             IssueRead(j)' \/ \A n \in 1..Len(Initial) : LoopsTo(stack', n)
  PROVE  QuestionReady' => \A n \in 1..Len(Initial) : Follows(n)'
<1> SUFFICES ASSUME QuestionReady', NEW n \in 1..Len(Initial) PROVE Follows(n)'
  OBVIOUS
<1>1. Follows(n) /\ Initial[n] \in Sections /\ First(Initial[n]).stream = Initial[n] /\ First(Initial[n]).page = 0
  BY SectionsAreSections DEF First
<1>2. CASE sources[Initial[n]] # None
  BY <1>1, <1>2 DEF Follows
<1>3. ASSUME NEW j \in Queued, job[j].request = First(Initial[n]) PROVE Follows(n)'
  <2>1. CASE j \in Queued' /\ job'[j].request = job[j].request
    BY <1>3, <2>1 DEF Follows, First
  <2>2. CASE sources'[job[j].request.stream] # None
    BY <1>1, <1>3, <2>2 DEF Follows
  <2> QED  BY <1>1, <1>3, <2>1, <2>2
<1>4. CASE LoopsTo(stack, n)
  BY <1>4 DEF Follows
<1>5. CASE \E j \in Reads : IssueRead(j)
  BY <1>5 DEF Follows
<1> QED  BY <1>1, <1>2, <1>3, <1>4, <1>5 DEF Follows

\* No step of one read takes another stream from the page, but for the issue that is gone.
LEMMA ShownStays ==
  ASSUME IInv, NEW j \in Reads, StepOf(j), ~ QuestionGone(j)
  PROVE  /\ \A s \in Streams : sources[s] # None => sources'[s] # None
         /\ \A s \in Streams : s # job[j].request.stream => sources'[s] = sources[s]
         /\ PumpStarts(j) => sources'[job[j].request.stream] # None
<1>1. sources \in [Streams -> Source \cup {None}] /\ job[j].request.stream \in Streams
  BY OneReadAtATime, RequestsNameStreams DEF Jobs, IInv, Typed
<1>2. CASE sources' = sources /\ ~ PumpStarts(j)
  BY <1>2
<1>3. ASSUME NEW src, src # None, sources' = [sources EXCEPT ![job[j].request.stream] = src]
      PROVE  /\ \A s \in Streams : sources[s] # None => sources'[s] # None
             /\ \A s \in Streams : s # job[j].request.stream => sources'[s] = sources[s]
             /\ sources'[job[j].request.stream] # None
  BY <1>1, <1>3
<1>4. CASE PumpStarts(j)
  <2> DEFINE had == sources[job[j].request.stream]
             src == [pending |-> j, failed |-> FALSE,
                     page |-> IF had = None THEN None ELSE had.page,
                     reader |-> IF had = None THEN None ELSE had.reader]
  <2>1. src \in Source
    BY <1>1 DEF Source
  <2>2. sources' = [sources EXCEPT ![job[j].request.stream] = src]
    BY <1>4 DEF PumpStarts, Loading
  <2> HIDE DEF src
  <2> QED  BY <1>3, <2>1, <2>2, NoneIsNoValue
<1>5. CASE ReceiveData(j)
  <2> DEFINE src == [pending |-> None, page |-> job[j].request.page, reader |-> j, failed |-> FALSE]
  <2>1. src \in Source
    <3>1. job[j].request.page \in 0..LastPage
      BY OneReadAtATime, RequestsNameStreams DEF Jobs
    <3> QED  BY <3>1 DEF Source
  <2>2. sources' = sources \/ sources' = [sources EXCEPT ![job[j].request.stream] = src]
    BY <1>5 DEF ReceiveData, Received
  <2>3. ~ PumpStarts(j)
    BY <1>5 DEF ReceiveData, PumpStarts, Idle, Chosen, Startable, Queued
  <2> HIDE DEF src
  <2> QED  BY <1>3, <2>1, <2>2, <2>3, NoneIsNoValue
<1>6. CASE ReceiveMisfit(j) \/ ReceiveError(j)
  <2>1. ~ PumpStarts(j) /\ sources' = Failed(j)
    BY <1>6 DEF ReceiveMisfit, ReceiveError, PumpStarts, Idle, Chosen, Startable, Queued
  <2>2. CASE Accepts(j)
    <3>1. sources[job[j].request.stream] \in Source
      BY <1>1, <2>2 DEF Accepts
    <3> QED  BY <1>1, <2>1, <2>2, <3>1, FailedFacts
  <2>3. CASE ~ Accepts(j)
    BY <2>1, <2>3 DEF Failed
  <2> QED  BY <2>2, <2>3
<1>7. CASE PumpDrops(j) \/ Continue(j) \/ IgnoreAnswer(j) \/ ((Dispatch \/ Accept) /\ j = Head(stack).of)
  <2>1. sources' = sources
    BY <1>7 DEF PumpDrops, Continue, Answer, Resume, Finally, IgnoreAnswer, Dispatch, Accept, model
  <2> QED  BY <1>4, <2>1
<1> QED  BY <1>4, <1>5, <1>6, <1>7 DEF StepOf

\* Only start() reads the issue, and it reads nothing else itself.
BootsReadTheIssue == \A j \in Reads : job[j] # None => (job[j].boot <=> job[j].request.stream = Question)

\* What is at work is seen on the page.
WorkIsSeen == \A j \in Reads : AtWork(j) => sources[job[j].request.stream] # None

IssueThenSections == QuestionReady => \A n \in 1..Len(Initial) : Follows(n)

SectionsComing == BootsReadTheIssue /\ WorkIsSeen /\ IssueThenSections

\* A read that is cancelled is the read that it was.
LEMMA CancelledBoots ==
  ASSUME IInv, NEW k \in Reads, job[k] # None
  PROVE  Cancelled[k].boot = job[k].boot
<1>1. job[k] \in Jobs
  BY DEF IInv, Typed
<1>2. CASE k \in Queued
  <2>1. Cancelled[k] = [job[k] EXCEPT !.phase = "done", !.answer = "false"]
    BY <1>2 DEF Cancelled
  <2> QED  BY <1>1, <2>1 DEF Jobs
<1>3. CASE k \notin Queued /\ k \in ActiveReads
  <2>1. Cancelled[k] = [job[k] EXCEPT !.answer = Resolved(@, "false")]
    BY <1>3 DEF Cancelled
  <2> QED  BY <1>1, <2>1 DEF Jobs
<1>4. CASE k \notin Queued /\ k \notin ActiveReads
  BY <1>4 DEF Cancelled
<1> QED  BY <1>2, <1>3, <1>4

\* Everything is cancelled: what was asked for keeps its name, nothing is at work and
\* the issue is not shown.
LEMMA CancelKeepsSections ==
  ASSUME IInv, SectionsComing, (\E j \in Reads : SessionLost(j)) \/ Dispose \/ \E s \in Scopes : Reset(s)
  PROVE  SectionsComing'
<1>1. /\ job \in [Reads -> Jobs \cup {None}] /\ epoch \in Nat
      /\ Cancelled \in [Reads -> Jobs \cup {None}]
      /\ \A k \in Reads : Cancelled[k] = None <=> job[k] = None
      /\ \A k \in Reads : job[k] # None => /\ Cancelled[k].epoch = job[k].epoch
                                           /\ Cancelled[k].request = job[k].request
                                           /\ Cancelled[k].boot = job[k].boot
  BY CancelledFacts, CancelledBoots DEF IInv, Typed
<1>2. epoch' = epoch + 1
  BY DEF SessionLost, Dispose, Reset, FreeEverything
<1>3. ASSUME NEW k \in Reads
      PROVE  /\ job'[k] = None <=> job[k] = None
             /\ job[k] # None => /\ job'[k].epoch = job[k].epoch
                                 /\ job'[k].request = job[k].request
                                 /\ job'[k].boot = job[k].boot
  <2>1. CASE job' = Cancelled
    BY <1>1, <2>1
  <2>2. ASSUME NEW j \in Reads, SessionLost(j), job' = [Cancelled EXCEPT ![j].phase = "rejected"]
        PROVE  /\ job'[k] = None <=> job[k] = None
               /\ job[k] # None => /\ job'[k].epoch = job[k].epoch
                                   /\ job'[k].request = job[k].request
                                   /\ job'[k].boot = job[k].boot
    <3> DEFINE rec == [Cancelled[j] EXCEPT !.phase = "rejected"]
    <3>1. job[j] # None /\ Cancelled[j] \in Jobs
      BY <1>1, <2>2 DEF SessionLost, Idle
    <3>2. rec \in Jobs /\ rec.epoch = Cancelled[j].epoch /\ rec.request = Cancelled[j].request /\ rec.boot = Cancelled[j].boot
      BY <3>1 DEF Jobs, Phases
    <3>3. job' = [Cancelled EXCEPT ![j] = rec]
      BY <2>2
    <3> HIDE DEF rec
    <3> QED  BY <1>1, <3>1, <3>2, <3>3, NoneIsNoValue
  <2> QED  BY <2>1, <2>2 DEF SessionLost, Dispose, Reset
<1>4. BootsReadTheIssue'
  BY <1>3 DEF SectionsComing, BootsReadTheIssue
<1>5. WorkIsSeen'
  <2>1. \A k \in Reads : job'[k] # None => job'[k].epoch # epoch'
    BY <1>1, <1>2, <1>3 DEF IInv, SentForScope, Jobs
  <2> QED  BY <2>1 DEF WorkIsSeen, AtWork, Dead
<1>6. ~ QuestionReady'
  <2>1. CASE Dispose \/ \E s \in Scopes : Reset(s)
    BY <2>1 DEF Dispose, Reset, Emptied, NothingRead, QuestionReady, Streams
  <2>2. ASSUME NEW j \in Reads, SessionLost(j) PROVE ~ QuestionReady'
    <3>1. Accepts(j) /\ sources' = OnlyAnError(j)
      BY <2>2 DEF SessionLost, Idle, IInv, SourcesFollowReads, AtWork
    <3> QED  BY <3>1 DEF OnlyAnError, NothingRead, QuestionReady, Streams
  <2> QED  BY <2>1, <2>2
<1> QED  BY <1>4, <1>5, <1>6 DEF SectionsComing, IssueThenSections

\* A read of a section, or of the issue by start(), is queued: nothing else changes.
LEMMA EnqueueKeepsSections ==
  ASSUME IInv, SectionsComing, NEW r \in Requests, NEW boot \in BOOLEAN, NEW rest,
         boot <=> r.stream = Question, Enqueue(r, boot, rest), UNCHANGED <<model, epoch, closed>>,
         rest \in Seq(Frames), \A n \in 1..Len(Initial) : LoopsTo(stack, n) => LoopsTo(rest, n) \/ r = First(Initial[n])
  PROVE  SectionsComing'
<1> DEFINE new == count + 1
<1>1. /\ new \in Reads /\ job[new] = None
      /\ job'[new] \in Jobs /\ job'[new].request = r /\ job'[new].boot = boot
      /\ job'[new].phase = "queued" /\ job'[new] # None
      /\ \A k \in Reads : k # new => job'[k] = job[k]
  BY EnqueueAdds, NoneIsNoValue
<1>2. \A k \in Reads : k # new => (Dead(k)' <=> Dead(k)) /\ (AtWork(k)' <=> AtWork(k)) /\ (IssueRead(k)' <=> IssueRead(k))
  BY <1>1 DEF Dead, AtWork, IssueRead, Booting, model
<1>3. BootsReadTheIssue'
  BY <1>1 DEF SectionsComing, BootsReadTheIssue
<1>4. WorkIsSeen'
  BY <1>1, <1>2 DEF SectionsComing, WorkIsSeen, AtWork, model
<1>5. Queued' = Queued \cup {new}
  BY <1>1 DEF Queued
<1>6. \A n \in 1..Len(Initial) : LoopsTo(rest, n) => LoopsTo(stack', n)
  <2>1. Frame("pump", 0) \in Frames /\ stack' = <<Frame("pump", 0)>> \o rest
    BY DEF Enqueue, Frame, Frames
  <2> QED  BY <2>1, LoopsUnderneath
<1>7. ASSUME QuestionReady', NEW n \in 1..Len(Initial) PROVE Follows(n)'
  <2>1. Follows(n)
    BY <1>7 DEF SectionsComing, IssueThenSections, QuestionReady, model
  <2>2. CASE sources[Initial[n]] # None
    BY <2>2 DEF Follows, model
  <2>3. ASSUME NEW j \in Queued, job[j].request = First(Initial[n]) PROVE Follows(n)'
    <3>1. j \in Queued' /\ job'[j] = job[j]
      BY <1>1, <1>5, <2>3 DEF Queued
    <3> QED  BY <2>3, <3>1 DEF Follows, First
  <2>4. CASE LoopsTo(stack, n)
    <3>1. CASE LoopsTo(rest, n)
      BY <1>6, <3>1 DEF Follows
    <3>2. CASE r = First(Initial[n])
      BY <1>1, <1>5, <3>2 DEF Follows, First
    <3> QED  BY <2>4, <3>1, <3>2
  <2>5. CASE \E j \in Reads : IssueRead(j)
    <3>1. PICK j \in Reads : IssueRead(j)
      BY <2>5
    <3>2. j # new
      BY <1>1, <3>1 DEF IssueRead, Booting
    <3> QED  BY <1>2, <3>1, <3>2 DEF Follows
  <2> QED  BY <2>1, <2>2, <2>3, <2>4, <2>5 DEF Follows
<1> QED  BY <1>3, <1>4, <1>7 DEF SectionsComing, IssueThenSections

\* Nothing is queued: the loop that asked comes to its next section.
LEMMA AskedInVain ==
  ASSUME IInv, SectionsComing, UNCHANGED <<jobs, model, epoch, closed>>,
         QuestionReady => \A n \in 1..Len(Initial) : LoopsTo(stack, n) => Follows(n)'
  PROVE  SectionsComing'
<1>1. \A k \in Reads : /\ (Dead(k)' <=> Dead(k)) /\ (AtWork(k)' <=> AtWork(k)) /\ (IssueRead(k)' <=> IssueRead(k))
                       /\ job'[k] = job[k]
  BY DEF Dead, AtWork, IssueRead, Booting, model, jobs
<1>2. BootsReadTheIssue' /\ WorkIsSeen'
  BY <1>1 DEF SectionsComing, BootsReadTheIssue, WorkIsSeen, model
<1>3. Queued' = Queued
  BY DEF Queued, jobs
<1>4. ASSUME QuestionReady', NEW n \in 1..Len(Initial) PROVE Follows(n)'
  <2>1. QuestionReady
    BY <1>4 DEF QuestionReady, model
  <2>2. Follows(n)
    BY <2>1 DEF SectionsComing, IssueThenSections
  <2>3. CASE sources[Initial[n]] # None
    BY <2>3 DEF Follows, model
  <2>4. CASE \E j \in Queued : job[j].request = First(Initial[n])
    BY <1>3, <2>4 DEF Follows, First, jobs
  <2>5. CASE LoopsTo(stack, n)
    BY <2>1, <2>5
  <2>6. CASE \E j \in Reads : IssueRead(j)
    BY <1>1, <2>6 DEF Follows
  <2> QED  BY <2>2, <2>3, <2>4, <2>5, <2>6 DEF Follows
<1> QED  BY <1>2, <1>4 DEF SectionsComing, IssueThenSections

LEMMA AskKeepsSections ==
  ASSUME IInv, SectionsComing, AskSection
  PROVE  SectionsComing'
<1> DEFINE m == Head(stack).of
           r == First(Initial[m])
           rest == IF m = Len(Initial) THEN Tail(stack) ELSE <<Frame("sections", m + 1)>> \o Tail(stack)
<1>1. stack \in Seq(Frames) /\ stack # <<>> /\ Head(stack).do = "sections" /\ m \in 1..Len(Initial)
  <2>1. stack # <<>> /\ stack \in Seq(Frames) /\ FrameFits(stack, job, 1) /\ Head(stack) = stack[1]
    BY DEF AskSection, Running, IInv, Typed, WellFormed
  <2> QED  BY <2>1 DEF FrameFits, AskSection, Running
<1>2. r \in Requests /\ Initial[m] \in Sections /\ r.stream = Initial[m] /\ r.stream # Question
  BY <1>1, SectionsAreStreams, SectionsAreSections
<1>3. Len(Initial) \in Nat /\ Tail(stack) \in Seq(Frames)
  BY <1>1, ReaderParameters
<1>4. rest \in Seq(Frames) /\ \A n \in 1..Len(Initial) : LoopsTo(stack, n) => n = m \/ LoopsTo(rest, n)
  <2>1. \A n \in 1..Len(Initial) : LoopsTo(stack, n) /\ ~ (m <= n) => LoopsTo(Tail(stack), n)
    BY <1>1, LoopsAfter
  <2>2. CASE m = Len(Initial)
    BY <1>1, <1>3, <2>1, <2>2
  <2>3. CASE m # Len(Initial)
    <3>1. Frame("sections", m + 1) \in Frames /\ rest = <<Frame("sections", m + 1)>> \o Tail(stack)
      BY <1>1, <2>3 DEF Frame, Frames
    <3>2. rest \in Seq(Frames) /\ 1 \in 1..Len(rest) /\ rest[1] = Frame("sections", m + 1)
      BY <1>3, <3>1
    <3>3. \A n \in 1..Len(Initial) : m + 1 <= n => LoopsTo(rest, n)
      BY <3>2 DEF LoopsTo, Frame
    <3>4. \A n \in 1..Len(Initial) : LoopsTo(Tail(stack), n) => LoopsTo(rest, n)
      BY <1>3, <3>1, LoopsUnderneath
    <3>5. \A n \in 1..Len(Initial) : n = m \/ m + 1 <= n \/ ~ (m <= n)
      BY <1>1
    <3> QED  BY <2>1, <3>2, <3>3, <3>4, <3>5
  <2> QED  BY <2>2, <2>3
<1>5. UNCHANGED <<model, epoch, closed>>
  BY DEF AskSection
<1>6. CASE Enqueue(r, FALSE, rest)
  <2> HIDE DEF r, rest, m
  <2>1. \A n \in 1..Len(Initial) : LoopsTo(stack, n) => LoopsTo(rest, n) \/ r = First(Initial[n])
    BY <1>4 DEF r
  <2> QED  BY <1>2, <1>4, <1>5, <1>6, <2>1, EnqueueKeepsSections
<1>7. CASE ~ Takes(r) /\ stack' = rest /\ UNCHANGED <<jobs, busyKeys>>
  <2>1. ASSUME QuestionReady, NEW n \in 1..Len(Initial), LoopsTo(stack, n) PROVE Follows(n)'
    <3>1. CASE n # m
      <4> HIDE DEF m, rest
      <4> QED  BY <1>4, <1>7, <2>1, <3>1 DEF Follows
    <3>2. CASE n = m
      <4>1. ~ closed /\ r \in busyKeys
        <5>1. ~ closed
          BY <2>1 DEF IInv, QuestionFirst, QuestionReady, NothingRead, Streams
        <5> QED  BY <1>7, <2>1, <5>1 DEF Takes
      <4>2. CASE \E j \in Queued : job[j].request = r
        BY <1>5, <1>7, <3>2, <4>2 DEF Follows, Queued, jobs, First
      <4>3. CASE active[r] # None
        <5>1. active[r] \in Reads /\ AtWork(active[r]) /\ job[active[r]].request = r
          BY <1>2, <4>3 DEF IInv, SlotsOwned, Typed
        <5>2. sources[Initial[n]] # None
          BY <1>2, <3>2, <5>1 DEF SectionsComing, WorkIsSeen
        <5> QED  BY <1>5, <5>2 DEF Follows, model
      <4> QED  BY <4>1, <4>2, <4>3 DEF IInv, SlotsOwned
    <3> QED  BY <3>1, <3>2
  <2> QED  BY <1>5, <1>7, <2>1, AskedInVain
<1> QED  BY <1>6, <1>7 DEF AskSection

LEMMA StartKeepsSections ==
  ASSUME IInv, SectionsComing, Start \/ StartAfterReset
  PROVE  SectionsComing'
<1>1. PICK rest \in Seq(Frames) : Boot(rest) /\ \A n \in 1..Len(Initial) : LoopsTo(stack, n) => LoopsTo(rest, n)
  <2>1. stack \in Seq(Frames)
    BY DEF IInv, Typed
  <2>2. CASE Start
    BY <2>1, <2>2 DEF Start
  <2>3. CASE StartAfterReset
    <3>1. stack # <<>> /\ Head(stack).do # "sections" /\ Tail(stack) \in Seq(Frames)
      BY <2>1, <2>3 DEF StartAfterReset, Running
    <3> QED  BY <2>1, <2>3, <3>1, LoopsAfter DEF StartAfterReset
  <2> QED  BY <2>2, <2>3
<1>2. UNCHANGED <<model, epoch, closed>> /\ First(Question) \in Requests /\ First(Question).stream = Question
  BY <1>1, RequestsNameStreams DEF Boot, Streams
<1>3. CASE Enqueue(First(Question), TRUE, rest)
  BY <1>1, <1>2, <1>3, EnqueueKeepsSections
<1>4. CASE stack' = rest /\ UNCHANGED <<jobs, busyKeys>>
  BY <1>1, <1>2, <1>4, AskedInVain DEF Follows
<1> QED  BY <1>1, <1>3, <1>4 DEF Boot

LEMMA ReadKeepsSections ==
  ASSUME IInv, SectionsComing, NEW r \in Requests, Read(r)
  PROVE  SectionsComing'
<1>1. Enqueue(r, FALSE, stack) /\ r.stream # Question /\ stack \in Seq(Frames) /\ UNCHANGED <<model, epoch, closed>>
  BY DEF Read, IInv, Typed
<1> QED  BY <1>1, EnqueueKeepsSections

\* A subscriber or a pump() returns.
LEMMA ReturnKeepsSections ==
  ASSUME IInv, SectionsComing, PublishReturns \/ PumpReturns
  PROVE  SectionsComing'
<1>1. /\ stack \in Seq(Frames) /\ stack # <<>> /\ Head(stack).do # "sections" /\ stack' = Tail(stack)
      /\ UNCHANGED <<jobs, model, epoch, closed>>
  BY DEF PublishReturns, PumpReturns, Notifying, Running, IInv, Typed
<1>2. \A n \in 1..Len(Initial) : LoopsTo(stack, n) => LoopsTo(stack', n)
  BY <1>1, LoopsAfter
<1> QED  BY <1>1, <1>2, AskedInVain DEF Follows

LEMMA StepKeepsWork ==
  ASSUME IInv, SectionsComing, NEW j \in Reads, StepOf(j)
  PROVE  BootsReadTheIssue' /\ WorkIsSeen'
<1>1. /\ job[j] \in Jobs /\ job'[j] \in Jobs
      /\ job'[j].request = job[j].request /\ job'[j].epoch = job[j].epoch /\ job'[j].boot = job[j].boot
      /\ \A k \in Reads : k # j => job'[k] = job[k]
      /\ epoch' = epoch /\ closed' = closed
  BY OneReadAtATime
<1>2. BootsReadTheIssue'
  BY <1>1, NoneIsNoValue DEF SectionsComing, BootsReadTheIssue
<1>3. ASSUME NEW k \in Reads, AtWork(k)' PROVE sources'[job'[k].request.stream] # None
  <2>1. job'[k].request = job[k].request /\ job[k] \in Jobs /\ (Dead(k)' <=> Dead(k))
    BY <1>1, <1>3 DEF AtWork, Dead, IInv, Typed
  <2>2. job[k].request.stream \in Streams
    BY <2>1, RequestsNameStreams DEF Jobs
  <2>3. CASE QuestionGone(j)
    <3>1. /\ job[j].phase = "fetching" /\ ~ Dead(j) /\ job[j].request.stream = Question /\ Accepts(j)
          /\ sources' = OnlyAnError(j)
      BY <1>1, <2>3, NoneIsNoValue DEF QuestionGone, Idle, IInv, SourcesFollowReads, AtWork
    <3>2. k = j
      BY <1>1, <1>3, <2>1, <3>1, NoneIsNoValue DEF IInv, QuestionFirst, Waiting, AtWork
    <3>3. sources'[Question] # None
      <4> DEFINE src == [pending |-> None, page |-> None, reader |-> None, failed |-> TRUE]
      <4>1. src \in Source
        BY DEF Source
      <4>2. sources' = [NothingRead EXCEPT ![Question] = src]
        BY <3>1 DEF OnlyAnError
      <4> HIDE DEF src
      <4> QED  BY <4>1, <4>2, NoneIsNoValue DEF NothingRead, Streams
    <3> QED  BY <2>1, <3>1, <3>2, <3>3
  <2>4. CASE ~ QuestionGone(j)
    <3>1. CASE AtWork(k)
      BY <2>1, <2>2, <2>4, <3>1, ShownStays DEF SectionsComing, WorkIsSeen
    <3>2. CASE ~ AtWork(k)
      <4>1. k = j /\ job[j].phase \in {"queued", "done"} /\ ~ Dead(j) /\ job'[j].phase \notin {"queued", "done"}
        BY <1>1, <1>3, <2>1, <3>2, NoneIsNoValue DEF AtWork
      <4>2. ~ PumpDrops(j)
        <5> SUFFICES ASSUME PumpDrops(j) PROVE FALSE
          OBVIOUS
        <5>1. job' = [job EXCEPT ![j] = [job[j] EXCEPT !.phase = "done", !.answer = "false"]]
          BY DEF PumpDrops
        <5>2. job \in [Reads -> Jobs \cup {None}]
          BY DEF IInv, Typed
        <5> QED  BY <1>1, <4>1, <5>1, <5>2 DEF Jobs
      <4>3. ~ \E phase \in Phases \ {"queued", "done"} : Idle(j, phase)
        BY <4>1 DEF Idle
      <4>4. Continue(j) \/ IgnoreAnswer(j) \/ ReceiveData(j) \/ ReceiveMisfit(j) \/ ReceiveError(j) \/ QuestionGone(j)
              => \E phase \in Phases \ {"queued", "done"} : Idle(j, phase)
        BY DEF Continue, Answer, Resume, Finally, IgnoreAnswer, ReceiveData, ReceiveMisfit, ReceiveError, QuestionGone, Phases
      <4>5. ~ ((Dispatch \/ Accept) /\ j = Head(stack).of)
        BY <4>1, TopFrameNames DEF Dispatch, Accept, Running
      <4>6. PumpStarts(j)
        BY <4>2, <4>3, <4>4, <4>5 DEF StepOf
      <4> QED  BY <2>1, <2>4, <4>1, <4>6, ShownStays
    <3> QED  BY <3>1, <3>2
  <2> QED  BY <2>3, <2>4
<1> QED  BY <1>2, <1>3 DEF WorkIsSeen

\* An issue that is not read again stays as it is shown.
LEMMA StepKeepsIssue ==
  ASSUME IInv, SectionsComing, NEW j \in Reads, StepOf(j), ~ QuestionGone(j),
         job[j].request.stream # Question \/ sources' = sources,
         QuestionReady' => \A k \in Queued : k = j /\ job[k].request.page = 0 =>
                             \/ j \in Queued'
                             \/ sources'[job[k].request.stream] # None,
         QuestionReady' => \A n \in 1..Len(Initial) : LoopsTo(stack, n) => LoopsTo(stack', n),
         QuestionReady' /\ IssueRead(j) => IssueRead(j)' \/ \A n \in 1..Len(Initial) : LoopsTo(stack', n)
  PROVE  IssueThenSections'
<1>1. /\ job[j] \in Jobs /\ job'[j] \in Jobs
      /\ job'[j].request = job[j].request /\ job'[j].epoch = job[j].epoch /\ job'[j].boot = job[j].boot
      /\ \A k \in Reads : k # j => job'[k] = job[k]
      /\ epoch' = epoch /\ closed' = closed
  BY OneReadAtATime
<1>2. /\ \A s \in Streams : sources[s] # None => sources'[s] # None
      /\ sources'[Question] = sources[Question]
  BY ShownStays DEF Streams
<1>3. QuestionReady' => QuestionReady
  BY <1>2 DEF QuestionReady
<1>4. ASSUME QuestionReady', NEW k \in Queued, job[k].request.page = 0
      PROVE  \/ k \in Queued' /\ job'[k].request = job[k].request
             \/ sources'[job[k].request.stream] # None
  BY <1>1, <1>4 DEF Queued
<1>5. ASSUME QuestionReady', NEW k \in Reads, IssueRead(k)
      PROVE  IssueRead(k)' \/ \A n \in 1..Len(Initial) : LoopsTo(stack', n)
  <2>1. CASE k = j
    BY <1>5, <2>1
  <2>2. CASE k # j
    <3>1. job'[k] = job[k] /\ (Dead(k)' <=> Dead(k))
      BY <1>1, <2>2 DEF Dead
    <3> QED  BY <1>2, <1>5, <3>1 DEF IssueRead, Booting
  <2> QED  BY <2>1, <2>2
<1>6. \A s \in Sections : sources[s] # None => sources'[s] # None
  BY <1>2 DEF Streams
<1> QED  BY <1>2, <1>3, <1>4, <1>5, <1>6, FollowsStill DEF SectionsComing, IssueThenSections

LEMMA PumpKeepsSections ==
  ASSUME IInv, SectionsComing, NEW j \in Reads, PumpDrops(j) \/ PumpStarts(j)
  PROVE  IssueThenSections'
<1>1. /\ StepOf(j) /\ ~ QuestionGone(j) /\ job[j] # None /\ job[j].phase = "queued" /\ ~ IssueRead(j)
      /\ job[j].request \in Requests /\ j # None /\ sources \in [Streams -> Source \cup {None}]
  <2>1. job[j] # None /\ job[j].phase = "queued"
    BY DEF PumpDrops, PumpStarts, Chosen, Startable, Queued
  <2>2. StepOf(j) /\ ~ QuestionGone(j) /\ ~ IssueRead(j)
    BY <2>1 DEF StepOf, QuestionGone, Idle, IssueRead
  <2>3. job[j].request \in Requests /\ sources \in [Streams -> Source \cup {None}]
    BY <2>1 DEF IInv, Typed, Jobs
  <2> QED  BY <2>1, <2>2, <2>3, ReadsAreNumbers
<1>2. CASE PumpDrops(j)
  <2>1. sources' = sources /\ stack' = stack /\ ~ Ticketed(job[j].request)
    <3>1. ~ Dead(j)
      BY <1>1 DEF IInv, SlotsOwned, Queued
    <3> QED  BY <1>2, <3>1 DEF PumpDrops, model
  <2>2. ASSUME QuestionReady', job[j].request.page = 0 PROVE sources'[job[j].request.stream] # None
    <3>1. QuestionReady
      BY <2>1, <2>2 DEF QuestionReady
    <3> QED  BY <2>1, <2>2, <3>1 DEF Ticketed, QuestionReady
  <2> QED  BY <1>1, <2>1, <2>2, StepKeepsIssue
<1>3. CASE PumpStarts(j) /\ job[j].request.stream = Question
  <2> DEFINE had == sources[Question]
             src == [pending |-> j, failed |-> FALSE,
                     page |-> IF had = None THEN None ELSE had.page,
                     reader |-> IF had = None THEN None ELSE had.reader]
  <2>1. sources' = [sources EXCEPT ![Question] = src]
    BY <1>3 DEF PumpStarts, Loading
  <2>2. src.pending = j
    OBVIOUS
  <2> HIDE DEF src
  <2>3. sources'[Question].pending = j
    BY <1>1, <2>1, <2>2 DEF Streams
  <2> QED  BY <1>1, <2>3 DEF IssueThenSections, QuestionReady
<1>4. CASE PumpStarts(j) /\ job[j].request.stream # Question
  <2>1. stack \in Seq(Frames) /\ stack' = <<Frame("publish", 0), Frame("dispatch", j)>> \o stack
    BY <1>4 DEF PumpStarts, IInv, Typed
  <2>2. Frame("publish", 0) \in Frames /\ Frame("dispatch", j) \in Frames
    BY ReadsAreNumbers DEF Frame, Frames
  <2>3. stack' = <<Frame("publish", 0)>> \o (<<Frame("dispatch", j)>> \o stack)
    BY <2>1, <2>2
  <2>4. <<Frame("dispatch", j)>> \o stack \in Seq(Frames)
    BY <2>1, <2>2
  <2>5. \A n \in 1..Len(Initial) : LoopsTo(stack, n) => LoopsTo(stack', n)
    BY <2>1, <2>2, <2>3, <2>4, LoopsUnderneath
  <2>6. sources'[job[j].request.stream] # None
    BY <1>1, <1>4, ShownStays
  <2> QED  BY <1>1, <1>4, <2>5, <2>6, StepKeepsIssue
<1> QED  BY <1>2, <1>3, <1>4

LEMMA RunOnKeepsSections ==
  ASSUME IInv, SectionsComing, NEW j \in Reads, Dispatch \/ Accept, j = Head(stack).of
  PROVE  IssueThenSections'
<1>1. /\ stack \in Seq(Frames) /\ stack # <<>> /\ job \in [Reads -> Jobs \cup {None}] /\ sources' = sources
      /\ Head(stack).do \in {"dispatch", "accept"}
  BY DEF Dispatch, Accept, Running, IInv, Typed, model
<1>2. /\ job[j] \in Jobs /\ job[j].phase = IF Head(stack).do = "dispatch" THEN "loading" ELSE "received"
      /\ Head(stack).do = "dispatch" => Len(stack) > 1 /\ stack[2].do = "pump"
      /\ StepOf(j) /\ ~ QuestionGone(j)
  BY <1>1, TopFrameNames DEF StepOf, QuestionGone, Idle
<1>3. \A n \in 1..Len(Initial) : LoopsTo(stack, n) => LoopsTo(Tail(stack), n)
  BY <1>1, LoopsAfter
<1>4. \A k \in Queued : k # j
  BY <1>1, <1>2 DEF Queued
<1>5. CASE Accept
  <2>1. stack' = Tail(stack) /\ job' = [job EXCEPT ![j].phase = IF Committed(j) THEN "accepted" ELSE "rejected"]
        /\ epoch' = epoch /\ closed' = closed /\ Head(stack).do = "accept"
    BY <1>5 DEF Accept, Running
  <2>2. ASSUME QuestionReady', IssueRead(j) PROVE IssueRead(j)'
    <3> DEFINE rec == [job[j] EXCEPT !.phase = "accepted"]
    <3>1. Committed(j)
      BY <1>1, <2>2 DEF Committed, IssueRead, QuestionReady
    <3>2. job' = [job EXCEPT ![j] = rec]
      BY <2>1, <3>1
    <3>3. rec.phase = "accepted" /\ rec.boot = job[j].boot /\ rec.epoch = job[j].epoch /\ rec.request = job[j].request
          /\ rec \in Jobs
      BY <1>2 DEF Jobs, Phases
    <3> HIDE DEF rec
    <3>4. job'[j] = rec /\ rec # None
      BY <1>1, <3>2, <3>3, NoneIsNoValue
    <3> QED  BY <1>1, <2>1, <2>2, <3>3, <3>4 DEF IssueRead, Booting, Dead
  <2> QED  BY <1>1, <1>2, <1>3, <1>4, <2>1, <2>2, StepKeepsIssue
<1>6. CASE Dispatch
  <2>1. Head(stack).do = "dispatch" /\ stack' \in {Tail(stack), Tail(Tail(stack))}
    BY <1>6 DEF Dispatch, Running
  <2>2. Tail(stack) \in Seq(Frames) /\ Tail(stack) # <<>> /\ Head(Tail(stack)).do # "sections"
    <3>1. Len(stack) > 1 /\ stack[2].do = "pump" /\ stack \in Seq(Frames)
      BY <1>1, <1>2, <2>1
    <3>2. Len(Tail(stack)) = Len(stack) - 1 /\ Tail(stack) \in Seq(Frames) /\ Tail(stack)[1] = stack[2]
      BY <3>1
    <3> DEFINE tl == Tail(stack)
    <3>3. tl # <<>> /\ Head(tl) = tl[1]
      <4>1. tl \in Seq(Frames) /\ Len(tl) # 0
        BY <3>1, <3>2
      <4> HIDE DEF tl
      <4> QED  BY <4>1
    <3> QED  BY <3>1, <3>2, <3>3
  <2>3. \A n \in 1..Len(Initial) : LoopsTo(Tail(stack), n) => LoopsTo(Tail(Tail(stack)), n)
    BY <2>2, LoopsAfter
  <2>4. \A n \in 1..Len(Initial) : LoopsTo(stack, n) => LoopsTo(stack', n)
    BY <1>3, <2>1, <2>3
  <2>5. ~ IssueRead(j)
    BY <1>2, <2>1 DEF IssueRead
  <2> QED  BY <1>1, <1>2, <1>4, <2>4, <2>5, StepKeepsIssue
<1> QED  BY <1>5, <1>6

LEMMA NoLoop == \A n \in Nat : ~ LoopsTo(<<>>, n)
BY DEF LoopsTo

LEMMA AnswersKeepSections ==
  ASSUME IInv, SectionsComing, NEW j \in Reads,
         IgnoreAnswer(j) \/ ReceiveData(j) \/ ReceiveMisfit(j) \/ ReceiveError(j) \/ QuestionGone(j)
  PROVE  IssueThenSections'
<1>1. /\ stack = <<>> /\ StepOf(j) /\ job[j] # None /\ job[j].phase = "fetching" /\ ~ IssueRead(j)
      /\ job \in [Reads -> Jobs \cup {None}] /\ job[j] \in Jobs
      /\ job[j].request \in Requests /\ job[j].request.stream \in Streams
      /\ sources \in [Streams -> Source \cup {None}]
  BY RequestsNameStreams DEF StepOf, IgnoreAnswer, ReceiveData, ReceiveMisfit, ReceiveError, QuestionGone, Idle, IssueRead,
     IInv, Typed, Jobs
<1>2. \A n \in 1..Len(Initial) : ~ LoopsTo(stack, n)
  BY <1>1, NoLoop, ReaderParameters
<1>3. \A k \in Queued : k # j
  BY <1>1 DEF Queued
<1>4. CASE IgnoreAnswer(j)
  <2>1. sources' = sources /\ ~ QuestionGone(j)
    BY <1>4 DEF IgnoreAnswer, QuestionGone, model
  <2> QED  BY <1>1, <1>2, <1>3, <2>1, StepKeepsIssue
<1>5. ASSUME ~ Dead(j) PROVE Accepts(j)
  BY <1>1, <1>5 DEF IInv, SourcesFollowReads, AtWork
<1>6. CASE QuestionGone(j)
  <2> DEFINE src == [pending |-> None, page |-> None, reader |-> None, failed |-> TRUE]
  <2>1. sources' = [NothingRead EXCEPT ![Question] = src]
    BY <1>5, <1>6 DEF QuestionGone, OnlyAnError
  <2>2. src.page = None
    OBVIOUS
  <2> HIDE DEF src
  <2>3. sources'[Question].page = None
    BY <2>1, <2>2 DEF NothingRead, Streams
  <2> QED  BY <2>3 DEF IssueThenSections, QuestionReady
<1>7. CASE ~ QuestionGone(j) /\ job[j].request.stream # Question
  BY <1>1, <1>2, <1>3, <1>7, StepKeepsIssue
<1>8. CASE (ReceiveMisfit(j) \/ ReceiveError(j)) /\ job[j].request.stream = Question
  <2>1. sources' = [sources EXCEPT ![Question].pending = None, ![Question].failed = TRUE] /\ sources[Question] \in Source
    BY <1>1, <1>5, <1>8 DEF ReceiveMisfit, ReceiveError, Failed, Accepts
  <2>2. sources' = [sources EXCEPT ![Question] = [sources[Question] EXCEPT !.pending = None, !.failed = TRUE]]
    BY <2>1
  <2>3. [sources[Question] EXCEPT !.pending = None, !.failed = TRUE].failed
    BY <2>1 DEF Source
  <2>4. sources'[Question].failed
    BY <1>1, <2>2, <2>3 DEF Streams
  <2> QED  BY <2>4 DEF IssueThenSections, QuestionReady
<1>9. CASE ReceiveData(j) /\ job[j].request.stream = Question
  <2> DEFINE rec == [job[j] EXCEPT !.phase = "received"]
             src == [pending |-> None, page |-> job[j].request.page, reader |-> j, failed |-> FALSE]
  <2>1. /\ sources' = [sources EXCEPT ![Question] = src] /\ job' = [job EXCEPT ![j] = rec]
        /\ epoch' = epoch /\ closed' = closed /\ ~ Dead(j)
    BY <1>5, <1>9 DEF ReceiveData, Received
  <2>2. rec.phase = "received" /\ rec.boot = job[j].boot /\ rec.epoch = job[j].epoch /\ rec.request = job[j].request
        /\ rec \in Jobs /\ src.reader = j
    BY <1>1 DEF Jobs, Phases
  <2> HIDE DEF rec, src
  <2>3. job'[j] = rec /\ rec # None /\ sources'[Question].reader = j
    BY <1>1, <2>1, <2>2, NoneIsNoValue DEF Streams
  <2>4. job[j].boot
    BY <1>1, <1>9 DEF SectionsComing, BootsReadTheIssue
  <2>5. IssueRead(j)'
    BY <1>9, <2>1, <2>2, <2>3, <2>4 DEF IssueRead, Booting, Dead
  <2> QED  BY <2>5 DEF IssueThenSections, Follows
<1> QED  BY <1>4, <1>6, <1>7, <1>8, <1>9

LEMMA PromisesKeepSections ==
  ASSUME IInv, SectionsComing, NEW j \in Reads, Continue(j)
  PROVE  IssueThenSections'
<1>1. /\ stack = <<>> /\ StepOf(j) /\ job[j] # None /\ job[j].phase \in {"accepted", "rejected", "resuming", "settled"}
      /\ job \in [Reads -> Jobs \cup {None}] /\ job[j] \in Jobs /\ ~ QuestionGone(j)
      /\ sources' = sources
  BY DEF StepOf, Continue, Answer, Resume, Finally, QuestionGone, Idle, IInv, Typed, model
<1>2. \A n \in 1..Len(Initial) : ~ LoopsTo(stack, n)
  BY <1>1, NoLoop, ReaderParameters
<1>3. \A k \in Queued : k # j
  BY <1>1 DEF Queued
<1>4. ASSUME IssueRead(j) PROVE IssueRead(j)' \/ \A n \in 1..Len(Initial) : LoopsTo(stack', n)
  <2>1. CASE \E ok \in {"true", "false"} : Answer(j, ok)
    <3> DEFINE rec == [job[j] EXCEPT !.answer = "true", !.phase = "resuming"]
    <3>1. PICK ok \in {"true", "false"} : Answer(j, ok)
      BY <2>1
    <3>2. ok = "true" /\ job[j].phase = "accepted" /\ job[j].boot /\ ~ Dead(j)
      BY <1>4, <3>1 DEF Answer, Idle, IssueRead, Booting
    <3>3. job[j].answer = None
      BY <1>1, <3>2 DEF IInv, AnswersFollowReads
    <3>4. job' = [job EXCEPT ![j] = rec] /\ epoch' = epoch /\ closed' = closed
      BY <3>1, <3>2, <3>3 DEF Answer, Resolved
    <3>5. rec.phase = "resuming" /\ rec.boot = job[j].boot /\ rec.epoch = job[j].epoch /\ rec.request = job[j].request
          /\ rec.answer = "true" /\ rec \in Jobs
      BY <1>1 DEF Jobs, Phases
    <3> HIDE DEF rec
    <3>6. job'[j] = rec /\ rec # None
      BY <1>1, <3>4, <3>5, NoneIsNoValue
    <3> QED  BY <1>1, <1>4, <3>4, <3>5, <3>6 DEF IssueRead, Booting, Dead
  <2>2. CASE Resume(j)
    <3>1. job[j].answer = "true" /\ ~ Dead(j)
      BY <1>4, <2>2 DEF Resume, Idle, IssueRead, Booting
    <3>2. stack' = <<Frame("sections", 1)>>
      BY <2>2, <3>1 DEF Resume
    <3>3. 1 \in 1..Len(stack') /\ stack'[1].do = "sections" /\ stack'[1].of = 1
      BY <3>2 DEF Frame
    <3> QED  BY <3>3, ReaderParameters DEF LoopsTo
  <2>3. ~ Finally(j)
    BY <1>4 DEF Finally, Idle, IssueRead
  <2> QED  BY <2>1, <2>2, <2>3 DEF Continue
<1> QED  BY <1>1, <1>2, <1>3, <1>4, StepKeepsIssue

LEMMA SectionsStep == IInv /\ SectionsComing /\ [Next]_vars => SectionsComing'
<1> SUFFICES ASSUME IInv, SectionsComing, [Next]_vars PROVE SectionsComing'
  OBVIOUS
<1>1. ASSUME NEW j \in Reads, StepOf(j) PROVE SectionsComing'
  BY <1>1, StepKeepsWork, PumpKeepsSections, RunOnKeepsSections, AnswersKeepSections, PromisesKeepSections
     DEF StepOf, SectionsComing
<1>2. CASE UNCHANGED vars
  BY <1>2, AskedInVain DEF vars, jobs, model, slots, Follows
<1> QED
  BY <1>1, <1>2, KindsOfStep, CancelKeepsSections, AskKeepsSections, StartKeepsSections, ReadKeepsSections,
     ReturnKeepsSections

\* start() asks for the sections of the issue once it is read, and nothing that comes in
\* between makes it forget one (start 191-202).
THEOREM SectionsAreRead == Spec => []SectionsFollow
<1>1. Init => SectionsComing
  BY DEF Init, SectionsComing, BootsReadTheIssue, WorkIsSeen, IssueThenSections, QuestionReady, NothingRead, Streams, AtWork
<1>2. IInv /\ SectionsComing => SectionsFollow
  <2> SUFFICES ASSUME IInv, SectionsComing, stack = <<>>, Queued \cup ActiveReads = {}, QuestionReady,
                      NEW n \in DOMAIN Initial
               PROVE  sources[Initial[n]] # None
    BY DEF SectionsFollow
  <2>1. n \in 1..Len(Initial) /\ Follows(n)
    BY SectionsAreSections DEF SectionsComing, IssueThenSections
  <2>2. ~ LoopsTo(stack, n)
    BY <2>1, NoLoop
  <2>3. ASSUME NEW j \in Reads, IssueRead(j) PROVE FALSE
    <3>1. AtWork(j)
      BY <2>3 DEF IssueRead, Booting, AtWork
    <3>2. active[job[j].request] = j /\ job[j].request \in Requests /\ j # None
      BY <3>1, ReadsAreNumbers DEF IInv, SlotsOwned, AtWork, Typed, Jobs
    <3> QED  BY <3>2 DEF ActiveReads
  <2> QED  BY <2>1, <2>2, <2>3 DEF Follows
<1> QED
  BY <1>1, <1>2, SectionsStep, InvariantHolds, PTL DEF Spec

-----------------------------------------------------------------------------
(* Every read has been asked for: what is in the bound Reads is enough.    *)

\* What the loop of start() on stack st has still to ask for; it is under all the rest.
LoopOf(st) ==
  IF st # <<>> /\ st[Len(st)].do = "sections" THEN Len(Initial) + 1 - st[Len(st)].of ELSE 0
AtBottom(st) == \A i \in 1..Len(st) : st[i].do = "sections" => i = Len(st)

\* What the next start(), and the one whose read is not over, may still ask for.
StartLeft == IF booted \/ closed THEN 0 ELSE 1 + Len(Initial)
ReadLeft == IF \E j \in Reads : Booting(j) THEN Len(Initial) ELSE 0

\* A call of the interface asks for one read or for a start().
AskedFor(n) == (1 + n) * (1 + Len(Initial))

Accounted ==
  /\ booted \in BOOLEAN /\ calls \in 0..MaxCalls
  /\ \A j \in Reads : job[j] # None /\ job[j].phase = "resuming" => job[j].boot
  /\ \A j, k \in Reads : Booting(j) /\ Booting(k) => j = k
  /\ AtBottom(stack)
  /\ count + StartLeft + LoopOf(stack) + ReadLeft <= AskedFor(calls)

\* Wherever a read is put into the queue there is a number for it, so that the bound
\* keeps no step of the code from being taken.
RoomForEveryRead ==
  calls < MaxCalls \/ (~booted /\ ~closed) \/ Running("sections") => count + 1 \in Reads

LEMMA AskedForMore ==
  /\ Len(Initial) \in Nat \ {0}
  /\ \A n \in Nat : AskedFor(n) \in Nat /\ AskedFor(n + 1) = AskedFor(n) + 1 + Len(Initial)
  /\ \A n \in 0..MaxCalls : AskedFor(n) <= AskedFor(MaxCalls)
<1>1. Len(Initial) \in Nat \ {0} /\ MaxCalls \in Nat
  BY ReaderParameters
<1> DEFINE L == 1 + Len(Initial)
<1>2. L \in Nat
  BY <1>1
<1> HIDE DEF L
<1>3. \A n \in Nat : (1 + n) * L \in Nat /\ (1 + (n + 1)) * L = (1 + n) * L + L
  BY <1>2
<1>4. \A n \in 0..MaxCalls : (1 + n) * L <= (1 + MaxCalls) * L
  BY <1>1, <1>2
<1> QED  BY <1>1, <1>3, <1>4 DEF AskedFor, L

LEMMA LoopSize ==
  ASSUME NEW st \in Seq(Frames), NEW jb, WellFormed(st, jb)
  PROVE  LoopOf(st) \in 0..Len(Initial)
<1>1. Len(Initial) \in Nat
  BY ReaderParameters
<1>2. CASE st # <<>> /\ st[Len(st)].do = "sections"
  <2>1. Len(st) \in 1..Len(st)
    BY <1>2
  <2>2. st[Len(st)].of \in 1..Len(Initial)
    BY <1>2, <2>1 DEF WellFormed, FrameFits
  <2> QED  BY <1>1, <1>2, <2>2 DEF LoopOf
<1> QED  BY <1>1, <1>2 DEF LoopOf

LEMMA BottomUnderneath ==
  ASSUME NEW st \in Seq(Frames), NEW f \in Frames, f.do # "sections", AtBottom(st)
  PROVE  AtBottom(<<f>> \o st) /\ LoopOf(<<f>> \o st) = LoopOf(st)
<1> DEFINE tt == <<f>> \o st
<1>1. /\ tt \in Seq(Frames) /\ Len(tt) = Len(st) + 1 /\ tt[1] = f /\ Len(st) \in Nat
      /\ \A i \in 1..Len(tt) : i # 1 => i - 1 \in 1..Len(st) /\ tt[i] = st[i - 1]
  OBVIOUS
<1> HIDE DEF tt
<1>2. ASSUME NEW i \in 1..Len(tt), tt[i].do = "sections" PROVE i = Len(tt)
  <2>1. i - 1 \in 1..Len(st) /\ st[i - 1].do = "sections" /\ i \in Nat
    BY <1>1, <1>2
  <2>2. i - 1 = Len(st)
    BY <2>1 DEF AtBottom
  <2> QED  BY <1>1, <2>1, <2>2
<1>3. LoopOf(tt) = LoopOf(st)
  <2>1. CASE st = <<>>
    BY <1>1, <2>1 DEF LoopOf
  <2>2. CASE st # <<>>
    <3>1. Len(st) # 0 /\ Len(tt) \in 1..Len(tt) /\ Len(tt) # 1
      BY <1>1, <2>2
    <3>2. tt # <<>> /\ tt[Len(tt)] = st[Len(st)]
      BY <1>1, <3>1
    <3> QED  BY <2>2, <3>2 DEF LoopOf
  <2> QED  BY <2>1, <2>2
<1> QED  BY <1>2, <1>3 DEF AtBottom, tt

LEMMA BottomAfter ==
  ASSUME NEW st \in Seq(Frames), st # <<>>, AtBottom(st)
  PROVE  /\ AtBottom(Tail(st)) /\ LoopOf(Tail(st)) \in {0, LoopOf(st)}
         /\ Head(st).do = "sections" => Tail(st) = <<>> /\ LoopOf(st) = Len(Initial) + 1 - Head(st).of
<1> DEFINE tl == Tail(st)
<1>1. /\ tl \in Seq(Frames) /\ Len(tl) = Len(st) - 1 /\ Len(st) \in Nat \ {0} /\ Head(st) = st[1]
      /\ \A i \in 1..Len(tl) : i + 1 \in 1..Len(st) /\ tl[i] = st[i + 1]
  OBVIOUS
<1> HIDE DEF tl
<1>2. ASSUME NEW i \in 1..Len(tl), tl[i].do = "sections" PROVE i = Len(tl)
  <2>1. i + 1 \in 1..Len(st) /\ st[i + 1].do = "sections" /\ i \in Nat
    BY <1>1, <1>2
  <2>2. i + 1 = Len(st)
    BY <2>1 DEF AtBottom
  <2> QED  BY <1>1, <2>1, <2>2
<1>3. LoopOf(tl) \in {0, LoopOf(st)}
  <2>1. CASE tl = <<>>
    BY <2>1 DEF LoopOf
  <2>2. CASE tl # <<>>
    <3>1. Len(tl) \in 1..Len(tl)
      BY <1>1, <2>2
    <3>2. tl[Len(tl)] = st[Len(st)]
      BY <1>1, <3>1
    <3> QED  BY <3>2 DEF LoopOf
  <2> QED  BY <2>1, <2>2
<1>4. ASSUME Head(st).do = "sections" PROVE tl = <<>> /\ LoopOf(st) = Len(Initial) + 1 - Head(st).of
  <2>1. 1 = Len(st)
    BY <1>1, <1>4 DEF AtBottom
  <2> QED  BY <1>1, <1>4, <2>1 DEF LoopOf
<1> QED  BY <1>2, <1>3, <1>4 DEF AtBottom, tl

\* No loop, nothing left of it.
LEMMA NothingUnderneath ==
  ASSUME NEW st \in Seq(Frames), \A i \in 1..Len(st) : st[i].do # "sections"
  PROVE  AtBottom(st) /\ LoopOf(st) = 0
<1>1. st # <<>> => Len(st) \in 1..Len(st)
  OBVIOUS
<1> QED  BY <1>1 DEF AtBottom, LoopOf

LEMMA ShortStacks ==
  /\ \A do \in {"pump", "publish"} : AtBottom(<<Frame(do, 0)>>) /\ LoopOf(<<Frame(do, 0)>>) = 0
  /\ \A j \in Reads : /\ AtBottom(<<Frame("publish", 0), Frame("accept", j)>>)
                      /\ LoopOf(<<Frame("publish", 0), Frame("accept", j)>>) = 0
  /\ AtBottom(<<>>) /\ LoopOf(<<>>) = 0
  /\ AtBottom(<<Frame("sections", 1)>>) /\ LoopOf(<<Frame("sections", 1)>>) = Len(Initial)
<1>1. ASSUME NEW do \in {"pump", "publish"} PROVE AtBottom(<<Frame(do, 0)>>) /\ LoopOf(<<Frame(do, 0)>>) = 0
  BY DEF Frame, AtBottom, LoopOf
<1>2. ASSUME NEW j \in Reads
      PROVE  /\ AtBottom(<<Frame("publish", 0), Frame("accept", j)>>)
             /\ LoopOf(<<Frame("publish", 0), Frame("accept", j)>>) = 0
  BY DEF Frame, AtBottom, LoopOf
<1>3. AtBottom(<<>>) /\ LoopOf(<<>>) = 0
  BY DEF AtBottom, LoopOf
<1>4. AtBottom(<<Frame("sections", 1)>>) /\ LoopOf(<<Frame("sections", 1)>>) = Len(Initial)
  BY ReaderParameters DEF Frame, AtBottom, LoopOf
<1> QED  BY <1>1, <1>2, <1>3, <1>4

\* Where a read may be before and after its step.
LEMMA PhaseOfStep ==
  ASSUME IInv, NEW j \in Reads, StepOf(j)
  PROVE  /\ job'[j].phase = "resuming" => job[j].boot
         /\ job[j].phase \in {"settled", "done"} => job'[j].phase = "done"
         /\ Resume(j) => job[j].phase = "resuming" /\ job'[j].phase = "settled"
<1>1. job \in [Reads -> Jobs \cup {None}] /\ job[j] \in Jobs
  BY OneReadAtATime DEF IInv, Typed
<1>2. ASSUME NEW rec, job' = [job EXCEPT ![j] = rec] PROVE job'[j].phase = rec.phase
  BY <1>1, <1>2
<1>3. ASSUME NEW phase, job' = [job EXCEPT ![j].phase = phase] PROVE job'[j].phase = phase
  <2>1. [job[j] EXCEPT !.phase = phase].phase = phase
    BY <1>1 DEF Jobs
  <2> QED  BY <1>1, <1>3, <2>1
<1>4. CASE PumpDrops(j)
  <2>1. job' = [job EXCEPT ![j] = [job[j] EXCEPT !.phase = "done", !.answer = "false"]]
    BY <1>4 DEF PumpDrops
  <2>2. [job[j] EXCEPT !.phase = "done", !.answer = "false"].phase = "done"
    BY <1>1 DEF Jobs
  <2>3. job'[j].phase = "done"
    BY <1>1, <2>1, <2>2
  <2> QED  BY <1>4, <2>3 DEF Resume, Idle, PumpDrops, Chosen, Startable, Queued
<1>5. CASE PumpStarts(j)
  <2>1. job'[j].phase = "loading" /\ job[j].phase = "queued"
    BY <1>3, <1>5 DEF PumpStarts, Chosen, Startable, Queued
  <2> QED  BY <2>1 DEF Resume, Idle
<1>6. CASE \E ok \in {"true", "false"} : Answer(j, ok)
  <2>1. PICK ok \in {"true", "false"} : Answer(j, ok)
    BY <1>6
  <2> DEFINE phase == IF job[j].boot THEN "resuming" ELSE "settled"
             rec == [job[j] EXCEPT !.answer = Resolved(job[j].answer, ok), !.phase = phase]
  <2>2. job' = [job EXCEPT ![j] = rec]
    BY <2>1 DEF Answer
  <2>3. rec.phase = phase
    BY <1>1 DEF Jobs
  <2>4. job'[j].phase = phase
    <3> HIDE DEF rec, phase
    <3> QED  BY <1>2, <2>2, <2>3
  <2>5. job[j].phase \in {"accepted", "rejected"}
    BY <2>1 DEF Answer, Idle
  <2> QED  BY <2>4, <2>5 DEF Resume, Idle
<1>7. CASE Resume(j)
  BY <1>3, <1>7 DEF Resume, Idle
<1>8. CASE Finally(j)
  <2>1. job'[j].phase = "done" /\ job[j].phase = "settled"
    BY <1>3, <1>8 DEF Finally, Idle
  <2> QED  BY <2>1 DEF Resume, Idle
<1>9. CASE IgnoreAnswer(j) \/ ReceiveData(j) \/ ReceiveMisfit(j) \/ ReceiveError(j) \/ QuestionGone(j)
  <2>1. PICK phase \in {"done", "received", "rejected"} : job' = [job EXCEPT ![j].phase = phase]
    BY <1>9 DEF IgnoreAnswer, ReceiveData, ReceiveMisfit, ReceiveError, QuestionGone
  <2>2. job[j].phase = "fetching"
    BY <1>9 DEF IgnoreAnswer, ReceiveData, ReceiveMisfit, ReceiveError, QuestionGone, Idle
  <2>3. job'[j].phase = phase
    BY <1>3, <2>1
  <2> QED  BY <2>2, <2>3 DEF Resume, Idle
<1>10. CASE (Dispatch \/ Accept) /\ j = Head(stack).of
  <2>1. stack # <<>> /\ job[j].phase \in {"loading", "received"}
    BY <1>10, TopFrameNames DEF Dispatch, Accept, Running
  <2>2. job'[j].phase \in {"done", "fetching", "accepted", "rejected"}
    <3>1. CASE Dispatch /\ ~ Dead(j)
      <4>1. job' = [job EXCEPT ![j] = [job[j] EXCEPT !.phase = "fetching", !.scope = scope]]
        BY <1>10, <3>1 DEF Dispatch
      <4>2. [job[j] EXCEPT !.phase = "fetching", !.scope = scope].phase = "fetching"
        BY <1>1 DEF Jobs
      <4> QED  BY <1>1, <4>1, <4>2
    <3>2. CASE ~ (Dispatch /\ ~ Dead(j))
      <4>1. PICK phase \in {"done", "accepted", "rejected"} : job' = [job EXCEPT ![j].phase = phase]
        BY <1>10, <3>2 DEF Dispatch, Accept
      <4> QED  BY <1>3, <4>1
    <3> QED  BY <3>1, <3>2
  <2> QED  BY <2>1, <2>2 DEF Resume, Idle
<1> QED  BY <1>4, <1>5, <1>6, <1>7, <1>8, <1>9, <1>10 DEF StepOf, Continue

\* Whatever read goes on, what the loop has left to ask for does not grow.
LEMMA StackOfStep ==
  ASSUME IInv, AtBottom(stack), NEW j \in Reads, StepOf(j), ~ Resume(j)
  PROVE  AtBottom(stack') /\ LoopOf(stack') \in {0, LoopOf(stack)}
<1>1. stack \in Seq(Frames)
  BY DEF IInv, Typed
<1>2. CASE PumpDrops(j) \/ (\E ok \in {"true", "false"} : Answer(j, ok)) \/ IgnoreAnswer(j)
  BY <1>2 DEF PumpDrops, Answer, IgnoreAnswer
<1>3. CASE PumpStarts(j)
  <2> DEFINE pub == Frame("publish", 0)
             dis == Frame("dispatch", j)
  <2>1. stack' = <<pub, dis>> \o stack
    BY <1>3 DEF PumpStarts
  <2>2. pub \in Frames /\ dis \in Frames /\ pub.do # "sections" /\ dis.do # "sections"
    BY ReadsAreNumbers DEF Frame, Frames
  <2>3. <<dis>> \o stack \in Seq(Frames) /\ stack' = <<pub>> \o (<<dis>> \o stack)
    <3>1. <<dis>> \o stack \in Seq(Frames)
      BY <1>1, <2>2
    <3>2. stack' = <<pub>> \o (<<dis>> \o stack)
      BY <1>1, <2>1, <2>2
    <3> QED  BY <3>1, <3>2
  <2> HIDE DEF pub, dis
  <2>4. AtBottom(<<dis>> \o stack) /\ LoopOf(<<dis>> \o stack) = LoopOf(stack)
    BY <1>1, <2>2, BottomUnderneath
  <2> DEFINE st == <<dis>> \o stack
  <2> HIDE DEF st
  <2>5. AtBottom(<<pub>> \o st) /\ LoopOf(<<pub>> \o st) = LoopOf(st)
    BY <2>2, <2>3, <2>4, BottomUnderneath DEF st
  <2> QED  BY <2>1, <2>3, <2>4, <2>5 DEF st
<1>4. CASE Finally(j)
  <2>1. stack' \in {stack, <<Frame("pump", 0)>>}
    BY <1>4 DEF Finally
  <2> QED  BY <2>1, ShortStacks
<1>5. CASE ReceiveData(j) \/ ReceiveMisfit(j) \/ ReceiveError(j) \/ QuestionGone(j)
  <2>1. stack' \in {<<Frame("publish", 0), Frame("accept", j)>>, <<Frame("publish", 0)>>}
    BY <1>5 DEF ReceiveData, ReceiveMisfit, ReceiveError, QuestionGone
  <2> QED  BY <2>1, ShortStacks
<1>6. CASE (Dispatch \/ Accept) /\ j = Head(stack).of
  <2> DEFINE tl == Tail(stack)
  <2>1. stack # <<>> /\ stack' \in {tl, Tail(tl)} /\ Head(stack).do \in {"dispatch", "accept"}
        /\ (stack' # tl => Head(stack).do = "dispatch")
    BY <1>6 DEF Dispatch, Accept, Running
  <2>2. tl \in Seq(Frames) /\ AtBottom(tl) /\ LoopOf(tl) \in {0, LoopOf(stack)}
    BY <1>1, <2>1, BottomAfter
  <2>3. (Len(stack) > 1 /\ Len(tl) = Len(stack) - 1) \/ stack' = tl
    BY <1>1, <2>1, TopFrameNames
  <2> HIDE DEF tl
  <2>4. CASE stack' = tl
    BY <2>2, <2>4
  <2>5. CASE stack' = Tail(tl) /\ stack' # tl
    <3>1. tl # <<>>
      BY <1>1, <2>3, <2>5
    <3>2. AtBottom(Tail(tl)) /\ LoopOf(Tail(tl)) \in {0, LoopOf(tl)}
      BY <2>2, <3>1, BottomAfter
    <3> QED  BY <2>2, <2>5, <3>2
  <2> QED  BY <2>1, <2>4, <2>5
<1> QED  BY <1>2, <1>3, <1>4, <1>5, <1>6 DEF StepOf, Continue

\* The parts of the account are numbers, before a step and after it.
LEMMA Sizes ==
  ASSUME IInv, [Next]_vars
  PROVE  /\ count \in Nat /\ count' \in Nat /\ Len(Initial) \in Nat \ {0}
         /\ LoopOf(stack) \in 0..Len(Initial) /\ LoopOf(stack') \in 0..Len(Initial)
         /\ StartLeft \in {0, 1 + Len(Initial)} /\ StartLeft' \in {0, 1 + Len(Initial)}
         /\ ReadLeft \in {0, Len(Initial)} /\ ReadLeft' \in {0, Len(Initial)}
<1>1. IInv'
  BY NextKeepsIInv
<1>2. stack' \in Seq(Frames) /\ WellFormed(stack', job') /\ count' \in Nat
  BY <1>1 DEF IInv, Typed
<1>3. LoopOf(stack') \in 0..Len(Initial)
  BY <1>2, LoopSize
<1>4. LoopOf(stack) \in 0..Len(Initial) /\ count \in Nat
  BY LoopSize DEF IInv, Typed
<1> QED  BY <1>2, <1>3, <1>4, ReaderParameters DEF StartLeft, ReadLeft

\* No read is asked for, and no more than before is left to ask for.
LEMMA AccountKept ==
  ASSUME IInv, Accounted, [Next]_vars, UNCHANGED <<count, booted, closed, calls>>,
         \A k \in Reads : Booting(k)' => Booting(k),
         \A k \in Reads : job'[k] # None /\ job'[k].phase = "resuming" => job'[k].boot,
         AtBottom(stack'), LoopOf(stack') + ReadLeft' <= LoopOf(stack) + ReadLeft
  PROVE  Accounted'
<1>1. \A j, k \in Reads : Booting(j)' /\ Booting(k)' => j = k
  BY DEF Accounted
<1>2. StartLeft' = StartLeft
  BY DEF StartLeft
<1>3. calls \in Nat /\ AskedFor(calls) \in Nat
  BY AskedForMore, ReaderParameters DEF Accounted
<1>4. count' + StartLeft' + LoopOf(stack') + ReadLeft' <= AskedFor(calls')
  BY <1>2, <1>3, Sizes DEF Accounted
<1> QED  BY <1>1, <1>4 DEF Accounted

LEMMA StepKeepsAccount ==
  ASSUME IInv, Accounted, Next, NEW j \in Reads, StepOf(j)
  PROVE  Accounted'
<1>1. /\ job[j] \in Jobs /\ job'[j] \in Jobs
      /\ job'[j].epoch = job[j].epoch /\ job'[j].boot = job[j].boot
      /\ \A k \in Reads : k # j => job'[k] = job[k]
      /\ UNCHANGED <<count, epoch, booted, closed, calls>>
  BY OneReadAtATime
<1>2. \A k \in Reads : Booting(k)' => Booting(k)
  <2> SUFFICES ASSUME NEW k \in Reads, Booting(k)' PROVE Booting(k)
    OBVIOUS
  <2>1. CASE k = j
    BY <1>1, <2>1, PhaseOfStep, NoneIsNoValue DEF Booting, Dead
  <2>2. CASE k # j
    BY <1>1, <2>2 DEF Booting, Dead
  <2> QED  BY <2>1, <2>2
<1>3. \A k \in Reads : job'[k] # None /\ job'[k].phase = "resuming" => job'[k].boot
  BY <1>1, PhaseOfStep DEF Accounted
<1>4. AtBottom(stack') /\ LoopOf(stack') + ReadLeft' <= LoopOf(stack) + ReadLeft
  <2>1. CASE ~ Resume(j)
    <3>1. AtBottom(stack') /\ LoopOf(stack') \in {0, LoopOf(stack)}
      BY <2>1, StackOfStep DEF Accounted
    <3>2. ReadLeft' \in {0, ReadLeft}
      BY <1>2 DEF ReadLeft
    <3> QED  BY <3>1, <3>2, Sizes
  <2>2. CASE Resume(j)
    <3>1. stack = <<>> /\ stack' \in {<<Frame("sections", 1)>>, <<>>}
          /\ (stack' # <<>> => ~ Dead(j))
      BY <2>2 DEF Resume, Idle
    <3>2. CASE stack' = <<>>
      <4>1. ReadLeft' \in {0, ReadLeft}
        BY <1>2 DEF ReadLeft
      <4> QED  BY <3>1, <3>2, <4>1, Sizes, ShortStacks
    <3>3. CASE stack' = <<Frame("sections", 1)>>
      <4>1. stack' # <<>>
        BY <3>3
      <4>2. job[j].phase = "resuming" /\ job'[j].phase = "settled"
        BY <2>2, PhaseOfStep
      <4>3. Booting(j) /\ ~ Booting(j)'
        BY <1>1, <3>1, <4>1, <4>2, NoneIsNoValue DEF Booting, Accounted
      <4>4. \A k \in Reads : ~ Booting(k)'
        BY <1>2, <4>3 DEF Accounted
      <4>5. ReadLeft = Len(Initial) /\ ReadLeft' = 0
        BY <4>3, <4>4 DEF ReadLeft
      <4> QED  BY <3>1, <3>3, <4>5, Sizes, ShortStacks
    <3> QED  BY <3>1, <3>2, <3>3
  <2> QED  BY <2>1, <2>2
<1> QED  BY <1>1, <1>2, <1>3, <1>4, AccountKept

LEMMA CallsAreCounted ==
  ASSUME Accounted
  PROVE  /\ calls \in Nat /\ calls + 1 \in Nat /\ AskedFor(calls) \in Nat
         /\ AskedFor(calls + 1) = AskedFor(calls) + 1 + Len(Initial)
<1>1. calls \in 0..MaxCalls
  BY DEF Accounted
<1>2. calls \in Nat
  BY <1>1, ReaderParameters
<1>3. AskedFor(calls) \in Nat /\ AskedFor(calls + 1) = AskedFor(calls) + 1 + Len(Initial)
  BY <1>2, AskedForMore
<1>4. calls + 1 \in Nat
  BY <1>2
<1> QED  BY <1>2, <1>3, <1>4

\* A read is put into the queue: nothing but a start() of its own adds to what is left.
LEMMA OneMoreRead ==
  ASSUME IInv, Accounted, NEW r \in Requests, NEW boot \in BOOLEAN, NEW rest \in Seq(Frames), Enqueue(r, boot, rest),
         epoch' = epoch, closed' = closed, AtBottom(rest)
  PROVE  /\ count' = count + 1 /\ AtBottom(stack') /\ LoopOf(stack') = LoopOf(rest)
         /\ \A k \in Reads : job'[k] # None /\ job'[k].phase = "resuming" => job'[k].boot
         /\ \A k \in Reads : Booting(k)' => Booting(k) \/ (boot /\ k = count + 1)
<1> DEFINE new == count + 1
<1>1. /\ count' = new /\ job'[new].boot = boot /\ job'[new].phase = "queued"
      /\ \A k \in Reads : k # new => job'[k] = job[k]
  BY EnqueueAdds
<1>2. AtBottom(stack') /\ LoopOf(stack') = LoopOf(rest)
  <2> DEFINE f == Frame("pump", 0)
  <2>1. f \in Frames /\ f.do # "sections" /\ stack' = <<f>> \o rest
    BY DEF Enqueue, Frame, Frames
  <2> HIDE DEF f
  <2> QED  BY <2>1, BottomUnderneath
<1>3. \A k \in Reads : job'[k] # None /\ job'[k].phase = "resuming" => job'[k].boot
  BY <1>1 DEF Accounted
<1>4. \A k \in Reads : Booting(k)' => Booting(k) \/ (boot /\ k = new)
  BY <1>1 DEF Booting, Dead
<1> QED  BY <1>1, <1>2, <1>3, <1>4

LEMMA ReadKeepsAccount ==
  ASSUME IInv, Accounted, NEW r \in Requests, Read(r)
  PROVE  Accounted'
<1>1. /\ Enqueue(r, FALSE, stack) /\ UNCHANGED <<epoch, booted, closed>>
      /\ calls < MaxCalls /\ calls' = calls + 1 /\ stack \in Seq(Frames) /\ AtBottom(stack)
  BY DEF Read, Called, IInv, Typed, Accounted
<1>2. /\ count' = count + 1 /\ AtBottom(stack') /\ LoopOf(stack') = LoopOf(stack)
      /\ \A k \in Reads : job'[k] # None /\ job'[k].phase = "resuming" => job'[k].boot
      /\ \A k \in Reads : Booting(k)' => Booting(k)
  BY <1>1, OneMoreRead
<1>3. StartLeft' = StartLeft /\ ReadLeft' \in {0, ReadLeft}
  BY <1>1, <1>2 DEF StartLeft, ReadLeft
<1>4. calls \in Nat /\ calls' \in 0..MaxCalls /\ AskedFor(calls') = AskedFor(calls) + 1 + Len(Initial) /\ AskedFor(calls) \in Nat
  <2>1. calls \in 0..MaxCalls
    BY DEF Accounted
  <2>2. calls' \in 0..MaxCalls
    BY <1>1, <2>1, ReaderParameters
  <2> QED  BY <1>1, <2>2, CallsAreCounted
<1>5. [Next]_vars
  BY DEF Next, Interface
<1>6. count' + StartLeft' + LoopOf(stack') + ReadLeft' <= AskedFor(calls')
  BY <1>2, <1>3, <1>4, <1>5, Sizes DEF Accounted
<1> QED  BY <1>1, <1>2, <1>4, <1>6 DEF Accounted

LEMMA AskKeepsAccount ==
  ASSUME IInv, Accounted, AskSection
  PROVE  Accounted'
<1> DEFINE n == Head(stack).of
           r == First(Initial[n])
           rest == IF n = Len(Initial) THEN Tail(stack) ELSE <<Frame("sections", n + 1)>> \o Tail(stack)
<1>1. stack \in Seq(Frames) /\ stack # <<>> /\ Head(stack).do = "sections" /\ n \in 1..Len(Initial)
  <2>1. stack # <<>> /\ stack \in Seq(Frames) /\ FrameFits(stack, job, 1) /\ Head(stack) = stack[1]
    BY DEF AskSection, Running, IInv, Typed, WellFormed
  <2> QED  BY <2>1 DEF FrameFits, AskSection, Running
<1>2. Tail(stack) = <<>> /\ LoopOf(stack) = Len(Initial) + 1 - n
  BY <1>1, BottomAfter DEF Accounted
<1>3. rest \in Seq(Frames) /\ AtBottom(rest) /\ LoopOf(rest) = LoopOf(stack) - 1
  <2>1. CASE n = Len(Initial)
    <3>1. rest = <<>>
      BY <1>2, <2>1
    <3>2. LoopOf(stack) = 1
      BY <1>2, <2>1, ReaderParameters
    <3> HIDE DEF rest
    <3> QED  BY <3>1, <3>2, ShortStacks
  <2>2. CASE n # Len(Initial)
    <3> DEFINE f == Frame("sections", n + 1)
    <3>1. rest = <<f>> \o Tail(stack)
      BY <2>2
    <3>2. f \in Frames /\ f.do = "sections" /\ f.of = n + 1
      BY <1>1 DEF Frame, Frames
    <3> HIDE DEF rest, f
    <3>3. rest = <<f>>
      <4>1. rest = <<f>> \o <<>>
        BY <1>2, <3>1
      <4> QED  BY <3>2, <4>1
    <3>4. rest \in Seq(Frames) /\ LoopOf(rest) = Len(Initial) + 1 - (n + 1) /\ AtBottom(rest)
      BY <3>2, <3>3 DEF LoopOf, AtBottom
    <3> HIDE DEF n
    <3> QED  BY <1>1, <1>2, <3>4, ReaderParameters
  <2> QED  BY <2>1, <2>2
<1>4. r \in Requests /\ UNCHANGED <<epoch, booted, closed, calls>>
  BY <1>1, SectionsAreStreams DEF AskSection
<1>5. Next
  BY DEF Next, RunOn
<1>6. calls \in Nat /\ AskedFor(calls) \in Nat /\ StartLeft' = StartLeft
  BY <1>4, CallsAreCounted DEF StartLeft
<1>7. Enqueue(r, FALSE, rest) \/ (stack' = rest /\ UNCHANGED <<jobs, busyKeys>>)
  BY DEF AskSection
<1> HIDE DEF n, r, rest
<1>8. CASE Enqueue(r, FALSE, rest)
  <2>1. /\ count' = count + 1 /\ AtBottom(stack') /\ LoopOf(stack') = LoopOf(rest)
        /\ \A k \in Reads : job'[k] # None /\ job'[k].phase = "resuming" => job'[k].boot
        /\ \A k \in Reads : Booting(k)' => Booting(k)
    BY <1>3, <1>4, <1>8, OneMoreRead
  <2>2. ReadLeft' \in {0, ReadLeft}
    BY <2>1 DEF ReadLeft
  <2>3. count' + StartLeft' + LoopOf(stack') + ReadLeft' <= AskedFor(calls')
    BY <1>3, <1>4, <1>5, <1>6, <2>1, <2>2, Sizes DEF Accounted
  <2> QED  BY <1>4, <2>1, <2>3 DEF Accounted
<1>9. CASE stack' = rest /\ UNCHANGED <<jobs, busyKeys>>
  <2>1. \A k \in Reads : (Booting(k)' <=> Booting(k)) /\ job'[k] = job[k]
    BY <1>4, <1>9 DEF Booting, Dead, jobs
  <2>2. ReadLeft' = ReadLeft
    BY <2>1 DEF ReadLeft
  <2>3. LoopOf(stack') + ReadLeft' <= LoopOf(stack) + ReadLeft
    BY <1>3, <1>5, <1>9, <2>2, Sizes
  <2> QED  BY <1>3, <1>4, <1>5, <1>9, <2>1, <2>3, AccountKept DEF Accounted, jobs
<1> QED  BY <1>7, <1>8, <1>9

\* The read of a start() takes the place of what that start() might ask for.
LEMMA StartKeepsAccount ==
  ASSUME IInv, Accounted, Start \/ StartAfterReset
  PROVE  Accounted'
<1>1. PICK rest \in Seq(Frames) : Boot(rest) /\ AtBottom(rest) /\ LoopOf(rest) \in {0, LoopOf(stack)}
  <2>1. stack \in Seq(Frames) /\ AtBottom(stack)
    BY DEF IInv, Typed, Accounted
  <2>2. CASE Start
    BY <2>1, <2>2 DEF Start
  <2>3. CASE StartAfterReset
    <3>1. stack # <<>> /\ Tail(stack) \in Seq(Frames)
      BY <2>1, <2>3 DEF StartAfterReset, Running
    <3> QED  BY <2>1, <2>3, <3>1, BottomAfter DEF StartAfterReset
  <2> QED  BY <2>2, <2>3
<1>2. UNCHANGED <<epoch, closed>> /\ calls' = calls /\ booted' = (booted \/ ~ closed) /\ First(Question) \in Requests
      /\ booted' \in BOOLEAN
  BY <1>1, RequestsNameStreams DEF Boot, Start, StartAfterReset, Streams, Accounted, IInv, Typed
<1>3. Next
  BY DEF Next, Interface, RunOn
<1>4. AskedFor(calls) \in Nat /\ AskedFor(calls') = AskedFor(calls)
  BY <1>2, CallsAreCounted
<1>sum. count + StartLeft + LoopOf(stack) + ReadLeft <= AskedFor(calls)
  BY DEF Accounted
<1>5. CASE ~ closed /\ ~ booted /\ Enqueue(First(Question), TRUE, rest)
  <2>1. Queued = {} /\ \A q \in Requests : active[q] = None
    BY <1>5 DEF IInv, QuestionFirst
  <2>2. ASSUME NEW k \in Reads PROVE ~ Booting(k)
    <3>1. Booting(k) => k \in Queued \/ AtWork(k)
      BY DEF Booting, AtWork, Queued
    <3>2. AtWork(k) => active[job[k].request] = k /\ job[k].request \in Requests /\ k # None
      BY ReadsAreNumbers DEF IInv, SlotsOwned, AtWork, Typed, Jobs
    <3> QED  BY <2>1, <3>1, <3>2
  <2>3. /\ count' = count + 1 /\ AtBottom(stack') /\ LoopOf(stack') = LoopOf(rest)
        /\ \A k \in Reads : job'[k] # None /\ job'[k].phase = "resuming" => job'[k].boot
        /\ \A k \in Reads : Booting(k)' => Booting(k) \/ k = count + 1
    BY <1>1, <1>2, <1>5, OneMoreRead
  <2>4. StartLeft = 1 + Len(Initial) /\ StartLeft' = 0
    BY <1>2, <1>5 DEF StartLeft
  <2>5. count' + StartLeft' + LoopOf(stack') + ReadLeft' <= AskedFor(calls')
    <3>1. LoopOf(stack') \in {0, LoopOf(stack)}
      BY <1>1, <2>3
    <3>2. /\ count \in Nat /\ Len(Initial) \in Nat /\ LoopOf(stack) \in Nat
          /\ ReadLeft \in {0, Len(Initial)} /\ ReadLeft' \in {0, Len(Initial)}
      BY <1>3, Sizes
    <3> QED  BY <1>4, <1>sum, <2>3, <2>4, <3>1, <3>2
  <2>6. \A j, k \in Reads : Booting(j)' /\ Booting(k)' => j = k
    BY <2>2, <2>3
  <2> QED  BY <1>2, <2>3, <2>5, <2>6 DEF Accounted
<1>6. CASE stack' = rest /\ UNCHANGED <<jobs, busyKeys>>
  <2>1. \A k \in Reads : (Booting(k)' <=> Booting(k)) /\ job'[k] = job[k]
    BY <1>2, <1>6 DEF Booting, Dead, jobs
  <2>2. ReadLeft' = ReadLeft /\ StartLeft' \in {0, StartLeft}
    BY <1>2, <2>1 DEF ReadLeft, StartLeft
  <2>3. count' = count
    BY <1>6 DEF jobs
  <2>4. count' + StartLeft' + LoopOf(stack') + ReadLeft' <= AskedFor(calls')
    <3>1. LoopOf(stack') \in {0, LoopOf(stack)}
      BY <1>1, <1>6
    <3> QED  BY <1>3, <1>4, <1>sum, <2>2, <2>3, <3>1, Sizes
  <2> QED  BY <1>1, <1>2, <1>6, <2>1, <2>4 DEF Accounted
<1> QED  BY <1>1, <1>5, <1>6 DEF Boot

\* Everything is cancelled: no read of start() is at work any more.
LEMMA CancelKeepsAccount ==
  ASSUME IInv, Accounted, (\E j \in Reads : SessionLost(j)) \/ Dispose \/ \E s \in Scopes : Reset(s)
  PROVE  Accounted'
<1>1. /\ Cancelled \in [Reads -> Jobs \cup {None}] /\ epoch \in Nat
      /\ \A k \in Reads : Cancelled[k] = None <=> job[k] = None
      /\ \A k \in Reads : job[k] # None => /\ Cancelled[k].epoch = job[k].epoch
                                           /\ Cancelled[k].boot = job[k].boot
                                           /\ job[k].phase # "queued" => Cancelled[k].phase = job[k].phase
  BY CancelledFacts, CancelledBoots DEF IInv, Typed
<1>2. \A k \in Reads : job[k] # None /\ job[k].phase = "queued" => Cancelled[k].phase = "done"
  <2> SUFFICES ASSUME NEW k \in Reads, job[k] # None, job[k].phase = "queued" PROVE Cancelled[k].phase = "done"
    OBVIOUS
  <2>1. Cancelled[k] = [job[k] EXCEPT !.phase = "done", !.answer = "false"] /\ job[k] \in Jobs
    BY DEF Cancelled, Queued, IInv, Typed
  <2> QED  BY <2>1 DEF Jobs
<1>3. epoch' = epoch + 1 /\ count' = count
  BY DEF SessionLost, Dispose, Reset, FreeEverything
<1>4. ASSUME NEW k \in Reads, job'[k] # None
      PROVE  job[k] # None /\ job'[k].epoch = job[k].epoch /\ (job'[k].phase = "resuming" => job'[k].boot)
  <2>1. CASE job' = Cancelled
    BY <1>1, <1>2, <1>4, <2>1 DEF Accounted
  <2>2. ASSUME NEW j \in Reads, SessionLost(j), job' = [Cancelled EXCEPT ![j].phase = "rejected"]
        PROVE  job[k] # None /\ job'[k].epoch = job[k].epoch /\ (job'[k].phase = "resuming" => job'[k].boot)
    <3> DEFINE rec == [Cancelled[j] EXCEPT !.phase = "rejected"]
    <3>1. job[j] # None /\ Cancelled[j] \in Jobs
      BY <1>1, <2>2 DEF SessionLost, Idle
    <3>2. rec.epoch = Cancelled[j].epoch /\ rec.phase = "rejected"
      BY <3>1 DEF Jobs
    <3>3. job' = [Cancelled EXCEPT ![j] = rec]
      BY <2>2
    <3> HIDE DEF rec
    <3>4. CASE k = j
      BY <1>1, <3>1, <3>2, <3>3, <3>4
    <3>5. CASE k # j
      <4>1. job'[k] = Cancelled[k]
        BY <1>1, <3>3, <3>5
      <4> QED  BY <1>1, <1>2, <1>4, <4>1 DEF Accounted
    <3> QED  BY <3>4, <3>5
  <2> QED  BY <2>1, <2>2 DEF SessionLost, Dispose, Reset
<1>5. \A k \in Reads : ~ Booting(k)'
  <2>1. \A k \in Reads : job'[k] # None => job'[k].epoch # epoch'
    BY <1>1, <1>3, <1>4 DEF IInv, SentForScope, Typed, Jobs
  <2> QED  BY <2>1 DEF Booting, Dead
<1>6. ReadLeft' = 0
  BY <1>5 DEF ReadLeft
<1>7. [Next]_vars
  BY DEF Next, Interface, Respond
<1>8. /\ count \in Nat /\ Len(Initial) \in Nat /\ LoopOf(stack) \in Nat /\ ReadLeft \in {0, Len(Initial)}
      /\ StartLeft \in {0, 1 + Len(Initial)} /\ StartLeft' \in {0, 1 + Len(Initial)}
  BY <1>7, Sizes
<1>9. count + StartLeft + LoopOf(stack) + ReadLeft <= AskedFor(calls)
  BY DEF Accounted
<1>10. calls \in Nat /\ AskedFor(calls) \in Nat /\ AskedFor(calls + 1) = AskedFor(calls) + 1 + Len(Initial)
  BY CallsAreCounted
<1>11. /\ booted' \in BOOLEAN /\ calls' \in 0..MaxCalls
       /\ AtBottom(stack') /\ LoopOf(stack') \in {0, LoopOf(stack)}
       /\ calls' = calls + 1 \/ (calls' = calls /\ StartLeft' = StartLeft)
  <2>1. booted \in BOOLEAN /\ calls \in 0..MaxCalls /\ AtBottom(stack) /\ stack \in Seq(Frames)
    BY DEF Accounted, IInv, Typed
  <2>2. ASSUME NEW j \in Reads, SessionLost(j)
        PROVE  /\ booted' = booted /\ closed' = closed /\ calls' = calls /\ stack' = <<Frame("publish", 0)>>
    BY <2>2 DEF SessionLost
  <2>3. ASSUME Dispose PROVE booted' = booted /\ calls' = calls + 1 /\ calls' \in 0..MaxCalls /\ stack' = stack
    BY <2>1, <2>3, ReaderParameters DEF Dispose, Called
  <2>4. ASSUME NEW s \in Scopes, Reset(s)
        PROVE  /\ booted' = FALSE /\ calls' = calls + 1 /\ calls' \in 0..MaxCalls
               /\ AtBottom(stack') /\ LoopOf(stack') = LoopOf(stack)
    <3> DEFINE pub == Frame("publish", 0)
               str == Frame("start", 0)
    <3>1. pub \in Frames /\ str \in Frames /\ pub.do # "sections" /\ str.do # "sections"
          /\ stack' = <<pub, str>> \o stack
      BY <2>4 DEF Reset, Frame, Frames
    <3>2. <<str>> \o stack \in Seq(Frames)
      BY <2>1, <3>1
    <3>3. stack' = <<pub>> \o (<<str>> \o stack)
      BY <2>1, <3>1
    <3> HIDE DEF pub, str
    <3>4. AtBottom(<<str>> \o stack) /\ LoopOf(<<str>> \o stack) = LoopOf(stack)
      BY <2>1, <3>1, BottomUnderneath
    <3> DEFINE st == <<str>> \o stack
    <3> HIDE DEF st
    <3>5. AtBottom(<<pub>> \o st) /\ LoopOf(<<pub>> \o st) = LoopOf(st)
      BY <3>1, <3>2, <3>4, BottomUnderneath DEF st
    <3>6. booted' = FALSE /\ calls' = calls + 1 /\ calls' \in 0..MaxCalls
      BY <2>1, <2>4, ReaderParameters DEF Reset, Called
    <3> QED  BY <3>3, <3>4, <3>5, <3>6 DEF st
  <2>5. ASSUME NEW j \in Reads, SessionLost(j) PROVE StartLeft' = StartLeft
    BY <2>2, <2>5 DEF StartLeft
  <2> QED  BY <2>1, <2>2, <2>3, <2>4, <2>5, ShortStacks
<1>12. AskedFor(calls') = AskedFor(calls) + 1 + Len(Initial) \/ (AskedFor(calls') = AskedFor(calls) /\ StartLeft' = StartLeft)
  BY <1>10, <1>11
<1>13. LoopOf(stack') \in Nat /\ LoopOf(stack') <= LoopOf(stack)
  BY <1>8, <1>11
<1>14. count' + StartLeft' + LoopOf(stack') + ReadLeft' <= AskedFor(calls')
  <2>1. count + LoopOf(stack) + StartLeft <= AskedFor(calls) /\ count' + LoopOf(stack') <= count + LoopOf(stack)
    BY <1>3, <1>8, <1>9, <1>10, <1>13
  <2>2. StartLeft \in Nat /\ StartLeft' \in Nat /\ StartLeft' <= 1 + Len(Initial)
    BY <1>8
  <2>3. CASE AskedFor(calls') = AskedFor(calls) /\ StartLeft' = StartLeft
    BY <1>3, <1>6, <1>8, <1>10, <1>13, <2>1, <2>2, <2>3
  <2>4. CASE AskedFor(calls') = AskedFor(calls) + 1 + Len(Initial)
    BY <1>3, <1>6, <1>8, <1>10, <1>13, <2>1, <2>2, <2>4
  <2> QED  BY <1>12, <2>3, <2>4
<1> QED  BY <1>4, <1>5, <1>11, <1>14 DEF Accounted

\* A subscriber or a pump() returns, or nothing happens.
LEMMA ReturnKeepsAccount ==
  ASSUME IInv, Accounted, PublishReturns \/ PumpReturns \/ UNCHANGED vars
  PROVE  Accounted'
<1>1. stack \in Seq(Frames) /\ AtBottom(stack) /\ UNCHANGED <<jobs, epoch, booted, closed, calls>>
  BY DEF PublishReturns, PumpReturns, vars, IInv, Typed, Accounted
<1>2. AtBottom(stack') /\ LoopOf(stack') \in {0, LoopOf(stack)}
  <2>1. CASE PublishReturns \/ PumpReturns
    <3>1. stack # <<>> /\ stack' = Tail(stack)
      BY <2>1 DEF PublishReturns, PumpReturns, Notifying, Running
    <3> QED  BY <1>1, <3>1, BottomAfter
  <2>2. CASE UNCHANGED vars
    BY <1>1, <2>2 DEF vars
  <2> QED  BY <2>1, <2>2
<1>3. \A k \in Reads : (Booting(k)' <=> Booting(k)) /\ job'[k] = job[k]
  BY <1>1 DEF Booting, Dead, jobs
<1>4. ReadLeft' = ReadLeft
  BY <1>3 DEF ReadLeft
<1>5. [Next]_vars
  BY DEF Next, RunOn
<1>6. LoopOf(stack') + ReadLeft' <= LoopOf(stack) + ReadLeft
  BY <1>2, <1>4, <1>5, Sizes
<1>7. count' = count
  BY <1>1 DEF jobs
<1>8. \A k \in Reads : job'[k] # None /\ job'[k].phase = "resuming" => job'[k].boot
  BY <1>3 DEF Accounted
<1> QED  BY <1>1, <1>2, <1>3, <1>5, <1>6, <1>7, <1>8, AccountKept

LEMMA AccountStep == IInv /\ Accounted /\ [Next]_vars => Accounted'
<1> SUFFICES ASSUME IInv, Accounted, [Next]_vars PROVE Accounted'
  OBVIOUS
<1>1. CASE UNCHANGED vars
  BY <1>1, ReturnKeepsAccount
<1>2. CASE Next
  BY <1>2, KindsOfStep, StepKeepsAccount, CancelKeepsAccount, StartKeepsAccount, AskKeepsAccount, ReadKeepsAccount,
     ReturnKeepsAccount
<1> QED  BY <1>1, <1>2

LEMMA AccountInit == Init => Accounted
<1> SUFFICES ASSUME Init PROVE Accounted
  OBVIOUS
<1>1. booted = FALSE /\ closed = FALSE /\ calls = 0 /\ count = 0 /\ stack = <<>> /\ \A j \in Reads : job[j] = None
  BY DEF Init
<1>2. StartLeft = 1 + Len(Initial) /\ LoopOf(stack) = 0 /\ ReadLeft = 0 /\ AtBottom(stack)
  BY <1>1, ShortStacks DEF StartLeft, ReadLeft, Booting
<1>3. Len(Initial) \in Nat /\ AskedFor(0) = 1 + Len(Initial)
  <2>1. Len(Initial) \in Nat
    BY ReaderParameters
  <2>2. (1 + 0) * (1 + Len(Initial)) = 1 + Len(Initial)
    BY <2>1
  <2> QED  BY <2>1, <2>2 DEF AskedFor
<1>4. calls \in 0..MaxCalls
  BY <1>1, ReaderParameters
<1>5. count + StartLeft + LoopOf(stack) + ReadLeft <= AskedFor(calls)
  BY <1>1, <1>2, <1>3
<1> QED  BY <1>1, <1>2, <1>4, <1>5 DEF Accounted, Booting

\* The variables have their types, the number of reads included: a call queues one read,
\* a start() one and its sections, and a cancelled start() asks for none (start 191-202).
THEOREM TypeCorrect == Spec => []TypeOK
<1>1. IInv /\ Accounted => TypeOK
  <2> SUFFICES ASSUME IInv, Accounted PROVE TypeOK
    OBVIOUS
  <2>1. count <= AskedFor(calls) /\ AskedFor(calls) \in Nat /\ count \in Nat
    <3>1. count + StartLeft + LoopOf(stack) + ReadLeft <= AskedFor(calls)
      BY DEF Accounted
    <3>2. LoopOf(stack) \in Nat /\ count \in Nat
      BY LoopSize, ReaderParameters DEF IInv, Typed
    <3>3. StartLeft \in Nat /\ ReadLeft \in Nat
      BY ReaderParameters DEF StartLeft, ReadLeft
    <3>4. AskedFor(calls) \in Nat
      BY CallsAreCounted
    <3> QED  BY <3>1, <3>2, <3>3, <3>4
  <2>2. AskedFor(calls) <= AskedFor(MaxCalls) /\ AskedFor(MaxCalls) \in Nat
    BY AskedForMore, ReaderParameters DEF Accounted
  <2>3. count \in 0..(1 + MaxCalls) * (1 + Len(Initial))
    BY <2>1, <2>2 DEF AskedFor
  <2>4. busyKeys \subseteq Requests
    <3>1. \A j \in Queued : job[j].request \in Requests
      BY DEF IInv, Typed, Jobs, Queued
    <3> QED  BY <3>1 DEF IInv, SlotsOwned
  <2>5. activeStreams \subseteq Streams
    BY RequestsNameStreams DEF IInv, SlotsOwned
  <2> QED  BY <2>3, <2>4, <2>5 DEF IInv, Typed, Accounted, TypeOK
<1> QED
  BY <1>1, AccountInit, AccountStep, InvariantHolds, PTL DEF Spec

\* There is a number for every read that the code queues: what the bound Reads leaves out
\* does not exist, and Enqueue is never kept from being taken by it.
THEOREM EveryReadHasRoom == Spec => []RoomForEveryRead
<1>1. IInv /\ Accounted => RoomForEveryRead
  <2> SUFFICES ASSUME IInv, Accounted, calls < MaxCalls \/ (~ booted /\ ~ closed) \/ Running("sections")
               PROVE  count + 1 \in Reads
    BY DEF RoomForEveryRead
  <2>1. /\ count + StartLeft + LoopOf(stack) + ReadLeft <= AskedFor(calls) /\ calls \in 0..MaxCalls
        /\ stack \in Seq(Frames) /\ WellFormed(stack, job) /\ AtBottom(stack)
    BY DEF IInv, Typed, Accounted
  <2>2. /\ LoopOf(stack) \in Nat /\ count \in Nat /\ StartLeft \in Nat /\ ReadLeft \in Nat /\ Len(Initial) \in Nat
    <3>1. LoopOf(stack) \in Nat /\ count \in Nat
      BY LoopSize, ReaderParameters DEF IInv, Typed
    <3> QED  BY <3>1, ReaderParameters DEF StartLeft, ReadLeft
  <2>3. /\ AskedFor(calls) \in Nat /\ AskedFor(MaxCalls) \in Nat /\ AskedFor(calls) <= AskedFor(MaxCalls)
    <3>1. AskedFor(MaxCalls) \in Nat /\ AskedFor(calls) <= AskedFor(MaxCalls)
      BY <2>1, AskedForMore, ReaderParameters
    <3> QED  BY <3>1, CallsAreCounted
  <2>4. count + 1 <= AskedFor(MaxCalls)
    <3>1. CASE calls < MaxCalls
      <4>1. AskedFor(calls + 1) = AskedFor(calls) + 1 + Len(Initial) /\ calls + 1 \in 0..MaxCalls
        BY <2>1, <3>1, CallsAreCounted, ReaderParameters
      <4>2. AskedFor(calls + 1) <= AskedFor(MaxCalls)
        BY <4>1, AskedForMore
      <4> QED  BY <2>1, <2>2, <2>3, <4>1, <4>2
    <3>2. CASE ~ booted /\ ~ closed
      <4>1. StartLeft = 1 + Len(Initial)
        BY <3>2 DEF StartLeft
      <4> QED  BY <2>1, <2>2, <2>3, <4>1
    <3>3. CASE Running("sections")
      <4>1. stack # <<>> /\ Head(stack).do = "sections" /\ FrameFits(stack, job, 1) /\ Head(stack) = stack[1]
        BY <2>1, <3>3 DEF Running, WellFormed
      <4>2. LoopOf(stack) = Len(Initial) + 1 - Head(stack).of
        BY <2>1, <4>1, BottomAfter
      <4>3. Head(stack).of \in 1..Len(Initial)
        BY <4>1 DEF FrameFits
      <4>4. LoopOf(stack) >= 1
        BY <2>2, <4>2, <4>3
      <4> QED  BY <2>1, <2>2, <2>3, <4>4
    <3> QED  BY <3>1, <3>2, <3>3
  <2> QED  BY <2>2, <2>3, <2>4 DEF Reads, AskedFor
<1> QED
  BY <1>1, AccountInit, AccountStep, InvariantHolds, PTL DEF Spec
=============================================================================
