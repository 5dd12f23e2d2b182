------------------------- MODULE ImportBooksProofs -------------------------
(***************************************************************************)
(* Proofs about ImportBooks: that its variables have their types, and that *)
(* away from the findings an import loses and miscounts nothing, for every *)
(* file, batch size, offset and limit, however often it dies.              *)
(***************************************************************************)
EXTENDS ImportBooks, FiniteSetTheorems, TLAPS

-----------------------------------------------------------------------------
(* Where the findings do not bite. *)

\* So many books fill a number of batches.
FullBatches(n) == \E k \in Nat : n = k * BatchSize

\* A blank line comes only where a batch has just been flushed (finding 1), the
\* file of the checkpoint is used for one import (finding 2), and nobody cancels a
\* task, which waitForTask would not notice.
Plain ==
  /\ \A from \in Offsets, l \in Blank :
       l > from => FullBatches(Cardinality(Books(from, l - 1)))
  /\ MaxFresh = 1
  /\ "canceled" \notin Outcomes

-----------------------------------------------------------------------------
(* The inductive invariant. *)

BlanksIn(a, b) == (a + 1 .. b) \cap Blank

\* Before the import is started there is nothing.
NothingYet ==
  /\ runs.fresh = 0 => /\ phase = "off" /\ checkpoint = None /\ queue = << >>
                       /\ ~ completed
  /\ runs.fresh # 0 => campaign.from \in Offsets

\* A task that deletes the index was asked for before anything was imported.
DeletesComeFirst ==
  \A i \in 1 .. Len(queue) : queue[i].op = "delete" =>
    /\ checkpoint = None
    /\ phase \in {"off", "reset", "configure"}
    /\ ~ completed

\* The task the importer waits for is the only one, and it carries the batch.
OnlyTheBatch ==
  /\ phase = "read" => queue = << >>
  /\ phase = "wait" =>
       \/ queue = << [op |-> "add", lines |-> batch] >>
       \/ queue = << >> /\ (outcome = "succeeded" => batch \subseteq index)

\* Where a run is in the range asked for, and what it has counted.
RunIsTrue ==
  phase # "off" =>
    /\ Target(options.offset, options.limit) = campaign.to
    /\ campaign.from <= line /\ line <= campaign.to
    /\ batch \subseteq Books(campaign.from, line)
    /\ report.imported + Cardinality(batch) = Cardinality(Books(campaign.from, line))
    /\ report.skipped = Cardinality(BlanksIn(campaign.from, line))
    /\ line < campaign.to => FullBatches(report.imported)

\* What has been flushed is in the index, or will be before the batch is read.
FlushedIsIndexed ==
  /\ phase \in {"reset", "configure"} =>
       /\ batch = {}
       /\ checkpoint = None => line = campaign.from
  /\ phase # "off" => Books(campaign.from, line) \ batch \subseteq index

\* Before the end of the range only full batches are flushed.
BatchIsFilled ==
  /\ phase = "read" => Cardinality(batch) < BatchSize
  /\ phase = "wait" /\ line < campaign.to => Cardinality(batch) = BatchSize

\* The checkpoint describes a prefix of the range, all of it in the index.
CheckpointIsTrue ==
  checkpoint # None =>
    /\ Target(checkpoint.offset, checkpoint.limit) = campaign.to
    /\ campaign.from <= checkpoint.last /\ checkpoint.last <= campaign.to
    /\ Books(campaign.from, checkpoint.last) \subseteq index
    /\ checkpoint.report.imported = Cardinality(Books(campaign.from, checkpoint.last))
    /\ checkpoint.report.skipped = Cardinality(BlanksIn(campaign.from, checkpoint.last))
    /\ checkpoint.last < campaign.to => FullBatches(checkpoint.report.imported)

\* A completed import has read and flushed the whole range.
CompletionIsTrue ==
  completed =>
    /\ phase = "off"
    /\ line = campaign.to
    /\ Books(campaign.from, campaign.to) \subseteq index
    /\ report.imported = Cardinality(Books(campaign.from, campaign.to))
    /\ report.skipped = Cardinality(BlanksIn(campaign.from, campaign.to))

OutcomeIsKnown == outcome \in {"succeeded", "failed"}

IInv ==
  /\ Plain
  /\ TypeOK
  /\ NothingYet
  /\ DeletesComeFirst
  /\ OnlyTheBatch
  /\ RunIsTrue
  /\ FlushedIsIndexed
  /\ BatchIsFilled
  /\ CheckpointIsTrue
  /\ CompletionIsTrue
  /\ OutcomeIsKnown

-----------------------------------------------------------------------------
(* Lines and numbers. *)

LEMMA TargetType ==
  ASSUME NEW from \in 0 .. N, NEW lim \in Nat \cup {None}
  PROVE  Target(from, lim) \in 0 .. N /\ from <= Target(from, lim)
BY ImportAssumption DEF Target, Min2

\* The lines of a stretch of the file are finitely many.
LEMMA StretchFinite ==
  ASSUME NEW a \in Nat, NEW b \in Nat
  PROVE  /\ IsFiniteSet(Books(a, b)) /\ Cardinality(Books(a, b)) \in Nat
         /\ IsFiniteSet(BlanksIn(a, b)) /\ Cardinality(BlanksIn(a, b)) \in Nat
<1>1. IsFiniteSet(a + 1 .. b)
  BY FS_Interval
<1>2. IsFiniteSet(Books(a, b)) /\ IsFiniteSet(BlanksIn(a, b))
  BY <1>1, FS_Subset DEF Books, BlanksIn
<1> QED  BY <1>2, FS_CardinalityType

LEMMA EmptyStretch ==
  ASSUME NEW a \in Nat
  PROVE  /\ Books(a, a) = {} /\ Cardinality(Books(a, a)) = 0
         /\ BlanksIn(a, a) = {} /\ Cardinality(BlanksIn(a, a)) = 0
BY FS_EmptySet DEF Books, BlanksIn

\* One line more is one book more ...
LEMMA OneBookMore ==
  ASSUME NEW a \in Nat, NEW b \in Nat, a <= b, b + 1 \notin Blank
  PROVE  /\ Books(a, b + 1) = Books(a, b) \cup {b + 1}
         /\ b + 1 \notin Books(a, b)
         /\ Cardinality(Books(a, b + 1)) = Cardinality(Books(a, b)) + 1
         /\ BlanksIn(a, b + 1) = BlanksIn(a, b)
<1>1. /\ Books(a, b + 1) = Books(a, b) \cup {b + 1}
      /\ b + 1 \notin Books(a, b)
      /\ BlanksIn(a, b + 1) = BlanksIn(a, b)
  BY DEF Books, BlanksIn
<1> QED  BY <1>1, StretchFinite, FS_AddElement

\* ... or one blank line more.
LEMMA OneBlankMore ==
  ASSUME NEW a \in Nat, NEW b \in Nat, a <= b, b + 1 \in Blank
  PROVE  /\ Books(a, b + 1) = Books(a, b)
         /\ Cardinality(BlanksIn(a, b + 1)) = Cardinality(BlanksIn(a, b)) + 1
<1>1. /\ Books(a, b + 1) = Books(a, b)
      /\ BlanksIn(a, b + 1) = BlanksIn(a, b) \cup {b + 1}
      /\ b + 1 \notin BlanksIn(a, b)
  BY DEF Books, BlanksIn
<1> QED  BY <1>1, StretchFinite, FS_AddElement

LEMMA OneBatchMore ==
  ASSUME NEW n \in Nat, FullBatches(n)
  PROVE  FullBatches(n + BatchSize)
<1>1. PICK k \in Nat : n = k * BatchSize
  BY DEF FullBatches
<1>2. n + BatchSize = (k + 1) * BatchSize
  BY <1>1, ImportAssumption
<1> QED  BY <1>2 DEF FullBatches

\* What is left over between full batches is nothing.
LEMMA NothingLeftOver ==
  ASSUME NEW n \in Nat, NEW rest \in Nat, rest < BatchSize,
         FullBatches(n), FullBatches(n + rest)
  PROVE  rest = 0
<1>1. PICK k \in Nat : n = k * BatchSize
  BY DEF FullBatches
<1>2. PICK m \in Nat : n + rest = m * BatchSize
  BY DEF FullBatches
<1>b. BatchSize \in Nat /\ BatchSize > 0
  BY ImportAssumption
<1>3. CASE m <= k
  <2>1. PICK d \in Nat : k = m + d
    <3>1. k - m \in Nat /\ k = m + (k - m)
      BY <1>3
    <3> QED  BY <3>1
  <2>2. k * BatchSize = m * BatchSize + d * BatchSize
    BY <2>1, <1>b
  <2>3. d * BatchSize \in Nat
    BY <1>b
  <2> QED  BY <1>1, <1>2, <1>b, <2>2, <2>3
<1>4. CASE m > k
  <2>1. PICK d \in Nat : m = k + 1 + d
    <3>1. m - k - 1 \in Nat /\ m = k + 1 + (m - k - 1)
      BY <1>4
    <3> QED  BY <3>1
  <2>2. m * BatchSize = k * BatchSize + BatchSize + d * BatchSize
    BY <2>1, <1>b
  <2>3. d * BatchSize \in Nat
    BY <1>b
  <2> QED  BY <1>1, <1>2, <1>b, <2>2, <2>3
<1> QED  BY <1>3, <1>4

LEMMA ZeroIsFull == FullBatches(0)
<1>1. 0 = 0 * BatchSize
  BY ImportAssumption
<1> QED  BY <1>1 DEF FullBatches

-----------------------------------------------------------------------------
(* Types. *)

LEMMA BatchFinite ==
  ASSUME TypeOK
  PROVE  IsFiniteSet(batch) /\ Cardinality(batch) \in Nat
<1>1. batch \subseteq 1 .. N /\ N \in Nat
  BY ImportAssumption DEF TypeOK
<1>2. IsFiniteSet(1 .. N)
  BY <1>1, FS_Interval
<1> QED  BY <1>1, <1>2, FS_Subset, FS_CardinalityType

LEMMA TypeInit == Init => TypeOK
<1> SUFFICES ASSUME Init PROVE TypeOK
  OBVIOUS
<1>1. options \in [offset : 0 .. N, limit : Nat \cup {None}] /\ line \in 0 .. N
  BY ImportAssumption DEF Init
<1>2. campaign \in [from : 0 .. N, to : 0 .. N] /\ runs \in [fresh : 0 .. MaxFresh, all : 0 .. MaxRuns]
  BY ImportAssumption DEF Init
<1>3. queue \in Seq(Tasks)
  BY DEF Init
<1> QED  BY <1>1, <1>2, <1>3 DEF Init, TypeOK, Phases

\* What goes into the queue are tasks.
LEMMA TaskTypes ==
  /\ \A b \in SUBSET (1 .. N) : [op |-> "add", lines |-> b] \in Tasks
  /\ [op |-> "delete"] \in Tasks
  /\ [op |-> "settings"] \in Tasks
BY DEF Tasks

LEMMA TypeStep == TypeOK /\ [Next]_vars => TypeOK'
<1> SUFFICES ASSUME TypeOK, [Next]_vars PROVE TypeOK'
  OBVIOUS
<1> USE ImportAssumption, TaskTypes
<1>1. ASSUME NEW from \in Offsets, NEW lim \in Limits, NEW reset \in BOOLEAN,
             StartFresh(from, lim, reset)
      PROVE  TypeOK'
  <2>1. Target(from, lim) \in 0 .. N
    BY TargetType
  <2>2. options' \in [offset : 0 .. N, limit : Nat \cup {None}] /\ line' \in 0 .. N
    BY <1>1 DEF StartFresh
  <2>3. runs' \in [fresh : 0 .. MaxFresh, all : 0 .. MaxRuns]
    BY <1>1 DEF StartFresh, CountRun, TypeOK
  <2>4. campaign' \in [from : 0 .. N, to : 0 .. N]
    BY <1>1, <2>1, <2>2 DEF StartFresh
  <2>5. queue' \in Seq(Tasks)
    BY <1>1 DEF StartFresh, TypeOK
  <2>6. phase' \in Phases
    BY <1>1 DEF StartFresh, Phases
  <2> QED  BY <1>1, <2>2, <2>3, <2>4, <2>5, <2>6 DEF StartFresh, TypeOK
<1>2. CASE Resume
  <2>1. RemainingLimit(checkpoint) \in Nat \cup {None}
    BY <1>2 DEF Resume, RemainingLimit, TypeOK, Checkpoints
  <2>c. checkpoint \in Checkpoints
    BY <1>2 DEF Resume, TypeOK
  <2>2. options' \in [offset : 0 .. N, limit : Nat \cup {None}] /\ line' \in 0 .. N
    BY <1>2, <2>1, <2>c DEF Resume, Checkpoints
  <2>3. runs' \in [fresh : 0 .. MaxFresh, all : 0 .. MaxRuns]
    BY <1>2 DEF Resume, CountRun, TypeOK
  <2>4. report' \in [imported : Nat, skipped : Nat]
    BY <1>2, <2>c DEF Resume, Checkpoints
  <2>5. queue' \in Seq(Tasks)
    BY <1>2 DEF Resume, TypeOK
  <2> QED  BY <1>2, <2>2, <2>3, <2>4, <2>5 DEF Resume, TypeOK, Phases
<1>3. CASE ResetDone
  BY <1>3 DEF ResetDone, TypeOK, Phases
<1>4. CASE Configured
  BY <1>4 DEF Configured, TypeOK, Phases
<1>5. CASE SkipBlankLine
  <2>1. Target(options.offset, options.limit) \in 0 .. N
    BY TargetType DEF TypeOK
  <2>2. line + 1 \in 0 .. N
    BY <1>5, <2>1 DEF SkipBlankLine, MoreLines, TypeOK
  <2>3. report' \in [imported : Nat, skipped : Nat]
    BY <1>5 DEF SkipBlankLine, TypeOK
  <2>4. checkpoint' \in Checkpoints
    BY <1>5, <2>2, <2>3 DEF SkipBlankLine, Checkpoint, Checkpoints, TypeOK
  <2> QED  BY <1>5, <2>2, <2>3, <2>4 DEF SkipBlankLine, TypeOK
<1>6. CASE ReadBook
  <2>1. Target(options.offset, options.limit) \in 0 .. N
    BY TargetType DEF TypeOK
  <2>2. line + 1 \in 1 .. N
    BY <1>6, <2>1 DEF ReadBook, MoreLines, TypeOK
  <2>3. batch' \in SUBSET (1 .. N)
    BY <1>6, <2>2 DEF ReadBook, TypeOK
  <2>t. queue \in Seq(Tasks) /\ phase \in Phases
    BY DEF TypeOK
  <2>m. /\ queue' = Append(queue, [op |-> "add", lines |-> batch']) \/ queue' = queue
        /\ phase' = "wait" \/ phase' = phase
    BY <1>6 DEF ReadBook, EnqueueBatch
  <2>4. queue' \in Seq(Tasks) /\ phase' \in Phases
    BY <2>t, <2>m, <2>3 DEF Phases
  <2> QED  BY <1>6, <2>2, <2>3, <2>4 DEF ReadBook, TypeOK
<1>7. CASE FlushLastBatch
  BY <1>7 DEF FlushLastBatch, EnqueueBatch, TypeOK, Phases
<1>8. CASE FlushDone
  <2>1. [report EXCEPT !.imported = @ + Cardinality(batch)] \in [imported : Nat, skipped : Nat]
    BY BatchFinite DEF TypeOK
  <2>2. report' \in [imported : Nat, skipped : Nat]
    BY <1>8, <2>1 DEF FlushDone, TypeOK
  <2>3. checkpoint' \in Checkpoints \cup {None}
    BY <1>8, <2>2 DEF FlushDone, Checkpoint, Checkpoints, TypeOK
  <2> QED  BY <1>8, <2>2, <2>3 DEF FlushDone, TypeOK, Phases
<1>9. CASE Finish
  <2>1. checkpoint' \in Checkpoints
    BY <1>9 DEF Finish, Checkpoint, Checkpoints, TypeOK
  <2> QED  BY <1>9, <2>1 DEF Finish, TypeOK, Phases
<1>10. CASE Die
  BY <1>10 DEF Die, TypeOK, Phases
<1>11. CASE ExecuteTask
  <2>1. Head(queue) \in Tasks /\ Tail(queue) \in Seq(Tasks)
    BY <1>11 DEF ExecuteTask, TypeOK
  <2>2. Head(queue).op = "add" => Head(queue).lines \subseteq 1 .. N
    BY <2>1 DEF Tasks
  <2>3. index' \subseteq 1 .. N
    BY <1>11, <2>2 DEF ExecuteTask, TypeOK
  <2> QED  BY <1>11, <2>1, <2>3 DEF ExecuteTask, TypeOK
<1>12. CASE UNCHANGED vars
  BY <1>12 DEF vars, TypeOK
<1> QED  BY <1>1, <1>2, <1>3, <1>4, <1>5, <1>6, <1>7, <1>8, <1>9, <1>10, <1>11, <1>12 DEF Next

\* The variables keep their types, whatever the importer and Meilisearch do.
THEOREM TypeCorrect == Spec => []TypeOK
BY TypeInit, TypeStep, PTL DEF Spec

-----------------------------------------------------------------------------
(* The invariant holds at the start and is kept by every action. *)

LEMMA InitHolds == Plain /\ Init => IInv
<1> SUFFICES ASSUME Plain, Init PROVE IInv
  OBVIOUS
<1>1. TypeOK
  BY TypeInit
<1>2. NothingYet /\ DeletesComeFirst /\ OnlyTheBatch /\ RunIsTrue /\ FlushedIsIndexed
      /\ BatchIsFilled /\ CheckpointIsTrue /\ CompletionIsTrue /\ OutcomeIsKnown
  BY DEF Init, NothingYet, DeletesComeFirst, OnlyTheBatch, RunIsTrue, FlushedIsIndexed,
         BatchIsFilled, CheckpointIsTrue, CompletionIsTrue, OutcomeIsKnown
<1> QED  BY <1>1, <1>2 DEF IInv

\* The numbers of the present state, for the solvers.
LEMMA Numbers ==
  ASSUME TypeOK
  PROVE  /\ line \in Nat /\ campaign.from \in Nat /\ campaign.to \in Nat /\ campaign.to <= N
         /\ report.imported \in Nat /\ report.skipped \in Nat
         /\ checkpoint # None => /\ checkpoint.last \in 0 .. N
                                 /\ checkpoint.offset \in 0 .. N
                                 /\ checkpoint.limit \in Nat \cup {None}
                                 /\ checkpoint.report.imported \in Nat
                                 /\ checkpoint.report.skipped \in Nat
                                 /\ checkpoint.report \in [imported : Nat, skipped : Nat]
BY ImportAssumption DEF TypeOK, Checkpoints

\* The import is started once, with nothing there.
LEMMA StartFreshKeepsIInv ==
  ASSUME NEW from \in Offsets, NEW lim \in Limits, NEW reset \in BOOLEAN,
         IInv, TypeOK', StartFresh(from, lim, reset)
  PROVE  IInv'
<1>1. TypeOK /\ Plain /\ NothingYet
  BY DEF IInv
<1>2. runs.fresh = 0 /\ runs'.fresh = 1
  BY <1>1 DEF StartFresh, CountRun, Plain, TypeOK
<1>3. phase = "off" /\ checkpoint = None /\ queue = << >>
  BY <1>1, <1>2 DEF NothingYet
<1>4. campaign' = [from |-> from, to |-> Target(from, lim)] /\ line' = from /\ batch' = {}
      /\ report' = [imported |-> 0, skipped |-> 0] /\ checkpoint' = None /\ completed' = FALSE
      /\ phase' \in {"reset", "configure"} /\ options' = [offset |-> from, limit |-> lim]
      /\ outcome' = outcome
  BY <1>3 DEF StartFresh
<1>5. from \in 0 .. N /\ lim \in Nat \cup {None} /\ from \in Nat
  BY ImportAssumption
<1>6. Target(from, lim) \in 0 .. N /\ from <= Target(from, lim)
  BY <1>5, TargetType
<1>7. NothingYet' /\ DeletesComeFirst' /\ OnlyTheBatch'
  BY <1>2, <1>4 DEF NothingYet, DeletesComeFirst, OnlyTheBatch
<1>8. Cardinality({}) = 0 /\ Books(from, from) = {} /\ Cardinality(Books(from, from)) = 0
      /\ Cardinality(BlanksIn(from, from)) = 0
  BY <1>5, EmptyStretch, FS_EmptySet
<1>9. RunIsTrue'
  BY <1>4, <1>5, <1>6, <1>8, ZeroIsFull DEF RunIsTrue
<1>10. FlushedIsIndexed'
  BY <1>4, <1>8 DEF FlushedIsIndexed
<1>11. BatchIsFilled' /\ CheckpointIsTrue' /\ CompletionIsTrue'
  BY <1>4 DEF BatchIsFilled, CheckpointIsTrue, CompletionIsTrue
<1>12. OutcomeIsKnown'
  BY <1>4 DEF IInv, OutcomeIsKnown
<1>13. Plain'
  BY <1>1 DEF Plain
<1> QED  BY <1>7, <1>9, <1>10, <1>11, <1>12, <1>13 DEF IInv

\* What remains of a limit ends where the limit would have.
LEMMA RemainingEndsThere ==
  ASSUME NEW c \in Checkpoints, c.last <= Target(c.offset, c.limit)
  PROVE  Target(c.last, RemainingLimit(c)) = Target(c.offset, c.limit)
<1>1. c.last \in 0 .. N /\ c.offset \in 0 .. N /\ c.limit \in Nat \cup {None}
  BY DEF Checkpoints
<1>2. CASE c.limit = None
  BY <1>2 DEF Target, RemainingLimit
<1>3. CASE c.limit # None
  <2>1. c.limit \in Nat /\ RemainingLimit(c) # None /\ RemainingLimit(c) \in Nat
    BY <1>1, <1>3, ImportAssumption DEF RemainingLimit
  <2>2. Target(c.offset, c.limit) = Min2(N, c.offset + c.limit)
    BY <1>3 DEF Target
  <2>3. Target(c.last, RemainingLimit(c)) = Min2(N, c.last + RemainingLimit(c))
    BY <2>1 DEF Target
  <2>4. CASE c.offset + c.limit > c.last
    <3>1. c.last + RemainingLimit(c) = c.offset + c.limit
      BY <1>1, <1>3, <2>1, <2>4 DEF RemainingLimit
    <3> QED  BY <2>2, <2>3, <3>1
  <2>5. CASE ~ (c.offset + c.limit > c.last)
    <3>1. RemainingLimit(c) = 0
      BY <1>3, <2>5 DEF RemainingLimit
    <3> QED  BY <1>1, <2>1, <2>2, <2>3, <2>5, <3>1, ImportAssumption DEF Min2
  <2> QED  BY <2>4, <2>5
<1> QED  BY <1>2, <1>3

\* A resumption starts where the checkpoint stands, with its figures.
LEMMA ResumeKeepsIInv ==
  ASSUME IInv, TypeOK', Resume
  PROVE  IInv'
<1>1. TypeOK /\ Plain /\ NothingYet /\ DeletesComeFirst /\ CheckpointIsTrue /\ OutcomeIsKnown
  BY DEF IInv
<1>2. checkpoint # None /\ runs.fresh # 0 /\ runs'.fresh = runs.fresh
  BY <1>1 DEF Resume, CountRun, NothingYet
<1>3. /\ checkpoint \in Checkpoints /\ checkpoint.last \in Nat
      /\ campaign.from \in Nat /\ campaign.to \in Nat
      /\ checkpoint.report \in [imported : Nat, skipped : Nat]
  <2>1. checkpoint \in Checkpoints
    BY <1>1, <1>2 DEF TypeOK
  <2>2. checkpoint.last \in 0 .. N /\ checkpoint.report \in [imported : Nat, skipped : Nat]
    BY <2>1 DEF Checkpoints
  <2>3. campaign.from \in 0 .. N /\ campaign.to \in 0 .. N
    BY <1>1 DEF TypeOK
  <2> QED  BY <2>1, <2>2, <2>3, ImportAssumption
<1>4. Target(checkpoint.last, RemainingLimit(checkpoint)) = campaign.to
  BY <1>1, <1>2, <1>3, RemainingEndsThere DEF CheckpointIsTrue
<1>5. /\ options' = [offset |-> checkpoint.last, limit |-> RemainingLimit(checkpoint)]
      /\ line' = checkpoint.last /\ report' = checkpoint.report /\ batch' = {}
      /\ completed' = FALSE /\ phase' = "configure"
      /\ UNCHANGED <<checkpoint, outcome, index, campaign>>
      /\ queue' = Append(queue, [op |-> "settings"])
  BY DEF Resume
<1>6. NothingYet'
  BY <1>1, <1>2, <1>5 DEF NothingYet
<1>7. DeletesComeFirst'
  <2> SUFFICES ASSUME NEW i \in 1 .. Len(queue'), queue'[i].op = "delete" PROVE FALSE
    BY DEF DeletesComeFirst
  <2>1. queue \in Seq(Tasks)
    BY <1>1 DEF TypeOK
  <2>2. CASE i \in 1 .. Len(queue)
    <3>1. queue'[i] = queue[i]
      BY <1>5, <2>1, <2>2
    <3> QED  BY <1>1, <1>2, <2>2, <3>1 DEF DeletesComeFirst
  <2>3. CASE i = Len(queue) + 1
    <3>1. queue'[i] = [op |-> "settings"]
      BY <1>5, <2>1, <2>3
    <3> QED  BY <3>1
  <2> QED  BY <1>5, <2>1, <2>2, <2>3
<1>8. Cardinality({}) = 0
  BY FS_EmptySet
<1>9. RunIsTrue'
  BY <1>1, <1>2, <1>3, <1>4, <1>5, <1>8 DEF RunIsTrue, CheckpointIsTrue
<1>10. FlushedIsIndexed'
  BY <1>1, <1>2, <1>5 DEF FlushedIsIndexed, CheckpointIsTrue
<1>11. OnlyTheBatch' /\ BatchIsFilled' /\ CompletionIsTrue' /\ OutcomeIsKnown'
  BY <1>1, <1>5 DEF OnlyTheBatch, BatchIsFilled, CompletionIsTrue, OutcomeIsKnown
<1>12. CheckpointIsTrue'
  BY <1>1, <1>5 DEF CheckpointIsTrue
<1>13. Plain'
  BY <1>1 DEF Plain
<1> QED  BY <1>6, <1>7, <1>9, <1>10, <1>11, <1>12, <1>13 DEF IInv

\* The deletion is over, the settings are asked for.
LEMMA ResetDoneKeepsIInv ==
  ASSUME IInv, TypeOK', ResetDone
  PROVE  IInv'
<1>1. TypeOK /\ Plain /\ NothingYet /\ DeletesComeFirst /\ RunIsTrue /\ FlushedIsIndexed
      /\ CheckpointIsTrue /\ CompletionIsTrue /\ OutcomeIsKnown
  BY DEF IInv
<1>2. /\ phase = "reset" /\ phase' = "configure"
      /\ queue' = Append(queue, [op |-> "settings"])
      /\ UNCHANGED <<options, line, batch, report, checkpoint, outcome, index,
                     campaign, completed, runs>>
  BY DEF ResetDone
<1>3. DeletesComeFirst'
  <2> SUFFICES ASSUME NEW i \in 1 .. Len(queue'), queue'[i].op = "delete"
               PROVE  checkpoint = None /\ ~ completed
    BY <1>2 DEF DeletesComeFirst
  <2>1. queue \in Seq(Tasks)
    BY <1>1 DEF TypeOK
  <2>2. CASE i \in 1 .. Len(queue)
    <3>1. queue'[i] = queue[i]
      BY <1>2, <2>1, <2>2
    <3> QED  BY <1>1, <2>2, <3>1 DEF DeletesComeFirst
  <2>3. CASE i = Len(queue) + 1
    <3>1. queue'[i] = [op |-> "settings"]
      BY <1>2, <2>1, <2>3
    <3> QED  BY <3>1
  <2> QED  BY <1>2, <2>1, <2>2, <2>3
<1>4. NothingYet' /\ OnlyTheBatch' /\ BatchIsFilled' /\ OutcomeIsKnown'
  BY <1>1, <1>2 DEF NothingYet, OnlyTheBatch, BatchIsFilled, OutcomeIsKnown
<1>5. RunIsTrue' /\ FlushedIsIndexed'
  BY <1>1, <1>2 DEF RunIsTrue, FlushedIsIndexed
<1>6. CheckpointIsTrue' /\ CompletionIsTrue'
  BY <1>1, <1>2 DEF CheckpointIsTrue, CompletionIsTrue
<1>7. Plain'
  BY <1>1 DEF Plain
<1> QED  BY <1>3, <1>4, <1>5, <1>6, <1>7 DEF IInv

\* Reading starts with an empty queue and an empty batch.
LEMMA ConfiguredKeepsIInv ==
  ASSUME IInv, TypeOK', Configured
  PROVE  IInv'
<1>1. TypeOK /\ Plain /\ NothingYet /\ RunIsTrue /\ FlushedIsIndexed
      /\ CheckpointIsTrue /\ CompletionIsTrue /\ OutcomeIsKnown
  BY DEF IInv
<1>2. /\ phase = "configure" /\ queue = << >> /\ phase' \in {"off", "read"} /\ batch = {}
      /\ UNCHANGED <<options, line, batch, report, checkpoint, queue, outcome, index,
                     campaign, completed, runs>>
  BY <1>1 DEF Configured, FlushedIsIndexed
<1>3. DeletesComeFirst' /\ OnlyTheBatch'
  BY <1>2 DEF DeletesComeFirst, OnlyTheBatch
<1>4. BatchIsFilled'
  BY <1>2, FS_EmptySet, ImportAssumption DEF BatchIsFilled
<1>5. NothingYet' /\ OutcomeIsKnown'
  BY <1>1, <1>2 DEF NothingYet, OutcomeIsKnown
<1>6. RunIsTrue' /\ FlushedIsIndexed'
  BY <1>1, <1>2 DEF RunIsTrue, FlushedIsIndexed
<1>7. CheckpointIsTrue' /\ CompletionIsTrue'
  BY <1>1, <1>2 DEF CheckpointIsTrue, CompletionIsTrue
<1>8. Plain'
  BY <1>1 DEF Plain
<1> QED  BY <1>3, <1>4, <1>5, <1>6, <1>7, <1>8 DEF IInv

\* At a blank line the batch is empty: the checkpoint may move past it.
LEMMA SkipBlankLineKeepsIInv ==
  ASSUME IInv, TypeOK', SkipBlankLine
  PROVE  IInv'
<1>1. TypeOK /\ Plain /\ NothingYet /\ OnlyTheBatch /\ RunIsTrue /\ FlushedIsIndexed
      /\ BatchIsFilled /\ CompletionIsTrue /\ OutcomeIsKnown
  BY DEF IInv
<1>2. /\ phase = "read" /\ queue = << >> /\ line + 1 \in Blank
      /\ line < Target(options.offset, options.limit)
      /\ line' = line + 1 /\ report' = [report EXCEPT !.skipped = @ + 1]
      /\ checkpoint' = Checkpoint(report', line')
      /\ UNCHANGED <<phase, options, batch, queue, outcome, index, campaign, completed, runs>>
  BY <1>1 DEF SkipBlankLine, MoreLines, OnlyTheBatch
<1>3. /\ Target(options.offset, options.limit) = campaign.to
      /\ campaign.from <= line /\ line < campaign.to
      /\ batch \subseteq Books(campaign.from, line)
      /\ report.imported + Cardinality(batch) = Cardinality(Books(campaign.from, line))
      /\ report.skipped = Cardinality(BlanksIn(campaign.from, line))
      /\ FullBatches(report.imported)
      /\ Books(campaign.from, line) \ batch \subseteq index
      /\ Cardinality(batch) < BatchSize
  BY <1>1, <1>2 DEF RunIsTrue, FlushedIsIndexed, BatchIsFilled
<1>4. line \in Nat /\ campaign.from \in Nat /\ campaign.to \in Nat
      /\ report.imported \in Nat /\ report.skipped \in Nat
  BY <1>1, Numbers
<1>5. runs.fresh # 0 /\ campaign.from \in Offsets
  BY <1>1, <1>2 DEF NothingYet
<1>6. batch = {} /\ Cardinality(batch) = 0
  <2>1. FullBatches(Cardinality(Books(campaign.from, (line + 1) - 1)))
    BY <1>1, <1>2, <1>3, <1>4, <1>5 DEF Plain
  <2>2. FullBatches(report.imported + Cardinality(batch))
    BY <2>1, <1>3, <1>4
  <2>3. IsFiniteSet(batch) /\ Cardinality(batch) \in Nat
    BY <1>1, BatchFinite
  <2>4. Cardinality(batch) = 0
    BY <1>3, <1>4, <2>2, <2>3, NothingLeftOver
  <2> QED  BY <2>3, <2>4, FS_EmptySet
<1>7. /\ Books(campaign.from, line + 1) = Books(campaign.from, line)
      /\ Cardinality(BlanksIn(campaign.from, line + 1))
           = Cardinality(BlanksIn(campaign.from, line)) + 1
  BY <1>2, <1>3, <1>4, OneBlankMore
<1>8. /\ report'.imported = report.imported /\ report'.skipped = report.skipped + 1
      /\ line + 1 <= campaign.to /\ campaign.from <= line + 1
  BY <1>1, <1>2, <1>3, <1>4 DEF TypeOK
<1>9. RunIsTrue'
  BY <1>2, <1>3, <1>4, <1>6, <1>7, <1>8 DEF RunIsTrue
<1>10. FlushedIsIndexed'
  BY <1>2, <1>3, <1>7 DEF FlushedIsIndexed
<1>11. checkpoint'.last = line + 1 /\ checkpoint'.offset = options.offset
       /\ checkpoint'.limit = options.limit /\ checkpoint'.report = report'
  BY <1>2 DEF Checkpoint
<1>12. CheckpointIsTrue'
  <2>1. Books(campaign.from, line + 1) \subseteq index
    BY <1>3, <1>6, <1>7
  <2>2. report.imported = Cardinality(Books(campaign.from, line + 1))
    BY <1>3, <1>4, <1>6, <1>7
  <2>3. report.skipped + 1 = Cardinality(BlanksIn(campaign.from, line + 1))
    BY <1>3, <1>7
  <2> QED  BY <1>2, <1>3, <1>8, <1>11, <2>1, <2>2, <2>3 DEF CheckpointIsTrue
<1>13. ~ completed /\ CompletionIsTrue' /\ DeletesComeFirst' /\ OnlyTheBatch'
  BY <1>1, <1>2 DEF CompletionIsTrue, DeletesComeFirst, OnlyTheBatch
<1>14. BatchIsFilled' /\ NothingYet' /\ OutcomeIsKnown'
  BY <1>1, <1>2, <1>3, <1>5 DEF BatchIsFilled, NothingYet, OutcomeIsKnown
<1>15. Plain'
  BY <1>1 DEF Plain
<1> QED  BY <1>9, <1>10, <1>12, <1>13, <1>14, <1>15 DEF IInv

\* A book joins the batch, and a full batch goes to Meilisearch.
LEMMA ReadBookKeepsIInv ==
  ASSUME IInv, TypeOK', ReadBook
  PROVE  IInv'
<1>1. TypeOK /\ Plain /\ NothingYet /\ OnlyTheBatch /\ RunIsTrue /\ FlushedIsIndexed
      /\ BatchIsFilled /\ CheckpointIsTrue /\ CompletionIsTrue /\ OutcomeIsKnown
  BY DEF IInv
<1>2. /\ phase = "read" /\ queue = << >> /\ line + 1 \notin Blank
      /\ line < Target(options.offset, options.limit)
      /\ line' = line + 1 /\ batch' = batch \cup {line + 1}
      /\ UNCHANGED <<options, report, checkpoint, outcome, index, campaign, completed, runs>>
  BY <1>1 DEF ReadBook, MoreLines, OnlyTheBatch
<1>m. \/ /\ Cardinality(batch') >= BatchSize /\ phase' = "wait"
         /\ queue' = Append(queue, [op |-> "add", lines |-> batch'])
      \/ ~ (Cardinality(batch') >= BatchSize) /\ phase' = "read" /\ queue' = << >>
  BY <1>2 DEF ReadBook, EnqueueBatch
<1>3. /\ Target(options.offset, options.limit) = campaign.to
      /\ campaign.from <= line /\ line < campaign.to
      /\ batch \subseteq Books(campaign.from, line)
      /\ report.imported + Cardinality(batch) = Cardinality(Books(campaign.from, line))
      /\ report.skipped = Cardinality(BlanksIn(campaign.from, line))
      /\ FullBatches(report.imported)
      /\ Books(campaign.from, line) \ batch \subseteq index
      /\ Cardinality(batch) < BatchSize
  BY <1>1, <1>2 DEF RunIsTrue, FlushedIsIndexed, BatchIsFilled
<1>4. line \in Nat /\ campaign.from \in Nat /\ campaign.to \in Nat
      /\ report.imported \in Nat /\ report.skipped \in Nat
  BY <1>1, Numbers
<1>5. /\ Books(campaign.from, line + 1) = Books(campaign.from, line) \cup {line + 1}
      /\ line + 1 \notin Books(campaign.from, line)
      /\ Cardinality(Books(campaign.from, line + 1)) = Cardinality(Books(campaign.from, line)) + 1
      /\ BlanksIn(campaign.from, line + 1) = BlanksIn(campaign.from, line)
  BY <1>2, <1>3, <1>4, OneBookMore
<1>6. IsFiniteSet(batch) /\ Cardinality(batch) \in Nat
  BY <1>1, BatchFinite
<1>7. Cardinality(batch') = Cardinality(batch) + 1
  BY <1>2, <1>3, <1>5, <1>6, FS_AddElement
<1>8. RunIsTrue'
  BY <1>2, <1>3, <1>4, <1>5, <1>6, <1>7 DEF RunIsTrue
<1>9. FlushedIsIndexed'
  BY <1>2, <1>m, <1>3, <1>5 DEF FlushedIsIndexed
<1>10. BatchIsFilled'
  BY <1>m, <1>3, <1>6, <1>7, ImportAssumption DEF BatchIsFilled
<1>11. OnlyTheBatch'
  <2>1. Append(queue, [op |-> "add", lines |-> batch']) = << [op |-> "add", lines |-> batch'] >>
    BY <1>2
  <2> QED  BY <1>m, <2>1 DEF OnlyTheBatch
<1>12. DeletesComeFirst'
  <2> SUFFICES ASSUME NEW i \in 1 .. Len(queue'), queue'[i].op = "delete" PROVE FALSE
    BY DEF DeletesComeFirst
  <2>1. queue' = << [op |-> "add", lines |-> batch'] >> \/ queue' = << >>
    BY <1>2, <1>m
  <2> QED  BY <2>1
<1>13. CheckpointIsTrue' /\ CompletionIsTrue'
  BY <1>1, <1>2 DEF CheckpointIsTrue, CompletionIsTrue
<1>14. NothingYet' /\ OutcomeIsKnown'
  BY <1>1, <1>2 DEF NothingYet, OutcomeIsKnown
<1>15. Plain'
  BY <1>1 DEF Plain
<1> QED  BY <1>8, <1>9, <1>10, <1>11, <1>12, <1>13, <1>14, <1>15 DEF IInv

\* The last batch may be a partial one.
LEMMA FlushLastBatchKeepsIInv ==
  ASSUME IInv, TypeOK', FlushLastBatch
  PROVE  IInv'
<1>1. TypeOK /\ Plain /\ NothingYet /\ OnlyTheBatch /\ RunIsTrue /\ FlushedIsIndexed
      /\ CheckpointIsTrue /\ CompletionIsTrue /\ OutcomeIsKnown
  BY DEF IInv
<1>2. /\ phase = "read" /\ queue = << >> /\ phase' = "wait"
      /\ ~ (line < Target(options.offset, options.limit))
      /\ queue' = Append(queue, [op |-> "add", lines |-> batch])
      /\ UNCHANGED <<options, line, batch, report, checkpoint, outcome, index,
                     campaign, completed, runs>>
  BY <1>1 DEF FlushLastBatch, EnqueueBatch, MoreLines, OnlyTheBatch
<1>3. queue' = << [op |-> "add", lines |-> batch'] >>
  BY <1>2
<1>4. OnlyTheBatch' /\ DeletesComeFirst'
  <2>1. \A i \in 1 .. Len(queue') : queue'[i].op # "delete"
    BY <1>3
  <2> QED  BY <1>2, <1>3, <2>1 DEF OnlyTheBatch, DeletesComeFirst
<1>5. RunIsTrue' /\ FlushedIsIndexed'
  BY <1>1, <1>2 DEF RunIsTrue, FlushedIsIndexed
<1>6. BatchIsFilled'
  BY <1>1, <1>2 DEF BatchIsFilled, RunIsTrue
<1>7. CheckpointIsTrue' /\ CompletionIsTrue'
  BY <1>1, <1>2 DEF CheckpointIsTrue, CompletionIsTrue
<1>8. NothingYet' /\ OutcomeIsKnown'
  BY <1>1, <1>2 DEF NothingYet, OutcomeIsKnown
<1>9. Plain'
  BY <1>1 DEF Plain
<1> QED  BY <1>4, <1>5, <1>6, <1>7, <1>8, <1>9 DEF IInv

\* The batch is in the index: the checkpoint may move to the present line.
LEMMA FlushDoneKeepsIInv ==
  ASSUME IInv, TypeOK', FlushDone
  PROVE  IInv'
<1>1. TypeOK /\ Plain /\ NothingYet /\ OnlyTheBatch /\ RunIsTrue /\ FlushedIsIndexed
      /\ BatchIsFilled /\ CheckpointIsTrue /\ CompletionIsTrue /\ OutcomeIsKnown
  BY DEF IInv
<1>2. /\ phase = "wait" /\ queue = << >> /\ batch' = {} /\ ~ completed
      /\ UNCHANGED <<options, line, queue, outcome, index, campaign, completed, runs>>
  BY <1>1 DEF FlushDone, CompletionIsTrue
<1>3. Plain' /\ NothingYet' /\ DeletesComeFirst' /\ CompletionIsTrue' /\ OutcomeIsKnown'
  <2>1. runs.fresh # 0
    BY <1>1, <1>2 DEF NothingYet
  <2> QED  BY <1>1, <1>2, <2>1 DEF Plain, NothingYet, DeletesComeFirst, CompletionIsTrue,
             OutcomeIsKnown
<1>4. CASE outcome = "failed"
  <2>1. phase' = "off" /\ UNCHANGED <<report, checkpoint>>
    BY <1>4 DEF FlushDone
  <2>2. OnlyTheBatch' /\ RunIsTrue' /\ FlushedIsIndexed' /\ BatchIsFilled'
    BY <2>1 DEF OnlyTheBatch, RunIsTrue, FlushedIsIndexed, BatchIsFilled
  <2>3. CheckpointIsTrue'
    BY <1>1, <1>2, <2>1 DEF CheckpointIsTrue
  <2> QED  BY <1>3, <2>2, <2>3 DEF IInv
<1>5. CASE outcome # "failed"
  <2>1. /\ phase' = "read"
        /\ report' = [report EXCEPT !.imported = @ + Cardinality(batch)]
        /\ checkpoint' = Checkpoint(report', line)
    BY <1>5 DEF FlushDone
  <2>2. batch \subseteq index
    BY <1>1, <1>2, <1>5 DEF OutcomeIsKnown, OnlyTheBatch
  <2>3. /\ Target(options.offset, options.limit) = campaign.to
        /\ campaign.from <= line /\ line <= campaign.to
        /\ batch \subseteq Books(campaign.from, line)
        /\ report.imported + Cardinality(batch) = Cardinality(Books(campaign.from, line))
        /\ report.skipped = Cardinality(BlanksIn(campaign.from, line))
        /\ line < campaign.to => FullBatches(report.imported)
        /\ Books(campaign.from, line) \ batch \subseteq index
        /\ line < campaign.to => Cardinality(batch) = BatchSize
    BY <1>1, <1>2 DEF RunIsTrue, FlushedIsIndexed, BatchIsFilled
  <2>4. line \in Nat /\ campaign.from \in Nat /\ campaign.to \in Nat
        /\ report.imported \in Nat /\ report.skipped \in Nat
    BY <1>1, Numbers
  <2>5. report'.imported = Cardinality(Books(campaign.from, line))
        /\ report'.skipped = Cardinality(BlanksIn(campaign.from, line))
    BY <1>1, <2>1, <2>3 DEF TypeOK
  <2>6. line < campaign.to => FullBatches(report'.imported)
    BY <2>3, <2>4, <2>5, OneBatchMore
  <2>7. Books(campaign.from, line) \subseteq index
    BY <2>2, <2>3
  <2>8. Cardinality({}) = 0 /\ Cardinality(Books(campaign.from, line)) \in Nat
    BY <2>4, StretchFinite, FS_EmptySet
  <2>9. RunIsTrue'
    BY <1>2, <2>3, <2>5, <2>6, <2>8 DEF RunIsTrue
  <2>10. FlushedIsIndexed' /\ OnlyTheBatch'
    BY <1>2, <2>1, <2>7 DEF FlushedIsIndexed, OnlyTheBatch
  <2>11. BatchIsFilled'
    BY <1>2, <2>1, <2>8, ImportAssumption DEF BatchIsFilled
  <2>12. checkpoint'.last = line /\ checkpoint'.offset = options.offset
         /\ checkpoint'.limit = options.limit /\ checkpoint'.report = report'
    BY <2>1 DEF Checkpoint
  <2>13. CheckpointIsTrue'
    BY <1>2, <2>3, <2>5, <2>6, <2>7, <2>12 DEF CheckpointIsTrue
  <2> QED  BY <1>3, <2>9, <2>10, <2>11, <2>13 DEF IInv
<1> QED  BY <1>4, <1>5

\* At the end of the range, with nothing left in the batch, the import is whole.
LEMMA FinishKeepsIInv ==
  ASSUME IInv, TypeOK', Finish
  PROVE  IInv'
<1>1. TypeOK /\ Plain /\ NothingYet /\ OnlyTheBatch /\ RunIsTrue /\ FlushedIsIndexed
      /\ OutcomeIsKnown
  BY DEF IInv
<1>2. /\ phase = "read" /\ queue = << >> /\ batch = {} /\ phase' = "off"
      /\ ~ (line < Target(options.offset, options.limit))
      /\ checkpoint' = Checkpoint(report, line)
      /\ UNCHANGED <<options, line, batch, report, queue, outcome, index, campaign, runs>>
  BY <1>1 DEF Finish, MoreLines, OnlyTheBatch
<1>3. line \in Nat /\ campaign.from \in Nat /\ campaign.to \in Nat
      /\ report.imported \in Nat /\ report.skipped \in Nat /\ Cardinality({}) = 0
  BY <1>1, Numbers, FS_EmptySet
<1>4. /\ Target(options.offset, options.limit) = campaign.to
      /\ campaign.from <= line /\ line = campaign.to
      /\ report.imported = Cardinality(Books(campaign.from, line))
      /\ report.skipped = Cardinality(BlanksIn(campaign.from, line))
      /\ Books(campaign.from, line) \subseteq index
  <2>1. report.imported + Cardinality(batch) = Cardinality(Books(campaign.from, line))
    BY <1>1, <1>2 DEF RunIsTrue
  <2>2. Books(campaign.from, line) \ batch \subseteq index
    BY <1>1, <1>2 DEF FlushedIsIndexed
  <2> QED  BY <1>1, <1>2, <1>3, <2>1, <2>2 DEF RunIsTrue
<1>5. CompletionIsTrue'
  BY <1>2, <1>4 DEF CompletionIsTrue
<1>6. checkpoint'.last = line /\ checkpoint'.offset = options.offset
      /\ checkpoint'.limit = options.limit /\ checkpoint'.report = report
  BY <1>2 DEF Checkpoint
<1>7. CheckpointIsTrue'
  BY <1>2, <1>3, <1>4, <1>6 DEF CheckpointIsTrue
<1>8. OnlyTheBatch' /\ RunIsTrue' /\ FlushedIsIndexed' /\ BatchIsFilled' /\ DeletesComeFirst'
  BY <1>2 DEF OnlyTheBatch, RunIsTrue, FlushedIsIndexed, BatchIsFilled, DeletesComeFirst
<1>9. runs.fresh # 0
  BY <1>1, <1>2 DEF NothingYet
<1>10. Plain' /\ NothingYet' /\ OutcomeIsKnown'
  BY <1>1, <1>2, <1>9 DEF Plain, NothingYet, OutcomeIsKnown
<1> QED  BY <1>5, <1>7, <1>8, <1>10 DEF IInv

\* A run that dies leaves the checkpoint and the queue.
LEMMA DieKeepsIInv ==
  ASSUME IInv, TypeOK', Die
  PROVE  IInv'
<1>1. Plain /\ NothingYet /\ DeletesComeFirst /\ CheckpointIsTrue /\ CompletionIsTrue
      /\ OutcomeIsKnown
  BY DEF IInv
<1>2. /\ phase # "off" /\ phase' = "off" /\ batch' = {}
      /\ UNCHANGED <<options, line, report, checkpoint, queue, outcome, index,
                     campaign, completed, runs>>
  BY DEF Die
<1>3. OnlyTheBatch' /\ RunIsTrue' /\ FlushedIsIndexed' /\ BatchIsFilled'
  BY <1>2 DEF OnlyTheBatch, RunIsTrue, FlushedIsIndexed, BatchIsFilled
<1>4. CheckpointIsTrue' /\ CompletionIsTrue' /\ OutcomeIsKnown'
  BY <1>1, <1>2 DEF CheckpointIsTrue, CompletionIsTrue, OutcomeIsKnown
<1>5. NothingYet' /\ DeletesComeFirst' /\ Plain'
  BY <1>1, <1>2 DEF NothingYet, DeletesComeFirst, Plain
<1> QED  BY <1>3, <1>4, <1>5 DEF IInv

\* Meilisearch only adds to the index once there is something to lose.
LEMMA ExecuteTaskKeepsIInv ==
  ASSUME IInv, TypeOK', ExecuteTask
  PROVE  IInv'
<1>1. TypeOK /\ Plain /\ NothingYet /\ DeletesComeFirst /\ OnlyTheBatch /\ RunIsTrue
      /\ FlushedIsIndexed /\ BatchIsFilled /\ CheckpointIsTrue /\ CompletionIsTrue
  BY DEF IInv
<1>2. /\ queue # << >> /\ queue' = Tail(queue) /\ outcome' \in Outcomes
      /\ UNCHANGED <<phase, options, line, batch, report, checkpoint, campaign,
                     completed, runs>>
  BY DEF ExecuteTask
<1>3. queue \in Seq(Tasks) /\ Len(queue) > 0 /\ Len(queue) \in Nat
      /\ Head(queue) = queue[1] /\ Head(queue) \in Tasks
      /\ Len(queue') = Len(queue) - 1
      /\ \A i \in 1 .. Len(queue') : queue'[i] = queue[i + 1]
  BY <1>1, <1>2 DEF TypeOK
<1>4. outcome' \in {"succeeded", "failed"}
  BY <1>1, <1>2, ImportAssumption DEF Plain
<1>5. \/ index \subseteq index'
      \/ Head(queue).op = "delete"
  BY DEF ExecuteTask
<1>6. Head(queue).op = "delete" =>
        checkpoint = None /\ phase \in {"off", "reset", "configure"} /\ ~ completed
  BY <1>1, <1>3 DEF DeletesComeFirst
<1>7. Plain' /\ NothingYet' /\ OutcomeIsKnown'
  BY <1>1, <1>2, <1>4 DEF Plain, NothingYet, OutcomeIsKnown
<1>8. DeletesComeFirst'
  <2> SUFFICES ASSUME NEW i \in 1 .. Len(queue'), queue'[i].op = "delete"
               PROVE  /\ checkpoint = None
                      /\ phase \in {"off", "reset", "configure"} /\ ~ completed
    BY <1>2 DEF DeletesComeFirst
  <2>1. i + 1 \in 1 .. Len(queue) /\ queue[i + 1].op = "delete"
    BY <1>3
  <2> QED  BY <1>1, <2>1 DEF DeletesComeFirst
<1>9. OnlyTheBatch'
  <2>1. CASE phase = "wait"
    <3>1. queue = << [op |-> "add", lines |-> batch] >>
      BY <1>1, <1>2, <2>1 DEF OnlyTheBatch
    <3>2. queue' = << >> /\ Head(queue).op = "add" /\ Head(queue).lines = batch
      BY <1>2, <3>1
    <3>3. outcome' = "succeeded" => batch \subseteq index'
      BY <3>2 DEF ExecuteTask
    <3> QED  BY <1>2, <2>1, <3>2, <3>3 DEF OnlyTheBatch
  <2>2. CASE phase # "wait"
    BY <1>1, <1>2, <2>2 DEF OnlyTheBatch
  <2> QED  BY <2>1, <2>2
<1>10. RunIsTrue' /\ BatchIsFilled'
  BY <1>1, <1>2 DEF RunIsTrue, BatchIsFilled
<1>11. FlushedIsIndexed'
  <2>1. CASE Head(queue).op = "delete"
    <3>1. phase # "off" => batch = {} /\ line = campaign.from
      BY <1>1, <1>6, <2>1 DEF FlushedIsIndexed
    <3>2. Books(campaign.from, campaign.from) = {}
      BY <1>1, Numbers, EmptyStretch
    <3> QED  BY <1>1, <1>2, <3>1, <3>2 DEF FlushedIsIndexed
  <2>2. CASE index \subseteq index'
    BY <1>1, <1>2, <2>2 DEF FlushedIsIndexed
  <2> QED  BY <1>5, <2>1, <2>2
<1>12. CheckpointIsTrue' /\ CompletionIsTrue'
  BY <1>1, <1>2, <1>5, <1>6 DEF CheckpointIsTrue, CompletionIsTrue
<1> QED  BY <1>7, <1>8, <1>9, <1>10, <1>11, <1>12 DEF IInv

LEMMA StepHolds == IInv /\ [Next]_vars => IInv'
<1> SUFFICES ASSUME IInv, [Next]_vars PROVE IInv'
  OBVIOUS
<1>1. TypeOK'
  BY TypeStep DEF IInv
<1>2. CASE \E from \in Offsets, lim \in Limits, reset \in BOOLEAN : StartFresh(from, lim, reset)
  BY <1>1, <1>2, StartFreshKeepsIInv
<1>3. CASE Resume
  BY <1>1, <1>3, ResumeKeepsIInv
<1>4. CASE ResetDone
  BY <1>1, <1>4, ResetDoneKeepsIInv
<1>5. CASE Configured
  BY <1>1, <1>5, ConfiguredKeepsIInv
<1>6. CASE SkipBlankLine
  BY <1>1, <1>6, SkipBlankLineKeepsIInv
<1>7. CASE ReadBook
  BY <1>1, <1>7, ReadBookKeepsIInv
<1>8. CASE FlushLastBatch
  BY <1>1, <1>8, FlushLastBatchKeepsIInv
<1>9. CASE FlushDone
  BY <1>1, <1>9, FlushDoneKeepsIInv
<1>10. CASE Finish
  BY <1>1, <1>10, FinishKeepsIInv
<1>11. CASE Die
  BY <1>1, <1>11, DieKeepsIInv
<1>12. CASE ExecuteTask
  BY <1>1, <1>12, ExecuteTaskKeepsIInv
<1>13. CASE UNCHANGED vars
  BY <1>13 DEF vars, IInv, Plain, TypeOK, NothingYet, DeletesComeFirst, OnlyTheBatch, RunIsTrue,
               FlushedIsIndexed, BatchIsFilled, CheckpointIsTrue, CompletionIsTrue,
               OutcomeIsKnown
<1> QED  BY <1>2, <1>3, <1>4, <1>5, <1>6, <1>7, <1>8, <1>9, <1>10, <1>11, <1>12, <1>13 DEF Next

LEMMA InvariantHolds == Plain /\ Spec => []IInv
BY InitHolds, StepHolds, PTL DEF Spec

-----------------------------------------------------------------------------
(* What follows. *)

\* Wherever the importer dies, a resumption skips no book that is not in the index.
THEOREM CheckpointCovers == Plain /\ Spec => []CheckpointCoversIndex
<1>1. IInv => CheckpointCoversIndex
  BY DEF IInv, CheckpointIsTrue, CheckpointCoversIndex
<1> QED  BY <1>1, InvariantHolds, PTL

\* An import that reports success has put every book of its range into the index.
THEOREM CompletedIsWhole == Plain /\ Spec => []CompletedImportIsWhole
<1>1. IInv => CompletedImportIsWhole
  BY DEF IInv, CompletionIsTrue, CompletedImportIsWhole
<1> QED  BY <1>1, InvariantHolds, PTL

\* Its report counts every line of that range once, deaths and resumptions or not.
THEOREM ReportIsRight == Plain /\ Spec => []ReportAddsUp
<1>1. IInv => ReportAddsUp
  BY DEF IInv, CompletionIsTrue, ReportAddsUp, BlanksIn
<1> QED  BY <1>1, InvariantHolds, PTL
=============================================================================
