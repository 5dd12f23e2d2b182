----------------------------- MODULE ImportBooks -----------------------------
(***************************************************************************)
(* scripts/import-books.ts: the batch importer that streams a text file of *)
(* books into a Meilisearch index, writes a checkpoint file as it goes and *)
(* can be resumed from it after it died.  Meilisearch (external) keeps a   *)
(* queue of tasks that outlives the importer and executes them in order.   *)
(*                                                                         *)
(* A line of the file stands for the document made of it: a document's id  *)
(* is a function of its line, so adding a line again changes nothing.      *)
(***************************************************************************)
EXTENDS Integers, Sequences, FiniteSets

CONSTANTS N,         \* lines in the file
          Blank,     \* the blank ones
          BatchSize, \* --batch-size
          Offsets,   \* values of --offset
          Limits,    \* values of --limit, None if the option is absent
          Outcomes,  \* how Meilisearch may end a task
          MaxFresh,  \* bound: runs started without --resume
          MaxRuns,   \* bound: runs altogether
          None

ASSUME ImportAssumption ==
  /\ N \in Nat /\ Blank \subseteq 1 .. N /\ BatchSize \in Nat \ {0}
  /\ Offsets \subseteq 0 .. N /\ Limits \subseteq Nat \cup {None} /\ None \notin Int
  /\ Outcomes \subseteq {"succeeded", "failed", "canceled"}
  /\ MaxFresh \in Nat /\ MaxRuns \in Nat

VARIABLES
  phase,      \* where the importer is, "off" when none runs
  options,    \* [offset, limit] of the run, after applyResume
  line,       \* report.lastProcessedLine
  batch,      \* the lines read and not yet flushed
  report,     \* [imported, skipped], carried through the checkpoint
  checkpoint, \* the checkpoint file, or None
  queue,      \* the tasks Meilisearch has accepted and not executed
  outcome,    \* how the last task ended
  index,      \* the lines whose document is in the index
  campaign,   \* history: [from, to], the range the last fresh run was asked for
  completed,  \* history: that import has reported success
  runs        \* history: [fresh, all], runs started so far

vars == <<phase, options, line, batch, report, checkpoint, queue, outcome,
          index, campaign, completed, runs>>

Phases == {"off", "reset", "configure", "read", "wait"}
Books(a, b) == (a + 1 .. b) \ Blank
Min2(a, b) == IF a < b THEN a ELSE b
Target(from, lim) == IF lim = None THEN N ELSE Min2(N, from + lim)
Tasks == [op : {"add"}, lines : SUBSET (1 .. N)] \cup [op : {"delete", "settings"}]
Checkpoints == [last : 0 .. N, offset : 0 .. N, limit : Nat \cup {None},
                report : [imported : Nat, skipped : Nat]]

TypeOK ==
  /\ phase \in Phases
  /\ options \in [offset : 0 .. N, limit : Nat \cup {None}]
  /\ line \in 0 .. N
  /\ batch \subseteq 1 .. N
  /\ report \in [imported : Nat, skipped : Nat]
  /\ checkpoint \in Checkpoints \cup {None}
  /\ queue \in Seq(Tasks)
  /\ outcome \in {"succeeded", "failed", "canceled"}
  /\ index \subseteq 1 .. N
  /\ campaign \in [from : 0 .. N, to : 0 .. N]
  /\ completed \in BOOLEAN
  /\ runs \in [fresh : 0 .. MaxFresh, all : 0 .. MaxRuns]

Init ==
  /\ phase = "off"
  /\ options = [offset |-> 0, limit |-> None]
  /\ line = 0
  /\ batch = {}
  /\ report = [imported |-> 0, skipped |-> 0]
  /\ checkpoint = None
  /\ queue = << >>
  /\ outcome = "succeeded"
  /\ index = {}
  /\ campaign = [from |-> 0, to |-> 0]
  /\ completed = FALSE
  /\ runs = [fresh |-> 0, all |-> 0]

-----------------------------------------------------------------------------
(* Starting. *)

CountRun(fresh) ==
  /\ runs.all < MaxRuns
  /\ fresh => runs.fresh < MaxFresh
  /\ runs' = [all |-> runs.all + 1, fresh |-> IF fresh THEN runs.fresh + 1 ELSE runs.fresh]

\* A run with --offset, --limit and perhaps --reset-index.  A reset deletes the
\* index and ignores how the deletion ends; otherwise the settings come first
\* ("settings" is createIndex, whose failure is ignored too, and updateSettings).
StartFresh(from, lim, reset) ==
  /\ phase = "off"
  /\ CountRun(TRUE)
  /\ options' = [offset |-> from, limit |-> lim]
  /\ line' = from
  /\ report' = [imported |-> 0, skipped |-> 0]
  /\ batch' = {}
  /\ campaign' = [from |-> from, to |-> Target(from, lim)]
  /\ completed' = FALSE
  /\ queue' = Append(queue, [op |-> IF reset THEN "delete" ELSE "settings"])
  /\ phase' = IF reset THEN "reset" ELSE "configure"
  /\ UNCHANGED <<checkpoint, outcome, index>>

\* Wrong on purpose (as is every Wrong... below): the whole limit once more.
WrongLimitStartsAgain(c) == c.limit

\* What is left of the original limit once lines up to last are done.
RemainingLimit(c) ==
  IF c.limit = None THEN None
  ELSE IF c.offset + c.limit > c.last THEN c.offset + c.limit - c.last ELSE 0

\* A run with --resume and no --limit: applyResume continues after the last
\* processed line of the checkpoint; the index is never reset.
Resume ==
  /\ phase = "off"
  /\ checkpoint # None
  /\ CountRun(FALSE)
  /\ options' = [offset |-> checkpoint.last, limit |-> RemainingLimit(checkpoint)]
  /\ line' = checkpoint.last
  /\ report' = checkpoint.report
  /\ batch' = {}
  /\ completed' = FALSE
  /\ queue' = Append(queue, [op |-> "settings"])
  /\ phase' = "configure"
  /\ UNCHANGED <<checkpoint, outcome, index, campaign>>

\* deleteIndex is over, or waiting for it failed or timed out: all is swallowed.
ResetDone ==
  /\ phase = "reset"
  /\ queue' = Append(queue, [op |-> "settings"])
  /\ phase' = "configure"
  /\ UNCHANGED <<options, line, batch, report, checkpoint, outcome, index,
                 campaign, completed, runs>>

\* updateSettings is waited for like every later task: a failure ends the run.
Configured ==
  /\ phase = "configure"
  /\ queue = << >>
  /\ phase' = IF outcome = "failed" THEN "off" ELSE "read"
  /\ UNCHANGED <<options, line, batch, report, checkpoint, queue, outcome, index,
                 campaign, completed, runs>>

-----------------------------------------------------------------------------
(* Reading and flushing. *)

\* Wrong: one line past the limit.
WrongOneLineMore == line <= Target(options.offset, options.limit)

MoreLines == line < Target(options.offset, options.limit)

Checkpoint(rep, last) ==
  [last |-> last, offset |-> options.offset, limit |-> options.limit, report |-> rep]

\* index.addDocuments: the batch becomes a task, the importer waits for its end.
EnqueueBatch(b) ==
  /\ queue' = Append(queue, [op |-> "add", lines |-> b])
  /\ phase' = "wait"

\* A blank line is counted and the checkpoint moves past it at once, whatever
\* is still in the batch.
SkipBlankLine ==
  /\ phase = "read" /\ MoreLines /\ line + 1 \in Blank
  /\ line' = line + 1
  /\ report' = [report EXCEPT !.skipped = @ + 1]
  /\ checkpoint' = Checkpoint(report', line')
  /\ UNCHANGED <<phase, options, batch, queue, outcome, index, campaign, completed, runs>>

\* A book joins the batch; a full batch is flushed before the next line.
ReadBook ==
  /\ phase = "read" /\ MoreLines /\ line + 1 \notin Blank
  /\ line' = line + 1
  /\ batch' = batch \cup {line + 1}
  /\ IF Cardinality(batch') >= BatchSize
       THEN EnqueueBatch(batch')
       ELSE UNCHANGED <<queue, phase>>
  /\ UNCHANGED <<options, report, checkpoint, outcome, index, campaign, completed, runs>>

FlushLastBatch ==
  /\ phase = "read" /\ ~ MoreLines /\ batch # {}
  /\ EnqueueBatch(batch)
  /\ UNCHANGED <<options, line, batch, report, checkpoint, outcome, index,
                 campaign, completed, runs>>

\* Wrong: how the task ended is not looked at.
WrongFailureIgnored ==
  /\ phase = "wait"
  /\ queue = << >>
  /\ batch' = {}
  /\ phase' = "read"
  /\ report' = [report EXCEPT !.imported = @ + Cardinality(batch)]
  /\ checkpoint' = Checkpoint(report', line)
  /\ UNCHANGED <<options, line, queue, outcome, index, campaign, completed, runs>>

\* waitForTask returns for every final status but "failed", which throws; then
\* the batch is counted as imported and the checkpoint written.
FlushDone ==
  /\ phase = "wait"
  /\ queue = << >>
  /\ batch' = {}
  /\ IF outcome = "failed"
       THEN phase' = "off" /\ UNCHANGED <<report, checkpoint>>
       ELSE /\ phase' = "read"
            /\ report' = [report EXCEPT !.imported = @ + Cardinality(batch)]
            /\ checkpoint' = Checkpoint(report', line)
  /\ UNCHANGED <<options, line, queue, outcome, index, campaign, completed, runs>>

\* Wrong: the last, partial batch is not flushed.
WrongLastBatchDropped ==
  /\ phase = "read" /\ ~ MoreLines
  /\ checkpoint' = Checkpoint(report, line)
  /\ completed' = TRUE
  /\ phase' = "off"
  /\ UNCHANGED <<options, line, batch, report, queue, outcome, index, campaign, runs>>

\* The whole range is read and flushed: last checkpoint, report, exit 0.
Finish ==
  /\ phase = "read" /\ ~ MoreLines /\ batch = {}
  /\ checkpoint' = Checkpoint(report, line)
  /\ completed' = TRUE
  /\ phase' = "off"
  /\ UNCHANGED <<options, line, batch, report, queue, outcome, index, campaign, runs>>

\* The process dies: killed, a wait timed out, a call failed, --max-errors hit.
\* A task it has enqueued stays with Meilisearch.
Die ==
  /\ phase # "off"
  /\ phase' = "off"
  /\ batch' = {}
  /\ UNCHANGED <<options, line, report, checkpoint, queue, outcome, index,
                 campaign, completed, runs>>

\* Meilisearch executes the oldest task.
ExecuteTask ==
  /\ queue # << >>
  /\ \E o \in Outcomes :
       /\ outcome' = o
       /\ index' = IF o # "succeeded" THEN index
                   ELSE CASE Head(queue).op = "add" -> index \cup Head(queue).lines
                          [] Head(queue).op = "delete" -> {}
                          [] OTHER -> index
  /\ queue' = Tail(queue)
  /\ UNCHANGED <<phase, options, line, batch, report, checkpoint, campaign,
                 completed, runs>>

Next ==
  \/ \E from \in Offsets, lim \in Limits, reset \in BOOLEAN : StartFresh(from, lim, reset)
  \/ Resume \/ ResetDone \/ Configured
  \/ SkipBlankLine \/ ReadBook \/ FlushLastBatch \/ FlushDone \/ Finish
  \/ Die \/ ExecuteTask

Spec == Init /\ [][Next]_vars

-----------------------------------------------------------------------------
(* Correctness. *)

\* The checkpoint never runs ahead of the index: every book before it is indexed,
\* so a resumed run skips nothing, wherever the previous one died.
CheckpointCoversIndex ==
  checkpoint # None => Books(campaign.from, checkpoint.last) \subseteq index

\* When an import, however often it was resumed, reports success, every book of
\* the range asked for is in the index.
CompletedImportIsWhole ==
  completed => Books(campaign.from, campaign.to) \subseteq index

\* The figures of that report are those of the whole range: no line is counted
\* twice or not at all across deaths, and a resumed limit ends where the first
\* one would have.
ReportAddsUp ==
  completed =>
    /\ line = campaign.to
    /\ report.imported = Cardinality(Books(campaign.from, campaign.to))
    /\ report.skipped = Cardinality((campaign.from + 1 .. campaign.to) \cap Blank)
=============================================================================
