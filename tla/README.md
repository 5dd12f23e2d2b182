# Verification of book-id-search

This directory holds TLA+ models of book-id-search, the TLC configurations that
check them and the TLAPS proofs about them. Every definition is written from the
source; `PROJECT.json` ("map") names the lines each one stands for.

## 1. The system

book-id-search has a catalog search API over a Meilisearch index, an importer
that fills the index, a private research workspace on PostgreSQL ("S32"), a
private book library, WeRead (reading app) projections, AI assistance, a React
client, and the scripts that release it all.

| Component | State it keeps | Operations | Talks to |
|---|---|---|---|
| Issue resolutions (`s32/postgres/issue-resolution-command-store.ts`) | resolutions, the issue's current pointer, idempotency receipts | create; list, get, evidence bases | PostgreSQL, evidence authorization |
| Assessments (`assessment-command-store.ts`) | assessments, evidence manifests, receipts | create; list, get | PostgreSQL, evidence authorization |
| Research runs (`research-run-command-store.ts`) | runs with a status, receipts | start, complete, fail, replay; list, get | PostgreSQL |
| Research issues, candidate claims | issues, claims, bindings, receipts | create, list | PostgreSQL |
| Project items (`project-binding-store.ts`) | bindings of editions to projects | add, list, remove | catalog promotion, PostgreSQL |
| Project item notes (`project-item-note-store.ts`) | notes and their revisions | create, append a revision, read | PostgreSQL, bindings |
| Catalog promotion | works, editions, sources, external identities | promote | PostgreSQL, Meilisearch |
| Book library (`book-library-store.ts`) | saved books, introductions, notes, resources | save, notes, resources | PostgreSQL |
| WeRead bindings (`weread/manual-bindings-store.ts`) | one override per book, with a revision | list, write | PostgreSQL |
| WeRead private data | snapshot files | overlay, notes, annual review, maps | files |
| Sessions and Google sign-in (`auth/`) | nothing on the server (signed tokens) | issue, verify, csrf | browser |
| AI assistance (`ai/`) | an LRU cache with expiry | insight, assistant, web research | MiniMax |
| Search (`search/`, `index.ts`) | none | search, related books | Meilisearch |
| Importer (`scripts/import-books.ts`) | checkpoint file, report; the index | run, resume | Meilisearch |
| Dossier reader (web, `research/dossier-reader.ts`) | queue, active reads, epoch, model | read, refresh, change scope, dispose | API |
| Client drafts (web, `research/*-draft.ts`, composers) | pending receipts in page and browser storage | submit, retry, discard, hear the outcome | API |
| Book page (web, `library/BookWorkspace.tsx`) | workspace shown, three editors with their drafts | open, edit, save, remove, read the latest | API |
| Web release scripts (`scripts/*.sh`) | authorization, claim, plan, start and result files | build, plan, authorize, claim, execute, deploy | Docker, files |
| S32 rollout scripts | a database of their own | one run, by one operator | PostgreSQL |

What makes each of them hard, and the properties that make it correct:

- *Commands of the research workspace* run concurrently, are retried by the
  client after a lost reply and by the store after a serialization failure, and
  race an operator who archives. Correct means: at most one effect per key and
  command, receipts and resources in pairs, no lost update of a pointer, nothing
  written to an archive, true answers, and an answer for every call.
- *Project items and notes* use READ COMMITTED and explicit locks: no note
  without its item, no forked history, no torn read.
- *Research runs and the receipts of the browser*: a command has at most one effect
  though it is repeated, delayed or forgotten by a reload; an ended run never changes;
  a replay refers to an ended run; a receipt is kept until the server has judged it.
- *Catalog promotion and library*: one chain per catalog document though documents
  share identities; no introduction or note is overwritten that its author was not
  shown; no draft is lost when a reply is.
- *Web release*: an approval is good for one attempt, the container that is accepted
  runs the image that was approved, and the last lines of a report are true, though
  nothing is locked and a script may be killed anywhere.
- *The importer* dies at any point of a run of many hours: the checkpoint never
  runs ahead of the index, a completed import is whole, its report adds up.
- *The dossier reader*: never more than the allowed concurrent reads, nothing
  from before a refresh, scope change or lost session on the page after it,
  every read settles.
- *Search, WeRead projections, session tokens* are pure functions of their input
  and belong to unit tests.

`PROJECT.json` ("hazards") lists the places where these can go wrong, each at its
line, and the property that would notice.

## 2. Modules

| Module | Models |
|---|---|
| `Postgres` | row locks, snapshots, serialization failures, as the stores use them (external) |
| `IssueResolutions` | the create command of issue resolutions, one statement per action |
| `ResolutionRegister` | what that command promises: an abstract compare-and-set register |
| `IssueResolutionsProofs` | the inductive invariant and the safety theorems |
| `IssueResolutionsRefinement` | that the store implements the register |
| `MCIssueResolutions` | the symmetry set of the safety run |
| `ProjectItems` | items of a project and their notes, one statement per action |
| `ItemRegister` | what they promise: a register per edition, a compare-and-set register per item |
| `ProjectItemsProofs` | its inductive invariant, the safety theorems, and that it implements `ItemRegister` |
| `MCProjectItems` | the order in which its calls arrive in the run |
| `ImportBooks` | the importer, its checkpoint and the Meilisearch task queue |
| `ImportBooksProofs` | its theorems, and where the two findings do not bite |
| `DossierReader` | the queue of GETs behind the page of a research issue, and what the page may show |
| `DossierReaderProofs` | its inductive invariant and the safety theorems |
| `MCDossierReader` | the initial sections and the symmetry set of its runs |
| `ResearchRuns` | the runs of an issue: buttons, receipts, requests, transactions, replies |
| `ResearchRunsProofs`, `MCResearchRuns` | its inductive invariant and theorems; its symmetry set |
| `BookLibrary` | catalog promotion and the writes to a book, one statement per action |
| `BookWorkspace` | the page of a book composed with `BookLibrary` |
| `BookWorkspaceProofs`, `MCBookWorkspace` | its inductive invariant and theorems; two books with common identities |
| `Release` | the scripts that build, approve, claim and deploy a web release |
| `ReleaseProofs`, `MCRelease` | its inductive invariant and theorems; its symmetry set |

`IssueResolutions`, `ProjectItems` and `BookLibrary` use the rows of `Postgres`;
`IssueResolutionsRefinement` puts `IssueResolutions` over `ResolutionRegister`, and
`ProjectItemsProofs` puts `ProjectItems` over `ItemRegister`;
`BookWorkspace` composes client and server, as `ResearchRuns` does in one module.

### IssueResolutions

A request is one HTTP call of `POST /:projectId/issues/:issueId/resolutions`. The
service draws one random UUID per call, so the request stands for the resolution
id it proposes. `pc[r]` is the statement the request runs next:

    begin -> reserve -> project -> issue -> decide -> commit -> done
                   \-> replay -------------------------/

| Action | Code |
|---|---|
| `Arrive` | the route and service: normalized body, key, request hash |
| `BeginTransaction`, `Retry`, `Refuse`, `Commit` | `serializableWithRetry`: three attempts, ROLLBACK on every error |
| `ReserveReceipt`, `FindReceipt` | `INSERT ... ON CONFLICT DO NOTHING` into `ops.idempotency_keys` |
| `Replay` | `replay()`: hash and status of the receipt decide, and nothing else |
| `LockProject`, `LockIssue` | `loadProjectIssueScope` with `lock: true` |
| `RefuseNew`, `InsertNew` | the gates of `insertNew`, then its three writes |
| `Conflict`, `SerializationFailure` | SQLSTATE 40001 for a conflict on the modelled rows, or for any other reason |
| `ConnectionLost`, `ConnectFails` | a dead connection before COMMIT, a failed `pool.connect` |
| `ArchiveProject`, `ArchiveIssue` | an operator's UPDATE (no API of the repository archives) |

The writes of a transaction are kept in `draft[r]` and the request until COMMIT
publishes them: nobody reads uncommitted rows. `Commit` answers with the result or
with `unavailable`: the reply may be lost after the COMMIT took effect. One project
is modelled, because every lock, scope and gate names the project and two projects
share no row. `notFound` stands for the three 404 answers and may be given whenever
the gates before it pass, since claims and evidence belong to other components. The
500 answers for corrupt rows are left out: no action of the store produces one.

### ProjectItems

A call is one HTTP call: `add`, `remove` (bindings), `create`, `append`, `get` (notes). It
stands for the random ids it draws, so `bound[e]` is the call that bound edition `e`,
`noteRow[n]` the note that call `n` created and `revision[q]` the revision of call `q`.
One project is modelled: no statement touches the rows of two.

    add     check -> begin -> project -> edition -> insert -> item -> commit
    remove  check -> begin -> lockItem -> notes -> commit
    create  begin -> subject -> lockSubject -> noNote -> commit
    append  begin -> subject -> findNote -> lockNote -> commit
    get     begin -> subject -> readNote -> readHistory

| Action | Code |
|---|---|
| `CheckProject` | `requireActiveProject` of the items service, before the promotion |
| `ShareProject`, `ShareEdition` | the two `FOR SHARE` gates of `addEdition` |
| `InsertBinding`, `ReadItem`, `CommitAdd` | `ON CONFLICT DO NOTHING`, the projection, COMMIT |
| `LockItem`, `CheckNotes`, `CommitRemove` | `removeEdition` |
| `ReadSubject`, `LockSubject` | `readSubject`, whose `FOR UPDATE OF pb` may wait |
| `CheckNoNote`, `CommitCreate` | `create` |
| `FindNote`, `LockNote`, `CommitAppend` | `ownedNote` with lock, `appendRevision` |
| `ReadNote`, `ReadHistory` | `ownedNote` and `projectNote` of `get` |

Every statement of a writer sees what is committed when it starts. Two details of READ
COMMITTED matter and are kept: a statement that waits for a row lock judges the *locked*
row as it is after the wait and the joined rows as they were before it (`seen[c]` in
`LockSubject`), and `ON CONFLICT DO NOTHING` waits for an uncommitted insert or delete of
the same key (`Unsettled`) but the projection after it is another statement, so the
conflicting binding may be gone (`ReadItem` answers 503, as the code does). Locks on
bindings and notes are rows of `Postgres`; the `FOR SHARE` locks, which only archiving
waits for, are read off the program counter (`SharesProject`, `SharesEdition`). A reader
carries the snapshot of its first statement (`Visible`). Rows written by a transaction
appear at its COMMIT; the reads a writer makes of its own rows are not modelled.

Writing a note reads the state of project and edition without locking them, so a note may
be committed just after an operator archived the project. Nothing in the repository
promises otherwise for notes, and no property forbids it. `ItemRegister` makes the window
visible: a call on a note is `admitted` while its item is there and everything is active,
and may act later; a binding, whose gates are locked, is made while they are open.

`ItemRegister` has no transactions. `bound[e]` is a register per edition and `latest[b]` a
compare-and-set register per item: `create` expects nothing in it, `append` the revision
its author had seen, `remove` finds it empty. Each call is one step that takes effect and
answers; "created", "removed" and the refusals are true in that step, "existing" and
"found" were true when the call was admitted. 503 may be answered at any time and says
nothing: the call had no effect, or the reply to its COMMIT was lost, so that a call that
takes effect is told of it or told 503 (`Done`; `Succeed` in `ProjectItems`). "corrupt"
is no answer at all.

### ImportBooks

A line of the file stands for its document (the id is a function of the line, so
adding it again changes nothing). The queue of Meilisearch outlives the importer:
`Die` may happen anywhere, `ExecuteTask` goes on. `Resume` is `applyResume`,
`RemainingLimit` its arithmetic, `SkipBlankLine` writes the checkpoint at once as the
code does, `FlushDone` is the end of `flushBatch`. `campaign`, `completed` and `runs`
are history: the range the last fresh run was asked for, whether it (or a resumption)
reported success, and the bound on runs.

### DossierReader

One reader (`createDossierReader`) with the part of `dossier-model.ts` that decides which
read may start and which answer counts. JavaScript runs a callback to its end, so the
only interleaving is that of callbacks, with one exception: `publish()` calls the
subscribers, and a subscriber may call the reader back in the middle of what it was
doing. `stack` holds what the running callback has still to do, the innermost frame
first: the loop of `pump`, the dispatch of a GET after its "loading" was published, the
end of a response handler, `start()` after a reset, the loop over the initial sections.

    queued -> loading -> fetching -> received -> accepted -> resuming -> settled -> done
                                  \-> rejected ----------/

| Action | Code |
|---|---|
| `Start`, `StartAfterReset` | `start()` called by the page, and by `refresh` / `changeScope` |
| `Read`, `AskSection` | `read()` called by the page, and by the continuation of `start()` |
| `PumpDrops`, `PumpStarts`, `PumpReturns` | one turn of the loop of `pump()`, and its end |
| `Dispatch` | after the `publish()` of a started read: aborted by a subscriber, or sent |
| `ReceiveData`, `ReceiveMisfit`, `ReceiveError`, `QuestionGone`, `SessionLost` | the outcomes of a GET |
| `IgnoreAnswer` | any outcome of a read that was cancelled |
| `Accept`, `Answer`, `Resume`, `Finally` | the end of the handler, `resolve`, the `await` of `start()`, `finally()` |
| `Reset`, `Dispose` | `refresh` and `changeScope`; `dispose` |

A request is a stream and a page; the cursor of page *n* is the one that page *n-1* came
with, so `Ticketed` compares pages. A sequence number is never used again, so the number
of the read stands for the ticket, its scope and its generation. A read was aborted
exactly when the epoch moved on, so there is no flag for that. The promises of a read
continue in any order with those of other reads; those of a cancelled one change nothing
and are one step. The caller of a read continues before `finally()` runs: asking again
for the same page right after `await` is answered false, as it is in the code.

Left out: what the answers contain, with the masking of withdrawn disclosures
(`maskOlderDisclosure`, `invalidateObject`) and the 404 of a detail read, which blank
objects in other slots and may take the ticket of a read that is out: the sections of
the model are lists, whose slots keep theirs; `disposed` of the subscriptions; wording
of notices. The page of the
repository calls `read()` for sections only, so `Read` does too. The exclusion matters:
a second read of the issue whose 404 resets the model would do so without cancelling the
sections that are out. Nothing in the application asks for that.

### ResearchRuns

One tab shows one research issue. Four components of the page post commands: the start
composer, the terminal actions and the replay composer of the open run, and the notice
above the history that retries a pending action of a run that is not on the first page.
A command is sealed in a receipt under a random key before it is posted. There are two
slots for receipts (`start` and `action`), each a module variable backed by session
storage (`memory`, `stored`), and a component keeps the receipt it works with (`pend`).
A call that creates a run stands for the run.

| Action | Code |
|---|---|
| `Submit`, `SubmitConflicts` | `submit`, `runTerminal`, `getOrCreateResearchRun...Receipt`: seal, or "intent conflict" |
| `Retry`, `Discard` | the two buttons of a composer that is unsure |
| `RetryOffPage` | `retryOffPagePending` of `ResearchRunHistory.tsx` |
| `Hear` | the outcome: the answer, an earlier answer under the same key, or none |
| `CloseForm` | 1600 ms after a start succeeded: the form is reset and closed |
| `Refresh`, `Show`, `Return` | the reload after an outcome, opening a detail, leaving the page or reloading it |
| `ReplayReceipt`, `RefuseNew`, `CreateRun`, `EndRun` | the command store: a receipt, a gate, `start`/`replay`, `transition` |
| `AnswerNothingDone` | 401/403, a 503 after three attempts, or a request that never arrived |
| `PostElsewhere`, `Archive` | other tabs and devices of the owner, an operator |

The server runs a command in one SERIALIZABLE transaction, so it is one step here;
`IssueResolutions` takes such a transaction apart. A request may be executed at any time
after it was posted, also after the page has given up on it: that is why `origin`
remembers what became of the component that waits. Assumed: session storage works, and
a request is not executed twice by the network.

The detail reads the pending action once, when it is opened, and hands it to its
composers (`prop`); a composer that is mounted later (`Mount`) begins with that receipt,
though it may have been settled since, or with what is pending then (`Restored`). A
`Refresh` keeps the composers that both the old and the new status of the run show, or
mounts all of them again, which a failed read with a second attempt does; a failed read
that nobody repeats is a detail that is closed. The timer of a start may fire while the
composer submits the next one: it offers the form again, and the model lets it
(`CloseForm`). The form of the terminal actions may be used by a composer whose run has
ended meanwhile as long as a pending action keeps it there, which is a little more than
the page offers. Left out: the moment between hashing and sealing, and errors of the form
itself. "refused" stands for 400, 404 and 409. A `START` with `replayOf` comes from
elsewhere only: no form of the page sends one.

### BookLibrary and BookWorkspace

A call is one HTTP request that writes to a book, or promotes a document of the
catalog. It stands for the UUIDs it draws: the chain of work, edition and source, the
note, the revision, the link.

    subject -> primary -> reserve -> ... -> commit     promotion
                      \-> chain                        a known document
    lock -> commit                                     the write to the book

| Action | Code |
|---|---|
| `Subject` | the chain of a book of the library, or the catalog |
| `ReservePrimary`, `ReserveSecondary`, `LoadChain`, `CommitPromotion` | `catalog-promotion-store.ts`: `ON CONFLICT DO NOTHING` waits for an uncommitted insert of the same identity |
| `LockBook` | BEGIN, `ensureBook`/`requireBook` with `FOR UPDATE`, `ownedNote`, the base version and revision |
| `CommitWrite` | the writes, the workspace as it is with them, COMMIT |
| `ConnectFails`, `ConnectionLost`, `Archive` | failures, an operator |
| `Open`, `Leave`, `EditIntroduction`/`Note`/`Link`, `Cancel`, `SaveAsNew` | the page and its three panels |
| `AddToLibrary`, `SaveIntroduction`/`Note`/`Link`, `Remove` | the writes of the page, one out at a time (`operate`) |
| `Hear`, with `Heard` and `Failed` | the answer, or none: which editors close, which go into conflict |
| `LatestIntroduction`/`Note`/`Link` | "read the latest version", beside the draft |
| `Elsewhere` | other devices, and a project page that promotes |

The page of one book does not know what else shares its identities, so the composition
has books that the tabs show and books that are only promoted. What the author of a text
was shown of the text it replaces travels with the command (`over`): it is no field of
the request and no guard reads it. Assumed: the statements from BEGIN to the check are
one step, since whoever gets the book's row has it to itself; an edition archived
between the insert and the check is answered as if archived before; the first read of a
page is one snapshot (`REPEATABLE READ`, as in the code); identities are never retired,
since nothing in the repository retires one. Left out: `InvalidCatalogBookError`, the
list with its search, single old revisions, times and the fields of a link.

Seen while modelling, and nowhere promised otherwise (`docs/development/BOOK_LIBRARY_V1.md`):
updates and removals of links carry no version, so the last writer wins; `createNote`
and `createResource` have no idempotency key, so a second try after a lost reply makes a
second note.

### Release

An invocation is one script started by hand: build, authorize, claim, execute, or
another tool that recreates containers. It stands for what it makes: the id of the
image, the inode of the authorization file, the id of the container. The scripts share
files, tags and containers and take no lock; `ln` of the claim is the one test-and-set.

    authorize  plan -> approve -> publish
    claim      claimPlan -> capture -> link -> verify
    execute    plan -> preflight -> recheck -> savePlan -> writePlan -> drift -> recover
                 -> claimPlan -> capture -> link -> verify -> imageCheck -> start
                 -> inspect -> up -> await -> identity -> static -> result

| Action | Code |
|---|---|
| `Build`, `Record` | `build-web-release-candidate.sh`: the tag moves, then its id is read back |
| `PlanRelease`, `Approve`, `Publish` | `plan-web-production-release.sh`, `authorize-...sh`: checked, then `mv` |
| `Preflight`, `Recheck`, `SavePlan`, `WritePlan` | `plan-web-production-deployment-execution.sh` |
| `ClaimPlan`, `Capture`, `Link`, `Verify` | `claim-web-production-release-authorization.sh` |
| `Drift`, `Recover`, `ImageCheck`, `StartAttempt` | `execute-web-production-release.sh` up to the start artifact |
| `Inspect`, `Up`, `Await` | `deploy-web-release-candidate.sh` |
| `Identity`, `Static`, `Result` | the checks after the deployment and the result artifact |
| `Operate`, `Die` | an operator with other tools; a kill (external) |

A fingerprint is the record it digests. The trial deployment in an isolated project
works or not and leaves no trace. Left out: JSON schemas, fields nobody compares, and
the rollback, which the scripts leave to the operator.

Seen while modelling: the plan of an attempt that was blocked stays on disk and
`EXECUTION_PLAN_ALREADY_EXISTS` (`plan-web-production-deployment-execution.sh:578`)
blocks every later attempt with the same facts, as
`test-plan-web-production-deployment-execution.py:1192` expects, while
`reports/WEB_RELEASE_PRODUCTION_DEPLOYMENT_EXECUTION_CONTRACT.md:158,318,466` calls the
authorization reusable before the claim. An executor started again after a crash between
claim and start reports `PLANNER_FAILED` with `AUTHORIZATION_CONSUMED=false`: true of
this run, and of no use to the operator. No lock keeps two executors of different
releases apart, so the smoke test of one may reach the container of the other; the
identity check notices it only before. A tag moved after the claim may start an image
nobody approved: it is reported, not prevented.

## 3. Checks

| Run | Shows | Bounds |
|---|---|---|
| `issue_resolutions_safety` | type, receipts and resolutions in pairs, linear history, true answers, nothing added to an archive, refinement of the register | 3 requests, 1 issue, 2 keys, 2 bodies, 3 attempts; about 1.2 million states |
| `issue_resolutions_liveness` | every request that arrived is answered | 2 requests, 2 issues, 2 keys, 1 body; about 341 thousand states |
| `project_items` | type, no note without its item, histories never fork, no reader finds a whole note corrupt, refinement of the item registers (so nothing is bound to an archive), every call that arrived is answered | 4 calls that arrive in a fixed order, 1 edition; about 446 thousand states |
| `import_resume` | type, the checkpoint covers the index, a completed import is whole, its report adds up | 9 lines, 2 blank ones between batches, batches of 2, two offsets, limits 4, 7 or none, 1 fresh run, 5 runs in all |
| `import_blank_line` | **fails**: a blank line inside a batch (finding 1) | 6 lines, blank line 2 |
| `import_restart` | **fails**: a second run over the same checkpoint file (finding 2) | 6 lines, 2 fresh runs |
| `dossier_reader_safety` | type, slots, queue and model agree at every step, no read is forgotten, nothing stale is shown, a read that is loading is at work, true means shown, pages are refused only in their turn | 2 slots, the issue and 2 sections (one of 2 pages), 1 initial section, 2 scopes, 2 calls besides the first `start`; about 522 thousand states |
| `dossier_reader_queue` | the initial sections follow the issue, every read that was taken is answered | 1 slot, 2 initial sections, 1 scope, 2 calls; about 812 thousand states |
| `research_runs` | type, a key acts once, answers stay true, replays refer to ended runs, a tab never contradicts itself under one key, nobody gets stuck | 2 calls besides 1 earlier run, 2 keys, 2 forms; about 1.26 million states |
| `research_runs_lost` | **fails**: a receipt is dropped that the server has not judged (finding 3) | as above |
| `book_workspace` | type, one chain per document, no circle of waiting promotions, no introduction or note overwritten unseen, no draft lost | 3 calls, 2 books with the same SSID and DXID, 1 tab, 1 editor at a time; about 3.7 million states |
| `release_safety` | type, one attempt per approval, what is accepted was approved, true reports | 3 scripts, 2 commits; about 288 thousand states |

*Why these bounds.* Three requests are the smallest number with a first writer, a
concurrent one and a retry of either; two keys and two bodies give the same command
under one key, another command under the same key and the same command under another
key. Two issues are needed only for the lock order of liveness, where symmetry is not
used. Three attempts are the code's constant. The requests, keys and bodies are
interchangeable in every definition, so the symmetry set is sound; it is used in the
run without liveness only.
Four calls on items are an add, the first note and two more that race: two revisions on
one base, a revision and a reader, a removal and the edition added again. Calls are
interchangeable, so letting them arrive in a fixed order loses nothing, and unlike a
symmetry set it may be used with liveness. One edition suffices for the run, since the
theorems hold for any number.
In the importer nine lines with batches of two give several full batches, a batch cut by
the limit and one cut by the end of the file, and five runs let a resumed run die and be
resumed again. Its blank lines fall between batches for both offsets: elsewhere finding 1
bites.
In `ResearchRuns` two calls besides an earlier run are two posts of one command, or of
two commands, and a replay of the earlier run; a third call multiplies the states beyond
reach, and the theorems cover it. Two keys are what a tab needs to forget one receipt and
seal another.
In `BookWorkspace` two books whose documents name the same two identities are the
smallest pair of promotions that could wait for each other; `Abroad` leaves to the other
devices the commands that can hurt a draft of the page (a save, a changed or removed
note, a removed link) and `Shown` the page to one book. The panels open their editors
independently of each other, and `OpenAtOnce` bounds how many are open: one in the run.
The run was also made with two (7.7 million states) and with three, which is no bound at
all (9.4 million), and passed; these take four and five minutes. Three calls are the
page's write, one from elsewhere that overtakes it, and a promotion or a retry. The
theorems hold for any of these bounds.
In `Release` three scripts are two executors and a build or an approval between their
steps, or a claim by hand between two executors; two commits have a tag each.
In the reader two calls at any moment, inside a notification too, are a reset and a read
of the new epoch while the old GETs are out, two pages of one stream, or two resets; one
slot makes reads queue, two let answers overtake each other. The code's four slots add
only more of the same. `MaxCalls` bounds the calls and `LastPage` the pages.

*Deadlock* is checked in `research_runs`, where a page can always do something. It is
not checked elsewhere because the requests, scripts and runs end: when all are answered
nothing is left to do, and a page may rest or be closed. That nobody waits for ever is
what `EveryRequestIsAnswered`, `EveryCallIsAnswered`, `EveryReadIsAnswered` and
`NobodyWaitsInACircle` say.

*Fairness.* `FairSpec` of `IssueResolutions` asks weak fairness of `Serve(r)`, the
statements of one request together: Node's event loop and the database run a statement
that can run. It asks nothing of clients, of failures or of archiving. Weak fairness is
enough: the statement of a request that waits becomes possible when the holder of the
lock ends, and stays possible for the one that takes it, while the others time out of
the race after at most three attempts. `ProjectItems` asks the same of its calls, which
never retry (`SpecInOrder`, in `MCProjectItems`). `DossierReader` asks that a running
callback runs on, that a settled promise continues and that a GET ends one way or
another (the browser fails it if nothing else does); it asks nothing of the page.

*Mutants.* Next to the definition it changes, each module keeps `Wrong...` operators:
a plausible bug of that code (a dropped `FOR UPDATE`, a missing ROLLBACK, a gate before
the replay, an unfinished receipt, a limit counted twice). None is part of a
specification; with one put in place of the right definition the property named in
`PROJECT.json` fails.

### Findings

1. **A blank line runs the checkpoint ahead** (`scripts/import-books.ts:552-556`).
   The blank line branch writes `lastProcessedLine` while earlier books are still in
   the batch. If the process dies before the flush, the resume the documents advise
   (`docs/DEPLOY_TENCENT_CLOUD.md:168`, `docs/OPERATIONS.md:95`) starts after them, and
   the import reports success without them.
2. **A stale checkpoint is resumed** (`scripts/import-books.ts:443-466`, `516-536`). A
   run without `--resume` leaves an existing checkpoint file in place until its first
   flush. If it dies before, the resume continues from the end of the earlier run.
   The segmented plan of `reports/FULL_IMPORT_STRATEGY.md:52-59` uses one checkpoint
   file for all segments.
3. **A receipt is dropped that nobody has judged**
   (`apps/web/src/research/ResearchRunHistory.tsx:72-79`). The notice above the history
   clears a pending receipt on every error that is no 5xx, so also when the network
   fails, though its comment says that the server has judged it. The other three
   components keep it. The user then starts the action again under a new key.

Three remarks on the same code, which no document contradicts: the notice retries a
pending `REPLAY` as a `CANCEL` under its key (`ResearchRunHistory.tsx:60-66`; the server
keeps the scopes apart, and the models contain it); an expired session is taken for a
definite refusal (`ResearchRunStartComposer.tsx:214`); a late reply to a composer that
was unmounted clears whatever receipt is in the slot by then.

## 4. Proofs

`IssueResolutionsProofs` proves, for every set of requests, issues, keys and bodies
and every number of attempts, `InvariantHolds`, `TypeCorrect`,
`ReceiptsAndResolutionsPair`, `NoLostUpdate`, `NoFalseSuccess`, `ArchivesStayClosed`
and `NobodyWaitsForGood`;
`IssueResolutionsRefinement` proves `StoreImplementsRegister`.

The assumptions are the two of the module: `MaxAttempts` is a positive natural, and
`None` is none of the values it is told apart from. TLC evaluates both on every run.

*The inductive invariant* `IInv` adds to the three safety invariants what they need:

- `LocksBelongToTransactions`: exactly the running commands have a transaction, and
  only they hold locks. Without it a lock could be held by nobody and protect nothing.
- `CreatingIsProtected`: a creating command holds its receipt row, then the project,
  then the issue; its key is unused; once it may commit, the gates it passed still
  hold. This is the heart of the matter: everyone who could falsify a gate (another
  command's COMMIT, an archiving UPDATE) needs a lock this command holds.
- `ReplayingIsJustified`: a replaying command has found a receipt, of its own hash if
  it is about to return it. Committed receipts never change.
- `ResolutionsAreFinal`: a resolution's request is over, and a client has only seen
  resolutions that exist; so the commands the history speaks of never change.

Each action has a lemma of its own (`...KeepsIInv`), with one step per part of the
invariant it can disturb; `CommitNewKeepsIInv` carries the weight, since the COMMIT of
a new resolution changes receipts, history and pointer at once. `ArchivesStayClosed`
follows because only that COMMIT adds a resolution, and it leaves the states alone.

*Nobody waits in a circle.* That every request is answered is liveness, which TLC checks
for two requests. `NobodyWaitsForGood` proves the part of it that is safety, for any
number: of any set of commands, one waits for none of the others
(`NobodyWaitsInACircle`). The invariant it needs, `HoldersAreAhead`, says which steps a
holder of each kind of row may be about to take: receipt, then project, then issue. The
same for `ProjectItems` is stronger, `NobodyWaitsTwiceOver`: whoever holds a row, or has
inserted or deleted a binding and not committed, waits for nobody (`HoldersAreBusy`).
What is left to TLC is that a step that stays possible is taken, and that the retries,
of which there are at most `MaxAttempts`, end.

*The refinement* maps the winner of a slot to the resource of its receipt. A COMMIT is
the register's `Apply` or `Recall`, a refusal its `Deny`, `Recall` or `GiveUp`, every
other statement a stutter. The point of linearization of a replay is its COMMIT; that
of a `stale` or `readOnly` answer is the gate, where the locked rows are current.

`ProjectItemsProofs` proves, for every set of calls and editions and from the one
assumption that `None` is none of the values it is told apart from, `InvariantHolds`,
`TypeCorrect`, `NotesKeepTheirItems`, `HistoriesNeverFork`, `NoFalseAlarm`,
`ArchivesBindNothing`, `StoreImplementsItemRegister` and `NobodyWaitsForAWaiter`. The
invariant says of each call, at each statement, what it may rely on:

- `FollowsProgram`: it is at a statement of its own operation.
- `AddIsProtected`: an adder's project and edition are active and what it inserted is not
  bound; `OneInserter`: two adders never insert the same binding.
- `ItemIsHeld`: whoever removes an item or writes its first note holds the binding, and at
  its COMMIT the item has no note. This is what keeps notes and items together.
- `NoteIsHeld`: whoever appends holds the note and has its current row in hand.
- `SeesWholeNote`: the snapshot of a reader satisfies what `projectNote` checks.
- `RowsAreFinal`: what is committed was made by calls that are over.

Most steps store nothing; `StoresNothingKeepsIInv` shows once that such a step disturbs
nobody else, and leaves of each action only what is said of its own call. The four
COMMITs go through `CommitKeepsIInv`; `CommitAppendKeepsIInv` carries the arithmetic of the
revision numbers.

*The refinement* of `ItemRegister` maps `latest[b]` to the current revision of the only note
of `b`, and `admitted` to the calls between their gate and their answer. A COMMIT is the
register's `Bind`, `Unbind`, `Write` or `Report`, a refusal its `Deny`, a gate that is
passed its `Admit`, every other statement a stutter. It needs a second invariant,
`AnswersAreJustified`, inductive relative to `IInv`: a running call has no answer yet;
whoever removes an item still finds it at its COMMIT, because only the holder of the
binding can remove it, so an item is removed once; a creator who waits with a closed gate
is right about it for good, because archives never reopen; and the note an appender found
is that of its own item.

`DossierReaderProofs` proves, for any sections, pages, scopes and number of calls and for
one to four slots (`ReaderParameters`, what the code's `concurrency` allows),
`InvariantHolds`, `TypeCorrect`, `ReadsBounded`, `SlotsStayInStep`, `QueueNotForgotten`,
`ShownIsPresent`, `LoadingIsAtWork`, `TrueIsShown`, `RefusedAfterItsStream`,
`SectionsAreRead` and `EveryReadHasRoom`. The parts of its invariant:

- `WellFormed`: what each frame of `stack` will find when its turn comes, however many
  callbacks were nested on top of it.
- `SlotsOwned`: between its start and its end a read of the present epoch has its slot,
  and nobody else has; queue, keys and streams follow.
- `SentForScope`: a GET of the present epoch was sent for the present scope.
- `SourcesFollowReads`: what the model says of a stream was put there by a read of the
  present epoch; a read at work is the one its stream waits for.
- `QuestionFirst`: until the issue is read nothing else is queued, out or shown. Without
  it a section could be shown of an issue that is not there.
- `AnswersFollowReads`: a promise is open until its read was cancelled or has settled.
- `PumpIsComing`: if a read could start, somewhere in the stack the loop of `pump` is
  still to come, and no dropped dispatch takes it away. This is what proves
  `NoReadForgotten`, which by itself says nothing while a callback runs.

Cancelling is the hard step: it ends all reads at once, in the midst of any callback.
`CancelledFacts` and `CancelKeepsIInv` say once what it leaves of each part, for `Reset`,
`Dispose` and `SessionLost`. `ReadsBounded` injects the GETs that are out into the slots.
`RefusedAfterItsStream` is a step property: what leaves the queue in the present epoch
leaves it through `PumpDrops` (`TheQueueWaits`), which looks at streams that are free.

`SectionsFollow` says something only when all is at rest, and is not inductive. Two
more invariants stand on `IInv`, each checked by TLC on both runs of the reader first:

- `SectionsComing`: as long as the issue is shown as read, each initial section is on the
  page, or in the queue, or the loop of `start()` is going to come to it, or the read of
  the issue is on its way through its promise to that loop. With it go `WorkIsSeen` (what
  is at work is seen on the page, so what the loop is told is already asked for is no
  loss) and `BootsReadTheIssue`.
- `Accounted`: the reads that were queued, plus what a first `start()`, the read of the
  issue at work and the loop on the stack may still queue, are at most what the calls so
  far asked for. At most one loop is ever on the stack, at its bottom (`AtBottom`), since
  a promise continues on an empty stack only. `TypeCorrect` and `EveryReadHasRoom` follow:
  the bound `Reads`, which stands in the guard of `Enqueue`, is never what stops a step.

`ResearchRunsProofs` proves, for any calls, runs, keys and forms, `TypeCorrect`,
`KeysHaveOneEffect`, `AnswersAreTrue`, `ReplaysFollow` and `NoConflicts`, from the
assumption that the special values differ from the others. Its invariant has a client
and a server part:

- `RequestsAreSealed`: whoever posts a key of this tab posts the command sealed under it,
  or cancels the run it replays, which is another scope. With `SealedForms` and
  `SlotsAreSealed` this is why no interleaving of retries, discards, remounts and reloads
  produces a conflict.
- `SealedReplaysFollow`, `ViewIsTrue`: a replay is sealed for a run seen ended, and ended
  runs stay ended.
- `NothingYet`, `ReceiptsAreTrue`, `AnswersHaveReceipts`: every effect has its receipt and
  every answer refers to one, which says what was done.

`BookWorkspaceProofs` proves, for any calls, books, identities, tabs and bounds,
`TypeCorrect`, `OneChain`, `NothingOverwritten`, `DraftsKept` and `NobodyWaitsForGood`.
The assumptions: special values differ, books and other identities are apart, `Shown` are
books, and a document names its SSID before its DXID (`SsidBeforeDxid`;
`mapCatalogBookToPromotion`, `domain/catalog-promotion.ts:73-77`, lists them in this
order, and the two are told apart by their kind). The parts of its invariant follow a
draft from the page to the row and back:

- `PageOK`: a page shows a version that existed, an editor's base is one, and the call
  that is out is about this book and this draft.
- `CommandOK`: a command that replaces a text was shown the version it names.
- `Reserves`: a promotion holds what it has reserved, and it belongs to nobody.
- `Writes`: a writer holds the book, and what it has checked is still so at its COMMIT.
- `AnswerOK`: an answer that closes an editor tells the truth about its draft.
- `RowsOK`: a version names one text, and a book's present version is its last. Without
  it a version could be compared and still stand for a text nobody was shown.

`NobodyWaitsInACircle` rests on `InTurn`: whoever waits for an identity holds only what
comes before it in the order book, SSID, DXID, and whoever waits for the row of a book
holds nothing (`HasFor`). In a circle everyone would wait for something, held by someone
who waits for something later, and three kinds of rows leave no room for that
(`NoCircle`); no induction over the circle is needed. Without `SsidBeforeDxid` it is
false: two documents that named a common SSID and DXID in opposite orders would deadlock.

`ReleaseProofs` proves, for any invocations and commits, `TypeCorrect`, `OneAttempt`,
`AcceptedIsAuthorized`, `ReportsTellTheTruth` and `ConsumedStays`, from `NoneIsNothing`:

- `FollowsScript`: what a script has in hand at each step.
- `ClaimIsHeld`, `ClaimIsExclusive`: after the link an executor has the claim of the
  release it planned, and nobody else has; the cleanup of a claim script that fails
  removes only its own.
- `AttemptsAreOnRecord`: an attempt is on disk before its container is started, under
  the name of who claimed.
- `ContainerIsReported`: whoever started the running container is still at work, says
  so, or was killed.

`ImportBooksProofs` proves `TypeCorrect` for every file, batch size and options, and the
other three properties of the run (`CheckpointCovers`, `CompletedIsWhole`,
`ReportIsRight`) under `Plain`: the number of books before each blank line fills whole
batches, the checkpoint file serves one import, and no task is canceled (`waitForTask`
takes a canceled task for a success). These are the conditions under which findings 1 and
2 cannot happen, and `import_resume` satisfies them. The invariant says that what was
read is in the index or in the batch (`FlushedIsIndexed`), that the one task waited for
carries the batch (`OnlyTheBatch`), that only whole batches are flushed before the end of
the range (`BatchIsFilled`), so that at a blank line the batch is empty, that a deletion
of the index comes before everything (`DeletesComeFirst`), and that the checkpoint is
such a state of an earlier moment (`CheckpointIsTrue`).

*Only model-checked*: liveness (`EveryRequestIsAnswered`, `EveryCallIsAnswered`,
`EveryReadIsAnswered`), since fairness and ENABLED are outside the prover's reach (the
absence of circular waiting, which they rest on in the two stores, is proved), and
with it that a page of `ResearchRuns` can always do something (deadlock).

## 5. What is not modelled, and the plan

Not modelled for good: search ranking, parsing, WeRead projections and page layout
(pure functions), AI calls (an external service), read stores over rows that never
change, token checking, batch scripts and the rollout scripts, which one operator runs
once. The components with their reasons are in `PROJECT.json`.

Next steps, in this order:

1. `Assessments` and `ResearchIssues`: the receipt protocol of `IssueResolutions` with a
   preview hash that must still match, and its READ COMMITTED variants.
2. `DossierModel`: the objects of the answers, so that a withdrawn disclosure is masked
   wherever it is shown and an older answer does not bring it back.
3. The drafts of resolutions, assessments and claims, composed with
   `ResolutionRegister` as the drafts of runs are with their store.
4. The importer's dry run, whose checkpoint a real run can resume, and an explicit
   `--limit` on a resumption.
5. The WeRead overrides (a one-statement compare-and-set) and the AI cache.
