------------------------------ MODULE Release ------------------------------
(***************************************************************************)
(* A release of the web container: the shell scripts that build a          *)
(* candidate image, approve its release plan, claim the approval and       *)
(* deploy it, each one started by hand, at any time, and several at once.  *)
(* They share nothing but files under progress/, the tags of the docker    *)
(* host and the running containers; there is no lock.  The hard link of    *)
(* the claim is the one atomic test-and-set.                               *)
(*                                                                         *)
(* An invocation stands for whatever new thing it makes: the id of the     *)
(* image it builds, the inode of the authorization it writes, the id of    *)
(* the container it starts.  A fingerprint is the record it digests.       *)
(***************************************************************************)
EXTENDS Naturals

CONSTANTS Invocations, \* scripts started by operators
          Sources,     \* commits a candidate was built from, each with a tag of its own
          First,       \* what was made before the story begins
          None

VARIABLES
  job,        \* job[x]: the script and the commit x was started with
  pc, seen,   \* the step x is about to take; what it has read so far
  verdict,    \* verdict[x]: the machine output of x, None while it runs
  tagged,     \* tagged[s]: the image that the tag of s names
  evidence,   \* evidence[s]: the image that candidate.json of s records
  auth,       \* auth[r]: the inode of the authorization of release r
  claim,      \* claim[r]: the inode its claim links to
  plans,      \* execution plans on disk
  starts, results, \* attempt artifacts on disk
  web,        \* the production web container
  neighbours  \* the api and meilisearch containers

files == <<auth, claim, plans, starts, results>>
candidate == <<tagged, evidence>>
production == <<web, neighbours>>
vars == <<job, pc, seen, verdict, candidate, files, production>>

Made == Invocations \cup {First}
Releases == [source : Sources, image : Made]
Containers == [by : Made, source : Sources \cup {None}, image : Made]
Snapshots == [web : Containers, neighbours : Made]
Plans == [release : Releases, pre : Snapshots]

Jobs == [script : {"build", "authorize", "claim", "execute", "operate"}, source : Sources]

Steps == {"idle", "build", "record", "operate", "plan", "approve", "publish",
          "preflight", "recheck", "savePlan", "writePlan", "drift", "recover",
          "claimPlan", "capture", "link", "verify", "imageCheck", "start",
          "inspect", "up", "await", "identity", "static", "result", "done"}

\* What one invocation remembers: the release it planned, production as it was,
\* the release its claim is for, the inode it claims, the image id the deploy
\* script expects, the container it found, and whether the static check passed.
Blank == [release |-> None, pre |-> None, claimed |-> None, inode |-> None,
          image |-> None, post |-> None, good |-> FALSE]

Statuses == {"PASS", "CLAIMED", "RELEASE_PLAN_FAILED", "AUTHORIZATION_ALREADY_EXISTS",
             "PLANNER_FAILED", "EXECUTION_PLAN_ALREADY_EXISTS", "DRIFT",
             "ATTEMPT_ALREADY_FINALIZED", "PRODUCTION_ATTEMPT_STATUS_UNKNOWN",
             "CLAIMED_NOT_STARTED", "CLAIM_FAILED", "CLAIM_OUTPUT_BINDING_FAILED",
             "POST_CLAIM_IMAGE_TOCLOU_FAILED", "DEPLOY_FAILED",
             "POST_DEPLOY_IMAGE_MISMATCH", "POST_VERIFY_FAILED", "KILLED"}
Reports == [status : Statuses, consumed : BOOLEAN, touched : BOOLEAN]

\* A report says whether the authorization was consumed and production touched.
Pass == [status |-> "PASS", consumed |-> TRUE, touched |-> TRUE]
Done == [status |-> "PASS", consumed |-> FALSE, touched |-> FALSE]
Blocked(reason, consumed, touched) ==
  [status |-> reason, consumed |-> consumed, touched |-> touched]
Before(reason) == Blocked(reason, FALSE, FALSE)

ASSUME NoneIsNothing ==
  /\ First \notin Invocations
  /\ None \notin Made \cup Sources /\ None \notin Jobs \cup Reports \cup Releases

Init ==
  /\ job = [x \in Invocations |-> None]
  /\ pc = [x \in Invocations |-> "idle"]
  /\ seen = [x \in Invocations |-> Blank]
  /\ verdict = [x \in Invocations |-> None]
  /\ tagged = [s \in Sources |-> First]
  /\ evidence = [s \in Sources |-> First]
  /\ auth \in {a \in [Releases -> {First, None}] : \A r \in Releases : a[r] = First => r.image = First}
  /\ claim = [r \in Releases |-> None]
  /\ plans = {} /\ starts = {} /\ results = {}
  /\ web = [by |-> First, source |-> None, image |-> First]
  /\ neighbours = First

-----------------------------------------------------------------------------
(* How an invocation starts, goes on and ends. *)

Start(x) ==
  /\ pc[x] = "idle"
  /\ \E j \in Jobs :
       /\ job' = [job EXCEPT ![x] = j]
       /\ pc' = [pc EXCEPT ![x] = CASE j.script = "build" -> "build"
                                    [] j.script = "operate" -> "operate"
                                    [] j.script = "claim" -> "claimPlan"
                                    [] OTHER -> "plan"]
  /\ UNCHANGED <<seen, verdict, candidate, files, production>>

GoOn(x, step, memory) ==
  /\ pc' = [pc EXCEPT ![x] = step]
  /\ seen' = [seen EXCEPT ![x] = memory]
  /\ UNCHANGED <<job, verdict>>

Exit(x, report) ==
  /\ pc' = [pc EXCEPT ![x] = "done"]
  /\ verdict' = [verdict EXCEPT ![x] = report]
  /\ seen' = [seen EXCEPT ![x] = [Blank EXCEPT !.claimed = seen[x].claimed]]
  /\ UNCHANGED job

\* A step that only reads: the next step if the condition holds, else the report.
Check(x, ok, step, memory, report) ==
  /\ IF ok THEN GoOn(x, step, memory) ELSE Exit(x, report)
  /\ UNCHANGED <<candidate, files, production>>

Executes(x) == job[x].script = "execute"
SourceOf(x) == job[x].source
Now == [web |-> web, neighbours |-> neighbours]

-----------------------------------------------------------------------------
(* Building, and what others do to production. *)

\* docker build moves the tag; the evidence is written at the end.
Build(x) ==
  /\ pc[x] = "build"
  /\ tagged' = [tagged EXCEPT ![SourceOf(x)] = x]
  /\ GoOn(x, "record", Blank)
  /\ UNCHANGED <<evidence, files, production>>

\* The id is read back from the tag, which another build may have moved.
Record(x) ==
  /\ pc[x] = "record"
  /\ evidence' = [evidence EXCEPT ![SourceOf(x)] = tagged[SourceOf(x)]]
  /\ Exit(x, Done)
  /\ UNCHANGED <<tagged, files, production>>

\* An operator recreates containers with other tools.
Operate(x) ==
  /\ pc[x] = "operate"
  /\ \/ web' = [by |-> x, source |-> SourceOf(x), image |-> tagged[SourceOf(x)]] /\ UNCHANGED neighbours
     \/ neighbours' = x /\ UNCHANGED web
  /\ Exit(x, Done)
  /\ UNCHANGED <<candidate, files>>

-----------------------------------------------------------------------------
(* The release plan and its approval. *)

\* Readiness: the tag names the image on record.
Ready(x) == tagged[SourceOf(x)] = evidence[SourceOf(x)]
\* A trial deployment in a project of its own works or not; it leaves no trace.
IsolatedE2E == BOOLEAN
FreshPlan(x) == [source |-> SourceOf(x), image |-> tagged[SourceOf(x)]]

PlanRelease(x) ==
  /\ pc[x] = "plan"
  /\ \E works \in IsolatedE2E :
       Check(x, Ready(x) /\ works, IF Executes(x) THEN "preflight" ELSE "approve",
             [Blank EXCEPT !.release = FreshPlan(x)], Before("RELEASE_PLAN_FAILED"))

Approve(x) ==
  /\ pc[x] = "approve"
  /\ Check(x, auth[seen[x].release] = None, "publish", seen[x],
           Before("AUTHORIZATION_ALREADY_EXISTS"))

\* mv replaces what another approval has put there since; the contents are equal.
Publish(x) ==
  /\ pc[x] = "publish"
  /\ auth' = [auth EXCEPT ![seen[x].release] = x]
  /\ Exit(x, Done)
  /\ UNCHANGED <<candidate, claim, plans, starts, results, production>>

-----------------------------------------------------------------------------
(* The read-only planner of a deployment, run by the executor. *)

Preflight(x) ==
  LET r == seen[x].release IN
  /\ pc[x] = "preflight"
  /\ Check(x, auth[r] # None /\ claim[r] = None /\ evidence[r.source] = r.image
                /\ tagged[r.source] = r.image,
           "recheck", [seen[x] EXCEPT !.pre = Now], Before("PLANNER_FAILED"))

\* After the isolated deployment of the authorized image.
Recheck(x) ==
  /\ pc[x] = "recheck"
  /\ \E works \in IsolatedE2E :
       Check(x, works /\ claim[seen[x].release] = None /\ Now = seen[x].pre,
             "savePlan", seen[x], Before("PLANNER_FAILED"))

PlanOf(x) == [release |-> seen[x].release, pre |-> seen[x].pre]

SavePlan(x) ==
  /\ pc[x] = "savePlan"
  /\ Check(x, PlanOf(x) \notin plans, "writePlan", seen[x],
           Before("EXECUTION_PLAN_ALREADY_EXISTS"))

\* Wrong: the plan is not written, and nobody looks.
WrongPlanNotWritten(x) ==
  /\ pc[x] = "writePlan"
  /\ GoOn(x, "drift", seen[x])
  /\ UNCHANGED <<candidate, files, production>>

WritePlan(x) ==
  /\ pc[x] = "writePlan"
  /\ plans' = plans \cup {PlanOf(x)}
  /\ GoOn(x, "drift", seen[x])
  /\ UNCHANGED <<candidate, auth, claim, starts, results, production>>

-----------------------------------------------------------------------------
(* The executor up to the claim. *)

Drift(x) ==
  LET r == seen[x].release IN
  /\ pc[x] = "drift"
  /\ Check(x, Now = seen[x].pre /\ tagged[r.source] = r.image, "recover", seen[x],
           Before("DRIFT"))

\* Artifacts of an earlier attempt end this one: nothing is resumed.
Recover(x) ==
  LET Attempted(artifacts) == \E a \in artifacts : a.plan = PlanOf(x)
      Leave(report) == Exit(x, report) /\ UNCHANGED <<candidate, files, production>>
  IN
  /\ pc[x] = "recover"
  /\ CASE Attempted(results) -> Leave(Before("ATTEMPT_ALREADY_FINALIZED"))
       [] ~ Attempted(results) /\ Attempted(starts) ->
            Leave(Blocked("PRODUCTION_ATTEMPT_STATUS_UNKNOWN", FALSE, TRUE))
       [] OTHER -> Check(x, claim[seen[x].release] = None, "claimPlan", seen[x],
                         Blocked("CLAIMED_NOT_STARTED", TRUE, FALSE))

-----------------------------------------------------------------------------
(* The claim script, run by the executor or by hand. *)

\* It makes a release plan of its own, which may be for a newer image.
ClaimPlan(x) ==
  /\ pc[x] = "claimPlan"
  /\ \E works \in IsolatedE2E :
       Check(x, Ready(x) /\ works, "capture",
             [seen[x] EXCEPT !.claimed = FreshPlan(x)], Before("CLAIM_FAILED"))

Capture(x) ==
  LET r == seen[x].claimed IN
  /\ pc[x] = "capture"
  /\ Check(x, auth[r] # None /\ claim[r] = None, "link",
           [seen[x] EXCEPT !.inode = auth[r]], Before("CLAIM_FAILED"))

\* Wrong on purpose (as is every Wrong... below): ln -f.
WrongForcedLink(x) ==
  /\ pc[x] = "link"
  /\ claim' = [claim EXCEPT ![seen[x].claimed] = auth[seen[x].claimed]]
  /\ GoOn(x, "verify", seen[x])
  /\ UNCHANGED <<candidate, auth, plans, starts, results, production>>

\* ln fails if the claim exists; it links whatever inode the path has now.
Link(x) ==
  LET r == seen[x].claimed IN
  /\ pc[x] = "link"
  /\ IF claim[r] = None
       THEN claim' = [claim EXCEPT ![r] = auth[r]] /\ GoOn(x, "verify", seen[x])
       ELSE UNCHANGED claim /\ Exit(x, Before("CLAIM_FAILED"))
  /\ UNCHANGED <<candidate, auth, plans, starts, results, production>>

\* The claim must be for the release the executor has planned.
Bound(x) == Executes(x) => seen[x].claimed = seen[x].release

\* A claim of another inode than the one validated is taken back.
Verify(x) ==
  LET r == seen[x].claimed IN
  /\ pc[x] = "verify"
  /\ IF claim[r] = seen[x].inode /\ auth[r] = seen[x].inode
       THEN /\ CASE ~ Bound(x) -> Exit(x, Blocked("CLAIM_OUTPUT_BINDING_FAILED", TRUE, FALSE))
                 [] Bound(x) /\ Executes(x) -> GoOn(x, "imageCheck", seen[x])
                 [] OTHER -> Exit(x, Blocked("CLAIMED", TRUE, FALSE))
            /\ UNCHANGED claim
       ELSE claim' = [claim EXCEPT ![r] = None] /\ Exit(x, Before("CLAIM_FAILED"))
  /\ UNCHANGED <<candidate, auth, plans, starts, results, production>>

-----------------------------------------------------------------------------
(* The executor after the claim. *)

\* Any failure from here on leaves the authorization consumed.
ImageCheck(x) ==
  LET r == seen[x].release IN
  /\ pc[x] = "imageCheck"
  /\ Check(x, tagged[r.source] = r.image, "start", seen[x],
           Blocked("POST_CLAIM_IMAGE_TOCLOU_FAILED", TRUE, FALSE))

StartAttempt(x) ==
  /\ pc[x] = "start"
  /\ starts' = {a \in starts : a.plan # PlanOf(x)} \cup {[plan |-> PlanOf(x), by |-> x]}
  /\ GoOn(x, "inspect", seen[x])
  /\ UNCHANGED <<candidate, auth, claim, plans, results, production>>

\* The deploy script: which image does the tag name?
Inspect(x) ==
  /\ pc[x] = "inspect"
  /\ Check(x, TRUE, "up", [seen[x] EXCEPT !.image = tagged[SourceOf(x)]], None)

Finalize(x, status) ==
  results' = {a \in results : a.plan # PlanOf(x)}
               \cup {[plan |-> PlanOf(x), by |-> x, status |-> status, post |-> seen[x].post]}

FailDeployment(x) ==
  /\ Finalize(x, "FAILED")
  /\ Exit(x, Blocked("DEPLOY_FAILED", TRUE, TRUE))
  /\ UNCHANGED <<candidate, auth, claim, plans, starts>>

\* docker compose up recreates the container only if its tag or image differs.
Up(x) ==
  LET s == SourceOf(x) IN
  /\ pc[x] = "up"
  /\ \/ /\ web' = IF web.source = s /\ web.image = tagged[s] THEN web
                  ELSE [by |-> x, source |-> s, image |-> tagged[s]]
        /\ GoOn(x, "await", seen[x])
        /\ UNCHANGED <<candidate, files>>
     \/ FailDeployment(x) /\ UNCHANGED web
  /\ UNCHANGED neighbours

\* It polls until production runs the image it has inspected, and gives up at last.
Await(x) ==
  /\ pc[x] = "await"
  /\ IF web.image = seen[x].image /\ web.source = SourceOf(x)
       THEN GoOn(x, "identity", seen[x]) /\ UNCHANGED <<candidate, files>>
       ELSE FailDeployment(x)
  /\ UNCHANGED production

\* Wrong: the image id is not compared with the plan's.
WrongAnyImage(x) == TRUE

\* Is the running image the authorized one?  A mismatch leaves no result artifact.
AuthorizedImage(x) == web.source = SourceOf(x) /\ web.image = seen[x].release.image

\* Wrong: a mismatch after the deployment is reported with emit_block's defaults.
WrongDefaultsReported(x) ==
  /\ pc[x] = "identity"
  /\ Check(x, AuthorizedImage(x), "static", [seen[x] EXCEPT !.post = web],
           Before("POST_DEPLOY_IMAGE_MISMATCH"))

Identity(x) ==
  /\ pc[x] = "identity"
  /\ Check(x, AuthorizedImage(x), "static", [seen[x] EXCEPT !.post = web],
           Blocked("POST_DEPLOY_IMAGE_MISMATCH", TRUE, TRUE))

\* The files of that container are compared; it may be gone by now.
Static(x) ==
  /\ pc[x] = "static"
  /\ \E same \in BOOLEAN :
       Check(x, TRUE, "result", [seen[x] EXCEPT !.good = same /\ web = seen[x].post], None)

\* The smoke test, the neighbours, and the result artifact.
Result(x) ==
  /\ pc[x] = "result"
  /\ \E smoke \in BOOLEAN :
       IF seen[x].good /\ smoke /\ neighbours = seen[x].pre.neighbours
         THEN Finalize(x, "PASS") /\ Exit(x, Pass)
         ELSE Finalize(x, "FAILED") /\ Exit(x, Blocked("POST_VERIFY_FAILED", TRUE, TRUE))
  /\ UNCHANGED <<candidate, auth, claim, plans, starts, production>>

-----------------------------------------------------------------------------
\* The claim script has told x that the authorization is consumed.
AfterClaim == {"imageCheck", "start", "inspect", "up", "await", "identity", "static", "result"}

\* The process group is killed, or the host restarts: nothing is undone, and
\* nothing is printed; the flags of this report only keep what was so.
Die(x) ==
  /\ pc[x] \notin {"idle", "done"}
  /\ Exit(x, Blocked("KILLED", pc[x] \in AfterClaim, FALSE))
  /\ UNCHANGED <<candidate, files, production>>

Claim(x) == ClaimPlan(x) \/ Capture(x) \/ Link(x) \/ Verify(x)
Planner(x) == Preflight(x) \/ Recheck(x) \/ SavePlan(x) \/ WritePlan(x)
Executor(x) == Drift(x) \/ Recover(x) \/ ImageCheck(x) \/ StartAttempt(x)
                 \/ Inspect(x) \/ Up(x) \/ Await(x) \/ Identity(x) \/ Static(x) \/ Result(x)

Next == \E x \in Invocations :
  \/ Start(x) \/ Build(x) \/ Record(x) \/ Operate(x) \/ Die(x)
  \/ PlanRelease(x) \/ Approve(x) \/ Publish(x) \/ Planner(x) \/ Claim(x) \/ Executor(x)

Spec == Init /\ [][Next]_vars

-----------------------------------------------------------------------------
(* Correctness. *)

Maybe(S) == S \cup {None}
Memories == [release : Maybe(Releases), pre : Maybe(Snapshots), claimed : Maybe(Releases),
             inode : Maybe(Made), image : Maybe(Made), post : Maybe(Containers), good : BOOLEAN]

TypeOK ==
  /\ job \in [Invocations -> Maybe(Jobs)]
  /\ pc \in [Invocations -> Steps]
  /\ seen \in [Invocations -> Memories]
  /\ verdict \in [Invocations -> Maybe(Reports)]
  /\ tagged \in [Sources -> Made] /\ evidence \in [Sources -> Made]
  /\ auth \in [Releases -> Maybe(Made)] /\ claim \in [Releases -> Maybe(Made)]
  /\ plans \subseteq Plans
  /\ \A a \in starts \cup results : a.plan \in plans /\ a.by \in Invocations
  /\ web \in Containers /\ neighbours \in Made

\* An approval is good for one attempt: however many executors run at once, and
\* whatever crashes, one attempt at most is started for a release, it has claimed
\* the authorization, and the result on record is its own.
OneAttemptPerAuthorization ==
  /\ \A a, b \in starts : a.plan.release = b.plan.release => a = b
  /\ \A a \in starts : claim[a.plan.release] # None
  /\ \A b \in results : \E a \in starts : a.plan = b.plan /\ a.by = b.by

\* x has the authorization of r, and its script said so.
Consumed(x, r) ==
  /\ seen[x].claimed = r
  /\ pc[x] \in AfterClaim \/ (verdict[x] # None /\ verdict[x].consumed)

\* A consumed authorization is never given back, not by the cleanup of somebody
\* else who lost the race and not by a later approval.
ConsumedForEver ==
  [][\A x \in Invocations, r \in Releases : Consumed(x, r) => claim'[r] = claim[r]]_vars

\* A deployment is accepted only if a container was seen that runs the very image
\* that was approved, though the tag may move at any time after the plan.
AcceptedMeansAuthorized ==
  \A b \in results : b.status = "PASS" =>
    /\ b.post.source = b.plan.release.source /\ b.post.image = b.plan.release.image
    /\ auth[b.plan.release] # None

\* Operators decide on a retry from the last lines of a report: one that says
\* production was not touched never comes from a run that started a container, and
\* one that says the authorization was not consumed never from a run that used it.
ReportsAreTrue ==
  \A x \in Invocations : verdict[x] # None /\ verdict[x].status # "KILLED" =>
    /\ Executes(x) /\ ~ verdict[x].touched => web.by # x
    /\ ~ verdict[x].consumed => \A a \in starts : a.by # x
-----------------------------------------------------------------------------
(* The inductive invariant. *)

ClaimSteps == {"claimPlan", "capture", "link", "verify"}
AfterStart == AfterClaim \ {"imageCheck", "start"}
\* Steps taken with a release in hand, with a snapshot of production, with a plan on disk.
WithRelease == {"approve", "publish", "preflight"}
WithSnapshot == {"recheck", "savePlan", "writePlan"}
WithPlan == {"drift", "recover"} \cup AfterClaim

FollowsScript(x) ==
  /\ pc[x] = "idle" <=> job[x] = None
  /\ pc[x] = "done" <=> verdict[x] # None
  /\ pc[x] = "operate" => ~ Executes(x)
  /\ pc[x] \in {"preflight"} \cup WithSnapshot \cup WithPlan => Executes(x)
  /\ pc[x] \in WithRelease \cup WithSnapshot \cup WithPlan \/ (pc[x] \in ClaimSteps /\ Executes(x)) =>
       seen[x].release \in Releases /\ seen[x].release.source = SourceOf(x)
  /\ pc[x] \in WithSnapshot \cup WithPlan \/ (pc[x] \in ClaimSteps /\ Executes(x)) =>
       seen[x].pre \in Snapshots
  /\ pc[x] \in WithPlan \/ (pc[x] \in ClaimSteps /\ Executes(x)) => PlanOf(x) \in plans
  /\ pc[x] \in WithRelease \cup WithSnapshot \cup {"drift", "recover"} => seen[x].claimed = None
  /\ pc[x] \in {"capture", "link", "verify"} => seen[x].claimed \in Releases
  /\ pc[x] \in {"static", "result"} =>
       /\ seen[x].post \in Containers
       /\ seen[x].post.source = SourceOf(x) /\ seen[x].post.image = seen[x].release.image

\* An invocation that has consumed an authorization, or is about to find out.
Consumer(x) == Consumed(x, seen[x].claimed) /\ seen[x].claimed # None
Linked(x) == Consumer(x) \/ pc[x] = "verify"

\* It has the claim, of a release that is authorized, and nobody else has.
ClaimIsHeld(x) ==
  /\ Linked(x) => /\ seen[x].claimed \in Releases
                  /\ claim[seen[x].claimed] # None /\ auth[seen[x].claimed] # None
  /\ pc[x] = "link" => auth[seen[x].claimed] # None
  /\ pc[x] \in AfterClaim => seen[x].claimed = seen[x].release

ClaimIsExclusive ==
  \A x, y \in Invocations :
    Linked(x) /\ Linked(y) /\ seen[x].claimed = seen[y].claimed => x = y

\* Attempts are on record from their start, under the name of who claimed.
AttemptsAreOnRecord ==
  /\ \A x \in Invocations : pc[x] \in AfterStart => [plan |-> PlanOf(x), by |-> x] \in starts
  /\ \A a \in starts :
       /\ Consumer(a.by) /\ pc[a.by] \in AfterStart \cup {"done"}
       /\ seen[a.by].claimed = a.plan.release
       /\ \A b \in starts : a.by = b.by => a = b

\* A container is known to the invocation that started it.
ContainerIsReported ==
  \A x \in Invocations : web.by = x =>
    /\ pc[x] # "idle"
    /\ Executes(x) => \/ pc[x] \in {"await", "identity", "static", "result"}
                      \/ verdict[x] # None /\ (verdict[x].touched \/ verdict[x].status = "KILLED")

IInv ==
  /\ TypeOK
  /\ \A x \in Invocations : FollowsScript(x) /\ ClaimIsHeld(x)
  /\ ClaimIsExclusive /\ AttemptsAreOnRecord /\ ContainerIsReported
  /\ OneAttemptPerAuthorization /\ AcceptedMeansAuthorized /\ ReportsAreTrue
=============================================================================
