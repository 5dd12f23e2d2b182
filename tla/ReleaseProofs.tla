--------------------------- MODULE ReleaseProofs ---------------------------
(***************************************************************************)
(* Proofs about Release, for every set of invocations and commits.         *)
(***************************************************************************)
EXTENDS Release, TLAPS

-----------------------------------------------------------------------------
(* What an invocation does to its own memory. *)

\* Nobody's control state changes but that of x, and it stays typed.
Alone(x) ==
  /\ job' \in [Invocations -> Maybe(Jobs)] /\ pc' \in [Invocations -> Steps]
  /\ seen' \in [Invocations -> Memories] /\ verdict' \in [Invocations -> Maybe(Reports)]
  /\ \A y \in Invocations \ {x} :
       job'[y] = job[y] /\ pc'[y] = pc[y] /\ seen'[y] = seen[y] /\ verdict'[y] = verdict[y]

LEMMA GoOnAlone ==
  ASSUME TypeOK, NEW x \in Invocations, NEW s \in Steps, NEW m \in Memories, GoOn(x, s, m)
  PROVE  /\ Alone(x) /\ pc'[x] = s /\ seen'[x] = m
         /\ job'[x] = job[x] /\ verdict'[x] = verdict[x]
  BY DEF TypeOK, GoOn, Alone

LEMMA BlankIsMemory == Blank \in Memories
  BY DEF Blank, Memories, Maybe

LEMMA ExitAlone ==
  ASSUME TypeOK, NEW x \in Invocations, NEW rep \in Reports, Exit(x, rep)
  PROVE  /\ Alone(x) /\ pc'[x] = "done" /\ verdict'[x] = rep
         /\ job'[x] = job[x] /\ seen'[x].claimed = seen[x].claimed
<1>1. [Blank EXCEPT !.claimed = seen[x].claimed] \in Memories
  BY BlankIsMemory DEF TypeOK, Memories
<1>2. [Blank EXCEPT !.claimed = seen[x].claimed].claimed = seen[x].claimed
  BY DEF Blank
<1>3. "done" \in Steps /\ rep \in Maybe(Reports)
  BY DEF Steps, Maybe
<1>. QED
  BY <1>1, <1>2, <1>3 DEF TypeOK, Exit, Alone

LEMMA ReportFields ==
  ASSUME NEW reason \in Statuses, NEW consumed \in BOOLEAN, NEW touched \in BOOLEAN
  PROVE  /\ Blocked(reason, consumed, touched) \in Reports
         /\ Blocked(reason, consumed, touched).status = reason
         /\ Blocked(reason, consumed, touched).consumed = consumed
         /\ Blocked(reason, consumed, touched).touched = touched
  BY DEF Blocked, Reports

\* None is not a report, a job, an invocation or a release.
LEMMA NoneIsNoValue ==
  /\ None \notin Reports /\ None \notin Jobs /\ None \notin Invocations /\ None \notin Releases
  /\ First \notin Invocations
  BY NoneIsNothing DEF Made

-----------------------------------------------------------------------------
(* Steps that leave the files of the pipeline and production alone. *)

\* What others rely on: authorizations and plans stay, and so do their claims.
LEMMA OthersStaySound ==
  ASSUME IInv, NEW x \in Invocations, Alone(x), plans \subseteq plans',
         \A r \in Releases : auth[r] # None => auth'[r] # None,
         NEW y \in Invocations, y # x,
         Linked(y) => claim'[seen[y].claimed] # None
  PROVE  FollowsScript(y)' /\ ClaimIsHeld(y)' /\ (Linked(y)' <=> Linked(y)) /\ (Consumer(y)' <=> Consumer(y))
<1>1. /\ job'[y] = job[y] /\ pc'[y] = pc[y] /\ seen'[y] = seen[y] /\ verdict'[y] = verdict[y]
      /\ FollowsScript(y) /\ ClaimIsHeld(y)
  BY DEF Alone, IInv
<1>2. FollowsScript(y)'
  BY <1>1 DEF FollowsScript, Executes, SourceOf, PlanOf
<1>3. (Consumer(y)' <=> Consumer(y)) /\ (Linked(y)' <=> Linked(y))
  BY <1>1 DEF Consumer, Consumed, Linked
<1>4. pc[y] = "link" => seen[y].claimed \in Releases
  BY <1>1 DEF FollowsScript
<1>5. ClaimIsHeld(y)'
  BY <1>1, <1>3, <1>4 DEF ClaimIsHeld
<1>. QED
  BY <1>2, <1>3, <1>5

\* x itself keeps what it is bound to, and links only what nobody else has.
OwnDuties(x) ==
  /\ FollowsScript(x)' /\ ClaimIsHeld(x)'
  /\ Linked(x)' => \A y \in Invocations \ {x} : Linked(y) => seen'[x].claimed # seen[y].claimed
  /\ pc'[x] # "idle" /\ job'[x] = job[x]
  /\ pc'[x] \in AfterStart => pc[x] \in AfterStart
  /\ pc[x] \in AfterStart =>
       /\ Consumer(x)' /\ seen'[x].claimed = seen[x].claimed
       /\ pc'[x] = "done" \/ (pc'[x] \in AfterStart /\ PlanOf(x)' = PlanOf(x))

\* Its report is true.
OwnReport(x) ==
  /\ web'.by = x /\ Executes(x) =>
       \/ pc'[x] \in {"await", "identity", "static", "result"}
       \/ verdict'[x] # None /\ (verdict'[x].touched \/ verdict'[x].status = "KILLED")
  /\ verdict'[x] # None /\ verdict'[x].status # "KILLED" /\ Executes(x) /\ ~ verdict'[x].touched => web'.by # x

\* A result it may put on record.
OwnResult(x, b) ==
  /\ pc[x] \in AfterStart /\ b.plan = PlanOf(x) /\ b.by = x
  /\ b.status = "PASS" => /\ b.post.source = b.plan.release.source
                          /\ b.post.image = b.plan.release.image

\* It starts no attempt, and of the other files and of production it changes
\* only what is its own.
OwnFiles(x) ==
  /\ auth' \in [Releases -> Maybe(Made)] /\ \A r \in Releases : auth[r] # None => auth'[r] # None
  /\ claim' \in [Releases -> Maybe(Made)]
  /\ \A y \in Invocations \ {x} : Linked(y) => claim'[seen[y].claimed] # None
  /\ plans \subseteq plans' /\ plans' \subseteq Plans
  /\ starts' = starts /\ \A b \in results' : b \in results \/ OwnResult(x, b)
  /\ web' \in Containers /\ (web' = web \/ web'.by = x) /\ neighbours' \in Made
  /\ tagged' \in [Sources -> Made] /\ evidence' \in [Sources -> Made]

LEMMA StepKeepsIInv ==
  ASSUME IInv, NEW x \in Invocations, Alone(x), pc[x] # "done", OwnFiles(x), OwnDuties(x), OwnReport(x)
  PROVE  IInv'
<1>1. \A y \in Invocations \ {x} :
        /\ FollowsScript(y)' /\ ClaimIsHeld(y)'
        /\ Linked(y)' <=> Linked(y)
        /\ Consumer(y)' <=> Consumer(y)
        /\ pc'[y] = pc[y] /\ seen'[y] = seen[y] /\ verdict'[y] = verdict[y] /\ job'[y] = job[y]
  BY OthersStaySound DEF Alone, OwnFiles
<1>2. \A y \in Invocations : FollowsScript(y)' /\ ClaimIsHeld(y)'
  BY <1>1 DEF OwnDuties
<1>3. ClaimIsExclusive'
  <2>. SUFFICES ASSUME NEW y \in Invocations, NEW z \in Invocations,
                       Linked(y)', Linked(z)', seen'[y].claimed = seen'[z].claimed
                PROVE  y = z
    BY DEF ClaimIsExclusive
  <2>1. CASE y = x \/ z = x
    BY <1>1, <2>1 DEF OwnDuties
  <2>2. CASE y # x /\ z # x
    BY <1>1, <2>2 DEF IInv, ClaimIsExclusive
  <2>. QED
    BY <2>1, <2>2
<1>4. \A a \in starts \cup results : a.plan \in plans /\ a.by \in Invocations
  BY DEF IInv, TypeOK
<1>5. AttemptsAreOnRecord'
  <2>1. ASSUME NEW y \in Invocations, pc'[y] \in AfterStart
        PROVE  [plan |-> PlanOf(y), by |-> y]' \in starts
    <3>1. CASE y = x
      <4>1. PlanOf(x)' = PlanOf(x) /\ pc[x] \in AfterStart
        BY <2>1, <3>1 DEF OwnDuties, AfterStart, AfterClaim
      <4>. QED
        BY <3>1, <4>1 DEF IInv, AttemptsAreOnRecord
    <3>2. CASE y # x
      BY <1>1, <2>1, <3>2 DEF IInv, AttemptsAreOnRecord, PlanOf
    <3>. QED
      BY <3>1, <3>2
  <2>2. ASSUME NEW a \in starts
        PROVE  /\ Consumer(a.by)' /\ pc'[a.by] \in AfterStart \cup {"done"}
               /\ seen'[a.by].claimed = a.plan.release
    <3>1. CASE a.by = x
      BY <3>1 DEF IInv, AttemptsAreOnRecord, OwnDuties
    <3>2. CASE a.by # x
      BY <1>1, <1>4, <3>2 DEF IInv, AttemptsAreOnRecord
    <3>. QED
      BY <3>1, <3>2
  <2>. QED
    BY <2>1, <2>2 DEF IInv, AttemptsAreOnRecord, OwnFiles
<1>6. \A b \in results' \ results :
        [plan |-> b.plan, by |-> b.by] \in starts /\ b.by = x /\ pc[x] \in AfterStart
  BY DEF IInv, AttemptsAreOnRecord, OwnFiles, OwnResult
<1>7. TypeOK'
  <2>1. \A a \in (starts \cup results)' : a.plan \in plans' /\ a.by \in Invocations
    <3>1. ASSUME NEW b \in results' \ results
          PROVE  b.plan \in plans /\ b.by \in Invocations
      <4>. DEFINE a == [plan |-> b.plan, by |-> b.by]
      <4>1. a \in starts /\ a.plan = b.plan /\ a.by = b.by
        BY <1>6
      <4>. HIDE DEF a
      <4>. QED
        BY <1>4, <4>1
    <3>. QED
      BY <1>4, <3>1 DEF OwnFiles
  <2>. QED
    BY <2>1 DEF IInv, TypeOK, Alone, OwnFiles
<1>8. ContainerIsReported'
  <2>. SUFFICES ASSUME NEW y \in Invocations, web'.by = y
                PROVE  /\ pc'[y] # "idle"
                       /\ Executes(y)' => \/ pc'[y] \in {"await", "identity", "static", "result"}
                                          \/ verdict'[y] # None /\ (verdict'[y].touched \/ verdict'[y].status = "KILLED")
    BY DEF ContainerIsReported
  <2>1. CASE y = x
    BY <2>1 DEF OwnDuties, OwnReport, Executes
  <2>2. CASE y # x
    BY <1>1, <2>2 DEF IInv, ContainerIsReported, Executes, OwnFiles
  <2>. QED
    BY <2>1, <2>2
<1>9. OneAttemptPerAuthorization'
  <2>1. \A a \in starts : claim'[a.plan.release] # None
    BY <1>2, <1>4, <1>5 DEF AttemptsAreOnRecord, ClaimIsHeld, Linked, OwnFiles
  <2>2. \A b \in results' : \E a \in starts : a.plan = b.plan /\ a.by = b.by
    BY <1>6 DEF IInv, OneAttemptPerAuthorization
  <2>. QED
    BY <2>1, <2>2 DEF IInv, OneAttemptPerAuthorization, OwnFiles
<1>10. AcceptedMeansAuthorized'
  <2>. SUFFICES ASSUME NEW b \in results', b.status = "PASS"
                PROVE  /\ b.post.source = b.plan.release.source /\ b.post.image = b.plan.release.image
                       /\ auth'[b.plan.release] # None
    BY DEF AcceptedMeansAuthorized
  <2>1. b.post.source = b.plan.release.source /\ b.post.image = b.plan.release.image
    BY DEF IInv, AcceptedMeansAuthorized, OwnFiles, OwnResult
  <2>2. PICK a \in starts : a.plan = b.plan
    BY <1>9 DEF OneAttemptPerAuthorization, OwnFiles
  <2>3. auth'[a.plan.release] # None
    BY <1>2, <1>4, <1>5 DEF AttemptsAreOnRecord, ClaimIsHeld, Linked, OwnFiles
  <2>. QED
    BY <2>1, <2>2, <2>3
<1>11. ReportsAreTrue'
  <2>. SUFFICES ASSUME NEW y \in Invocations, verdict'[y] # None, verdict'[y].status # "KILLED"
                PROVE  /\ Executes(y)' /\ ~ verdict'[y].touched => web'.by # y
                       /\ ~ verdict'[y].consumed => \A a \in starts' : a.by # y
    BY DEF ReportsAreTrue
  <2>1. CASE y = x
    <3>1. Executes(x)' /\ ~ verdict'[x].touched => web'.by # x
      BY <2>1 DEF OwnReport, OwnDuties, Executes
    <3>2. pc'[x] = "done"
      BY <2>1 DEF OwnDuties, FollowsScript
    <3>3. \A a \in starts' : a.by = x => Consumer(x)'
      BY <1>5 DEF AttemptsAreOnRecord
    <3>4. Consumer(x)' => verdict'[x].consumed
      BY <3>2 DEF Consumer, Consumed, AfterClaim
    <3>. QED
      BY <2>1, <3>1, <3>3, <3>4
  <2>2. CASE y # x
    BY <1>1, <2>2 DEF IInv, ReportsAreTrue, Executes, OwnFiles
  <2>. QED
    BY <2>1, <2>2
<1>. QED
  BY <1>2, <1>3, <1>5, <1>7, <1>8, <1>9, <1>10, <1>11 DEF IInv

LEMMA QuietKeepsIInv ==
  ASSUME IInv, NEW x \in Invocations, Alone(x), pc[x] # "done", OwnDuties(x), OwnReport(x),
         UNCHANGED <<files, production>>,
         tagged' \in [Sources -> Made], evidence' \in [Sources -> Made]
  PROVE  IInv'
<1>1. \A y \in Invocations : Linked(y) => claim[seen[y].claimed] # None
  BY DEF IInv, ClaimIsHeld
<1>2. OwnFiles(x)
  BY <1>1 DEF IInv, TypeOK, OwnFiles, files, production
<1>. QED
  BY <1>2, StepKeepsIInv

\* Control steps after a container was started, if one was.
AfterUp == {"await", "identity", "static", "result"}

LEMMA ExitKeepsIInv ==
  ASSUME IInv, NEW x \in Invocations, NEW rep \in Reports, Exit(x, rep),
         UNCHANGED <<files, production>>,
         tagged' \in [Sources -> Made], evidence' \in [Sources -> Made],
         pc[x] \notin {"idle", "done"},
         rep.consumed => Linked(x) \/ seen[x].claimed = None,
         pc[x] \in AfterClaim => rep.consumed,
         Executes(x) /\ pc[x] \in AfterUp => rep.touched \/ rep.status = "KILLED"
  PROVE  IInv'
<1>1. /\ TypeOK /\ FollowsScript(x) /\ ClaimIsHeld(x)
  BY DEF IInv
<1>2. /\ Alone(x) /\ pc'[x] = "done" /\ verdict'[x] = rep
      /\ job'[x] = job[x] /\ seen'[x].claimed = seen[x].claimed
  BY <1>1, ExitAlone
<1>3. rep # None
  BY NoneIsNoValue
<1>4. verdict[x] = None
  BY <1>1 DEF FollowsScript
<1>5. FollowsScript(x)'
  BY <1>1, <1>2, <1>3 DEF FollowsScript, WithRelease, WithSnapshot, WithPlan, AfterClaim, ClaimSteps
<1>6. Linked(x)' => Linked(x)
  BY <1>2 DEF Linked, Consumer, Consumed, AfterClaim
<1>7. ClaimIsHeld(x)'
  BY <1>1, <1>2, <1>6 DEF ClaimIsHeld, files, AfterClaim
<1>8. pc[x] \in AfterClaim => Consumer(x)'
  BY <1>1, <1>2, <1>3, NoneIsNoValue DEF Consumer, Consumed, ClaimIsHeld, FollowsScript, WithPlan
<1>9. OwnDuties(x)
  BY <1>2, <1>5, <1>6, <1>7, <1>8 DEF OwnDuties, AfterStart, AfterClaim, IInv, ClaimIsExclusive
<1>10. OwnReport(x)
  <2>1. web'.by = x /\ Executes(x) => pc[x] \in AfterUp
    BY <1>1, <1>4 DEF IInv, ContainerIsReported, production, AfterUp
  <2>. QED
    BY <1>2, <1>3, <2>1 DEF OwnReport
<1>. QED
  BY <1>2, <1>9, <1>10, QuietKeepsIInv

LEMMA ConsumersAreLinked ==
  ASSUME IInv, NEW x \in Invocations, pc[x] \in AfterClaim
  PROVE  Linked(x) /\ Consumer(x) /\ seen[x].claimed \in Releases
  BY NoneIsNoValue DEF IInv, ClaimIsHeld, FollowsScript, WithPlan, Linked, Consumer, Consumed

LEMMA GoOnKeepsIInv ==
  ASSUME IInv, NEW x \in Invocations, NEW s \in Steps, NEW m \in Memories, GoOn(x, s, m),
         UNCHANGED <<files, production>>,
         tagged' \in [Sources -> Made], evidence' \in [Sources -> Made],
         pc[x] \notin {"idle", "done"}, s \notin {"idle", "done"},
         FollowsScript(x)', ClaimIsHeld(x)',
         s \in AfterClaim \cup {"verify"} =>
           pc[x] \in AfterClaim \cup {"verify"} /\ m.claimed = seen[x].claimed,
         s \in AfterStart => pc[x] \in AfterStart,
         pc[x] \in AfterStart => /\ s \in AfterStart
                                 /\ m.release = seen[x].release /\ m.pre = seen[x].pre,
         pc[x] \in AfterUp => s \in AfterUp
  PROVE  IInv'
<1>1. /\ TypeOK /\ FollowsScript(x) /\ ClaimIsHeld(x)
  BY DEF IInv
<1>2. /\ Alone(x) /\ pc'[x] = s /\ seen'[x] = m
      /\ job'[x] = job[x] /\ verdict'[x] = verdict[x] /\ verdict[x] = None
  BY <1>1, GoOnAlone DEF FollowsScript
<1>3. pc[x] \in AfterClaim => Consumer(x)
  BY <1>1, NoneIsNoValue DEF ClaimIsHeld, Linked, Consumer, Consumed, FollowsScript, WithPlan
<1>4. Linked(x)' => Linked(x) /\ m.claimed = seen[x].claimed
  BY <1>2, <1>3 DEF Linked, Consumer, Consumed
<1>5. pc[x] \in AfterStart => Consumer(x)' /\ m.claimed = seen[x].claimed /\ PlanOf(x)' = PlanOf(x)
  BY <1>2, <1>3 DEF Consumer, Consumed, PlanOf, AfterStart
<1>6. OwnDuties(x)
  BY <1>2, <1>4, <1>5 DEF OwnDuties, IInv, ClaimIsExclusive
<1>7. OwnReport(x)
  BY <1>1, <1>2 DEF IInv, ContainerIsReported, OwnReport, production, AfterUp
<1>. QED
  BY <1>2, <1>6, <1>7, QuietKeepsIInv

-----------------------------------------------------------------------------
(* The steps that only read. *)

\* A memory with one field set.
LEMMA MemoryFields ==
  ASSUME NEW m \in Memories
  PROVE  /\ \A r \in Releases : [m EXCEPT !.claimed = r] \in Memories /\ [Blank EXCEPT !.release = r] \in Memories
         /\ \A p \in Snapshots : [m EXCEPT !.pre = p] \in Memories
         /\ \A i \in Made : [m EXCEPT !.inode = i] \in Memories /\ [m EXCEPT !.image = i] \in Memories
         /\ \A c \in Containers : [m EXCEPT !.post = c] \in Memories
         /\ \A b \in BOOLEAN : [m EXCEPT !.good = b] \in Memories
  BY BlankIsMemory DEF Memories, Maybe

\* What is read from the world is of the kind a memory has room for.
LEMMA WorldIsTyped ==
  ASSUME TypeOK, NEW x \in Invocations, job[x] # None
  PROVE  /\ SourceOf(x) \in Sources
         /\ FreshPlan(x) \in Releases /\ FreshPlan(x).source = SourceOf(x)
         /\ Now \in Snapshots
         /\ \A s \in Sources : tagged[s] \in Made
         /\ \A r \in Releases : auth[r] # None => auth[r] \in Made
  BY DEF TypeOK, Maybe, Jobs, SourceOf, FreshPlan, Releases, Now, Snapshots

LEMMA StartKeepsIInv ==
  ASSUME IInv, NEW x \in Invocations, Start(x)
  PROVE  IInv'
<1>. USE DEF files, production, candidate
<1>1. TypeOK /\ FollowsScript(x) /\ ClaimIsHeld(x)
  BY DEF IInv
<1>. PICK j \in Jobs : job'[x] = j
  BY <1>1 DEF Start, TypeOK
<1>2. /\ pc[x] = "idle" /\ pc'[x] \in {"build", "operate", "claimPlan", "plan"}
      /\ pc'[x] = "claimPlan" => j.script = "claim"
      /\ pc'[x] = "operate" => j.script = "operate"
      /\ Alone(x) /\ seen' = seen /\ verdict' = verdict
      /\ verdict[x] = None
  BY <1>1 DEF Start, TypeOK, Alone, FollowsScript, Steps, Maybe
<1>3. j # None
  BY NoneIsNoValue
<1>4. FollowsScript(x)'
  BY <1>1, <1>2, <1>3
     DEF FollowsScript, Executes, ClaimSteps, WithPlan, WithRelease, WithSnapshot, AfterClaim
<1>5. ~ Linked(x)' /\ ClaimIsHeld(x)'
  BY <1>2 DEF Linked, Consumer, Consumed, AfterClaim, ClaimIsHeld
<1>6. web.by # x
  BY <1>2 DEF IInv, ContainerIsReported
<1>. QED
  <2>1. TypeOK' /\ AttemptsAreOnRecord' /\ ContainerIsReported'
    <3>1. TypeOK'
      BY <1>1, <1>2 DEF Start, TypeOK, Alone
    <3>2. \A y \in Invocations : pc'[y] \in AfterStart => pc[y] \in AfterStart /\ PlanOf(y)' = PlanOf(y)
      BY <1>2 DEF Alone, AfterStart, AfterClaim, PlanOf
    <3>3. \A a \in starts : a.by # x /\ a.by \in Invocations
      BY <1>1, <1>2 DEF IInv, TypeOK, AttemptsAreOnRecord, AfterStart, AfterClaim
    <3>4. AttemptsAreOnRecord'
      <4>1. \A y \in Invocations : pc'[y] \in AfterStart => [plan |-> PlanOf(y), by |-> y]' \in starts
        BY <3>2 DEF IInv, AttemptsAreOnRecord
      <4>2. \A a \in starts : Consumer(a.by)' /\ pc'[a.by] = pc[a.by]
        BY <1>2, <3>3 DEF IInv, AttemptsAreOnRecord, Alone, Consumer, Consumed
      <4>. QED
        BY <1>2, <4>1, <4>2 DEF IInv, AttemptsAreOnRecord, Start
    <3>5. ContainerIsReported'
      BY <1>2, <1>6 DEF IInv, ContainerIsReported, Start, Alone, Executes
    <3>. QED
      BY <3>1, <3>4, <3>5
  <2>2. \A y \in Invocations \ {x} : FollowsScript(y)' /\ ClaimIsHeld(y)' /\ (Linked(y)' <=> Linked(y))
    <3>. SUFFICES ASSUME NEW y \in Invocations \ {x}
                  PROVE  FollowsScript(y)' /\ ClaimIsHeld(y)' /\ (Linked(y)' <=> Linked(y))
      OBVIOUS
    <3>1. Linked(y) => claim'[seen[y].claimed] # None
      BY DEF IInv, ClaimIsHeld, Start
    <3>2. plans' = plans /\ auth' = auth
      BY DEF Start
    <3>. QED
      BY <1>2, <3>1, <3>2, OthersStaySound
  <2>3. ClaimIsExclusive'
    BY <1>2, <1>5, <2>2 DEF IInv, ClaimIsExclusive
  <2>4. OneAttemptPerAuthorization' /\ AcceptedMeansAuthorized'
    BY DEF IInv, OneAttemptPerAuthorization, AcceptedMeansAuthorized, Start
  <2>5. ReportsAreTrue'
    BY <1>2 DEF IInv, ReportsAreTrue, Start, Alone, Executes
  <2>. QED
    BY <1>4, <1>5, <2>1, <2>2, <2>3, <2>4, <2>5 DEF IInv

LEMMA BuildKeepsIInv ==
  ASSUME IInv, NEW x \in Invocations, Build(x) \/ Record(x)
  PROVE  IInv'
<1>. USE DEF files, production
<1>1. TypeOK /\ FollowsScript(x) /\ ClaimIsHeld(x)
  BY DEF IInv
<1>2. pc[x] \in {"build", "record"} /\ job[x] # None
  BY <1>1 DEF Build, Record, FollowsScript
<1>3. tagged' \in [Sources -> Made] /\ evidence' \in [Sources -> Made]
  BY <1>1, <1>2, WorldIsTyped DEF Build, Record, TypeOK, Made
<1>4. CASE Build(x)
  <2>1. GoOn(x, "record", Blank) /\ "record" \in Steps /\ Blank \in Memories
    BY <1>4, BlankIsMemory DEF Build, Steps
  <2>2. pc'[x] = "record" /\ job'[x] = job[x] /\ verdict'[x] = verdict[x]
    BY <1>1, <2>1, GoOnAlone
  <2>3. FollowsScript(x)' /\ ClaimIsHeld(x)'
    BY <1>1, <1>2, <2>2
       DEF FollowsScript, ClaimIsHeld, Linked, Consumer, Consumed, WithRelease, WithSnapshot, WithPlan, AfterClaim, ClaimSteps
  <2>. QED
    BY <1>2, <1>3, <1>4, <2>1, <2>3, GoOnKeepsIInv DEF AfterUp, AfterStart, AfterClaim, Build
<1>5. CASE Record(x)
  <2>1. Exit(x, Done)
    BY <1>5 DEF Record
  <2>2. Done \in Reports /\ Done.consumed = FALSE
    BY DEF Done, Reports, Statuses
  <2>. QED
    BY <1>2, <1>3, <1>5, <2>1, <2>2, ExitKeepsIInv DEF AfterUp, AfterClaim, Record
<1>. QED
  BY <1>4, <1>5

\* A step that reads and then goes on or leaves, with the duties of either way.
LEMMA CheckKeepsIInv ==
  ASSUME IInv, NEW x \in Invocations, NEW ok \in BOOLEAN, NEW s \in Steps, NEW m, NEW rep,
         Check(x, ok, s, m, rep),
         pc[x] \notin {"idle", "done"}, s \notin {"idle", "done"},
         ok => m \in Memories,
         ok /\ pc'[x] = s /\ seen'[x] = m /\ job'[x] = job[x] /\ verdict'[x] = None
            /\ auth' = auth /\ claim' = claim /\ plans' = plans
           => FollowsScript(x)' /\ ClaimIsHeld(x)',
         s \in AfterClaim \cup {"verify"} =>
           pc[x] \in AfterClaim \cup {"verify"} /\ m.claimed = seen[x].claimed,
         s \in AfterStart => pc[x] \in AfterStart,
         pc[x] \in AfterStart => /\ s \in AfterStart
                                 /\ m.release = seen[x].release /\ m.pre = seen[x].pre,
         pc[x] \in AfterUp => s \in AfterUp,
         ~ ok => /\ rep \in Reports
                 /\ rep.consumed => Linked(x) \/ seen[x].claimed = None
                 /\ pc[x] \in AfterClaim => rep.consumed
                 /\ Executes(x) /\ pc[x] \in AfterUp => rep.touched \/ rep.status = "KILLED"
  PROVE  IInv'
<1>1. TypeOK /\ FollowsScript(x)
  BY DEF IInv
<1>2. UNCHANGED <<files, production>> /\ tagged' \in [Sources -> Made] /\ evidence' \in [Sources -> Made]
  BY <1>1 DEF Check, TypeOK, candidate
<1>3. CASE ok
  <2>1. GoOn(x, s, m)
    BY <1>3 DEF Check
  <2>2. pc'[x] = s /\ seen'[x] = m /\ job'[x] = job[x] /\ verdict'[x] = None
    BY <1>1, <1>3, <2>1, GoOnAlone DEF FollowsScript
  <2>3. FollowsScript(x)' /\ ClaimIsHeld(x)'
    BY <1>2, <1>3, <2>2 DEF files
  <2>. QED
    BY <1>2, <1>3, <2>1, <2>3, GoOnKeepsIInv
<1>4. CASE ~ ok
  <2>1. Exit(x, rep)
    BY <1>4 DEF Check
  <2>. QED
    BY <1>2, <1>4, <2>1, ExitKeepsIInv
<1>. QED
  BY <1>3, <1>4

LEMMA PlanReleaseKeepsIInv ==
  ASSUME IInv, NEW x \in Invocations, PlanRelease(x)
  PROVE  IInv'
<1>1. TypeOK /\ FollowsScript(x) /\ ClaimIsHeld(x) /\ pc[x] = "plan" /\ job[x] # None
  BY DEF IInv, PlanRelease, FollowsScript
<1>. PICK works \in BOOLEAN : Check(x, Ready(x) /\ works, IF Executes(x) THEN "preflight" ELSE "approve",
             [Blank EXCEPT !.release = FreshPlan(x)], Before("RELEASE_PLAN_FAILED"))
  BY DEF PlanRelease, IsolatedE2E
<1>. DEFINE ok == Ready(x) /\ works
             m == [Blank EXCEPT !.release = FreshPlan(x)]
             rep == Before("RELEASE_PLAN_FAILED")
             s == IF Executes(x) THEN "preflight" ELSE "approve"
<1>2. Check(x, ok, s, m, rep) /\ ok \in BOOLEAN
  BY DEF PlanRelease
<1>3. s \in Steps \ {"idle", "done"}
  BY DEF Steps
<1>4. ok => m \in Memories
  BY <1>1, MemoryFields, WorldIsTyped, BlankIsMemory
<1>5. ~ ok => /\ rep \in Reports
              /\ rep.consumed => Linked(x) \/ seen[x].claimed = None
              /\ pc[x] \in AfterClaim => rep.consumed
              /\ Executes(x) /\ pc[x] \in AfterUp => rep.touched \/ rep.status = "KILLED"
  BY <1>1, ReportFields DEF Before, Statuses, AfterClaim, AfterUp
<1>6. m.release = FreshPlan(x) /\ m.claimed = None
  BY DEF Blank
<1>7. ok /\ pc'[x] = s /\ seen'[x] = m /\ job'[x] = job[x] /\ verdict'[x] = None
         /\ auth' = auth /\ claim' = claim /\ plans' = plans
        => FollowsScript(x)' /\ ClaimIsHeld(x)'
  BY <1>1, <1>6, WorldIsTyped
     DEF FollowsScript, WithRelease, WithSnapshot, WithPlan, AfterClaim, ClaimSteps, Executes, SourceOf, PlanOf, ClaimIsHeld, Linked, Consumer, Consumed
<1>8. s \notin AfterClaim \cup {"verify"} /\ pc[x] \notin AfterStart \cup AfterUp /\ s \notin AfterStart
  BY <1>1 DEF AfterClaim, AfterStart, AfterUp
<1>. HIDE DEF ok, m, rep, s
<1>. QED
  BY <1>1, <1>2, <1>3, <1>4, <1>5, <1>7, <1>8, CheckKeepsIInv

LEMMA ApproveKeepsIInv ==
  ASSUME IInv, NEW x \in Invocations, Approve(x)
  PROVE  IInv'
<1>1. TypeOK /\ FollowsScript(x) /\ ClaimIsHeld(x) /\ pc[x] = "approve" /\ job[x] # None
  BY DEF IInv, Approve, FollowsScript
<1>. DEFINE ok == auth[seen[x].release] = None
             m == seen[x]
             rep == Before("AUTHORIZATION_ALREADY_EXISTS")
<1>2. Check(x, ok, "publish", m, rep) /\ ok \in BOOLEAN
  BY DEF Approve
<1>3. "publish" \in Steps \ {"idle", "done"}
  BY DEF Steps
<1>4. ok => m \in Memories
  BY <1>1 DEF TypeOK
<1>5. /\ rep \in Reports
      /\ rep.consumed => Linked(x) \/ seen[x].claimed = None
      /\ pc[x] \in AfterClaim => rep.consumed
      /\ Executes(x) /\ pc[x] \in AfterUp => rep.touched \/ rep.status = "KILLED"
  BY <1>1, ReportFields DEF Before, Statuses, AfterClaim, AfterUp
<1>6. m = seen[x]
  OBVIOUS
<1>7. ok /\ pc'[x] = "publish" /\ seen'[x] = m /\ job'[x] = job[x] /\ verdict'[x] = None
         /\ auth' = auth /\ claim' = claim /\ plans' = plans
        => FollowsScript(x)' /\ ClaimIsHeld(x)'
  BY <1>1, <1>6, WorldIsTyped
     DEF FollowsScript, WithRelease, WithSnapshot, WithPlan, AfterClaim, ClaimSteps, Executes, SourceOf, PlanOf, ClaimIsHeld, Linked, Consumer, Consumed
<1>. HIDE DEF ok, m, rep
<1>. QED
  BY <1>1, <1>2, <1>3, <1>4, <1>5, <1>6, <1>7, CheckKeepsIInv DEF AfterClaim, AfterStart, AfterUp

LEMMA PreflightKeepsIInv ==
  ASSUME IInv, NEW x \in Invocations, Preflight(x)
  PROVE  IInv'
<1>1. TypeOK /\ FollowsScript(x) /\ ClaimIsHeld(x) /\ pc[x] = "preflight" /\ job[x] # None
  BY DEF IInv, Preflight, FollowsScript
<1>. DEFINE ok == auth[seen[x].release] # None /\ claim[seen[x].release] = None
                     /\ evidence[seen[x].release.source] = seen[x].release.image
                     /\ tagged[seen[x].release.source] = seen[x].release.image
             m == [seen[x] EXCEPT !.pre = Now]
             rep == Before("PLANNER_FAILED")
<1>2. Check(x, ok, "recheck", m, rep) /\ ok \in BOOLEAN
  BY DEF Preflight
<1>3. "recheck" \in Steps \ {"idle", "done"}
  BY DEF Steps
<1>4. ok => m \in Memories
  BY <1>1, MemoryFields, WorldIsTyped DEF TypeOK
<1>5. /\ rep \in Reports
      /\ rep.consumed => Linked(x) \/ seen[x].claimed = None
      /\ pc[x] \in AfterClaim => rep.consumed
      /\ Executes(x) /\ pc[x] \in AfterUp => rep.touched \/ rep.status = "KILLED"
  BY <1>1, ReportFields DEF Before, Statuses, AfterClaim, AfterUp
<1>6. m.release = seen[x].release /\ m.claimed = seen[x].claimed /\ m.pre = Now
  BY <1>1 DEF TypeOK, Memories
<1>7. ok /\ pc'[x] = "recheck" /\ seen'[x] = m /\ job'[x] = job[x] /\ verdict'[x] = None
         /\ auth' = auth /\ claim' = claim /\ plans' = plans
        => FollowsScript(x)' /\ ClaimIsHeld(x)'
  BY <1>1, <1>6, WorldIsTyped
     DEF FollowsScript, WithRelease, WithSnapshot, WithPlan, AfterClaim, ClaimSteps, Executes, SourceOf, PlanOf, ClaimIsHeld, Linked, Consumer, Consumed
<1>. HIDE DEF ok, m, rep
<1>. QED
  BY <1>1, <1>2, <1>3, <1>4, <1>5, <1>6, <1>7, CheckKeepsIInv DEF AfterClaim, AfterStart, AfterUp

LEMMA RecheckKeepsIInv ==
  ASSUME IInv, NEW x \in Invocations, Recheck(x)
  PROVE  IInv'
<1>1. TypeOK /\ FollowsScript(x) /\ ClaimIsHeld(x) /\ pc[x] = "recheck" /\ job[x] # None
  BY DEF IInv, Recheck, FollowsScript
<1>. PICK works \in BOOLEAN :
       Check(x, works /\ claim[seen[x].release] = None /\ Now = seen[x].pre,
             "savePlan", seen[x], Before("PLANNER_FAILED"))
  BY DEF Recheck, IsolatedE2E
<1>. DEFINE ok == works /\ claim[seen[x].release] = None /\ Now = seen[x].pre
             m == seen[x]
             rep == Before("PLANNER_FAILED")
<1>2. Check(x, ok, "savePlan", m, rep) /\ ok \in BOOLEAN
  BY DEF Recheck
<1>3. "savePlan" \in Steps \ {"idle", "done"}
  BY DEF Steps
<1>4. ok => m \in Memories
  BY <1>1 DEF TypeOK
<1>5. /\ rep \in Reports
      /\ rep.consumed => Linked(x) \/ seen[x].claimed = None
      /\ pc[x] \in AfterClaim => rep.consumed
      /\ Executes(x) /\ pc[x] \in AfterUp => rep.touched \/ rep.status = "KILLED"
  BY <1>1, ReportFields DEF Before, Statuses, AfterClaim, AfterUp
<1>6. m = seen[x]
  OBVIOUS
<1>7. ok /\ pc'[x] = "savePlan" /\ seen'[x] = m /\ job'[x] = job[x] /\ verdict'[x] = None
         /\ auth' = auth /\ claim' = claim /\ plans' = plans
        => FollowsScript(x)' /\ ClaimIsHeld(x)'
  BY <1>1, <1>6, WorldIsTyped
     DEF FollowsScript, WithRelease, WithSnapshot, WithPlan, AfterClaim, ClaimSteps, Executes, SourceOf, PlanOf, ClaimIsHeld, Linked, Consumer, Consumed
<1>. HIDE DEF ok, m, rep
<1>. QED
  BY <1>1, <1>2, <1>3, <1>4, <1>5, <1>6, <1>7, CheckKeepsIInv DEF AfterClaim, AfterStart, AfterUp

LEMMA SavePlanKeepsIInv ==
  ASSUME IInv, NEW x \in Invocations, SavePlan(x)
  PROVE  IInv'
<1>1. TypeOK /\ FollowsScript(x) /\ ClaimIsHeld(x) /\ pc[x] = "savePlan" /\ job[x] # None
  BY DEF IInv, SavePlan, FollowsScript
<1>. DEFINE ok == PlanOf(x) \notin plans
             m == seen[x]
             rep == Before("EXECUTION_PLAN_ALREADY_EXISTS")
<1>2. Check(x, ok, "writePlan", m, rep) /\ ok \in BOOLEAN
  BY DEF SavePlan
<1>3. "writePlan" \in Steps \ {"idle", "done"}
  BY DEF Steps
<1>4. ok => m \in Memories
  BY <1>1 DEF TypeOK
<1>5. /\ rep \in Reports
      /\ rep.consumed => Linked(x) \/ seen[x].claimed = None
      /\ pc[x] \in AfterClaim => rep.consumed
      /\ Executes(x) /\ pc[x] \in AfterUp => rep.touched \/ rep.status = "KILLED"
  BY <1>1, ReportFields DEF Before, Statuses, AfterClaim, AfterUp
<1>6. m = seen[x]
  OBVIOUS
<1>7. ok /\ pc'[x] = "writePlan" /\ seen'[x] = m /\ job'[x] = job[x] /\ verdict'[x] = None
         /\ auth' = auth /\ claim' = claim /\ plans' = plans
        => FollowsScript(x)' /\ ClaimIsHeld(x)'
  BY <1>1, <1>6, WorldIsTyped
     DEF FollowsScript, WithRelease, WithSnapshot, WithPlan, AfterClaim, ClaimSteps, Executes, SourceOf, PlanOf, ClaimIsHeld, Linked, Consumer, Consumed
<1>. HIDE DEF ok, m, rep
<1>. QED
  BY <1>1, <1>2, <1>3, <1>4, <1>5, <1>6, <1>7, CheckKeepsIInv DEF AfterClaim, AfterStart, AfterUp

LEMMA DriftKeepsIInv ==
  ASSUME IInv, NEW x \in Invocations, Drift(x)
  PROVE  IInv'
<1>1. TypeOK /\ FollowsScript(x) /\ ClaimIsHeld(x) /\ pc[x] = "drift" /\ job[x] # None
  BY DEF IInv, Drift, FollowsScript
<1>. DEFINE ok == Now = seen[x].pre /\ tagged[seen[x].release.source] = seen[x].release.image
             m == seen[x]
             rep == Before("DRIFT")
<1>2. Check(x, ok, "recover", m, rep) /\ ok \in BOOLEAN
  BY DEF Drift
<1>3. "recover" \in Steps \ {"idle", "done"}
  BY DEF Steps
<1>4. ok => m \in Memories
  BY <1>1 DEF TypeOK
<1>5. /\ rep \in Reports
      /\ rep.consumed => Linked(x) \/ seen[x].claimed = None
      /\ pc[x] \in AfterClaim => rep.consumed
      /\ Executes(x) /\ pc[x] \in AfterUp => rep.touched \/ rep.status = "KILLED"
  BY <1>1, ReportFields DEF Before, Statuses, AfterClaim, AfterUp
<1>6. m = seen[x]
  OBVIOUS
<1>7. ok /\ pc'[x] = "recover" /\ seen'[x] = m /\ job'[x] = job[x] /\ verdict'[x] = None
         /\ auth' = auth /\ claim' = claim /\ plans' = plans
        => FollowsScript(x)' /\ ClaimIsHeld(x)'
  BY <1>1, <1>6, WorldIsTyped
     DEF FollowsScript, WithRelease, WithSnapshot, WithPlan, AfterClaim, ClaimSteps, Executes, SourceOf, PlanOf, ClaimIsHeld, Linked, Consumer, Consumed
<1>. HIDE DEF ok, m, rep
<1>. QED
  BY <1>1, <1>2, <1>3, <1>4, <1>5, <1>6, <1>7, CheckKeepsIInv DEF AfterClaim, AfterStart, AfterUp

LEMMA ClaimPlanKeepsIInv ==
  ASSUME IInv, NEW x \in Invocations, ClaimPlan(x)
  PROVE  IInv'
<1>1. TypeOK /\ FollowsScript(x) /\ ClaimIsHeld(x) /\ pc[x] = "claimPlan" /\ job[x] # None
  BY DEF IInv, ClaimPlan, FollowsScript
<1>. PICK works \in BOOLEAN : Check(x, Ready(x) /\ works, "capture",
             [seen[x] EXCEPT !.claimed = FreshPlan(x)], Before("CLAIM_FAILED"))
  BY DEF ClaimPlan, IsolatedE2E
<1>. DEFINE ok == Ready(x) /\ works
             m == [seen[x] EXCEPT !.claimed = FreshPlan(x)]
             rep == Before("CLAIM_FAILED")
<1>2. Check(x, ok, "capture", m, rep) /\ ok \in BOOLEAN
  BY DEF ClaimPlan
<1>3. "capture" \in Steps \ {"idle", "done"}
  BY DEF Steps
<1>4. ok => m \in Memories
  BY <1>1, WorldIsTyped DEF TypeOK, Memories, Maybe
<1>5. /\ rep \in Reports
      /\ rep.consumed => Linked(x) \/ seen[x].claimed = None
      /\ pc[x] \in AfterClaim => rep.consumed
      /\ Executes(x) /\ pc[x] \in AfterUp => rep.touched \/ rep.status = "KILLED"
  BY <1>1, ReportFields DEF Before, Statuses, AfterClaim, AfterUp
<1>6. m.release = seen[x].release /\ m.claimed = FreshPlan(x) /\ m.pre = seen[x].pre
  BY <1>1 DEF TypeOK, Memories
<1>7. ok /\ pc'[x] = "capture" /\ seen'[x] = m /\ job'[x] = job[x] /\ verdict'[x] = None
         /\ auth' = auth /\ claim' = claim /\ plans' = plans
        => FollowsScript(x)' /\ ClaimIsHeld(x)'
  BY <1>1, <1>6, WorldIsTyped
     DEF FollowsScript, WithRelease, WithSnapshot, WithPlan, AfterClaim, ClaimSteps, Executes, SourceOf, PlanOf, ClaimIsHeld, Linked, Consumer, Consumed
<1>. HIDE DEF ok, m, rep
<1>. QED
  BY <1>1, <1>2, <1>3, <1>4, <1>5, <1>6, <1>7, CheckKeepsIInv DEF AfterClaim, AfterStart, AfterUp

LEMMA CaptureKeepsIInv ==
  ASSUME IInv, NEW x \in Invocations, Capture(x)
  PROVE  IInv'
<1>1. TypeOK /\ FollowsScript(x) /\ ClaimIsHeld(x) /\ pc[x] = "capture" /\ job[x] # None
  BY DEF IInv, Capture, FollowsScript
<1>. DEFINE ok == auth[seen[x].claimed] # None /\ claim[seen[x].claimed] = None
             m == [seen[x] EXCEPT !.inode = auth[seen[x].claimed]]
             rep == Before("CLAIM_FAILED")
<1>2. Check(x, ok, "link", m, rep) /\ ok \in BOOLEAN
  BY DEF Capture
<1>3. "link" \in Steps \ {"idle", "done"}
  BY DEF Steps
<1>4. ok => m \in Memories
  BY <1>1, MemoryFields, WorldIsTyped DEF TypeOK, FollowsScript
<1>5. /\ rep \in Reports
      /\ rep.consumed => Linked(x) \/ seen[x].claimed = None
      /\ pc[x] \in AfterClaim => rep.consumed
      /\ Executes(x) /\ pc[x] \in AfterUp => rep.touched \/ rep.status = "KILLED"
  BY <1>1, ReportFields DEF Before, Statuses, AfterClaim, AfterUp
<1>6. m.release = seen[x].release /\ m.claimed = seen[x].claimed /\ m.pre = seen[x].pre
  BY <1>1 DEF TypeOK, Memories
<1>7. ok /\ pc'[x] = "link" /\ seen'[x] = m /\ job'[x] = job[x] /\ verdict'[x] = None
         /\ auth' = auth /\ claim' = claim /\ plans' = plans
        => FollowsScript(x)' /\ ClaimIsHeld(x)'
  BY <1>1, <1>6, WorldIsTyped
     DEF FollowsScript, WithRelease, WithSnapshot, WithPlan, AfterClaim, ClaimSteps, Executes, SourceOf, PlanOf, ClaimIsHeld, Linked, Consumer, Consumed
<1>. HIDE DEF ok, m, rep
<1>. QED
  BY <1>1, <1>2, <1>3, <1>4, <1>5, <1>6, <1>7, CheckKeepsIInv DEF AfterClaim, AfterStart, AfterUp

LEMMA ImageCheckKeepsIInv ==
  ASSUME IInv, NEW x \in Invocations, ImageCheck(x)
  PROVE  IInv'
<1>1. TypeOK /\ FollowsScript(x) /\ ClaimIsHeld(x) /\ pc[x] = "imageCheck" /\ job[x] # None
  BY DEF IInv, ImageCheck, FollowsScript
<1>. DEFINE ok == tagged[seen[x].release.source] = seen[x].release.image
             m == seen[x]
             rep == Blocked("POST_CLAIM_IMAGE_TOCLOU_FAILED", TRUE, FALSE)
<1>2. Check(x, ok, "start", m, rep) /\ ok \in BOOLEAN
  BY DEF ImageCheck
<1>3. "start" \in Steps \ {"idle", "done"}
  BY DEF Steps
<1>4. ok => m \in Memories
  BY <1>1 DEF TypeOK
<1>5. /\ rep \in Reports
      /\ rep.consumed => Linked(x) \/ seen[x].claimed = None
      /\ pc[x] \in AfterClaim => rep.consumed
      /\ Executes(x) /\ pc[x] \in AfterUp => rep.touched \/ rep.status = "KILLED"
  BY <1>1, ReportFields, ConsumersAreLinked DEF Statuses, AfterClaim, AfterUp
<1>6. m = seen[x]
  OBVIOUS
<1>7. ok /\ pc'[x] = "start" /\ seen'[x] = m /\ job'[x] = job[x] /\ verdict'[x] = None
         /\ auth' = auth /\ claim' = claim /\ plans' = plans
        => FollowsScript(x)' /\ ClaimIsHeld(x)'
  BY <1>1, <1>6, WorldIsTyped
     DEF FollowsScript, WithRelease, WithSnapshot, WithPlan, AfterClaim, ClaimSteps, Executes, SourceOf, PlanOf, ClaimIsHeld, Linked, Consumer, Consumed
<1>. HIDE DEF ok, m, rep
<1>. QED
  BY <1>1, <1>2, <1>3, <1>4, <1>5, <1>6, <1>7, CheckKeepsIInv DEF AfterClaim, AfterStart, AfterUp

LEMMA InspectKeepsIInv ==
  ASSUME IInv, NEW x \in Invocations, Inspect(x)
  PROVE  IInv'
<1>1. TypeOK /\ FollowsScript(x) /\ ClaimIsHeld(x) /\ pc[x] = "inspect" /\ job[x] # None
  BY DEF IInv, Inspect, FollowsScript
<1>. DEFINE ok == TRUE
             m == [seen[x] EXCEPT !.image = tagged[SourceOf(x)]]
             rep == None
<1>2. Check(x, ok, "up", m, rep) /\ ok \in BOOLEAN
  BY DEF Inspect
<1>3. "up" \in Steps \ {"idle", "done"}
  BY DEF Steps
<1>4. ok => m \in Memories
  BY <1>1, MemoryFields, WorldIsTyped DEF TypeOK
<1>5. ok
  OBVIOUS
<1>6. m.release = seen[x].release /\ m.claimed = seen[x].claimed /\ m.pre = seen[x].pre
  BY <1>1 DEF TypeOK, Memories
<1>7. ok /\ pc'[x] = "up" /\ seen'[x] = m /\ job'[x] = job[x] /\ verdict'[x] = None
         /\ auth' = auth /\ claim' = claim /\ plans' = plans
        => FollowsScript(x)' /\ ClaimIsHeld(x)'
  BY <1>1, <1>6, WorldIsTyped
     DEF FollowsScript, WithRelease, WithSnapshot, WithPlan, AfterClaim, ClaimSteps, Executes, SourceOf, PlanOf, ClaimIsHeld, Linked, Consumer, Consumed
<1>. HIDE DEF ok, m, rep
<1>. QED
  BY <1>1, <1>2, <1>3, <1>4, <1>5, <1>6, <1>7, CheckKeepsIInv DEF AfterClaim, AfterStart, AfterUp

LEMMA IdentityKeepsIInv ==
  ASSUME IInv, NEW x \in Invocations, Identity(x)
  PROVE  IInv'
<1>1. TypeOK /\ FollowsScript(x) /\ ClaimIsHeld(x) /\ pc[x] = "identity" /\ job[x] # None
  BY DEF IInv, Identity, FollowsScript
<1>. DEFINE ok == AuthorizedImage(x)
             m == [seen[x] EXCEPT !.post = web]
             rep == Blocked("POST_DEPLOY_IMAGE_MISMATCH", TRUE, TRUE)
<1>2. Check(x, ok, "static", m, rep) /\ ok \in BOOLEAN
  BY DEF Identity, AuthorizedImage
<1>3. "static" \in Steps \ {"idle", "done"}
  BY DEF Steps
<1>4. ok => m \in Memories
  BY <1>1, MemoryFields DEF TypeOK
<1>5. /\ rep \in Reports
      /\ rep.consumed => Linked(x) \/ seen[x].claimed = None
      /\ pc[x] \in AfterClaim => rep.consumed
      /\ Executes(x) /\ pc[x] \in AfterUp => rep.touched \/ rep.status = "KILLED"
  BY <1>1, ReportFields, ConsumersAreLinked DEF Statuses, AfterClaim, AfterUp
<1>6. m.release = seen[x].release /\ m.claimed = seen[x].claimed /\ m.pre = seen[x].pre /\ m.post = web
      /\ (ok => web \in Containers /\ web.source = SourceOf(x) /\ web.image = seen[x].release.image)
  BY <1>1 DEF TypeOK, Memories, AuthorizedImage
<1>7. ok /\ pc'[x] = "static" /\ seen'[x] = m /\ job'[x] = job[x] /\ verdict'[x] = None
         /\ auth' = auth /\ claim' = claim /\ plans' = plans
        => FollowsScript(x)' /\ ClaimIsHeld(x)'
  BY <1>1, <1>6, WorldIsTyped
     DEF FollowsScript, WithRelease, WithSnapshot, WithPlan, AfterClaim, ClaimSteps, Executes, SourceOf, PlanOf, ClaimIsHeld, Linked, Consumer, Consumed
<1>. HIDE DEF ok, m, rep
<1>. QED
  BY <1>1, <1>2, <1>3, <1>4, <1>5, <1>6, <1>7, CheckKeepsIInv DEF AfterClaim, AfterStart, AfterUp

LEMMA StaticKeepsIInv ==
  ASSUME IInv, NEW x \in Invocations, Static(x)
  PROVE  IInv'
<1>1. TypeOK /\ FollowsScript(x) /\ ClaimIsHeld(x) /\ pc[x] = "static" /\ job[x] # None
  BY DEF IInv, Static, FollowsScript
<1>. PICK same \in BOOLEAN :
       Check(x, TRUE, "result", [seen[x] EXCEPT !.good = same /\ web = seen[x].post], None)
  BY DEF Static
<1>. DEFINE ok == TRUE
             m == [seen[x] EXCEPT !.good = same /\ web = seen[x].post]
             rep == None
<1>2. Check(x, ok, "result", m, rep) /\ ok \in BOOLEAN
  BY DEF Static
<1>3. "result" \in Steps \ {"idle", "done"}
  BY DEF Steps
<1>4. ok => m \in Memories
  BY <1>1, MemoryFields DEF TypeOK
<1>5. ok
  OBVIOUS
<1>6. m.release = seen[x].release /\ m.claimed = seen[x].claimed /\ m.pre = seen[x].pre /\ m.post = seen[x].post
  BY <1>1 DEF TypeOK, Memories
<1>7. ok /\ pc'[x] = "result" /\ seen'[x] = m /\ job'[x] = job[x] /\ verdict'[x] = None
         /\ auth' = auth /\ claim' = claim /\ plans' = plans
        => FollowsScript(x)' /\ ClaimIsHeld(x)'
  BY <1>1, <1>6, WorldIsTyped
     DEF FollowsScript, WithRelease, WithSnapshot, WithPlan, AfterClaim, ClaimSteps, Executes, SourceOf, PlanOf, ClaimIsHeld, Linked, Consumer, Consumed
<1>. HIDE DEF ok, m, rep
<1>. QED
  BY <1>1, <1>2, <1>3, <1>4, <1>5, <1>6, <1>7, CheckKeepsIInv DEF AfterClaim, AfterStart, AfterUp

LEMMA RecoverKeepsIInv ==
  ASSUME IInv, NEW x \in Invocations, Recover(x)
  PROVE  IInv'
<1>1. /\ TypeOK /\ FollowsScript(x) /\ ClaimIsHeld(x)
      /\ pc[x] = "recover" /\ job[x] # None /\ seen[x].claimed = None
  BY DEF IInv, Recover, FollowsScript
<1>2. CASE \E rep \in Reports : Exit(x, rep) /\ UNCHANGED <<candidate, files, production>>
  <2>1. tagged' \in [Sources -> Made] /\ evidence' \in [Sources -> Made]
    BY <1>1, <1>2 DEF TypeOK, candidate
  <2>. QED
    BY <1>1, <1>2, <2>1, ExitKeepsIInv DEF AfterClaim, AfterUp
<1>3. CASE Check(x, claim[seen[x].release] = None, "claimPlan", seen[x],
                 Blocked("CLAIMED_NOT_STARTED", TRUE, FALSE))
  <2>. DEFINE ok == claim[seen[x].release] = None
              m == seen[x]
              rep == Blocked("CLAIMED_NOT_STARTED", TRUE, FALSE)
  <2>1. Check(x, ok, "claimPlan", m, rep) /\ ok \in BOOLEAN /\ m \in Memories
    BY <1>1, <1>3 DEF TypeOK
  <2>2. "claimPlan" \in Steps \ {"idle", "done"}
    BY DEF Steps
  <2>3. /\ rep \in Reports
        /\ rep.consumed => Linked(x) \/ seen[x].claimed = None
        /\ pc[x] \in AfterClaim => rep.consumed
        /\ Executes(x) /\ pc[x] \in AfterUp => rep.touched \/ rep.status = "KILLED"
    BY <1>1, ReportFields DEF Statuses, AfterClaim, AfterUp
  <2>4. ok /\ pc'[x] = "claimPlan" /\ seen'[x] = m /\ job'[x] = job[x] /\ verdict'[x] = None
           /\ auth' = auth /\ claim' = claim /\ plans' = plans
          => FollowsScript(x)' /\ ClaimIsHeld(x)'
    BY <1>1
       DEF FollowsScript, WithRelease, WithSnapshot, WithPlan, AfterClaim, ClaimSteps, Executes, SourceOf, PlanOf,
           ClaimIsHeld, Linked, Consumer, Consumed
  <2>. HIDE DEF ok, m, rep
  <2>. QED
    BY <1>1, <2>1, <2>2, <2>3, <2>4, CheckKeepsIInv DEF AfterClaim, AfterStart, AfterUp
<1>4. /\ Before("ATTEMPT_ALREADY_FINALIZED") \in Reports
      /\ Blocked("PRODUCTION_ATTEMPT_STATUS_UNKNOWN", FALSE, TRUE) \in Reports
  BY ReportFields DEF Before, Statuses
<1>. QED
  BY <1>2, <1>3, <1>4 DEF Recover

LEMMA DieKeepsIInv ==
  ASSUME IInv, NEW x \in Invocations, Die(x)
  PROVE  IInv'
<1>. DEFINE rep == Blocked("KILLED", pc[x] \in AfterClaim, FALSE)
<1>1. /\ rep \in Reports /\ rep.status = "KILLED"
      /\ rep.consumed <=> pc[x] \in AfterClaim
  <2>1. CASE pc[x] \in AfterClaim
    <3>1. rep = Blocked("KILLED", TRUE, FALSE)
      <4>1. (pc[x] \in AfterClaim) = TRUE
        BY <2>1
      <4>. QED
        BY <4>1, Zenon
    <3>. QED
      BY <2>1, <3>1, ReportFields DEF Statuses
  <2>2. CASE pc[x] \notin AfterClaim
    <3>1. rep = Blocked("KILLED", FALSE, FALSE)
      <4>1. (pc[x] \in AfterClaim) = FALSE
        BY <2>2
      <4>. QED
        BY <4>1, Zenon
    <3>. QED
      BY <2>2, <3>1, ReportFields DEF Statuses
  <2>. QED
    BY <2>1, <2>2
<1>2. /\ Exit(x, rep) /\ UNCHANGED <<files, production>> /\ pc[x] \notin {"idle", "done"}
      /\ tagged' \in [Sources -> Made] /\ evidence' \in [Sources -> Made]
  BY DEF Die, IInv, TypeOK, candidate
<1>. HIDE DEF rep
<1>. QED
  BY <1>1, <1>2, ConsumersAreLinked, ExitKeepsIInv

-----------------------------------------------------------------------------
(* The steps that change files or production. *)

\* What others have claimed is there.
LEMMA ClaimsAreThere ==
  ASSUME IInv
  PROVE  /\ \A y \in Invocations : Linked(y) => seen[y].claimed \in Releases /\ claim[seen[y].claimed] # None
         /\ \A y, z \in Invocations : Linked(y) /\ Linked(z) /\ y # z => seen[y].claimed # seen[z].claimed
  BY DEF IInv, ClaimIsHeld, ClaimIsExclusive

\* What is true of x when it exits and its claim, if it had one, is still there.
LEMMA ExitDuties ==
  ASSUME IInv, NEW x \in Invocations, NEW rep \in Reports, Exit(x, rep),
         pc[x] \notin {"idle", "done"},
         rep.consumed => Linked(x) /\ claim'[seen[x].claimed] # None /\ auth'[seen[x].claimed] # None,
         pc[x] \in AfterClaim => rep.consumed
  PROVE  Alone(x) /\ OwnDuties(x)
<1>1. /\ TypeOK /\ FollowsScript(x) /\ ClaimIsHeld(x) /\ rep # None
  BY NoneIsNoValue DEF IInv
<1>2. /\ Alone(x) /\ pc'[x] = "done" /\ verdict'[x] = rep
      /\ job'[x] = job[x] /\ seen'[x].claimed = seen[x].claimed
  BY <1>1, ExitAlone
<1>3. FollowsScript(x)'
  BY <1>1, <1>2 DEF FollowsScript, WithRelease, WithSnapshot, WithPlan, AfterClaim, ClaimSteps
<1>4. (Linked(x)' => Linked(x)) /\ (Linked(x)' => rep.consumed)
  BY <1>2 DEF Linked, Consumer, Consumed, AfterClaim
<1>5. ClaimIsHeld(x)'
  BY <1>1, <1>2, <1>4 DEF ClaimIsHeld, AfterClaim
<1>6. pc[x] \in AfterClaim => Consumer(x)'
  BY <1>1, <1>2, ConsumersAreLinked, NoneIsNoValue DEF Consumer, Consumed
<1>. QED
  BY <1>2, <1>3, <1>4, <1>5, <1>6, ClaimsAreThere DEF OwnDuties, AfterStart, AfterClaim

LEMMA PublishKeepsIInv ==
  ASSUME IInv, NEW x \in Invocations, Publish(x)
  PROVE  IInv'
<1>1. /\ TypeOK /\ FollowsScript(x) /\ pc[x] = "publish" /\ Exit(x, Done)
      /\ Done \in Reports /\ Done.consumed = FALSE
  BY DEF IInv, Publish, Done, Reports, Statuses
<1>2. seen[x].release \in Releases
  BY <1>1 DEF FollowsScript, WithRelease
<1>3. Alone(x) /\ OwnDuties(x)
  BY <1>1, ExitDuties DEF AfterClaim
<1>4. OwnFiles(x)
  BY <1>1, <1>2, ClaimsAreThere, NoneIsNoValue
     DEF OwnFiles, Publish, TypeOK, candidate, production, Made, Maybe
<1>5. OwnReport(x)
  <2>1. web'.by = x => ~ Executes(x)
    BY <1>1 DEF IInv, ContainerIsReported, Publish, production, FollowsScript
  <2>. QED
    BY <2>1 DEF OwnReport
<1>. QED
  BY <1>1, <1>3, <1>4, <1>5, StepKeepsIInv

LEMMA OperateKeepsIInv ==
  ASSUME IInv, NEW x \in Invocations, Operate(x)
  PROVE  IInv'
<1>1. /\ TypeOK /\ FollowsScript(x) /\ pc[x] = "operate" /\ Exit(x, Done) /\ ~ Executes(x)
      /\ Done \in Reports /\ Done.consumed = FALSE /\ job[x] # None
  BY DEF IInv, Operate, FollowsScript, Done, Reports, Statuses
<1>2. Alone(x) /\ OwnDuties(x)
  BY <1>1, ExitDuties DEF AfterClaim
<1>3. web' \in Containers /\ (web' = web \/ web'.by = x) /\ neighbours' \in Made
  BY <1>1, WorldIsTyped DEF Operate, TypeOK, Containers, Made, Maybe
<1>4. OwnFiles(x)
  BY <1>1, <1>3, ClaimsAreThere DEF OwnFiles, Operate, TypeOK, candidate, files
<1>5. OwnReport(x)
  BY <1>1 DEF OwnReport
<1>. QED
  BY <1>1, <1>2, <1>4, <1>5, StepKeepsIInv

LEMMA WritePlanKeepsIInv ==
  ASSUME IInv, NEW x \in Invocations, WritePlan(x)
  PROVE  IInv'
<1>1. /\ TypeOK /\ FollowsScript(x) /\ ClaimIsHeld(x) /\ pc[x] = "writePlan" /\ GoOn(x, "drift", seen[x])
      /\ seen[x] \in Memories /\ "drift" \in Steps
  BY DEF IInv, TypeOK, WritePlan, Steps
<1>2. /\ Alone(x) /\ pc'[x] = "drift" /\ seen'[x] = seen[x]
      /\ job'[x] = job[x] /\ verdict'[x] = verdict[x]
  BY <1>1, GoOnAlone
<1>3. PlanOf(x) \in Plans
  BY <1>1 DEF FollowsScript, WithSnapshot, PlanOf, Plans
<1>4. FollowsScript(x)'
  BY <1>1, <1>2
     DEF WritePlan, FollowsScript, WithRelease, WithSnapshot, WithPlan, AfterClaim, ClaimSteps, Executes, SourceOf, PlanOf
<1>5. ~ Linked(x)' /\ ClaimIsHeld(x)'
  BY <1>1, <1>2 DEF ClaimIsHeld, Linked, Consumer, Consumed, AfterClaim, FollowsScript
<1>6. OwnDuties(x)
  BY <1>1, <1>2, <1>4, <1>5 DEF OwnDuties, AfterStart, AfterClaim
<1>7. OwnFiles(x)
  BY <1>1, <1>3, ClaimsAreThere DEF OwnFiles, WritePlan, TypeOK, candidate, production
<1>8. OwnReport(x)
  BY <1>1, <1>2 DEF IInv, OwnReport, ContainerIsReported, WritePlan, production, FollowsScript
<1>. QED
  BY <1>1, <1>2, <1>6, <1>7, <1>8, StepKeepsIInv

\* A step of the claim script: no container is of x's making if x executes.
LEMMA ClaimReportsNothing ==
  ASSUME IInv, NEW x \in Invocations, pc[x] \in {"link", "verify"},
         UNCHANGED production
  PROVE  web'.by = x => ~ Executes(x)
  BY DEF IInv, ContainerIsReported, production, FollowsScript

LEMMA LinkKeepsIInv ==
  ASSUME IInv, NEW x \in Invocations, Link(x)
  PROVE  IInv'
<1>. DEFINE r == seen[x].claimed
<1>1. /\ TypeOK /\ FollowsScript(x) /\ ClaimIsHeld(x) /\ pc[x] = "link"
      /\ r \in Releases /\ auth[r] # None /\ seen[x] \in Memories /\ "verify" \in Steps
  BY DEF IInv, TypeOK, Link, FollowsScript, ClaimIsHeld, Steps
<1>2. CASE claim[r] # None
  <2>1. Exit(x, Before("CLAIM_FAILED")) /\ UNCHANGED <<files, production>>
        /\ tagged' \in [Sources -> Made] /\ evidence' \in [Sources -> Made]
    BY <1>1, <1>2 DEF Link, files, TypeOK, candidate
  <2>2. Before("CLAIM_FAILED") \in Reports /\ Before("CLAIM_FAILED").consumed = FALSE
    BY ReportFields DEF Before, Statuses
  <2>. QED
    BY <1>1, <2>1, <2>2, ExitKeepsIInv DEF AfterClaim, AfterUp
<1>3. CASE claim[r] = None
  <2>1. /\ claim' = [claim EXCEPT ![r] = auth[r]] /\ GoOn(x, "verify", seen[x])
        /\ UNCHANGED <<candidate, auth, plans, starts, results, production>>
    BY <1>3 DEF Link
  <2>2. /\ Alone(x) /\ pc'[x] = "verify" /\ seen'[x] = seen[x]
        /\ job'[x] = job[x] /\ verdict'[x] = verdict[x]
    BY <1>1, <2>1, GoOnAlone
  <2>3. claim'[r] # None /\ claim' \in [Releases -> Maybe(Made)]
    BY <1>1, <2>1 DEF TypeOK
  <2>4. \A y \in Invocations : Linked(y) => seen[y].claimed # r /\ claim'[seen[y].claimed] # None
    BY <1>1, <1>3, <2>1, ClaimsAreThere DEF TypeOK
  <2>5. FollowsScript(x)' /\ ClaimIsHeld(x)'
    BY <1>1, <2>1, <2>2, <2>3
       DEF FollowsScript, WithRelease, WithSnapshot, WithPlan, AfterClaim, ClaimSteps, Executes, SourceOf, PlanOf,
           ClaimIsHeld
  <2>6. OwnDuties(x)
    BY <1>1, <2>2, <2>4, <2>5 DEF OwnDuties, AfterStart, AfterClaim
  <2>7. OwnFiles(x)
    BY <1>1, <2>1, <2>3, <2>4 DEF OwnFiles, TypeOK, candidate, production
  <2>8. OwnReport(x)
    BY <1>1, <2>1, <2>2, ClaimReportsNothing DEF OwnReport
  <2>. QED
    BY <1>1, <2>2, <2>6, <2>7, <2>8, StepKeepsIInv
<1>. QED
  BY <1>2, <1>3

LEMMA VerifyKeepsIInv ==
  ASSUME IInv, NEW x \in Invocations, Verify(x)
  PROVE  IInv'
<1>. DEFINE r == seen[x].claimed
<1>1. /\ TypeOK /\ FollowsScript(x) /\ ClaimIsHeld(x) /\ pc[x] = "verify" /\ Linked(x)
      /\ r \in Releases /\ auth[r] # None /\ claim[r] # None
      /\ seen[x] \in Memories /\ "imageCheck" \in Steps
  BY DEF IInv, TypeOK, Verify, FollowsScript, ClaimIsHeld, Linked, Steps
<1>2. UNCHANGED <<candidate, auth, plans, starts, results, production>>
      /\ tagged' \in [Sources -> Made] /\ evidence' \in [Sources -> Made]
  BY <1>1 DEF Verify, TypeOK, candidate
<1>3. /\ Blocked("CLAIM_OUTPUT_BINDING_FAILED", TRUE, FALSE) \in Reports
      /\ Blocked("CLAIMED", TRUE, FALSE) \in Reports
      /\ Before("CLAIM_FAILED") \in Reports /\ Before("CLAIM_FAILED").consumed = FALSE
  BY ReportFields DEF Before, Statuses
<1>4. CASE claim[r] = seen[x].inode /\ auth[r] = seen[x].inode
  <2>1. claim' = claim
    BY <1>4 DEF Verify
  <2>2. CASE Bound(x) /\ Executes(x)
    <3>1. GoOn(x, "imageCheck", seen[x])
      BY <1>4, <2>2 DEF Verify
    <3>2. pc'[x] = "imageCheck" /\ seen'[x] = seen[x] /\ job'[x] = job[x] /\ verdict'[x] = verdict[x]
      BY <1>1, <3>1, GoOnAlone
    <3>3. FollowsScript(x)' /\ ClaimIsHeld(x)'
      BY <1>1, <1>2, <2>1, <2>2, <3>2
         DEF FollowsScript, WithRelease, WithSnapshot, WithPlan, AfterClaim, ClaimSteps, Executes, SourceOf, PlanOf,
             ClaimIsHeld, Bound
    <3>. QED
      BY <1>1, <1>2, <2>1, <3>1, <3>3, GoOnKeepsIInv DEF AfterClaim, AfterStart, AfterUp, files
  <2>3. CASE ~ (Bound(x) /\ Executes(x))
    <3>1. \E rep \in Reports : Exit(x, rep)
      BY <1>3, <1>4, <2>3 DEF Verify
    <3>. QED
      BY <1>1, <1>2, <2>1, <3>1, ExitKeepsIInv DEF AfterClaim, AfterUp, files
  <2>. QED
    BY <2>2, <2>3
<1>5. CASE ~ (claim[r] = seen[x].inode /\ auth[r] = seen[x].inode)
  <2>1. claim' = [claim EXCEPT ![r] = None] /\ Exit(x, Before("CLAIM_FAILED"))
    BY <1>5 DEF Verify
  <2>2. claim' \in [Releases -> Maybe(Made)]
    BY <1>1, <2>1 DEF TypeOK, Maybe
  <2>3. \A y \in Invocations \ {x} : Linked(y) => claim'[seen[y].claimed] # None
    BY <1>1, <2>1, ClaimsAreThere DEF TypeOK
  <2>4. Alone(x) /\ OwnDuties(x)
    BY <1>1, <1>3, <2>1, ExitDuties DEF AfterClaim
  <2>5. OwnFiles(x)
    BY <1>1, <1>2, <2>2, <2>3 DEF OwnFiles, TypeOK, candidate, production
  <2>6. OwnReport(x)
    BY <1>1, <1>2, ClaimReportsNothing DEF OwnReport
  <2>. QED
    BY <1>1, <2>4, <2>5, <2>6, StepKeepsIInv
<1>. QED
  BY <1>4, <1>5

LEMMA StartAttemptKeepsIInv ==
  ASSUME IInv, NEW x \in Invocations, StartAttempt(x)
  PROVE  IInv'
<1>. DEFINE mine == [plan |-> PlanOf(x), by |-> x]
            r == seen[x].release
<1>1. /\ TypeOK /\ FollowsScript(x) /\ ClaimIsHeld(x) /\ pc[x] = "start" /\ seen[x].claimed = r
      /\ GoOn(x, "inspect", seen[x]) /\ seen[x] \in Memories /\ "inspect" \in Steps
      /\ Linked(x) /\ Consumer(x) /\ r \in Releases /\ Executes(x) /\ verdict[x] = None
      /\ PlanOf(x) \in plans
  BY ConsumersAreLinked DEF IInv, TypeOK, StartAttempt, ClaimIsHeld, FollowsScript, WithPlan, AfterClaim, Steps
<1>2. /\ Alone(x) /\ pc'[x] = "inspect" /\ seen'[x] = seen[x]
      /\ job'[x] = job[x] /\ verdict'[x] = verdict[x]
  BY <1>1, GoOnAlone
<1>3. UNCHANGED <<tagged, evidence, auth, claim, plans, results, web, neighbours>>
  BY DEF StartAttempt, candidate, production
<1>4. \A a \in starts : a.by \in Invocations /\ a.by # x /\ a.plan.release # r /\ a.plan # PlanOf(x)
  <2>. SUFFICES ASSUME NEW a \in starts
                PROVE  a.by \in Invocations /\ a.by # x /\ a.plan.release # r /\ a.plan # PlanOf(x)
    OBVIOUS
  <2>1. /\ a.by \in Invocations /\ Consumer(a.by) /\ pc[a.by] \in AfterStart \cup {"done"}
        /\ seen[a.by].claimed = a.plan.release
    BY <1>1 DEF IInv, TypeOK, AttemptsAreOnRecord
  <2>2. a.by # x
    BY <1>1, <2>1 DEF AfterStart
  <2>3. a.plan.release # r
    BY <1>1, <2>1, <2>2 DEF IInv, ClaimIsExclusive, Linked
  <2>4. PlanOf(x).release = r
    BY DEF PlanOf
  <2>. QED
    BY <2>1, <2>2, <2>3, <2>4
<1>5. starts' = starts \cup {mine}
  BY <1>4 DEF StartAttempt
<1>6. mine.plan = PlanOf(x) /\ mine.by = x /\ mine.plan.release = r
  BY DEF PlanOf
<1>7. FollowsScript(x)' /\ ClaimIsHeld(x)'
  BY <1>1, <1>2, <1>3
     DEF FollowsScript, WithRelease, WithSnapshot, WithPlan, AfterClaim, ClaimSteps, Executes, SourceOf, PlanOf, ClaimIsHeld, Linked, Consumer, Consumed
<1>8. Consumer(x)' /\ Linked(x)' /\ PlanOf(x)' = PlanOf(x)
  BY <1>1, <1>2 DEF Consumer, Consumed, Linked, AfterClaim, PlanOf
<1>9. \A y \in Invocations \ {x} :
        /\ FollowsScript(y)' /\ ClaimIsHeld(y)'
        /\ Linked(y)' <=> Linked(y)
        /\ Consumer(y)' <=> Consumer(y)
        /\ pc'[y] = pc[y] /\ seen'[y] = seen[y] /\ verdict'[y] = verdict[y] /\ job'[y] = job[y]
  BY <1>2, <1>3, ClaimsAreThere, OthersStaySound DEF Alone
<1>. HIDE DEF mine
<1>10. \A y \in Invocations : FollowsScript(y)' /\ ClaimIsHeld(y)'
  BY <1>7, <1>9
<1>11. ClaimIsExclusive'
  <2>1. \A y \in Invocations : (Linked(y)' <=> Linked(y)) /\ seen'[y] = seen[y]
    BY <1>1, <1>2, <1>8, <1>9
  <2>. QED
    BY <2>1 DEF IInv, ClaimIsExclusive
<1>12. AttemptsAreOnRecord'
  <2>1. ASSUME NEW y \in Invocations, pc'[y] \in AfterStart
        PROVE  [plan |-> PlanOf(y), by |-> y]' \in starts'
    <3>1. CASE y = x
      BY <1>5, <1>8, <3>1 DEF mine
    <3>2. CASE y # x
      BY <1>5, <1>9, <2>1, <3>2 DEF IInv, AttemptsAreOnRecord, PlanOf
    <3>. QED
      BY <3>1, <3>2
  <2>2. ASSUME NEW a \in starts'
        PROVE  /\ Consumer(a.by)' /\ pc'[a.by] \in AfterStart \cup {"done"}
               /\ seen'[a.by].claimed = a.plan.release
    <3>1. CASE a = mine
      BY <1>1, <1>2, <1>6, <1>8, <3>1 DEF AfterStart, AfterClaim
    <3>2. CASE a \in starts
      BY <1>4, <1>9, <3>2 DEF IInv, AttemptsAreOnRecord
    <3>. QED
      BY <1>5, <3>1, <3>2
  <2>3. \A a, b \in starts' : a.by = b.by => a = b
    BY <1>4, <1>5, <1>6 DEF IInv, AttemptsAreOnRecord
  <2>. QED
    BY <2>1, <2>2, <2>3 DEF AttemptsAreOnRecord
<1>13. TypeOK'
  BY <1>1, <1>2, <1>3, <1>5, <1>6 DEF TypeOK, Alone
<1>14. ContainerIsReported'
  <2>1. web.by # x
    BY <1>1 DEF IInv, ContainerIsReported
  <2>. QED
    BY <1>3, <1>9, <2>1 DEF IInv, ContainerIsReported, Executes
<1>15. OneAttemptPerAuthorization'
  <2>1. \A a, b \in starts' : a.plan.release = b.plan.release => a = b
    BY <1>4, <1>5, <1>6 DEF IInv, OneAttemptPerAuthorization
  <2>2. \A a \in starts' : claim'[a.plan.release] # None
    BY <1>1, <1>3, <1>5, <1>6 DEF IInv, OneAttemptPerAuthorization, ClaimIsHeld
  <2>3. \A b \in results' : \E a \in starts' : a.plan = b.plan /\ a.by = b.by
    BY <1>3, <1>5 DEF IInv, OneAttemptPerAuthorization
  <2>. QED
    BY <2>1, <2>2, <2>3 DEF OneAttemptPerAuthorization
<1>16. AcceptedMeansAuthorized'
  BY <1>3 DEF IInv, AcceptedMeansAuthorized
<1>17. ReportsAreTrue'
  BY <1>1, <1>2, <1>3, <1>5, <1>6, <1>9 DEF IInv, ReportsAreTrue, Executes
<1>. QED
  BY <1>10, <1>11, <1>12, <1>13, <1>14, <1>15, <1>16, <1>17 DEF IInv

\* Writing a result: what a failed or a successful attempt puts on record.
LEMMA FinalizeKeepsIInv ==
  ASSUME IInv, NEW x \in Invocations, NEW status, NEW rep \in Reports,
         pc[x] \in AfterStart, Finalize(x, status), Exit(x, rep), rep.consumed, rep.touched,
         status = "PASS" => /\ seen[x].post.source = seen[x].release.source
                            /\ seen[x].post.image = seen[x].release.image,
         UNCHANGED <<candidate, auth, claim, plans, starts, production>>
  PROVE  IInv'
<1>1. TypeOK /\ FollowsScript(x) /\ ClaimIsHeld(x) /\ pc[x] \in AfterClaim /\ pc[x] \notin {"idle", "done"}
  BY DEF IInv, AfterStart, AfterClaim
<1>2. Linked(x) /\ claim'[seen[x].claimed] # None /\ auth'[seen[x].claimed] # None
  BY <1>1, ConsumersAreLinked DEF ClaimIsHeld
<1>3. Alone(x) /\ OwnDuties(x)
  BY <1>1, <1>2, ExitDuties
<1>4. \A b \in results' : b \in results \/ OwnResult(x, b)
  <2>. DEFINE new == [plan |-> PlanOf(x), by |-> x, status |-> status, post |-> seen[x].post]
  <2>1. OwnResult(x, new)
    BY DEF OwnResult, PlanOf
  <2>. HIDE DEF new
  <2>2. results' \subseteq results \cup {new}
    BY DEF Finalize, new
  <2>. QED
    BY <2>1, <2>2
<1>5. OwnFiles(x)
  BY <1>1, <1>4, ClaimsAreThere DEF OwnFiles, TypeOK, candidate, production
<1>6. OwnReport(x)
  BY <1>1, NoneIsNoValue, ExitAlone DEF OwnReport
<1>. QED
  BY <1>1, <1>3, <1>5, <1>6, StepKeepsIInv

LEMMA FailDeploymentKeepsIInv ==
  ASSUME IInv, NEW x \in Invocations, pc[x] \in {"up", "await"}, FailDeployment(x), UNCHANGED production
  PROVE  IInv'
<1>1. /\ Blocked("DEPLOY_FAILED", TRUE, TRUE) \in Reports
      /\ Blocked("DEPLOY_FAILED", TRUE, TRUE).consumed /\ Blocked("DEPLOY_FAILED", TRUE, TRUE).touched
  BY ReportFields DEF Statuses
<1>2. pc[x] \in AfterStart
  BY DEF AfterStart, AfterClaim
<1>. QED
  BY <1>1, <1>2, FinalizeKeepsIInv DEF FailDeployment

LEMMA UpKeepsIInv ==
  ASSUME IInv, NEW x \in Invocations, Up(x)
  PROVE  IInv'
<1>1. /\ TypeOK /\ FollowsScript(x) /\ ClaimIsHeld(x) /\ pc[x] = "up" /\ job[x] # None
      /\ seen[x] \in Memories /\ "await" \in Steps
      /\ Consumer(x) /\ Linked(x)
  BY ConsumersAreLinked DEF IInv, TypeOK, Up, FollowsScript, AfterClaim, Steps
<1>2. CASE FailDeployment(x) /\ UNCHANGED web
  BY <1>1, <1>2, FailDeploymentKeepsIInv DEF Up, production
<1>3. CASE /\ web' = IF web.source = SourceOf(x) /\ web.image = tagged[SourceOf(x)] THEN web
                     ELSE [by |-> x, source |-> SourceOf(x), image |-> tagged[SourceOf(x)]]
           /\ GoOn(x, "await", seen[x])
           /\ UNCHANGED <<candidate, files>>
  <2>1. /\ Alone(x) /\ pc'[x] = "await" /\ seen'[x] = seen[x]
        /\ job'[x] = job[x] /\ verdict'[x] = verdict[x] /\ verdict[x] = None
    BY <1>1, <1>3, GoOnAlone DEF FollowsScript
  <2>2. web' \in Containers /\ (web' = web \/ web'.by = x)
    BY <1>1, <1>3, WorldIsTyped DEF TypeOK, Containers, Made
  <2>3. FollowsScript(x)' /\ ClaimIsHeld(x)'
    BY <1>1, <1>3, <2>1
       DEF FollowsScript, WithRelease, WithSnapshot, WithPlan, AfterClaim, ClaimSteps, Executes, SourceOf, PlanOf,
           ClaimIsHeld, Linked, Consumer, Consumed, files
  <2>4. Consumer(x)' /\ PlanOf(x)' = PlanOf(x)
    BY <1>1, <2>1 DEF Consumer, Consumed, PlanOf, AfterClaim
  <2>5. OwnDuties(x)
    BY <1>1, <2>1, <2>3, <2>4, ClaimsAreThere DEF OwnDuties, AfterStart, AfterClaim
  <2>6. OwnFiles(x)
    BY <1>1, <1>3, <2>2, ClaimsAreThere DEF OwnFiles, Up, TypeOK, candidate, files
  <2>7. OwnReport(x)
    BY <2>1 DEF OwnReport
  <2>. QED
    BY <1>1, <2>1, <2>5, <2>6, <2>7, StepKeepsIInv
<1>. QED
  BY <1>2, <1>3 DEF Up

LEMMA AwaitKeepsIInv ==
  ASSUME IInv, NEW x \in Invocations, Await(x)
  PROVE  IInv'
<1>1. /\ TypeOK /\ FollowsScript(x) /\ ClaimIsHeld(x) /\ pc[x] = "await"
      /\ seen[x] \in Memories /\ "identity" \in Steps
  BY DEF IInv, TypeOK, Await, Steps
<1>2. CASE FailDeployment(x) /\ UNCHANGED production
  BY <1>1, <1>2, FailDeploymentKeepsIInv
<1>3. CASE GoOn(x, "identity", seen[x]) /\ UNCHANGED <<candidate, files, production>>
  <2>1. pc'[x] = "identity" /\ seen'[x] = seen[x] /\ job'[x] = job[x] /\ verdict'[x] = verdict[x]
    BY <1>1, <1>3, GoOnAlone
  <2>2. FollowsScript(x)' /\ ClaimIsHeld(x)'
    BY <1>1, <1>3, <2>1
       DEF FollowsScript, WithRelease, WithSnapshot, WithPlan, AfterClaim, ClaimSteps, Executes, SourceOf, PlanOf,
           ClaimIsHeld, Linked, Consumer, Consumed, files
  <2>3. tagged' \in [Sources -> Made] /\ evidence' \in [Sources -> Made]
    BY <1>1, <1>3 DEF TypeOK, candidate
  <2>. QED
    BY <1>1, <1>3, <2>2, <2>3, GoOnKeepsIInv DEF AfterClaim, AfterStart, AfterUp
<1>. QED
  BY <1>2, <1>3 DEF Await

LEMMA ResultKeepsIInv ==
  ASSUME IInv, NEW x \in Invocations, Result(x)
  PROVE  IInv'
<1>1. /\ FollowsScript(x) /\ pc[x] = "result" /\ pc[x] \in AfterStart
      /\ seen[x].post.source = seen[x].release.source /\ seen[x].post.image = seen[x].release.image
  BY DEF IInv, Result, FollowsScript, WithPlan, AfterStart, AfterClaim
<1>2. /\ Pass \in Reports /\ Pass.consumed /\ Pass.touched
      /\ Blocked("POST_VERIFY_FAILED", TRUE, TRUE) \in Reports
      /\ Blocked("POST_VERIFY_FAILED", TRUE, TRUE).consumed /\ Blocked("POST_VERIFY_FAILED", TRUE, TRUE).touched
  BY ReportFields DEF Pass, Reports, Statuses
<1>3. CASE Finalize(x, "PASS") /\ Exit(x, Pass)
  BY <1>1, <1>2, <1>3, FinalizeKeepsIInv DEF Result
<1>4. CASE Finalize(x, "FAILED") /\ Exit(x, Blocked("POST_VERIFY_FAILED", TRUE, TRUE))
  BY <1>1, <1>2, <1>4, FinalizeKeepsIInv DEF Result
<1>. QED
  BY <1>3, <1>4 DEF Result

-----------------------------------------------------------------------------
(* The invariant. *)

LEMMA InitIInv == Init => IInv
<1>. SUFFICES ASSUME Init PROVE IInv
  OBVIOUS
<1>1. TypeOK
  <2>1. web \in Containers /\ neighbours \in Made
    BY DEF Init, Containers, Made
  <2>2. seen \in [Invocations -> Memories]
    BY BlankIsMemory DEF Init
  <2>3. pc \in [Invocations -> Steps] /\ job \in [Invocations -> Maybe(Jobs)]
        /\ verdict \in [Invocations -> Maybe(Reports)]
    BY DEF Init, Steps, Maybe
  <2>4. /\ tagged \in [Sources -> Made] /\ evidence \in [Sources -> Made]
        /\ auth \in [Releases -> Maybe(Made)] /\ claim \in [Releases -> Maybe(Made)]
    BY DEF Init, Maybe, Made
  <2>. QED
    BY <2>1, <2>2, <2>3, <2>4 DEF TypeOK, Init
<1>2. \A x \in Invocations : /\ pc[x] = "idle" /\ job[x] = None /\ verdict[x] = None
                             /\ ~ Linked(x) /\ web.by # x
  BY NoneIsNoValue DEF Init, Linked, Consumer, Consumed, AfterClaim
<1>3. \A x \in Invocations : FollowsScript(x) /\ ClaimIsHeld(x)
  BY <1>2 DEF FollowsScript, ClaimIsHeld, WithRelease, WithSnapshot, WithPlan, AfterClaim, ClaimSteps
<1>4. ClaimIsExclusive /\ ContainerIsReported /\ ReportsAreTrue
  BY <1>2 DEF ClaimIsExclusive, ContainerIsReported, ReportsAreTrue
<1>5. AttemptsAreOnRecord /\ OneAttemptPerAuthorization /\ AcceptedMeansAuthorized
  BY <1>2 DEF Init, AttemptsAreOnRecord, OneAttemptPerAuthorization, AcceptedMeansAuthorized, AfterStart, AfterClaim
<1>. QED
  BY <1>1, <1>3, <1>4, <1>5 DEF IInv

LEMMA IdleKeepsIInv ==
  ASSUME IInv, UNCHANGED vars
  PROVE  IInv'
BY DEF vars, candidate, files, production, IInv, TypeOK, FollowsScript, ClaimIsHeld, ClaimIsExclusive,
       AttemptsAreOnRecord, ContainerIsReported, OneAttemptPerAuthorization, AcceptedMeansAuthorized, ReportsAreTrue,
       Linked, Consumer, Consumed, Executes, SourceOf, PlanOf

LEMMA NextKeepsIInv == IInv /\ [Next]_vars => IInv'
<1>. SUFFICES ASSUME IInv, [Next]_vars
              PROVE  IInv'
  OBVIOUS
<1>1. CASE UNCHANGED vars
  BY <1>1, IdleKeepsIInv
<1>2. ASSUME NEW x \in Invocations,
             \/ Start(x) \/ Build(x) \/ Record(x) \/ Operate(x) \/ Die(x)
             \/ PlanRelease(x) \/ Approve(x) \/ Publish(x)
      PROVE  IInv'
  BY <1>2, StartKeepsIInv, BuildKeepsIInv, OperateKeepsIInv, DieKeepsIInv, PlanReleaseKeepsIInv,
     ApproveKeepsIInv, PublishKeepsIInv
<1>3. ASSUME NEW x \in Invocations, Planner(x)
      PROVE  IInv'
  BY <1>3, PreflightKeepsIInv, RecheckKeepsIInv, SavePlanKeepsIInv, WritePlanKeepsIInv DEF Planner
<1>4. ASSUME NEW x \in Invocations, Claim(x)
      PROVE  IInv'
  BY <1>4, ClaimPlanKeepsIInv, CaptureKeepsIInv, LinkKeepsIInv, VerifyKeepsIInv DEF Claim
<1>5. ASSUME NEW x \in Invocations, Executor(x)
      PROVE  IInv'
  BY <1>5, DriftKeepsIInv, RecoverKeepsIInv, ImageCheckKeepsIInv, StartAttemptKeepsIInv, InspectKeepsIInv,
     UpKeepsIInv, AwaitKeepsIInv, IdentityKeepsIInv, StaticKeepsIInv, ResultKeepsIInv DEF Executor
<1>. QED
  BY <1>1, <1>2, <1>3, <1>4, <1>5 DEF Next

\* The inductive invariant holds in every reachable state, whatever the number of
\* invocations and commits.
LEMMA Invariant == Spec => []IInv
BY InitIInv, NextKeepsIInv, PTL DEF Spec

-----------------------------------------------------------------------------
(* Theorems. *)

\* Every variable of the pipeline has its type, and attempt artifacts belong to a
\* plan on disk.
THEOREM TypeCorrect == Spec => []TypeOK
<1>1. IInv => TypeOK
  BY DEF IInv
<1>. QED
  BY <1>1, Invariant, PTL

\* An approval is good for one attempt, whatever runs at once and crashes: the
\* hard link of the claim script is the test-and-set all of them go through.
THEOREM OneAttempt == Spec => []OneAttemptPerAuthorization
<1>1. IInv => OneAttemptPerAuthorization
  BY DEF IInv
<1>. QED
  BY <1>1, Invariant, PTL

\* A deployment is accepted only if the approved image was seen to run.
THEOREM AcceptedIsAuthorized == Spec => []AcceptedMeansAuthorized
<1>1. IInv => AcceptedMeansAuthorized
  BY DEF IInv
<1>. QED
  BY <1>1, Invariant, PTL

\* The flags of a report never deny a container that was started or an
\* authorization that was used for an attempt.
THEOREM ReportsTellTheTruth == Spec => []ReportsAreTrue
<1>1. IInv => ReportsAreTrue
  BY DEF IInv
<1>. QED
  BY <1>1, Invariant, PTL

\* A claim changes only by the link that makes it and the taking back by its owner.
LEMMA ClaimsChange ==
  ASSUME IInv, [Next]_vars, NEW r \in Releases, claim'[r] # claim[r]
  PROVE  \/ claim[r] = None
         \/ \E x \in Invocations : pc[x] = "verify" /\ seen[x].claimed = r
<1>1. claim \in [Releases -> Maybe(Made)]
  BY DEF IInv, TypeOK
<1>2. PICK x \in Invocations : Link(x) \/ Verify(x)
  BY DEF Next, vars, Start, Build, Record, Operate, Die, PlanRelease, Approve, Publish, Planner, Claim, Executor,
         Preflight, Recheck, SavePlan, WritePlan, ClaimPlan, Capture, Drift, Recover, ImageCheck, StartAttempt,
         Inspect, Up, Await, Identity, Static, Result, Check, FailDeployment, files
<1>. QED
  BY <1>1, <1>2 DEF Link, Verify

\* A consumed authorization stays consumed: no cleanup and no later approval gives
\* it back.
THEOREM ConsumedStays == Spec => ConsumedForEver
<1>1. ASSUME IInv, [Next]_vars, NEW x \in Invocations, NEW r \in Releases, Consumed(x, r)
      PROVE  claim'[r] = claim[r]
  <2>1. Linked(x) /\ pc[x] # "verify" /\ claim[r] # None
    BY <1>1, NoneIsNoValue DEF Consumed, Linked, Consumer, IInv, ClaimIsHeld, FollowsScript, AfterClaim
  <2>2. \A y \in Invocations : pc[y] = "verify" => seen[y].claimed # r
    BY <1>1, <2>1 DEF IInv, ClaimIsExclusive, Linked, Consumed
  <2>. QED
    BY <1>1, <2>1, <2>2, ClaimsChange
<1>2. IInv /\ [Next]_vars => [\A x \in Invocations, r \in Releases : Consumed(x, r) => claim'[r] = claim[r]]_vars
  BY <1>1
<1>. QED
  BY <1>2, Invariant, PTL DEF Spec, ConsumedForEver
=============================================================================
