-------------------------- MODULE WikiIngest_proof --------------------------
(***************************************************************************)
(* Proofs about WikiIngest for any pages, jobs and sources: types,         *)
(* PinnedReachable, CompletedCounted and the action property NoRegression. *)
(*                                                                         *)
(* What a job has counted, has in hand and has still to do covers what it  *)
(* was given (JobOK).  A reference, once in a store, is that of a page with a *)
(* numeric id, which every later write gives again (RefsOK).  No store is  *)
(* ahead of Confluence (Behind), and none is ahead of what a job holds     *)
(* that has run alone (Ahead), which only that job can write (AloneOK).    *)
(***************************************************************************)
EXTENDS WikiIngest, TLAPS

Places == {"idle", "list", "next", "fetch", "log", "store", "verify"}
Rows == [version : Nat, ref : BOOLEAN]
Versions == [Pages -> Nat]
Lists == SUBSET ((SUBSET Pages) \ {{}})
JobStates ==
  [pc : Places, given : Lists, sources : Lists, crawl : BOOLEAN, todo : SUBSET Pages,
   counted : SUBSET Pages, page : Pages \cup {NoPage}, held : Versions, index : Versions,
   lost : BOOLEAN, pinned : Pages \cup {NoPage},
   strict : BOOLEAN, alone : BOOLEAN, report : {"none", "completed", "failed"}]

TypeOK ==
  /\ live \in Versions /\ log \in Versions
  /\ adb \in [Pages -> Rows] /\ files \in [Pages -> Rows]
  /\ jobs \in [Jobs -> JobStates] /\ started \in [Jobs -> Nat]

\* A job without a failed source has still to do or has counted each of its sources,
\* the pages of rest excepted; and it has done them all.
Covers(job, rest) ==
  ~job.lost => \A s \in job.given : s \in job.sources \/ s \subseteq job.counted \cup rest
Counted(job) == \A s \in job.given : s \subseteq job.counted

\* What a job knows at each point.
JobOK(job) ==
  /\ job.pc = "idle" /\ job.report = "completed" => Counted(job) /\ job.counted # {}
  /\ job.pc # "idle" => job.given # {} \/ job.pinned # NoPage
  /\ job.pc = "list" => ~job.strict /\ Covers(job, {})
  /\ job.pc = "next" => ~job.strict /\ Covers(job, job.todo)
  /\ job.pc \in {"fetch", "log", "store"} =>
       /\ job.page \in Pages
       /\ job.strict => job.page = job.pinned /\ Counted(job)
       /\ ~job.strict => Covers(job, job.todo \cup {job.page})
  /\ job.pc \in {"log", "store"} => job.held[job.page] # 0
  /\ job.pc = "verify" => Counted(job) /\ job.counted # {} /\ job.pinned \in Pages

\* Only a page under a page id has a canonical reference.
RefsOK == \A p \in Pages : adb[p].ref \/ files[p].ref => p \in Numeric

\* Nothing is newer than Confluence.
Behind ==
  \A p \in Pages :
    /\ live[p] # 0 /\ adb[p].version <= live[p] /\ files[p].version <= live[p]
    /\ \A j \in Jobs : jobs[j].held[p] <= live[p]

\* Who runs alone, and that no store is ahead of what it holds.
AloneOK ==
  \A j, k \in Jobs : Running(j) /\ jobs[j].alone /\ Running(k) => j = k
Ahead ==
  \A j \in Jobs : Running(j) /\ jobs[j].alone =>
    \A p \in Pages : jobs[j].held[p] # 0 =>
      adb[p].version <= jobs[j].held[p] /\ files[p].version <= jobs[j].held[p]

IndInv ==
  /\ TypeOK /\ RefsOK /\ PinnedReachable /\ Behind /\ AloneOK /\ Ahead
  /\ \A j \in Jobs : JobOK(jobs[j])

----------------------------------------------------------------------------
(* One job moves. *)

Becomes(j, x) == x \in JobStates /\ JobOK(x) /\ jobs' = [jobs EXCEPT ![j] = x]

\* What a job may have in hand after a step that stores nothing.
Holds(j, x) ==
  \A p \in Pages : x.held[p] \in {0, jobs[j].held[p], live[p]}

LEMMA Shapes ==
  /\ Unfetched \in Versions /\ \A p \in Pages : Unfetched[p] = 0
  /\ Fresh \in JobStates /\ JobOK(Fresh)
BY DEF Unfetched, Versions, Fresh, JobStates, Lists, Places, JobOK

LEMMA JobFacts ==
  ASSUME IndInv, NEW j \in Jobs
  PROVE  jobs[j] \in JobStates /\ JobOK(jobs[j])
BY DEF IndInv, TypeOK

LEMMA Entry ==
  ASSUME IndInv, NEW j \in Jobs, NEW x, Becomes(j, x)
  PROVE  /\ jobs' \in [Jobs -> JobStates] /\ jobs'[j] = x
         /\ \A k \in Jobs : k # j => jobs'[k] = jobs[k]
BY DEF IndInv, TypeOK, Becomes

LEMMA MoveInv ==
  ASSUME IndInv, NEW j \in Jobs, Running(j), NEW x, Becomes(j, x), Holds(j, x),
         x.pc = "idle" \/ x.alone = jobs[j].alone,
         x.pc = "idle" /\ x.report = "completed" /\ x.pinned # NoPage => Stored(j)[x.pinned].ref,
         UNCHANGED <<live, stores, started>>, log' \in Versions
  PROVE  IndInv'
<1>1. /\ jobs' \in [Jobs -> JobStates] /\ jobs'[j] = x
      /\ \A k \in Jobs : k # j => jobs'[k] = jobs[k]
  BY Entry
<1>2. UNCHANGED <<live, adb, files, started>>
  BY DEF stores
<1>3. TypeOK' /\ RefsOK'
  BY <1>1, <1>2 DEF IndInv, TypeOK, RefsOK
<1>4. PinnedReachable'
  BY <1>1, <1>2 DEF IndInv, PinnedReachable, Completed, Running, Stored
<1>5. Behind'
  <2>1. ASSUME NEW p \in Pages, NEW k \in Jobs PROVE jobs'[k].held[p] <= live[p]
    <3>1. live[p] \in Nat /\ jobs[j].held[p] <= live[p]
      BY DEF IndInv, Behind, TypeOK, Versions
    <3> QED
      BY <1>1, <3>1 DEF Holds, IndInv, Behind
  <2> QED
    BY <1>2, <2>1 DEF IndInv, Behind
<1>6. AloneOK'
  BY <1>1 DEF IndInv, AloneOK, Running
<1>7. Ahead'
  <2>1. ASSUME NEW k \in Jobs, Running(k)', jobs'[k].alone, NEW p \in Pages, jobs'[k].held[p] # 0
        PROVE  adb[p].version <= jobs'[k].held[p] /\ files[p].version <= jobs'[k].held[p]
    <3>1. CASE k = j
      <4>1. Running(j) /\ jobs[j].alone
        BY <1>1, <2>1, <3>1 DEF Running
      <4> QED
        BY <1>1, <2>1, <3>1, <4>1 DEF Holds, IndInv, Ahead, Behind
    <3>2. CASE k # j
      BY <1>1, <2>1, <3>2 DEF IndInv, Ahead, Running
    <3> QED
      BY <3>1, <3>2
  <2> QED
    BY <1>2, <2>1 DEF Ahead
<1>8. \A k \in Jobs : JobOK(jobs'[k])
  BY <1>1 DEF Becomes, IndInv
<1> QED
  BY <1>3, <1>4, <1>5, <1>6, <1>7, <1>8 DEF IndInv

LEMMA ReportInv ==
  ASSUME IndInv, NEW j \in Jobs, Running(j), NEW status \in {"completed", "failed"},
         Report(j, status), UNCHANGED <<live, log, stores, started>>,
         status = "completed" =>
           /\ Counted(jobs[j]) /\ jobs[j].counted # {}
           /\ jobs[j].pinned # NoPage => Stored(j)[jobs[j].pinned].ref
  PROVE  IndInv'
<1> DEFINE a == IF status = "completed" THEN jobs[j].given ELSE {}
           b == IF status = "completed" THEN jobs[j].counted ELSE {}
           x == [Fresh EXCEPT !.given = a, !.counted = b, !.pinned = jobs[j].pinned,
                              !.report = status]
<1>1. a \in Lists /\ b \in SUBSET Pages /\ jobs[j].pinned \in Pages \cup {NoPage}
  BY JobFacts DEF JobStates, Lists
<1>2. status = "completed" => (\A s \in a : s \subseteq b) /\ b # {}
  BY DEF Counted
<1>3. jobs' = [jobs EXCEPT ![j] = x]
  BY DEF Report
<1> HIDE DEF a, b
<1>4. x \in JobStates
  BY <1>1, Shapes DEF JobStates
<1>5. /\ x.pc = "idle" /\ x.report = status /\ x.given = a /\ x.counted = b
      /\ x.pinned = jobs[j].pinned /\ x.held = Unfetched
  BY DEF Fresh
<1>6. JobOK(x)
  BY <1>2, <1>5 DEF JobOK, Counted
<1> HIDE DEF x
<1>7. Becomes(j, x) /\ Holds(j, x)
  BY <1>3, <1>6, <1>4, <1>5, Shapes DEF Becomes, Holds
<1>8. log' \in Versions
  BY DEF IndInv, TypeOK
<1> QED
  BY <1>5, <1>7, <1>8, MoveInv

\* A source that fails leaves nothing in hand.
LEMMA FailedInv ==
  ASSUME IndInv, NEW j \in Jobs, Running(j), NEW rest, rest \subseteq jobs[j].sources,
         Failed(j, rest), UNCHANGED <<live, log, stores, started>>
  PROVE  IndInv'
<1>1. CASE jobs[j].strict
  BY <1>1, ReportInv DEF Failed
<1>2. CASE ~jobs[j].strict
  <2> DEFINE y == jobs[j]
             x == [y EXCEPT !.pc = "list", !.sources = rest, !.todo = {}, !.page = NoPage,
                            !.held = Unfetched, !.crawl = FALSE, !.counted = {}, !.lost = TRUE]
  <2>1. y \in JobStates /\ JobOK(y) /\ y.pc # "idle" /\ rest \in Lists
    BY JobFacts DEF Running, JobStates, Lists
  <2>2. jobs' = [jobs EXCEPT ![j] = x]
    BY <1>2, <2>1 DEF Failed, JobStates
  <2>3. /\ x \in JobStates /\ x.pc = "list" /\ x.held = Unfetched /\ x.lost = TRUE
        /\ x.strict = y.strict /\ x.given = y.given /\ x.pinned = y.pinned /\ x.alone = y.alone
    BY <2>1, Shapes DEF JobStates, Places
  <2> HIDE DEF x
  <2>4. Becomes(j, x) /\ Holds(j, x)
    BY <1>2, <2>1, <2>2, <2>3, Shapes DEF Becomes, JobOK, Covers, Holds
  <2>5. log' \in Versions
    BY DEF IndInv, TypeOK
  <2> QED
    BY <2>3, <2>4, <2>5, MoveInv
<1> QED
  BY <1>1, <1>2

LEMMA PageFailsInv ==
  ASSUME IndInv, NEW j \in Jobs, Running(j), PageFails(j),
         UNCHANGED <<live, log, stores, started>>
  PROVE  IndInv'
BY FailedInv DEF PageFails

LEMMA RestartInv ==
  ASSUME IndInv, NEW j \in Jobs, Restart(j)
  PROVE  IndInv'
<1>1. Becomes(j, Fresh) /\ Holds(j, Fresh) /\ Fresh.pc = "idle" /\ Fresh.report = "none"
  BY Shapes DEF Restart, Becomes, Holds, Fresh
<1>2. log' \in Versions
  BY DEF IndInv, TypeOK, Restart
<1> QED
  BY <1>1, <1>2, MoveInv DEF Restart

----------------------------------------------------------------------------
(* Start. *)

LEMMA StartInv ==
  ASSUME IndInv, NEW j \in Jobs, NEW a \in Assignments, Start(j, a)
  PROVE  IndInv'
<1> DEFINE x == [Fresh EXCEPT !.pc = "list", !.given = a.sources, !.sources = a.sources,
                   !.index = log, !.pinned = a.pinned, !.alone = \A k \in Jobs : ~Running(k)]
           y(i) == [jobs[i] EXCEPT !.alone = ~Running(i)]
<1>1. UNCHANGED <<live, log, adb, files>> /\ ~Running(j)
  BY DEF Start, stores
<1>2. /\ x \in JobStates /\ x.pc = "list" /\ x.given = x.sources
      /\ x.pinned = a.pinned /\ ~x.strict /\ x.held = Unfetched
      /\ (x.alone <=> \A k \in Jobs : ~Running(k))
      /\ x.given # {} \/ x.pinned # NoPage
  <2>1. a.sources \in Lists /\ a.pinned \in Pages \cup {NoPage}
    BY PagesAssumption DEF Lists
  <2> QED
    BY <2>1, Shapes DEF Start, Fresh, JobStates, Places, IndInv, TypeOK
<1>3. JobOK(x)
  BY <1>2 DEF JobOK, Covers
<1>4. ASSUME NEW i \in Jobs
      PROVE  /\ y(i) \in JobStates /\ y(i).pc = jobs[i].pc /\ y(i).held = jobs[i].held
             /\ (y(i).alone <=> ~Running(i)) /\ y(i).pinned = jobs[i].pinned
             /\ y(i).report = jobs[i].report /\ JobOK(y(i))
  <2>1. /\ jobs[i] \in JobStates /\ JobOK(jobs[i])
    BY JobFacts
  <2>2. /\ y(i) \in JobStates /\ y(i).pc = jobs[i].pc /\ y(i).held = jobs[i].held
        /\ (y(i).alone <=> ~Running(i)) /\ y(i).pinned = jobs[i].pinned
        /\ y(i).report = jobs[i].report /\ y(i).given = jobs[i].given
        /\ y(i).sources = jobs[i].sources /\ y(i).lost = jobs[i].lost
        /\ y(i).todo = jobs[i].todo /\ y(i).counted = jobs[i].counted
        /\ y(i).page = jobs[i].page /\ y(i).strict = jobs[i].strict
    BY <2>1 DEF JobStates
  <2> HIDE DEF y
  <2> QED
    BY <2>1, <2>2 DEF JobOK, Covers, Counted
<1>5. jobs' = [i \in Jobs |-> IF i = j THEN x ELSE y(i)]
  BY DEF Start
<1> HIDE DEF x, y
<1>6. jobs'[j] = x /\ \A i \in Jobs : i # j => jobs'[i] = y(i)
  BY <1>5
<1>7. jobs' \in [Jobs -> JobStates]
  BY <1>2, <1>4, <1>5
<1>8. TypeOK' /\ RefsOK'
  <2>1. started' \in [Jobs -> Nat]
    <3>1. started' = [started EXCEPT ![j] = started[j] + 1] /\ started \in [Jobs -> Nat]
      BY DEF Start, IndInv, TypeOK
    <3>2. started[j] + 1 \in Nat
      BY <3>1
    <3> QED
      BY <3>1, <3>2
  <2> QED
    BY <1>1, <1>7, <2>1 DEF IndInv, TypeOK, RefsOK
<1>9. PinnedReachable'
  BY <1>1, <1>2, <1>4, <1>6 DEF IndInv, PinnedReachable, Completed, Running, Stored
<1>10. Behind'
  BY <1>1, <1>2, <1>4, <1>6, Shapes DEF IndInv, Behind, TypeOK, Versions
<1>11. AloneOK'
  BY <1>2, <1>4, <1>6 DEF AloneOK, Running
<1>12. Ahead'
  BY <1>1, <1>2, <1>4, <1>6, Shapes DEF Ahead, Running
<1> QED
  BY <1>3, <1>4, <1>6, <1>8, <1>9, <1>10, <1>11, <1>12 DEF IndInv

----------------------------------------------------------------------------
(* The steps of a job. *)

LEMMA ListInv ==
  ASSUME IndInv, NEW j \in Jobs, List(j)
  PROVE  IndInv'
<1>1. /\ Running(j) /\ ~jobs[j].strict /\ jobs[j] \in JobStates /\ JobOK(jobs[j])
      /\ Covers(jobs[j], {})
  BY JobFacts DEF List, At, Running, JobOK
<1>2. ASSUME NEW source \in jobs[j].sources, Failed(j, jobs[j].sources \ {source})
      PROVE  IndInv'
  BY <1>1, <1>2, FailedInv DEF List
<1>3. ASSUME NEW source \in jobs[j].sources, NEW found \in {source, {}}, NEW crawl \in BOOLEAN,
             Yields(found),
             jobs' = [jobs EXCEPT
                ![j].pc = "next", ![j].sources = jobs[j].sources \ {source},
                ![j].crawl = crawl, ![j].todo = found,
                ![j].held = IF crawl THEN [p \in Pages |-> IF p \in found THEN live[p] ELSE 0]
                            ELSE @]
      PROVE  IndInv'
  <2> DEFINE h == IF crawl THEN [p \in Pages |-> IF p \in found THEN live[p] ELSE 0]
                  ELSE jobs[j].held
             rest == jobs[j].sources \ {source}
             x == [jobs[j] EXCEPT !.pc = "next", !.sources = rest, !.crawl = crawl,
                                  !.todo = found, !.held = h]
  <2>1. jobs' = [jobs EXCEPT ![j] = x]
    BY <1>1, <1>3 DEF JobStates
  <2>2. h \in Versions /\ \A p \in Pages : h[p] \in {0, jobs[j].held[p], live[p]}
    BY <1>1 DEF JobStates, Versions, IndInv, TypeOK
  <2> HIDE DEF h
  <2>3. found \in SUBSET Pages /\ found = source /\ rest \in Lists
    BY <1>1, <1>3 DEF JobStates, Lists, Yields
  <2> HIDE DEF rest
  <2>4. /\ x \in JobStates /\ x.pc = "next" /\ x.todo = found /\ x.sources = rest /\ x.held = h
        /\ x.alone = jobs[j].alone /\ ~x.strict /\ x.given = jobs[j].given
        /\ x.lost = jobs[j].lost /\ x.counted = jobs[j].counted /\ x.pinned = jobs[j].pinned
    BY <1>1, <2>2, <2>3 DEF JobStates, Places
  <2> HIDE DEF x
  <2>7. Covers(x, x.todo)
    BY <1>1, <2>3, <2>4 DEF Covers, rest
  <2>8. x.given # {} \/ x.pinned # NoPage
    BY <1>1, <2>4 DEF JobOK, Running
  <2>5. Becomes(j, x) /\ Holds(j, x)
    BY <2>1, <2>2, <2>4, <2>7, <2>8 DEF Becomes, JobOK, Covers, Counted, Holds
  <2>6. log' \in Versions
    BY DEF IndInv, TypeOK, List
  <2> QED
    BY <1>1, <2>4, <2>5, <2>6, MoveInv DEF List
<1> QED
  BY <1>2, <1>3 DEF List

LEMMA NextPageInv ==
  ASSUME IndInv, NEW j \in Jobs, NextPage(j)
  PROVE  IndInv'
<1> DEFINE y == jobs[j]
<1>1. /\ Running(j) /\ y \in JobStates /\ ~y.strict /\ Covers(y, y.todo)
      /\ y.given # {} \/ y.pinned # NoPage
  BY JobFacts DEF NextPage, At, Running, JobOK
<1>2. UNCHANGED <<live, stores, started>> /\ log' \in Versions
  BY DEF NextPage, IndInv, TypeOK
<1>3. ASSUME NEW p \in y.todo,
             jobs' = [jobs EXCEPT ![j].pc = IF y.held[p] = 0 THEN "fetch" ELSE "log",
                        ![j].page = p, ![j].todo = @ \ {p}]
      PROVE  IndInv'
  <2> DEFINE pc == IF y.held[p] = 0 THEN "fetch" ELSE "log"
             x == [y EXCEPT !.pc = pc, !.page = p, !.todo = y.todo \ {p}]
  <2>1. jobs' = [jobs EXCEPT ![j] = x]
    BY <1>1, <1>3 DEF JobStates
  <2>2. pc \in {"fetch", "log"} /\ (pc = "log" => y.held[p] # 0) /\ p \in Pages
    BY <1>1 DEF JobStates
  <2> HIDE DEF pc
  <2>3. /\ x \in JobStates /\ x.pc = pc /\ x.page = p /\ x.todo = y.todo \ {p}
        /\ x.held = y.held /\ ~x.strict /\ x.given = y.given /\ x.counted = y.counted
        /\ x.sources = y.sources /\ x.lost = y.lost /\ x.pinned = y.pinned /\ x.alone = y.alone
    BY <1>1, <2>2 DEF JobStates, Places
  <2> HIDE DEF x
  <2>5. Covers(x, x.todo \cup {x.page})
    BY <1>1, <2>3 DEF Covers
  <2>4. Becomes(j, x) /\ Holds(j, x)
    BY <1>1, <2>1, <2>2, <2>3, <2>5 DEF Becomes, JobOK, Covers, Counted, Holds
  <2> QED
    BY <1>1, <1>2, <2>2, <2>3, <2>4, MoveInv
<1>4. CASE y.todo = {} /\ jobs' = [jobs EXCEPT ![j].pc = "list", ![j].crawl = FALSE]
  <2> DEFINE x == [y EXCEPT !.pc = "list", !.crawl = FALSE]
  <2>1. jobs' = [jobs EXCEPT ![j] = x]
    BY <1>1, <1>4 DEF JobStates
  <2>2. /\ x \in JobStates /\ x.pc = "list" /\ x.held = y.held /\ x.alone = y.alone
        /\ x.given = y.given /\ x.counted = y.counted /\ x.sources = y.sources
        /\ x.lost = y.lost /\ x.pinned = y.pinned /\ ~x.strict
    BY <1>1 DEF JobStates, Places
  <2> HIDE DEF x
  <2>4. Covers(x, {})
    BY <1>1, <1>4, <2>2 DEF Covers
  <2>3. Becomes(j, x) /\ Holds(j, x)
    BY <1>1, <2>1, <2>2, <2>4 DEF Becomes, JobOK, Covers, Counted, Holds
  <2> QED
    BY <1>1, <1>2, <2>2, <2>3, MoveInv
<1>5. CASE PageFails(j)
  BY <1>1, <1>5, PageFailsInv DEF NextPage
<1> QED
  BY <1>3, <1>4, <1>5 DEF NextPage

LEMMA PinInv ==
  ASSUME IndInv, NEW j \in Jobs, Pin(j)
  PROVE  IndInv'
<1> DEFINE y == jobs[j]
           x == [y EXCEPT !.pc = "fetch", !.page = y.pinned, !.strict = TRUE]
<1>1. /\ Running(j) /\ y \in JobStates /\ ~y.strict /\ y.sources = {}
      /\ y.given # {} \/ y.pinned # NoPage
      /\ ~y.lost => Counted(y)
  BY JobFacts DEF Pin, At, Running, JobOK, Covers, Counted
<1>2. UNCHANGED <<live, log, stores, started>> /\ log' \in Versions
  BY DEF Pin, IndInv, TypeOK
<1>3. CASE ~y.lost /\ y.pinned = NoPage /\ Report(j, "completed")
  <2>2. y.given \in SUBSET ((SUBSET Pages) \ {{}}) /\ y.given # {}
    BY <1>1, <1>3 DEF JobStates, Lists
  <2>3. \A s \in y.given : s # {} /\ s \subseteq y.counted
    BY <1>1, <1>3, <2>2 DEF Counted
  <2>1. PICK s \in y.given : s # {} /\ s \subseteq y.counted
    BY <2>2, <2>3
  <2> QED
    BY <1>1, <1>2, <1>3, <2>1, ReportInv
<1>4. CASE Report(j, "failed")
  BY <1>1, <1>2, <1>4, ReportInv
<1>5. CASE /\ ~y.lost /\ y.pinned # NoPage
           /\ jobs' = [jobs EXCEPT ![j].pc = "fetch", ![j].page = y.pinned, ![j].strict = TRUE]
  <2>1. jobs' = [jobs EXCEPT ![j] = x]
    BY <1>1, <1>5 DEF JobStates
  <2>2. /\ x \in JobStates /\ x.pc = "fetch" /\ x.page = y.pinned /\ x.pinned = y.pinned
        /\ x.held = y.held /\ x.strict = TRUE /\ x.given = y.given /\ x.counted = y.counted
        /\ x.alone = y.alone
    BY <1>1 DEF JobStates, Places
  <2>3. y.pinned \in Pages
    BY <1>1, <1>5 DEF JobStates
  <2> HIDE DEF x
  <2>4. Becomes(j, x) /\ Holds(j, x)
    BY <1>1, <1>5, <2>1, <2>2, <2>3 DEF Becomes, JobOK, Counted, Holds
  <2> QED
    BY <1>1, <1>2, <2>2, <2>4, MoveInv
<1> QED
  BY <1>3, <1>4, <1>5 DEF Pin

----------------------------------------------------------------------------
(* One page. *)

LEMMA PageFacts ==
  ASSUME IndInv, NEW j \in Jobs, jobs[j].pc \in {"fetch", "log", "store"}
  PROVE  LET y == jobs[j]
         IN  /\ Running(j) /\ y \in JobStates /\ y.page \in Pages
             /\ y.strict => y.page = y.pinned /\ Counted(y)
             /\ ~y.strict => Covers(y, y.todo \cup {y.page})
             /\ y.given # {} \/ y.pinned # NoPage
             /\ y.pc \in {"log", "store"} => y.held[y.page] # 0
BY JobFacts DEF Running, JobOK

LEMMA FetchInv ==
  ASSUME IndInv, NEW j \in Jobs, Fetch(j)
  PROVE  IndInv'
<1> DEFINE y == jobs[j]
           p == y.page
           x == [y EXCEPT !.pc = "log", !.held = [y.held EXCEPT ![p] = live[p]]]
<1>1. /\ Running(j) /\ y \in JobStates /\ p \in Pages
      /\ y.strict => p = y.pinned /\ Counted(y)
      /\ ~y.strict => Covers(y, y.todo \cup {p})
      /\ y.given # {} \/ y.pinned # NoPage
  BY PageFacts DEF Fetch, At
<1>2. UNCHANGED <<live, log, stores, started>> /\ log' \in Versions
  BY DEF Fetch, IndInv, TypeOK
<1>3. CASE PageFails(j)
  BY <1>1, <1>2, <1>3, PageFailsInv
<1>4. CASE jobs' = [jobs EXCEPT ![j].pc = "log", ![j].held[p] = live[p]]
  <2>1. jobs' = [jobs EXCEPT ![j] = x]
    BY <1>1, <1>4 DEF JobStates
  <2>2. y.held \in Versions /\ live[p] \in Nat /\ live[p] # 0
    BY <1>1 DEF JobStates, IndInv, TypeOK, Versions, Behind
  <2>3. /\ x.held \in Versions /\ x.held[p] = live[p]
        /\ \A q \in Pages : q # p => x.held[q] = y.held[q]
    BY <1>1, <2>2 DEF Versions, JobStates
  <2>4. /\ x \in JobStates /\ x.pc = "log" /\ x.page = p /\ x.pinned = y.pinned
        /\ x.strict = y.strict /\ x.given = y.given /\ x.sources = y.sources /\ x.lost = y.lost /\ x.counted = y.counted
        /\ x.todo = y.todo /\ x.alone = y.alone
    BY <1>1, <2>3 DEF JobStates, Places
  <2> HIDE DEF x
  <2>5. Becomes(j, x) /\ Holds(j, x)
    BY <1>1, <2>1, <2>2, <2>3, <2>4 DEF Becomes, JobOK, Covers, Counted, Holds
  <2> QED
    BY <1>1, <1>2, <2>4, <2>5, MoveInv
<1> QED
  BY <1>3, <1>4 DEF Fetch, Fetched

\* A page is done with, in the list or as the pinned one.
LEMMA CountMove ==
  ASSUME IndInv, NEW j \in Jobs, jobs[j].pc \in {"log", "store"}, Count(j)
  PROVE  \E x : /\ Becomes(j, x) /\ Holds(j, x) /\ x.pc # "idle" /\ x.alone = jobs[j].alone
                /\ x.held[jobs[j].page] = 0
<1> DEFINE y == jobs[j]
           p == y.page
           pc == IF y.strict THEN "verify" ELSE "next"
           x == [y EXCEPT !.pc = pc, !.counted = y.counted \cup {p}, !.page = NoPage,
                          !.held = [y.held EXCEPT ![p] = 0]]
<1>1. /\ y \in JobStates /\ p \in Pages
      /\ y.strict => p = y.pinned /\ Counted(y)
      /\ ~y.strict => Covers(y, y.todo \cup {p})
      /\ y.given # {} \/ y.pinned # NoPage
  BY PageFacts
<1>2. jobs' = [jobs EXCEPT ![j] = x]
  BY <1>1 DEF Count, JobStates
<1>3. pc \in {"verify", "next"} /\ (pc = "verify" <=> y.strict)
  BY <1>1 DEF JobStates
<1> HIDE DEF pc
<1>4. /\ x.held \in Versions /\ x.held[p] = 0
      /\ \A q \in Pages : q # p => x.held[q] = y.held[q]
  BY <1>1 DEF Versions, JobStates
<1>5. /\ x \in JobStates /\ x.pc = pc /\ x.pinned = y.pinned
      /\ x.strict = y.strict /\ x.given = y.given /\ x.sources = y.sources /\ x.lost = y.lost /\ x.counted = y.counted \cup {p}
      /\ x.todo = y.todo /\ x.alone = y.alone
  BY <1>1, <1>3, <1>4 DEF JobStates, Places
<1> HIDE DEF x
<1>6. Becomes(j, x) /\ Holds(j, x)
  BY <1>1, <1>2, <1>3, <1>4, <1>5 DEF Becomes, JobOK, Covers, Counted, Holds
<1> QED
  BY <1>3, <1>4, <1>5, <1>6

LEMMA LogInv ==
  ASSUME IndInv, NEW j \in Jobs, Log(j)
  PROVE  IndInv'
<1> DEFINE y == jobs[j]
           p == y.page
           v == y.held[p]
           x == [y EXCEPT !.pc = "store", !.index = [y.index EXCEPT ![p] = v]]
<1>1. /\ Running(j) /\ y \in JobStates /\ p \in Pages /\ v # 0
      /\ y.strict => p = y.pinned /\ Counted(y)
      /\ ~y.strict => Covers(y, y.todo \cup {p})
      /\ y.given # {} \/ y.pinned # NoPage
  BY PageFacts DEF Log, At
<1>2. UNCHANGED <<live, stores, started>> /\ v \in Nat
  BY <1>1 DEF Log, JobStates, Versions
<1>3. CASE Count(j) /\ UNCHANGED log
  <2>1. log' \in Versions
    BY <1>3 DEF IndInv, TypeOK
  <2> QED
    BY <1>1, <1>2, <1>3, <2>1, CountMove, MoveInv DEF Log, At
<1>4. CASE /\ log' = [log EXCEPT ![p] = v]
           /\ jobs' = [jobs EXCEPT ![j].pc = "store", ![j].index[p] = v]
  <2>1. jobs' = [jobs EXCEPT ![j] = x] /\ log' \in Versions
    BY <1>1, <1>2, <1>4 DEF JobStates, IndInv, TypeOK, Versions
  <2>2. [y.index EXCEPT ![p] = v] \in Versions
    BY <1>1, <1>2 DEF JobStates, Versions
  <2>3. /\ x \in JobStates /\ x.pc = "store" /\ x.page = p /\ x.pinned = y.pinned
        /\ x.strict = y.strict /\ x.given = y.given /\ x.sources = y.sources /\ x.lost = y.lost /\ x.counted = y.counted
        /\ x.todo = y.todo /\ x.alone = y.alone /\ x.held = y.held
    BY <1>1, <2>2 DEF JobStates, Places
  <2> HIDE DEF x
  <2>4. Becomes(j, x) /\ Holds(j, x)
    BY <1>1, <2>1, <2>3 DEF Becomes, JobOK, Covers, Counted, Holds
  <2> QED
    BY <1>1, <1>2, <2>1, <2>3, <2>4, MoveInv
<1> QED
  BY <1>3, <1>4 DEF Log

\* What a store holds after an upsert: the page written, or what it held.
LEMMA StoreMove ==
  ASSUME IndInv, NEW j \in Jobs, jobs[j].pc = "store",
         NEW p \in Pages, p = jobs[j].page, NEW v, v = jobs[j].held[p],
         IF j \in Rest
         THEN \E row \in Upserted(adb[p], p, v) : adb' = [adb EXCEPT ![p] = row] /\ UNCHANGED files
         ELSE files' = [files EXCEPT ![p] = Written(p, v)] /\ UNCHANGED adb
  PROVE  /\ adb' \in [Pages -> Rows] /\ files' \in [Pages -> Rows]
         /\ adb'[p] \in {adb[p], Written(p, v)} /\ files'[p] \in {files[p], Written(p, v)}
         /\ \A q \in Pages \ {p} : adb'[q] = adb[q] /\ files'[q] = files[q]
<1>1. adb \in [Pages -> Rows] /\ files \in [Pages -> Rows] /\ v \in Nat
  BY JobFacts DEF IndInv, TypeOK, JobStates, Versions
<1>2. Written(p, v) \in Rows
  BY <1>1 DEF Written, Rows
<1>3. Upserted(adb[p], p, v) \subseteq {adb[p], Written(p, v)}
  BY DEF Upserted
<1> QED
  BY <1>1, <1>2, <1>3

LEMMA StoreInv ==
  ASSUME IndInv, NEW j \in Jobs, Store(j)
  PROVE  IndInv'
<1> DEFINE y == jobs[j]
           p == y.page
           v == y.held[p]
<1>1. /\ Running(j) /\ y \in JobStates /\ p \in Pages /\ v # 0 /\ v \in Nat
  BY PageFacts DEF Store, At, JobStates, Versions
<1>2. CASE PageFails(j) /\ UNCHANGED stores
  BY <1>1, <1>2, PageFailsInv DEF Store
<1>3. CASE ~(PageFails(j) /\ UNCHANGED stores)
  <2>1. PICK x : /\ Becomes(j, x) /\ Holds(j, x) /\ x.pc # "idle" /\ x.alone = y.alone
                 /\ x.held[p] = 0
    BY <1>1, <1>3, CountMove DEF Store, At
  <2>2. /\ jobs' \in [Jobs -> JobStates] /\ jobs'[j] = x
        /\ \A k \in Jobs : k # j => jobs'[k] = jobs[k]
    BY <2>1, Entry
  <2>3. /\ adb' \in [Pages -> Rows] /\ files' \in [Pages -> Rows]
        /\ adb'[p] \in {adb[p], Written(p, v)} /\ files'[p] \in {files[p], Written(p, v)}
        /\ \A q \in Pages \ {p} : adb'[q] = adb[q] /\ files'[q] = files[q]
    BY <1>1, <1>3, StoreMove DEF Store, At
  <2>4. UNCHANGED <<live, log, started>>
    BY DEF Store
  <2>5. /\ Written(p, v).version = v /\ (Written(p, v).ref <=> p \in Numeric)
    BY DEF Written
  <2> HIDE DEF v
  <2>6. TypeOK'
    BY <2>2, <2>3, <2>4 DEF IndInv, TypeOK
  <2>7. RefsOK'
    BY <2>3, <2>5 DEF IndInv, RefsOK
  <2>8. /\ \A q \in Pages : adb[q].ref => adb'[q].ref
        /\ \A q \in Pages : files[q].ref => files'[q].ref
    BY <2>3, <2>5 DEF IndInv, RefsOK
  <2>9. PinnedReachable'
    <3>1. ASSUME NEW k \in Jobs, Completed(k)', jobs'[k].pinned # NoPage
          PROVE  Stored(k)'[jobs'[k].pinned].ref
      <4>1. k # j /\ jobs'[k] = jobs[k]
        BY <2>1, <2>2, <3>1 DEF Completed, Running
      <4>2. Stored(k)[jobs[k].pinned].ref /\ jobs[k].pinned \in Pages
        BY <3>1, <4>1, JobFacts DEF IndInv, PinnedReachable, Completed, Running, JobStates
      <4> QED
        BY <2>8, <4>1, <4>2 DEF Stored
    <3> QED
      BY <3>1 DEF PinnedReachable
  <2>10. Behind'
    <3>1. v <= live[p]
      BY <1>1 DEF IndInv, Behind, v
    <3>2. \A q \in Pages : adb'[q].version <= live[q] /\ files'[q].version <= live[q]
      BY <2>3, <2>5, <3>1 DEF IndInv, Behind
    <3>3. \A q \in Pages : x.held[q] <= live[q]
      BY <2>1 DEF Holds, IndInv, Behind, TypeOK, Versions
    <3> QED
      BY <2>2, <2>4, <3>2, <3>3 DEF IndInv, Behind
  <2>11. AloneOK'
    BY <1>1, <2>1, <2>2 DEF IndInv, AloneOK, Running
  <2>12. Ahead'
    <3>1. ASSUME NEW k \in Jobs, Running(k)', jobs'[k].alone, NEW q \in Pages,
                 jobs'[k].held[q] # 0
          PROVE  adb'[q].version <= jobs'[k].held[q] /\ files'[q].version <= jobs'[k].held[q]
      <4>1. k = j /\ y.alone
        BY <1>1, <2>1, <2>2, <3>1 DEF IndInv, AloneOK, Running
      <4>2. q # p /\ jobs'[k].held[q] \in {y.held[q], live[q]}
        BY <2>1, <2>2, <3>1, <4>1 DEF Holds
      <4> QED
        BY <1>1, <2>2, <2>3, <3>1, <4>1, <4>2 DEF IndInv, Ahead, Behind
    <3> QED
      BY <3>1 DEF Ahead
  <2>13. \A k \in Jobs : JobOK(jobs'[k])
    BY <2>1, <2>2 DEF Becomes, IndInv
  <2> QED
    BY <2>6, <2>7, <2>9, <2>10, <2>11, <2>12, <2>13 DEF IndInv
<1> QED
  BY <1>2, <1>3

LEMMA VerifyInv ==
  ASSUME IndInv, NEW j \in Jobs, Verify(j)
  PROVE  IndInv'
<1>1. /\ Running(j) /\ Counted(jobs[j]) /\ jobs[j].counted # {}
  BY JobFacts DEF Verify, At, Running, JobOK
<1>2. UNCHANGED <<live, log, stores, started>>
  BY DEF Verify
<1>3. CASE Verified(j) /\ Report(j, "completed")
  BY <1>1, <1>2, <1>3, ReportInv DEF Verified
<1>4. CASE Report(j, "failed")
  BY <1>1, <1>2, <1>4, ReportInv
<1> QED
  BY <1>3, <1>4 DEF Verify

LEMMA EditInv ==
  ASSUME IndInv, NEW p \in Pages, Edit(p)
  PROVE  IndInv'
<1>1. UNCHANGED <<log, adb, files, jobs, started>>
  BY DEF Edit, stores
<1>2. /\ live' \in Versions /\ live'[p] = live[p] + 1
      /\ \A q \in Pages : q # p => live'[q] = live[q]
  BY DEF Edit, IndInv, TypeOK, Versions
<1>3. TypeOK' /\ RefsOK' /\ AloneOK'
  BY <1>1, <1>2 DEF IndInv, TypeOK, RefsOK, AloneOK, Running
<1>4. PinnedReachable' /\ Ahead'
  BY <1>1 DEF IndInv, PinnedReachable, Completed, Running, Stored, Ahead
<1>5. Behind'
  <2>1. ASSUME NEW q \in Pages
        PROVE  live'[q] # 0 /\ adb[q].version <= live'[q] /\ files[q].version <= live'[q]
    <3>1. live[q] \in Nat /\ adb[q].version \in Nat /\ files[q].version \in Nat
      BY DEF IndInv, TypeOK, Versions, Rows
    <3> QED
      BY <1>2, <3>1 DEF IndInv, Behind
  <2>2. ASSUME NEW q \in Pages, NEW j \in Jobs PROVE jobs[j].held[q] <= live'[q]
    <3>1. live[q] \in Nat /\ jobs[j].held[q] \in Nat
      BY JobFacts DEF IndInv, TypeOK, Versions, JobStates
    <3> QED
      BY <1>2, <3>1 DEF IndInv, Behind
  <2> QED
    BY <1>1, <2>1, <2>2 DEF Behind
<1> QED
  BY <1>1, <1>3, <1>4, <1>5 DEF IndInv

----------------------------------------------------------------------------

LEMMA InitInv == Init => IndInv
<1> SUFFICES ASSUME Init PROVE IndInv
  OBVIOUS
<1>1. \A j \in Jobs : jobs[j] = Fresh /\ Fresh.pc = "idle" /\ Fresh.report = "none"
  BY DEF Init, Fresh
<1>2. \A j \in Jobs : ~Running(j) /\ ~Completed(j)
  BY <1>1 DEF Running, Completed
<1>3. TypeOK
  BY Shapes, <1>1 DEF Init, TypeOK, Versions, Rows, Absent
<1>4. RefsOK
  BY DEF Init, RefsOK, Absent
<1>5. \A j \in Jobs, p \in Pages : jobs[j].held[p] = 0
  BY <1>1, Shapes DEF Fresh
<1>6. Behind
  BY <1>5 DEF Init, Behind, Absent
<1>7. PinnedReachable /\ AloneOK /\ Ahead
  BY <1>2 DEF PinnedReachable, AloneOK, Ahead
<1> QED
  BY <1>1, <1>3, <1>4, <1>6, <1>7, Shapes DEF IndInv

LEMMA NextInv ==
  ASSUME IndInv, [Next]_vars
  PROVE  IndInv'
<1>1. CASE UNCHANGED vars
  BY <1>1 DEF vars, IndInv, TypeOK, RefsOK, PinnedReachable, Completed, Running, Stored, Behind,
              AloneOK, Ahead
<1>2. ASSUME NEW j \in Jobs, NEW a \in Assignments, Start(j, a)
      PROVE  IndInv'
  BY <1>2, StartInv
<1>3. ASSUME NEW j \in Jobs, JobStep(j) PROVE IndInv'
  BY <1>3, ListInv, NextPageInv, PinInv, FetchInv, LogInv, StoreInv, VerifyInv DEF JobStep
<1>4. ASSUME NEW j \in Jobs, Restart(j) PROVE IndInv'
  BY <1>4, RestartInv
<1>5. ASSUME NEW p \in Pages, Edit(p) PROVE IndInv'
  BY <1>5, EditInv
<1> QED
  BY <1>1, <1>2, <1>3, <1>4, <1>5 DEF Next

\* The inductive invariant holds in every reachable state.
THEOREM Inductive == Spec => []IndInv
BY InitInv, NextInv, PTL DEF Spec

\* Jobs, stores and the log keep their types.
THEOREM TypeCorrect == Spec => []TypeOK
<1>1. IndInv => TypeOK
  BY DEF IndInv
<1> QED
  BY <1>1, Inductive, PTL

\* A pinned skill whose INGEST completed has its page in the store of its job under a
\* canonical reference, and keeps it whatever other jobs store (the verification after
\* the ingestion, _run_ingest).
THEOREM PinnedReachableHolds == Spec => []PinnedReachable
<1>1. IndInv => PinnedReachable
  BY DEF IndInv
<1> QED
  BY <1>1, Inductive, PTL

\* A job that completes has counted all pages of all its sources, and at least one page
\* (_run_ingest).
THEOREM CompletedCountedHolds == Spec => []CompletedCounted
<1>1. ASSUME IndInv PROVE CompletedCounted
  BY <1>1, JobFacts DEF CompletedCounted, Completed, Running, JobOK, Counted
<1> QED
  BY <1>1, Inductive, PTL

\* A job that has run alone never puts an older version of a page in the place of a newer
\* one (ingest_page, upsert_page).
THEOREM NoRegressionHolds == Spec => NoRegression
<1> DEFINE Beside == \E j \in Jobs : Running(j) /\ ~jobs[j].alone
<1>1. ASSUME IndInv, Next, NEW p \in Pages,
             adb'[p].version < adb[p].version \/ files'[p].version < files[p].version
      PROVE  Beside
  <2>1. adb[p].version \in Nat /\ files[p].version \in Nat
    BY <1>1 DEF IndInv, TypeOK, Rows
  <2>2. ~UNCHANGED stores
    BY <1>1, <2>1 DEF stores
  <2>3. PICK j \in Jobs : Store(j)
    BY <1>1, <2>2 DEF Next, JobStep, Start, List, NextPage, Pin, Fetch, Log, Verify, Restart, Edit,
                      stores
  <2> DEFINE q == jobs[j].page
             v == jobs[j].held[q]
  <2>4. Running(j) /\ q \in Pages /\ v # 0 /\ v \in Nat
    BY <1>1, <2>3, PageFacts DEF Store, At, JobStates, Versions
  <2>5. adb'[p] \in {adb[p], Written(q, v)} /\ files'[p] \in {files[p], Written(q, v)}
    BY <1>1, <2>2, <2>3, <2>4, StoreMove DEF Store, At
  <2>6. p = q
    BY <1>1, <2>1, <2>2, <2>3, <2>4, StoreMove DEF Store, At
  <2>7. ~(adb[p].version <= v /\ files[p].version <= v)
    BY <1>1, <2>1, <2>4, <2>5 DEF Written
  <2>8. ~jobs[j].alone
    BY <1>1, <2>4, <2>6, <2>7 DEF IndInv, Ahead
  <2> QED
    BY <2>4, <2>8
<1>2. ASSUME IndInv, [Next]_vars
      PROVE  [\A p \in Pages :
                adb'[p].version < adb[p].version \/ files'[p].version < files[p].version =>
                  Beside]_vars
  BY <1>1, <1>2
<1> QED
  BY <1>2, Inductive, PTL DEF Spec, NoRegression
=============================================================================
