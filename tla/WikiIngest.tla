----------------------------- MODULE WikiIngest -----------------------------
(***************************************************************************)
(* Wiki pages on their way from Confluence into the knowledge base.  Jobs  *)
(* run ConfluenceWikiIngestor on one host: the INGEST step of sessions,    *)
(* whose pages go to the database (REST) or to files of the host (MCP,     *)
(* which hands the conversation no pool), and the ingestion worker, whose  *)
(* pages go to the files.  They share the host's ingest log, by which a    *)
(* page that has not changed is skipped.                                   *)
(*                                                                         *)
(* Of a page only the version of its content is kept: equal versions have  *)
(* equal hashes.                                                           *)
(***************************************************************************)
EXTENDS Naturals, FiniteSets

CONSTANTS
  Pages,
  Numeric,       \* pages whose reference is a page id and not a URL
  Rest, Mcp, Worker,   \* the jobs, by who starts them
  NoPage,
  Assignments,   \* what jobs are given: sources, each a set of pages, and a pinned page
  Legacy,        \* pages stored before canonical references were
  Edited,        \* bound: the pages that are edited at all
  MaxVersion,    \* bound on edits of a page
  MaxRuns        \* bound on the runs of a job

Jobs == Rest \cup Mcp \cup Worker
Sessions == Rest \cup Mcp

ASSUME PagesAssumption ==
  /\ Assignments \subseteq [sources : SUBSET ((SUBSET Pages) \ {{}}), pinned : Pages \cup {NoPage}]
  /\ Edited \subseteq Pages
  /\ Numeric \subseteq Pages /\ Legacy \subseteq Pages /\ NoPage \notin Pages
  /\ Rest \cap Mcp = {} /\ Sessions \cap Worker = {}
ASSUME BoundsAssumption == MaxVersion \in Nat \ {0} /\ MaxRuns \in Nat

VARIABLES
  live,     \* version of each page in Confluence
  log,      \* ingest.log.jsonl: last version logged of each page, 0 if none
  adb,      \* KBF_WIKI_PAGES
  files,    \* wiki_metadata of the host
  jobs,
  started   \* runs each job has had

vars == <<live, log, adb, files, jobs, started>>
stores == <<adb, files>>

Absent == [version |-> 0, ref |-> FALSE]
\* The sources the job was given and those still to do, of the source in hand whether
\* it is a space and its pages still to do, the pages it has counted, the page in hand,
\* the versions it has fetched and not stored, whether a source failed, and the pinned
\* page.  "alone" only records that no other job has run beside this one.
Unfetched == [p \in Pages |-> 0]
Fresh == [pc |-> "idle", given |-> {}, sources |-> {}, crawl |-> FALSE, todo |-> {},
          counted |-> {}, page |-> NoPage, held |-> Unfetched, index |-> Unfetched,
          lost |-> FALSE, pinned |-> NoPage, strict |-> FALSE, alone |-> TRUE,
          report |-> "none"]

Init ==
  /\ live = [p \in Pages |-> 1]
  /\ log = [p \in Pages |-> 0]
  /\ adb = [p \in Pages |-> IF p \in Legacy THEN [version |-> 1, ref |-> FALSE] ELSE Absent]
  /\ files = [p \in Pages |-> Absent]
  /\ jobs = [j \in Jobs |-> Fresh]
  /\ started = [j \in Jobs |-> 0]

At(j, pc) == jobs[j].pc = pc
Running(j) == jobs[j].pc # "idle"
Stored(j) == IF j \in Rest THEN adb ELSE files

Report(j, status) ==
  jobs' = [jobs EXCEPT ![j] =
             [Fresh EXCEPT !.given = IF status = "completed" THEN jobs[j].given ELSE {},
                           !.counted = IF status = "completed" THEN jobs[j].counted ELSE {},
                           !.pinned = jobs[j].pinned, !.report = status]]

\* ingest_pages and ingest_space let an exception of a page end the source, and the
\* job goes on with the next one; only the pinned page ends it.
Failed(j, sources) ==
  IF jobs[j].strict THEN Report(j, "failed")
  ELSE jobs' = [jobs EXCEPT ![j].pc = "list", ![j].sources = sources, ![j].todo = {},
                            ![j].page = NoPage, ![j].held = Unfetched, ![j].crawl = FALSE,
                            ![j].counted = {}, ![j].lost = TRUE]
PageFails(j) == Failed(j, jobs[j].sources)

----------------------------------------------------------------------------
(* _run_ingest, ingestion_worker.main. *)

\* An ingestor is made, which loads the log: by a session for all its sources, by the
\* worker for those of one knowledge base.  A skill that is pinned to a page it may not
\* fetch on demand has the page in its knowledge base at author time.
Start(j, a) ==
  /\ ~Running(j) /\ started[j] < MaxRuns
  /\ a.pinned # NoPage => j \in Sessions
  /\ a.sources # {} \/ a.pinned # NoPage
  /\ started' = [started EXCEPT ![j] = @ + 1]
  /\ jobs' = [i \in Jobs |->
       IF i = j
       THEN [Fresh EXCEPT !.pc = "list", !.given = a.sources, !.sources = a.sources,
               !.index = log, !.pinned = a.pinned, !.alone = \A k \in Jobs : ~Running(k)]
       ELSE [jobs[i] EXCEPT !.alone = ~Running(i)]]
  /\ UNCHANGED <<live, log, stores>>

\* Bug: a source that yields no page at all is complete.
NothingIsFine(found) == TRUE
Yields(found) == found # {}

\* A source is a space, whose pages are all fetched before the first is stored, or
\* a list of pages, each fetched in its turn.  Labels or access may leave none, and
\* the adapter may fail.
List(j) ==
  /\ At(j, "list")
  /\ \E source \in jobs[j].sources :
       LET left == jobs[j].sources \ {source} IN
       \/ \E found \in {source, {}}, crawl \in BOOLEAN :
            /\ j \in Worker => crawl
            /\ Yields(found)
            /\ jobs' = [jobs EXCEPT
                 ![j].pc = "next", ![j].sources = left, ![j].crawl = crawl, ![j].todo = found,
                 ![j].held = IF crawl THEN [p \in Pages |-> IF p \in found THEN live[p] ELSE 0]
                             ELSE @]
       \/ Failed(j, left)
  /\ UNCHANGED <<live, log, stores, started>>

\* Bug: a page is taken off the list only when it has changed.
NextPageKept(j) ==
  /\ At(j, "next")
  /\ \/ \E p \in jobs[j].todo :
          jobs' = [jobs EXCEPT ![j].pc = IF jobs[j].held[p] = 0 THEN "fetch" ELSE "log",
                     ![j].page = p, ![j].todo = IF jobs[j].index[p] = live[p] THEN @ ELSE @ \ {p}]
     \/ jobs[j].todo = {} /\ jobs' = [jobs EXCEPT ![j].pc = "list", ![j].crawl = FALSE]
     \/ jobs[j].todo = {} /\ jobs[j].crawl /\ PageFails(j)
  /\ UNCHANGED <<live, log, stores, started>>

\* At the end of a crawl the log line of its numbers is an error, unless the log leaves
\* out its level: the source fails with all its pages stored.
NextPage(j) ==
  /\ At(j, "next")
  /\ \/ \E p \in jobs[j].todo :
          jobs' = [jobs EXCEPT ![j].pc = IF jobs[j].held[p] = 0 THEN "fetch" ELSE "log",
                     ![j].page = p, ![j].todo = @ \ {p}]
     \/ jobs[j].todo = {} /\ jobs' = [jobs EXCEPT ![j].pc = "list", ![j].crawl = FALSE]
     \/ jobs[j].todo = {} /\ jobs[j].crawl /\ PageFails(j)
  /\ UNCHANGED <<live, log, stores, started>>

\* The end of the sources: the pinned page, if all succeeded.
Pin(j) ==
  /\ At(j, "list") /\ jobs[j].sources = {}
  /\ \/ jobs[j].lost /\ Report(j, "failed")
     \/ ~jobs[j].lost /\ jobs[j].pinned = NoPage /\ Report(j, "completed")
     \/ /\ ~jobs[j].lost /\ jobs[j].pinned # NoPage
        /\ \/ jobs' = [jobs EXCEPT ![j].pc = "fetch", ![j].page = jobs[j].pinned,
                                    ![j].strict = TRUE]
           \/ Report(j, "failed")
  /\ UNCHANGED <<live, log, stores, started>>

----------------------------------------------------------------------------
(* ConfluenceWikiIngestor.ingest_page. *)

Count(j) ==
  jobs' = [jobs EXCEPT ![j].pc = IF jobs[j].strict THEN "verify" ELSE "next",
                       ![j].counted = @ \cup {jobs[j].page},
                       ![j].page = NoPage, ![j].held[jobs[j].page] = 0]

\* Bug: the adapter answers with a version it has kept.
FetchedBefore(p) == 1..live[p]
Fetched(p) == {live[p]}

Fetch(j) ==
  /\ At(j, "fetch")
  /\ \/ \E v \in Fetched(jobs[j].page) :
          jobs' = [jobs EXCEPT ![j].pc = "log", ![j].held[jobs[j].page] = v]
     \/ PageFails(j)
  /\ UNCHANGED <<live, log, stores, started>>

\* Against the log as it was when the job began, and as the job has gone on since.
\* A page that is new to it is written to the host, logged, and then indexed.
Log(j) ==
  LET p == jobs[j].page v == jobs[j].held[p] IN
  /\ At(j, "log")
  /\ IF jobs[j].index[p] = v
     THEN Count(j) /\ UNCHANGED log
     ELSE /\ log' = [log EXCEPT ![p] = v]
          /\ jobs' = [jobs EXCEPT ![j].pc = "store", ![j].index[p] = v]
  /\ UNCHANGED <<live, stores, started>>

Written(p, v) == [version |-> v, ref |-> p \in Numeric]

\* upsert_page of the database skips a row of the same hash, whatever else differs,
\* unless the look at the hash fails; the files are always rewritten.
Upserted(old, p, v) == {Written(p, v)} \cup (IF old.version = v THEN {old} ELSE {})

\* A page without a canonical reference is stored all the same, unless it is the
\* pinned one: then the job fails here, after the log has it.
Store(j) ==
  LET p == jobs[j].page v == jobs[j].held[p] IN
  /\ At(j, "store")
  /\ \/ /\ jobs[j].strict => p \in Numeric
        /\ IF j \in Rest
           THEN \E row \in Upserted(adb[p], p, v) : adb' = [adb EXCEPT ![p] = row] /\ UNCHANGED files
           ELSE files' = [files EXCEPT ![p] = Written(p, v)]
                /\ UNCHANGED adb
        /\ Count(j)
     \/ PageFails(j) /\ UNCHANGED stores
  /\ UNCHANGED <<live, log, started>>

\* Bug: that the page is in the store is taken for granted.
Trusted(j) == TRUE
Verified(j) == Stored(j)[jobs[j].pinned].ref

\* The record of the pinned page is read back.
Verify(j) ==
  /\ At(j, "verify")
  /\ Report(j, IF Verified(j) THEN "completed" ELSE "failed")
  /\ UNCHANGED <<live, log, stores, started>>

JobStep(j) ==
  List(j) \/ NextPage(j) \/ Pin(j) \/ Fetch(j) \/ Log(j) \/ Store(j) \/ Verify(j)

----------------------------------------------------------------------------
(* The surroundings. *)

Edit(p) ==
  /\ p \in Edited /\ live[p] < MaxVersion
  /\ live' = [live EXCEPT ![p] = @ + 1]
  /\ UNCHANGED <<log, stores, jobs, started>>

\* The process dies; the session was not saved and starts INGEST over.
Restart(j) ==
  /\ Running(j)
  /\ jobs' = [jobs EXCEPT ![j] = Fresh]
  /\ UNCHANGED <<live, log, stores, started>>

Next ==
  \/ \E j \in Jobs, a \in Assignments : Start(j, a)
  \/ \E j \in Jobs : JobStep(j) \/ Restart(j)
  \/ \E p \in Pages : Edit(p)

\* A job is a loop of one thread whose calls return or raise.
Spec == Init /\ [][Next]_vars /\ \A j \in Jobs : WF_vars(JobStep(j))
----------------------------------------------------------------------------
(* Properties. *)

Completed(j) == ~Running(j) /\ jobs[j].report = "completed"

\* When INGEST of a pinned skill completes, the page is in the store of its job
\* with the canonical reference the executor looks for, and stays so whatever
\* other jobs store afterwards (conversation.py: post-ingest verification).
PinnedReachable ==
  \A j \in Jobs : Completed(j) /\ jobs[j].pinned # NoPage =>
    Stored(j)[jobs[j].pinned].ref

\* A job that completes has gone through every page of all its sources: none of them
\* failed or was left empty, whatever became of those after it.
CompletedCounted ==
  \A j \in Jobs : Completed(j) =>
    /\ \A source \in jobs[j].given : source \subseteq jobs[j].counted
    /\ jobs[j].counted # {}

\* Only jobs that run beside each other can put an older version in the place of
\* a newer one.
NoRegression ==
  [][\A p \in Pages :
       adb'[p].version < adb[p].version \/ files'[p].version < files[p].version =>
         \E j \in Jobs : Running(j) /\ ~jobs[j].alone]_vars

\* Every job comes to its report, or dies.
JobsEnd == \A j \in Jobs : Running(j) ~> ~Running(j)
=============================================================================
