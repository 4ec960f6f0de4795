# Knowledge Builder: a TLA+ verification project

The repository (`framework/`, Python) lets a domain expert author a *skill* in a
conversation, publishes it, and answers questions with the published skills.
This directory models the parts of it that keep state over several requests,
threads or processes and must not lose or confuse it: the authoring
conversation, the session rows and the skill store, the routing tables of the
workers, the path of a question, evaluation, ingestion of wiki pages, the
database pool, the two ways to the Confluence server, and the records operators
read.

Paths below are relative to `src/framework/`; `conversation.py` is
`skill_builder/conversation.py`.

## 1. Inventory

| Component | State | Operations | Hard behaviour | What makes it correct |
|---|---|---|---|---|
| Authoring conversation (`conversation.py`) | `_state`, `_SessionData` | one handler per state, called by `respond()` | many ways back (other sources, redesign, re-commit), keyword matching in a fixed order, early returns, handlers that raise after writing | no step skipped, nothing older than the design in use, every way ends |
| Evaluation and comparison (`conversation.py` `_run_eval`, `skill_builder/comparator.py`) | the run, then `eval_result` in the session | self-test, sample pages, judge, compare, accept | minutes of calls of which any may fail, a skill committed again meanwhile | a failed self-test blocks acceptance, scores mean what they say, a run ends |
| Authoring routes (`deploy/routes/author_skill.py`), MCP twin (`deploy/mcp_tools.py`) | none of their own | start, continue, GET, DELETE | load - converse - save in a worker thread, no lock; clients that time out | a reply's turn is saved, one session per row |
| Session store (`deploy/session/`) | rows of `author_skill_sessions`: state, status, `expires_at` | save (MERGE), load (auto-expires), abandon, expire_stale, list, recover | time-to-live against a running request, statuses only load looks at | only the operator reopens a finished session |
| Skill store (`deploy/skill_store/`) | rows of `KBF_SKILL_ARTIFACTS`, `KBF_PERSONA_BUILDERS` | write_artifacts, promote, upsert/delete card, delete, listings | three writes without a transaction; two sessions of one skill | what routing lists has content and a card of the same design |
| Routing tables (`orchestrator/shim_*.py`) | cards loaded from the stores, in each of four workers | reload, find | reloaded in one worker only, after the reply; reads that fail empty a table | routing answers with promoted skills |
| Ask path (`deploy/routes/ask.py`, `orchestrator/`) | none | tiered answer with fall-backs | a late step that fails after the answer was made | an answer agrees with its artifact and names its source |
| Workflow executor (`workflow_runtime/`) | cache of pages fetched on demand (TTL, 50 entries) | run a skill | one cache for all skills; several ways to a page | the right page, no older than the skill allows |
| Ingestion (`ingestion/`, `stores/`, `deploy/ingestion_worker.py`) | ingest log, wiki metadata rows or files | crawl, upsert | log and store apart, jobs beside each other, a crash between two writes | a pinned page can be found, a completed job saw all pages |
| Database pool (`core/adb_pool.py`) | two pools, a tunnel, back-off | acquire, reconnect | every thread reconnects for itself | connections come back, a server knows the tunnel it has to kill, every request ends |
| Remote runtimes (`core/emcp_runtime.py`, `core/codex_proxy_runtime.py`), adapter (`adapters/confluence/`) | a rotating token, a child process, their locks | call, refresh, restart | a token two programs refresh; answers that come after their caller left | own answer, no token lost by our own doing, an operation ends unless what has no time limit hangs |
| Operations (`deploy/error_store.py`, `deploy/ops`, `retrievers/kbf_ops`, `deploy/mcp_transport.py`) | errors, bugs and audits, each in a file and a table | record, report, review, watch, export | either of two writes fails; readers beside writers | what was reported is seen |
| Artifact store (`deploy/artifact_store/`) | uploaded files by session | upload, resolve, cleanup | cleaned before the session is saved; abandoned sessions never cleaned | a bound reference can be read |
| File session store, TTL job, cost log, metrics, evaluation sets, command line, helpers of the conversation, connectors, retrievers, renderers, authentication | little or none | functions, operator tools, I/O | - | - |

How they interact: a request (REST or MCP) loads a session row, builds the
conversation from it, calls `respond()`, and saves the row. The conversation calls
the language model, the connectors, the artifact store, ingestion and - from the
commit on - the skill store, whose rows the routing tables load and the ask path
serves. Rows and cards go through the database pool; pages through the Confluence
adapter. What a handler does not save in the row is forgotten with the request,
and what it writes to a store stays when it raises. The server is four uvicorn
workers: authoring turns and deletions run in threads, questions in the event
loop.

`PROJECT.json` lists every component with its status, and the hazards with the
line where each one bites and the property that watches it, or why none does.

## 2. Modules

| Module | What it models |
|---|---|
| `AuthorSession` | what both halves of the conversation share: states, answers, the turn returned |
| `SkillDesign` | IDENTIFY_PERSONA to PREVIEW_EXTRACTION |
| `SkillPublish` | the commit to DONE, with the skill's rows and KB card |
| `SkillLifecycle` | the abstract promise about one skill: absent, draft, live |
| `SessionStore` | requests over the session table, and `session recover` |
| `SkillCatalog` | sessions, deletions, reloads, backfills and restarts over rows, cards and the workers' tables |
| `AskPath` | one question from routing to reply, EVALs beside it, the executor and its cache |
| `EvalRun` | EVAL a call at a time, its comparison and the gate of `accept` |
| `WikiIngest` | ingestion jobs over the ingest log and both wiki stores |
| `AdbPool` | threads, pools, the tunnel and its script |
| `RemoteConstants` | constants and their assumptions for the next three |
| `EmcpToken` | direct calls with the token shared with codex |
| `CodexProxy` | calls through a codex child process |
| `ConfluenceAdapter` | composes the two: the adapter's operations over whichever runtime the factory built |
| `Operations` | failing calls, bug reports, session reviews, `watch-bugs`, `export-bugs` |
| `SkillPublish_proof`, `SkillCatalog_proof`, `AskPath_proof`, `WikiIngest_proof`, `AdbPool_proof` | theorems about the module of that name; `SkillPublish_proof` also that `SkillPublish` implements `SkillLifecycle` |
| `Authoring_proof` | theorems about `SkillDesign` and `EvalRun` |
| `Server_proof` | theorems about `SessionStore` and `Operations` |
| `ConfluenceAdapter_proof` | theorems about `ConfluenceAdapter`, with those about `EmcpToken` and `CodexProxy` that they are made of |
| `MC<M>` | the small instances that TLC checks |

### Conversation (`AuthorSession`, `SkillDesign`, `SkillPublish`)

*Answers.* The handlers test `keyword in lowered` or `lowered in (words)`. An
answer is therefore the set of keywords its text contains; `Has` is the first test,
`Is` the second. The instances list the answers that tell the handlers' branches
apart; one answer may match several keywords ("force promote" holds "promote"), and
the guards keep the order in which the code tries them.

*Steps.* A step is one request. A handler that raises saves nothing; where it has
written to the store before, that write is a step of its own that leaves the
session alone (`Commit`, `PromoteYes`).

*Data.* A design is a model value; the constants say which designs have fields,
a structured format, or routing queries. What the language model, the wiki and the
evaluation return is a choice among the outcomes the code distinguishes.

Each half sees the other as one action: `SkillPublish!Author` lets the authoring
half do anything that leaves a design at the preview, `SkillDesign!Publish` lets
the publish half go through its states and come back for other sources or another
design. Both are as liberal as the other half's code or more.

### Requests and rows (`SessionStore`)

Opens the request up: load, conversation and save are steps, other requests, the
time-to-live, GET, DELETE, `session recover` and restarts fall between. The
conversation is reduced to how far it has come and to the requests it has answered.
`recover` puts a session at any state, DONE and IDENTIFY_PERSONA included, and saves it
as in progress; the operator is taken to run it while no request of the session is in
flight. `Overlapping` says whether a client may send a request of a session
before the last has ended; nothing in the code prevents it, see section 7.

### Catalogue (`SkillCatalog`)

A task is a session's commit and promotion, a deletion, a backfill or a reload; each
database call of it is a step. Any number of sessions may be at work on one skill, as
nothing in the code keeps them apart: between the promotion of the rows and the read of
their delta (`conversation.py:6410-6417`) another one may commit, and its delta is then
registered (`overtaken` remembers these). Content is the number of its commit. A worker holds
two tables: `ShimWorkflows`, which lists the promoted skills and then reads their
artifacts one by one, and `ShimKb`, from cards. Reads
that fail do to the table what the code does with the error (an empty table, or a
skill skipped). A REST session's last turn reloads both tables of its worker; an MCP
session reloads nothing; `deleteSkill` reloads `ShimKb` only.

### Questions (`AskPath`)

The question is answered in the event loop, so one at a time; EVALs run the same
executor in threads. A skill's configuration is a record (how it finds its page, the
spaces it may read, its time to live); the cache is an entry per page under its lock,
oldest evicted. A page has the time it was read at and its entry the later time it was
stored at, after the extraction. An answer of the model is a summary, empty, a refusal
that `_REFUSAL_MARKERS` knows, or an `evasion`, which is one in other words, further down
or as the synthesizer's prompt orders it. Configurations, the knowledge base and the pages themselves change
between any two steps.

### Evaluation (`EvalRun`)

`_run_eval` from entry to answer, on the session as it was loaded. Per query a
self-test that passes, fails or raises; per page the run of the executor; per
extraction a judgment; then criteria, artifact and comparison. Sections are titles
with word counts, so that the comparator's arithmetic is there. Another session may
commit the same skill, and a restart forgets the run.

### Ingestion (`WikiIngest`)

A job goes through its sources, lists the pages of each, skips by the ingest log, writes
the log, then the store: table or files, by the kind of session. A crawl of a space may
fail after its last page, in its own log line (section 7). A source that fails fails the
job and the next one is tried. `pinned` is the page of the binding, verified after the run. Jobs share the log of the host. A restart ends all.

### Pool (`AdbPool`)

A thread acquires, uses and releases a connection of one of two pools. On a
connectivity error it runs the reconnection itself: kill the tunnel it knows and start
one (`inline`), or have the script do both (`script`), or give up (`bare`: no bastion is
configured; in the VM there is no tunnel), wait for the port, check the pool. Which ssh
process holds the local port is state of its own, and so is which of them this server
process has started (`own`) and remembers (`handle`). The start script opens a tunnel
whatever the configuration (`TunnelByScript`) and kills the old server with -9
(`Killed`), whose tunnel then lives on; a server that exits by itself kills the one it
remembers (`Stop`).

### Confluence (`EmcpToken`, `CodexProxy`, `ConfluenceAdapter`)

Tokens are their generations. A grant issues the next and makes the refresh token
before it worthless; the keychain, the memory of each runtime, codex and the
identity provider may each know a different generation. A read of the keychain or a
post may fail, with the type of error the code makes of it or escaping untyped. The
child process is numbered by its starts; requests and responses are sets, so answers
come in any order and after their caller left, and the child's own requests carry ids
too, which the reader files as responses. `ConfluenceAdapter` runs either specification
under the operations `list`, `fetch`, `healthcheck` and `canonical_identity`, whose
results are what the adapter makes of the runtime's outcome. A thread may hang for ever
where the code has no time limit (`Hang`; section 4). Its three safety
properties are those of the instances.

### Operations (`Operations`)

An error, a bug and an audit each have two writes that may fail separately. A
review reads the five artifacts one by one while authors commit, designs with fields
and without, and delete; a read may raise, which ends the review with an error record. The
commands take a snapshot when they begin and read file or table as the code does.

## 3. Runs

| Run | Bounds | Distinct states | Shows |
|---|---|---|---|
| `publish` | 2 designs (one with fields, one with routing queries), 2 failure classes besides UNSUPPORTABLE, 3 iterations, calls of cost 0 or 2, a ceiling of 2 | 126,176 | `IngestedContent`, `LiveClaimTrue`, `LoopBounded`, `PromotionAudited`, `CardFollowsRows`, refinement of `SkillLifecycle` |
| `design` | 3 sources of which 2 can be inspected, 1 artifact, 2 questions per call | 61,199 | `QuestionsAnswered`, `DesignGrounded`, `RequiredReference`, `ReachesCommit` |
| `sessions` | 3 ids, 4 requests, symmetry on both | 367,548 | `RepliesSaved`, `OneSessionPerRow`, `ReopenedByOperatorOnly` |
| `catalog` | 2 skills written 2 times and once (commits and backfills), 1 worker, 2 tasks at a time | 4,215,848 | `CardsArePromoted`, `RoutedWasPromoted`, `NoOrphanCard`, `ServedWhenAnswered` |
| `ask` | 2 skills, 4 configurations, 2 pages, a cache of 1, 1 tick, 1 change of the surroundings, 1 EVAL | 3,869,365 | `OnePage`, `FreshEnough`, `Backfilled`, `Disclosed` |
| `eval` | 2 designs, 2 fields, 0, 1 or 4 pages (3 are sampled), 3 artifacts, 2 commits | 375,220 | `GateHolds`, `ScoresSound`, `SameHasNoGaps`, `EvalEnds` |
| `wiki` | 2 pages, one edited once, a REST and an MCP job, each once, with two sources, one and a pinned page of it, or a pinned page alone | 345,260 | `PinnedReachable`, `CompletedCounted`, `NoRegression`, `JobsEnd` |
| `pool` | 3 threads, 1 of the bug store, pools of 1, 2 ssh processes, 2 attempts (code 5), 1 reconnection (code 3), 1 fault | 211,446 | `ConnectionsReturned`, `OneTunnel`, `RequestsEnd` |
| `remote` | 2 calls of one runtime beside codex, 2 generations, 2 attempts (code 3), 1 fault (a hang is one), 2 processes | 500,377 | `CacheBehindKeychain`, `RejectedOnlyByOthers`, `OwnAnswer`, `OperationsEnd` |
| `ops` | 3 of 4 callers (a failing call, a report, a request, a review), 2 writes of the skill, 1 command, 2 kinds of error, no flaws, 1 critique bug | 4,578,998 | `AuditAfterBugs`, `CriticalTrue`, `FirstReportSeen` |

The bounds are named constants and enough for the cases that matter:

* `publish`, `design`: two designs so that an older one can be confused with the one
  in use, two classes so that the same-class guard and the iteration limit are
  reached by different ways, two questions so that one can be the source-binding one.
* `sessions`: three ids so that one session can change its id while another exists;
  four requests so that a session can be started, continued under its new and under
  its old id, and met by another. The author waits for replies (`Overlapping = FALSE`).
* `catalog`: one worker is enough for every step, since workers share only the
  tables of the database; two tasks interleave, also two sessions of one skill; two contents of
  one skill tell an old card from a new one.
* `ask`: two skills with different times to live on one page, a cache of one so that
  the second page evicts the first; a tick may fall before or after the extraction.
* `eval`: one, all and more pages than the sample takes, one query of each sign, two
  slides of one name in the reference.
* `wiki`: one page stored before canonical references were and one under a URL; one
  edit to tell versions apart; two sources, so that one can fail and the other not.
* `pool`: two threads to compete for a pool of one and a third on the other pool; a
  fault costs a tunnel, a second ssh process is one too many.
* `remote`: two threads to compete for the token, one grant to lose, a child that is
  started twice; one thread may hang with a lock that the other needs.
* `ops`: a call and a review can both fail, so that a report can quote the first or the
  second of a group, beside a review whose artifacts are written and removed.

`CHECK_DEADLOCK FALSE` stands where a behaviour ends when its requests, calls, jobs
or commits are used up.

Two runs expect a violation: the code does something else than its own text says.

| Run | What the code says | What happens |
|---|---|---|
| `routing_gate` | "This block cannot be bypassed." (`conversation.py:5933`) | accepting at the routing turn promotes a skill that failed its routing self-test |
| `demand` | "log a CONNECTOR-REQ demand record to ADB" (4008), where export-bugs is to find it (`docs/wiki/adr/ADR-036-connector-registry-read.md:495`, 528) | no skill store has an `error_store`, so the record goes to a file of the host; `export-bugs` reads the table alone |

## 4. Fairness

| Module | Fairness | Why the code justifies it |
|---|---|---|
| `SkillDesign` | an author who is asked eventually gives an answer the turn offers (`Proceed`, weak); one who is shown a preview again and again commits in the end (strong) | nothing moves the conversation but its author; outside services do not fail every time (a failing request is no step). The code does not bound the author's detours, and no property says it does |
| `EvalRun` | weak on the steps of a run | every call has a time-out or raises; loops go over finite lists |
| `WikiIngest` | weak on the steps of each job | as above; a job goes once over the pages it listed |
| `AdbPool` | weak on each thread's steps from asking for a connection to giving it back | sleeps, the script and the port wait are bounded; the OCI command (`create_session`) has no time limit of its own and is taken to come back; callers hold a connection in a `with` block around a bounded statement |
| `EmcpToken`, `CodexProxy`, `ConfluenceAdapter` | weak on each call's own steps | requests and the wait for the child have time-outs. Four things have none: the `security` commands of the keychain (`emcp_runtime.py:166`, 193), which run with a lock held in part, the body of a response that goes on trickling in (474), and a write to a child that reads nothing, its error output being full (`codex_proxy_runtime.py:115`, 86). There `Hang` may stop a thread for ever, after which none of its steps is taken. `OperationsEnd` promises an end only to operations that no such thread holds up from some time on, itself or by a lock of the runtime (`HoldsUp`); nothing else is assumed of codex, the servers or the child |

A thread that waits at a full pool is never overtaken for ever in `AdbPool`, because
each thread asks `MaxRequests` times; that oracledb serves waiting callers is taken
from its documentation, not from this repository. Actions of the surroundings
(edits, faults, restarts, other sessions) have no fairness anywhere.

## 5. Proofs

All theorems hold for every value of the constants that satisfies the named
assumptions of the module (numbers are naturals, markers such as `NoDesign` are none
of the things they mark, sets of threads are finite). `PROJECT.json` lists them.

| Module | Theorems | Inductive invariant and why it is needed |
|---|---|---|
| `SkillPublish_proof` | `TypeCorrect`, `IngestedContentHolds`, `LiveClaimTrueHolds`, `LoopBoundedHolds`, `PromotionAuditedHolds`, `CardFollowsRowsHolds`, `LifecycleImplemented` | `TypeOK /\ Links`, see below |
| `Authoring_proof`: `SkillDesign` | `TypeCorrect`, `Answered`, `Grounded`, `Referenced` | `Asked`: where CLARIFY goes and which questions are open; `Sampled`: at the upload turn the samples are those of the sources. The design is made there, so `DesignGrounded` starts true; going back to the sources leaves the states it speaks of (`Undesigned`) |
| `Authoring_proof`: `EvalRun` | `EvalTypeCorrect`, `Gate`, `Scoring`, `Comparing` | `Fair`: a verdict that passes has no failed assertion, and none fails without a query in the design. It goes with the run and with the saved result, and the session stays on its design while a run works (`SessionOK`); the gate takes "the design has queries" for "the test ran", which `Fair` makes right. `Fine`: what is counted never exceeds what it is divided by. `ComparedOK`: a comparison, where there is one, is of what the run made; then `WordsAtLeast`, see below |
| `Server_proof`: `SessionStore` | `TypeCorrect`, `Reopened`, `OneSession`, `Replies` | `Whose`: the answers of a session past the persona were all given under its id, in the row and in the copy each request holds; for `Replies`, and only without overlapping requests, that a request in flight holds all its row holds and no two hold one row (`WaitOf`); `Reopened` needs the same, since a request that overlaps the last one would save over it |
| `Server_proof`: `Operations` | `OpsTypeCorrect`, `AuditLast`, `CriticalIsTrue`, `FirstReportsSeen` | `Accounts`: at every step the lines of a review, kept or failed, are exactly the numbers below its count, so that their cardinality is what the audit says (`LinesCounted`, by a bijection); `Witnessed`: an artifact read in vain was not stored then or is among what the review has seen missing (`lacked`), and what a commit adds is never taken away; `Reported`: a confirmed report has its line, or the line failed, and what the operator took for confirmed stays so |
| `SkillCatalog_proof` | `TypeCorrect`, `CardsPromoted`, `RoutedPromoted`, `NoOrphans`, `Served` | what each task has read was promoted or overtaken (`HeldOf`, `ListOf`), what it means to serve is in the row, or something newer is, or nothing (`GoalOf`), a skill with promoted rows was promoted (`RowsWerePromoted`), a skill without rows has no task about to write its card unless torn (`Untorn`) |
| `AskPath_proof` | `TypeCorrect`, `OnePageHolds`, `FreshEnoughHolds`, `BackfilledHolds`, `DisclosedHolds` | `SourceOK`, `ReplyOK`: what each point of a run knows of its page and its answer, in the run's own record, since cache, skills and pages change under it; `CacheOK`: an entry was stored no longer after its page was read than the slowest extraction took, and neither is in the future |
| `WikiIngest_proof` | `TypeCorrect`, `PinnedReachableHolds`, `CompletedCountedHolds`, `NoRegressionHolds` | `RefsOK`: a reference in a store is that of a page with a numeric id, which every later write gives again; `Behind`: nothing in a store or held by a job is newer than Confluence; `AloneOK`, `Ahead`: while a job has run alone, what it is about to write is no older than what it writes over; `JobOK`: as long as no source was lost, what a job counted, has in hand and has still to do covers every source it was given (`Covers`) |
| `AdbPool_proof` | `TypeCorrect`, `Returned`, `SingleTunnel` | `Places`: which pool a thread holds at each point; `Tunnel`: with the script, the ssh process alive is the one on the port; without overlapping, one thread at most reconnects, what the server has started is what it remembers, and nothing is left of it between kill and start |
| `ConfluenceAdapter_proof` | `TypeCorrect`, `CacheBehind`, `Rejections`, `Kept`, `Answers` | the invariants of both runtimes, `TokenInv` and `ProxyInv`, each inductive for its runtime (`TokenInductive`, `ProxyInductive`) and kept by a listing that starts over (`FallbackInv`). Of the token: `Chain`, the keychain is at most one generation behind, and then exactly one party has the missing one or it is lost; `WriteOf`, `HeldOf`, `LockOf`, `GrantOf`, what a thread holds under which lock. Of the child: `Counted`, the counter is ahead of every id given out, also across restarts; `Mine`, `Filed`, `IdOf`, a response is under the id of the call that asked |

For `SkillPublish`: `IngestedContent` and `LiveClaimTrue` are not inductive alone.
`IngestedContent` speaks of EVAL and later; that the ingestion is of the stored
content needs that from COMMITTED on the session's design is the stored one
(`CommittedDesign`), that a preview has a design to commit (`PreviewHasDesign`) and
that a run recorded at INGEST is of the session's design (`IngestRan`), and only an
ingestion that did not fail leads on (`IngestDone`). `LiveClaimTrue` needs that the
delta row is of the stored workflow whenever that has fields (`DeltaMatches`), and
that "live" is said at DONE only, where nothing but a new session follows
(`LiveSaidAtDone`). `LoopBounded` and `PromotionAudited` are inductive with the
types: most requests leave the loop alone (`Calm`), a classifier call is made below
both limits only, and PROMOTE is entered through the one operator that stamps the
decision.

The refinement (`LifecycleImplemented`: `Spec => ImplementsLifecycle`) maps a commit to `Draft`, an ingestion to `Fill`, a fresh session to
`Forget`, the first promotion of the rows to `Publish` and every other request to a
stutter. `PreviewHasDesign` makes the commit a `Draft` of a design,
`CommittedDesign` makes the ingested design the stored content, and `IngestDone`
makes what is promoted the content that was filled.

`SameHasNoGaps` compares sums of words over the slides of one name (`Words`, a fold over
a set), and needs that a sum is no less than one of its terms (`WordsAtLeast`), for any
number of slides. The provers cannot be given an induction theorem, whose parameter is
an operator. `Authoring_proof` therefore takes the least number for which the statement
fails (`LeastNumber`, from the library's theorem on minimal elements, which speaks of a
set): first to show that the fold obeys its recursive equation (`TotalExists`,
`TotalStep`), then that it bounds its terms (`TotalBounds`).

Each action preserves each part in a lemma of its own or in a step of one; the
theorems combine them.

Model-checked only: every liveness property (`ReachesCommit`, `EvalEnds`, `JobsEnd`,
`RequestsEnd`, `OperationsEnd`: fairness is outside the prover's reach). Every safety
property of the passing runs is also a theorem.

## 6. Not modelled

* Texts, layouts, prompts and what the language model computes: choices among the
  outcomes the code distinguishes. Ranking of passages and citations likewise.
* The legacy ADR-026 states and renaming a skill (`SkillDesign`), kept for sessions
  older than the current dialogue.
* `ArtifactStore`: a file beside the session; `SkillDesign` has "the file is gone" as
  an outcome, and no other component reads it.
* The file session store and the TTL loop: no code uses them
  (`deploy/session/factory.py` always builds the ADB store).
* Pipeline, scheduler and webhook router of the ingestion: wired to nothing.
  `close()` of the remote runtimes: called by nothing.
* Codex's own login, the vault client, the language-model client; `--since` of
  watch-bugs and the table of errors; the cards of the shipped YAML files; laptop
  mode without a store.
* Connectors, retrievers, renderers, evaluation sets, metrics, health, the cost log
  (appended to and summed), authentication (stateless), and the commands of `kb-cli`
  that run once, alone.

In `SkillPublish`, `SkillDesign` and `SessionStore` what the other components do is
one choice of outcomes; their modules (`EvalRun`, `WikiIngest`, `SkillCatalog`) open
that choice up, on their own instances. A single composition of all of them is out of
TLC's reach on instances in which anything interesting happens.

What could follow: `AuthorSession`'s two halves in one module, so that the one-action
summaries are checked and not only argued; uploads and their clean-up beside
`SessionStore`; an abstract register for session rows.

## 7. Observations

Met while modelling; each is what the code does, and the modules do the same. Those
that are not the subject of a run are listed so that nobody takes the properties to
say more than they do.

*Conversation and sessions.*

* With two requests of a session in flight one answered turn is overwritten
  (`RepliesSaved` needs `Overlapping = FALSE`), and a late save reopens a finished session.
  A client that times out during INGEST or EVAL and retries is such a case. "Sessions are durable" (PDD v3,
  line 129) holds for clients that wait.
* load "Returns None for expired sessions" (`deploy/session/_base.py:28`): only the
  load that finds the time passed does; the row is handed out the second time, since
  its status is no longer `in_progress`. DELETE does not clean up uploads,
  though `deploy/artifact_store/_base.py` says "abandoned"; on the last turn they are
  removed before the session is saved.
* `session recover` accepts DONE as a target and saves the row as in progress
  (`kb_cli.py:1756`, 1876): a row at DONE that is in progress. The next request on it is
  answered as at DONE.
* Coming back to the upload "does NOT silently clear" the binding
  (`conversation.py:1982`): where no reference is required, a text that names no file
  clears it.
* "skill is NOT live ... remains in its previous state" (6540): the rows are promoted,
  the card is missing, and routing lists the skill.
* "confirm* -> transition to target_state" (6266): the target is not saved with the
  session, so it is always REVIEW_DESIGN.
* "do NOT advance state" (5013): a filtered EVAL leaves the session at EVAL with no
  result, and `accept` then reads the missing result as passed (5904; DECISION-020:49
  asks for a passed one). `GateHolds` therefore speaks of sessions with a result.
* Blocking questions of the design lead past the skill-card turn (2540).
* Renames in the legacy review can duplicate a field and leave `schema.required` and
  the reuse plan stale (2893-2907, 3405-3407).

*Evaluation.* A judge that fails counts into the denominator it is said not to inflate
(5119-5122). A skill card without positive queries is told "Routing self-test PASSED
(0/0)".

*Catalogue.* A second session of the skill that commits between `promote()` and the read of
the delta (`conversation.py:6410-6417`) has its delta registered as the card of what the
first one promoted, though nobody promoted it; `CardsArePromoted` says that this is the
only way. `ShimWorkflows` reads the artifact of a listed skill whatever its status
has become (`shim_workflows.py:177`; line 22 speaks of committed text of promoted
skills): a skill that is written again between the listing and the read is routed by
its draft, hence `WasPromoted` in `RoutedWasPromoted`. The backfill turns
promoted skills into drafts. A deletion whose card delete fails leaves the card for
good: the next one says "not found".

*Questions.* An entry of the cache is dated after the extraction (`executor.py:941`, 1071,
278), so a page may be older than its time to live by the time that took. A refusal beside
an artifact is replaced only if one of `_REFUSAL_MARKERS` is in its first 200 characters
(`ask.py:415-461`); "(no support in retrieved context)", which the synthesizer's prompt
orders (`synthesizer.py:100`), stays. The cache is by page alone, so a skill may get what another skill's
schema extracted (`executor.py:914`, against 1013: "uses the skill's authored
schema").

*Ingestion.* The log has a page before the store has it, so a page lost in between is
skipped until it changes. `ingest_space` ends with `log.info(...)` with keyword arguments
(`confluence_wiki_ingest.py:87`), which the standard logger does not take: at level INFO,
the default of server and worker (`mcp_server.py:61`, `ingestion_worker.py:349`), every
crawl of a space raises `TypeError` after its pages were stored and counts as failed.
Two jobs at once may put an older version over a newer one.

*Pool.* "Kill any existing tunnel, start a new one": threads that reconnect together
leave tunnels nobody kills (`OneTunnel` says when not). One thread alone leaves two ssh
processes in inline mode after `kbf-start.sh`, which opens a tunnel of its own (182-189)
and kills the old server with -9 (215), so that its `atexit` handler does not run; the new
server's ssh then finds the port taken. ADR-019's "reset
reconnect_attempt = 0" is not in the code. `adb-connect.sh:91` matches the script's
own process.

*Confluence.* The cached token is refreshed per runtime while codex and other
runtimes refresh the same bundle; "multiple concurrent calls" (`emcp_runtime.py:29`)
are kept apart within one runtime only. `codex_proxy` keeps `last_thread_id` after its
child died. A `URLError` in `emcp_direct.py:357` leaves the adapter untyped, and so does a time-out
while a response is read or a body that is no JSON (`emcp_runtime.py:473-513`). Any message
of the child with an id is filed as a response, its own requests too
(`codex_proxy_runtime.py:109`).

*Operations.* A design without fields has two artifacts (`conversation.py:6637-6661`), so
every review of it reports missing types as critical (`review_engine.py:215-231`).
A confirmed report that quotes a later occurrence of a failure leaves its group as
'[BUG-candidate]' with 'User report: NO', since `watch-bugs` asks only for the first
(`kb_cli.py:1489-1511`). `export-bugs` looks for audits with the verdicts 'must-fix',
'should-fix', 'minor-issues' (`kb_cli.py:961`), which no review gives
(`review_engine.py:972-977`), so it exports none. A review of structure alone cannot
recommend `do_not_promote`: its lowest score is 40/7. A request for
a connector never reaches `export-bugs` (run `demand`).
