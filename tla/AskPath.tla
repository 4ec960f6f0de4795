------------------------------ MODULE AskPath ------------------------------
(***************************************************************************)
(* A question from routing to reply, and the workflow executor behind it.  *)
(* The ask route runs in the event loop of its worker, so one question is  *)
(* answered at a time; EVAL of authoring sessions runs the same executor   *)
(* in threads beside it.  Both share one cache of pages fetched on demand, *)
(* read skill configurations that sessions rewrite, pages of the knowledge *)
(* base that ingestion rewrites, and Confluence pages that people edit.    *)
(*                                                                         *)
(* A skill's configuration is a record: how it finds its source, the       *)
(* spaces it may read, how long a fetched page stays fresh, and whether it *)
(* answers with an artifact.  Of a page's text only its origin is kept.    *)
(***************************************************************************)
EXTENDS Naturals, FiniteSets

CONSTANTS
  Skills, Pages, Spaces,
  NoSkill, NoPage, NoConfig, NoEntry, Unknown,
  Configs,       \* what the workflow_skill artifact of a skill may say
  Initial, Disk, \* the artifact at first; the YAML file on disk
  SpaceOf,       \* space of a page, Unknown if the adapter does not say
  HasAdapter,    \* a Confluence adapter could be built
  CacheCap,      \* _EphemeralCache._MAX_SIZE
  Asker, Evals,  \* the event loop and the EVAL threads
  MaxTime, MaxChanges   \* bounds on the clock and on the surroundings

Modes == {"generic", "pinned", "param"}
ConfigShape == [mode : Modes, page : Pages \cup {NoPage}, onDemand : BOOLEAN,
                spaces : SUBSET Spaces, ttl : Nat, artifact : BOOLEAN]

ASSUME ConfigsAssumption ==
  /\ Configs \subseteq ConfigShape
  /\ Initial \in [Skills -> Configs \cup {NoConfig}]
  /\ Disk \in [Skills -> Configs \cup {NoConfig}]
  /\ SpaceOf \in [Pages -> Spaces \cup {Unknown}]
  /\ HasAdapter \in BOOLEAN /\ CacheCap \in Nat \ {0}
ASSUME NamesAssumption ==
  /\ NoSkill \notin Skills /\ NoPage \notin Pages /\ Unknown \notin Spaces
  /\ NoConfig \notin Configs /\ Asker \notin Evals

VARIABLES
  rows,     \* workflow_skill artifact of each skill
  wiki,     \* pages in the knowledge base
  live,     \* pages that can be read in Confluence
  cache,    \* _ephemeral_cache: an entry or NoEntry per page
  now,      \* the clock of the cache
  slowest,  \* history: the longest time from reading a page to storing it
  runs,     \* the question and the EVALs in progress
  changes   \* steps the surroundings have taken

world == <<rows, wiki, live, changes>>
vars == <<rows, wiki, live, cache, now, slowest, runs, changes>>

Runners == {Asker} \cup Evals
Cached == {p \in Pages : cache[p] # NoEntry}

\* "read" is when a page was read from Confluence, "age" how long ago that was
\* when the cache gave it out.
NoSource == [from |-> "nothing", page |-> NoPage, schema |-> NoSkill, read |-> 0, age |-> 0]
\* "artifact" tells what the delivered file was made from.
NoReply == [tier |-> 0, answer |-> "none", artifact |-> "none", disclosed |-> FALSE]
Idle == [pc |-> "idle", skill |-> NoSkill, page |-> NoPage, url |-> FALSE,
         cfg |-> NoConfig, got |-> NoSource, reply |-> NoReply]

Init ==
  /\ rows = Initial
  /\ wiki = {}
  /\ live = Pages
  /\ cache = [p \in Pages |-> NoEntry]
  /\ now = 0 /\ slowest = 0
  /\ runs = [r \in Runners |-> Idle]
  /\ changes = 0

To(r, pc) == runs' = [runs EXCEPT ![r].pc = pc]
At(r, pc) == runs[r].pc = pc
\* A run of EVAL is over; the question is answered with the reply.
Ends(r, reply) ==
  runs' = [runs EXCEPT ![r] =
    IF r = Asker THEN [Idle EXCEPT !.pc = "done", !.reply = reply] ELSE Idle]

\* An exception that nobody catches is answered 500.
Fails(r) == Ends(r, [NoReply EXCEPT !.answer = "error"])

----------------------------------------------------------------------------
(* ContextBuilder.answer: classify, retrieve, synthesize. *)

\* The page is named in the body or the question; a URL may tell its space.
Ask(page, url) ==
  /\ runs[Asker].pc \in {"idle", "done"}
  /\ runs' = [runs EXCEPT ![Asker] = [Idle EXCEPT !.pc = "asked", !.page = page, !.url = url]]
  /\ UNCHANGED <<world, cache, now, slowest>>

\* Text that is no JSON means tier 4; a failing call is not caught.  The tier
\* the model names is not checked: 5 stands for all that are none of the four.
Classify ==
  /\ At(Asker, "asked")
  /\ \/ \E tier \in 1..5, s \in Skills \cup {NoSkill} :
          /\ s # NoSkill => tier = 1
          /\ runs' = [runs EXCEPT ![Asker].pc = "routed", ![Asker].skill = s,
                                  ![Asker].reply.tier = tier]
     \/ Fails(Asker)
  /\ UNCHANGED <<world, cache, now, slowest>>

\* What a persona skill brings from the knowledge base: a retriever that fails
\* or is not registered brings nothing.
PersonaSkill == {"nothing"} \cup IF wiki = {} THEN {} ELSE {"passages"}

Retrieved(found) ==
  runs' = [runs EXCEPT ![Asker].pc = "retrieved", ![Asker].reply.answer = found]

\* Tiers 1 and 2 ask one persona, or ops_eng for a persona that has no skill;
\* its planning call may raise.
RetrieveOne ==
  /\ At(Asker, "routed") /\ runs[Asker].reply.tier \in {1, 2}
  /\ (\E found \in PersonaSkill : Retrieved(found)) \/ Fails(Asker)
  /\ UNCHANGED <<world, cache, now, slowest>>

\* Tier 3 asks several and skips those that fail.
FanOut ==
  /\ At(Asker, "routed") /\ runs[Asker].reply.tier = 3
  /\ \E found \in PersonaSkill : Retrieved(found)
  /\ UNCHANGED <<world, cache, now, slowest>>

\* Tier 4, and every tier that does not exist, asks nobody.
Miss ==
  /\ At(Asker, "routed") /\ runs[Asker].reply.tier \in {4, 5}
  /\ Retrieved("nothing")
  /\ UNCHANGED <<world, cache, now, slowest>>

\* Without passages the model is not asked; a content filter turns any tier to 4.
\* A refusal begins with a phrase that the ask route knows; an evasion says the
\* same in other words, later, or as the prompt has it for a section without
\* support: "(no support in retrieved context)".
Synthesize ==
  /\ At(Asker, "retrieved")
  /\ \/ runs[Asker].reply.answer = "nothing" /\ To(Asker, "answered")
     \/ /\ runs[Asker].reply.answer = "passages"
        /\ \/ \E a \in {"summary", "evasion", "refusal", "nothing"} :
                runs' = [runs EXCEPT ![Asker].pc = "answered", ![Asker].reply.answer = a]
           \/ runs' = [runs EXCEPT ![Asker].pc = "answered",
                          ![Asker].reply = [NoReply EXCEPT !.tier = 4, !.answer = "filtered"]]
           \/ Fails(Asker)
  /\ UNCHANGED <<world, cache, now, slowest>>

----------------------------------------------------------------------------
(* maybe_render_artifact: the skill's configuration and its page. *)

\* The source cannot be had: the error replaces the answer.  The citations of
\* the answer it replaces stay in the reply.
Unavailable(r) ==
  Ends(r, [runs[r].reply EXCEPT !.tier = 4, !.answer = "unavailable"])

\* A skill that is asked with a page needs one in the body or the question.
Begin(cfg) ==
  IF cfg.mode = "param" /\ runs[Asker].page = NoPage
  THEN Unavailable(Asker)
  ELSE runs' = [runs EXCEPT ![Asker].pc = cfg.mode, ![Asker].cfg = cfg]

\* The artifact of the database, else the file on disk, else no rendering.
LoadConfig ==
  LET run == runs[Asker] IN
  /\ At(Asker, "answered")
  /\ IF run.reply.tier # 1 \/ run.skill = NoSkill
     THEN Ends(Asker, run.reply)
     ELSE \E read \in {rows[run.skill], NoConfig} :
            LET cfg == IF read = NoConfig THEN Disk[run.skill] ELSE read IN
            IF cfg = NoConfig \/ (cfg # NoConfig /\ ~cfg.artifact)
            THEN Ends(Asker, run.reply)
            ELSE Begin(cfg)
  /\ UNCHANGED <<world, cache, now, slowest>>

\* EVAL runs the draft on the representative page of its session.
Evaluate(e, s, page) ==
  /\ At(e, "idle") /\ rows[s] # NoConfig
  /\ runs' = [runs EXCEPT ![e] =
       [Idle EXCEPT !.pc = rows[s].mode, !.skill = s, !.page = page, !.cfg = rows[s]]]
  /\ UNCHANGED <<world, cache, now, slowest>>

----------------------------------------------------------------------------
(* WorkflowExecutor: the three ways to a source. *)

Found(r, from, page, schema, age) ==
  runs' = [runs EXCEPT ![r].pc = "extracted", ![r].got =
    [from |-> from, page |-> page, schema |-> schema, read |-> 0, age |-> age]]

\* The files of _dev_fixtures, if one of them fits.
Fixtures == {"fixture", "nothing"}

\* Retrievers over the knowledge base, then the fixtures.
Generic(r) ==
  /\ At(r, "generic")
  /\ \/ \E p \in wiki : Found(r, "kb", p, NoSkill, 0)
     \/ \E from \in Fixtures : Found(r, from, NoPage, NoSkill, 0)
  /\ UNCHANGED <<world, cache, now, slowest>>

\* Bug: any page the retrievers return will do.
PinnedMatchesAny(r) == wiki

\* Passages of the pinned page alone, from a retriever or the wiki store.
PinnedMatches(r) == wiki \cap {runs[r].cfg.page}

\* Not in the knowledge base: on demand if the skill allows it, else nowhere.
PinnedElse(r) ==
  LET cfg == runs[r].cfg IN
  IF cfg.onDemand /\ HasAdapter
  THEN runs' = [runs EXCEPT ![r].pc = "param", ![r].page = cfg.page, ![r].url = FALSE]
  ELSE Unavailable(r)

\* A reference that cannot be resolved fails.  Both lookups may come back empty
\* because they failed.
Pinned(r) ==
  /\ At(r, "pinned")
  /\ IF runs[r].cfg.page = NoPage
     THEN Unavailable(r)
     ELSE \/ \E p \in PinnedMatches(r) : Found(r, "kb", p, NoSkill, 0)
          \/ PinnedElse(r)
  /\ UNCHANGED <<world, cache, now, slowest>>

Allowed(cfg, space) == cfg.spaces = {} \/ space \in cfg.spaces
Expired(entry, ttl) == now - entry.at > ttl
Lowest(a, b) == IF a < b THEN a ELSE b

\* Bug: only the time to live that was stored with the entry counts.
StoredTtl(entry, cfg) == entry.ttl
EffectiveTtl(entry, cfg) == Lowest(entry.ttl, cfg.ttl)

\* The trust checks that need no call, then the cache under its lock.
Lookup(r) ==
  LET run == runs[r] p == run.page entry == cache[p] IN
  /\ At(r, "param")
  /\ IF ~run.cfg.onDemand \/ ~HasAdapter
        \/ (run.url /\ ~Allowed(run.cfg, SpaceOf[p]))
     THEN Unavailable(r) /\ UNCHANGED cache
     ELSE IF entry = NoEntry
     THEN To(r, "fetch") /\ UNCHANGED cache
     ELSE IF Expired(entry, EffectiveTtl(entry, run.cfg))
     THEN To(r, "fetch") /\ cache' = [cache EXCEPT ![p] = NoEntry]
     ELSE Found(r, "demand", p, entry.schema, now - entry.read) /\ UNCHANGED cache
  /\ UNCHANGED <<world, now, slowest>>

\* One call brings the page and its space; a space that is not told is let through.
Fetch(r) ==
  LET run == runs[r] p == run.page IN
  /\ At(r, "fetch")
  /\ \/ /\ p \in live /\ (SpaceOf[p] = Unknown \/ Allowed(run.cfg, SpaceOf[p]))
        /\ runs' = [runs EXCEPT ![r].pc = "extract",
             ![r].got =
             [from |-> "demand", page |-> p, schema |-> NoSkill, read |-> now, age |-> 0]]
     \/ Unavailable(r)
  /\ UNCHANGED <<world, cache, now, slowest>>

\* The schema file of the skill's first knowledge base, if there is one.
Schemas(r) == {runs[r].skill, NoSkill}

\* The skill's schema, or the raw text when it has none or the model fails.
Extract(r) ==
  /\ At(r, "extract")
  /\ \E schema \in Schemas(r) \cup {NoSkill} :
       runs' = [runs EXCEPT ![r].pc = "store", ![r].got.schema = schema]
  /\ UNCHANGED <<world, cache, now, slowest>>

Full == Cardinality(Cached) >= CacheCap

\* _EphemeralCache.put, after the extraction: the entry is dated now, not when its
\* page was read.  A full cache loses its oldest entry, also when the page already
\* has one.
Store(r) ==
  LET run == runs[r] p == run.page
      took == now - run.got.read
      entry == [schema |-> run.got.schema, read |-> run.got.read, at |-> now,
                ttl |-> run.cfg.ttl]
      Put(c) == cache' = [c EXCEPT ![p] = entry]
  IN
  /\ At(r, "store")
  /\ IF Full
     THEN \E old \in Cached :
            /\ \A q \in Cached : cache[old].at <= cache[q].at
            /\ Put([cache EXCEPT ![old] = NoEntry])
     ELSE Put(cache)
  /\ slowest' = IF took > slowest THEN took ELSE slowest
  /\ To(r, "extracted")
  /\ UNCHANGED <<world, now>>

\* Bug: only an empty answer is replaced.
EmptyOnly(answer) == answer = "nothing"
\* The answer is empty or one of _REFUSAL_MARKERS is in its first 200 characters.
NeedsBackfill(answer) == answer \in {"nothing", "refusal"}

\* Bug: a page from the cache is not disclosed.
FetchedNow(got) == got.from = "demand" /\ got.age = 0
OnDemand(got) == got.from = "demand"

\* Extraction, rendering and delivery; when one raises, the text answer stands.
Render(r) ==
  LET got == runs[r].got reply == runs[r].reply
      answer == IF NeedsBackfill(reply.answer) THEN "generated" ELSE reply.answer
  IN
  /\ At(r, "extracted")
  /\ \/ Ends(r, [reply EXCEPT !.answer = answer, !.artifact = got.from,
                             !.disclosed = OnDemand(got)])
     \/ Ends(r, reply)
  /\ UNCHANGED <<world, cache, now, slowest>>

Execute(r) ==
  Generic(r) \/ Pinned(r) \/ Lookup(r) \/ Fetch(r) \/ Extract(r) \/ Store(r) \/ Render(r)

Answering ==
  \/ \E page \in Pages \cup {NoPage}, url \in BOOLEAN :
       (url => page # NoPage /\ SpaceOf[page] # Unknown) /\ Ask(page, url)
  \/ Classify \/ RetrieveOne \/ FanOut \/ Miss \/ Synthesize \/ LoadConfig

----------------------------------------------------------------------------
(* The surroundings, which reach into every step above. *)

Change == changes < MaxChanges /\ changes' = changes + 1

\* A session commits a design of the skill, or the skill is deleted.
Rewrite(s) ==
  /\ Change
  /\ \E cfg \in Configs \cup {NoConfig} : rows' = [rows EXCEPT ![s] = cfg]
  /\ UNCHANGED <<wiki, live, cache, now, slowest, runs>>

\* The page is removed or its site cannot be reached, or it is back.
Edit(p) ==
  /\ Change
  /\ live' = IF p \in live THEN live \ {p} ELSE live \cup {p}
  /\ UNCHANGED <<rows, wiki, cache, now, slowest, runs>>

Ingest(p) ==
  /\ Change /\ p \in live \ wiki
  /\ wiki' = wiki \cup {p}
  /\ UNCHANGED <<rows, live, cache, now, slowest, runs>>

Tick == now < MaxTime /\ now' = now + 1 /\ UNCHANGED <<world, cache, slowest, runs>>

Surroundings ==
  \/ \E s \in Skills : Rewrite(s)
  \/ \E p \in Pages : Edit(p) \/ Ingest(p)
  \/ Tick

Next ==
  \/ Answering
  \/ \E e \in Evals, s \in Skills, page \in Pages : Evaluate(e, s, page)
  \/ \E r \in Runners : Execute(r)
  \/ Surroundings

Spec == Init /\ [][Next]_vars

----------------------------------------------------------------------------
(* Properties. *)

Sourced(r) == At(r, "extracted") /\ runs[r].got.from \in {"kb", "demand"}

\* A pinned skill reads the page it is pinned to and a parameterized one the
\* page it was asked for, whichever way the page was found and whatever the
\* knowledge base and the cache hold (executor.py: no wrong-page substitution).
OnePage ==
  \A r \in Runners : Sourced(r) =>
    /\ runs[r].cfg.mode = "pinned" => runs[r].got.page = runs[r].cfg.page
    /\ runs[r].cfg.mode = "param" => runs[r].got.page = runs[r].page

\* A page from the cache is older than the time to live of the skill that uses it
\* by no more than an extraction has taken: the entry is dated after the extraction
\* of whoever stored it, perhaps for a skill with a longer time to live, and is
\* never dated again (executor.py, _EphemeralCache).
FreshEnough ==
  \A r \in Runners : Sourced(r) /\ runs[r].got.from = "demand" =>
    runs[r].got.age <= runs[r].cfg.ttl + slowest

\* An artifact comes with tier 1 and replaces an empty answer and a refusal that
\* the ask route recognises; one whose source is missing leaves neither an
\* artifact nor the answer of the knowledge base (ask.py, BUG-016 and BUG-017).
\* A refusal in other words stays beside the artifact.
Backfilled ==
  LET reply == runs[Asker].reply IN
  At(Asker, "done") =>
    /\ reply.artifact # "none" =>
         reply.tier = 1 /\ reply.answer \in {"summary", "evasion", "generated"}
    /\ reply.answer = "unavailable" => reply.tier = 4 /\ reply.artifact = "none"

\* The reader is told of every page that was not in the knowledge base, also
\* when the cache served it.
Disclosed ==
  LET reply == runs[Asker].reply IN
  At(Asker, "done") /\ reply.artifact # "none" =>
    (reply.disclosed <=> reply.artifact = "demand")
=============================================================================
