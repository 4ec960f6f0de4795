------------------------------ MODULE EvalRun ------------------------------
(***************************************************************************)
(* One session in the loop of commit, EVAL and acceptance: _run_eval step  *)
(* by step, a call to the database, the model or the executor at a time,   *)
(* and the gate its result is read by.  A run works on the row of the      *)
(* session as it was loaded and saves it when it answers; an exception or  *)
(* a restart leaves the row as it was, and only what the run had written   *)
(* to the skill store stays.  Another session may commit the same skill.   *)
(*                                                                         *)
(* A design is a record: how its source is found and the queries of its    *)
(* skill card.  Of an artifact only its sections are kept, a section being *)
(* a title and its number of words; titles with one canonical name are     *)
(* synonyms.                                                               *)
(***************************************************************************)
EXTENDS Naturals, FiniteSets, Sequences, FiniteSetsExt

CONSTANTS
  Drafts,           \* designs a session may commit
  NoDraft,
  FieldCount,       \* fields of the extraction schema
  PageCounts,       \* pages that the configured sources may bring
  Reference,        \* sections of the bound reference; Unbound if there is none
  Outputs,          \* section lists the executor may produce
  Unbound,
  Canon,            \* canonical name of a title
  Threshold,        \* recall and faithfulness asked for, in percent
  MaxCommits        \* bound on commits, the rival session's included

DesignShape ==
  [id : Nat, parameterized : BOOLEAN, named : BOOLEAN, positive : Nat, negative : Nat]

ASSUME DraftsAssumption ==
  /\ Drafts \subseteq DesignShape /\ NoDraft \notin Drafts
  /\ FieldCount \in Nat \ {0} /\ PageCounts \subseteq Nat /\ 0 \in PageCounts
  /\ Threshold \in 1..100

ASSUME ReferenceAssumption ==
  Reference # Unbound => Reference \in Seq([title : DOMAIN Canon, words : Nat])

VARIABLES
  rows,      \* the skill in the store: its design, and whose gold rows it has
  session,   \* the saved row of the session
  run,       \* the EVAL in progress
  rival,     \* somebody else has written the skill
  commits    \* commits so far

evalVars == <<rows, session, run, rival, commits>>
others == <<rival, commits>>

NoResult == [design |-> NoDraft]
NoScores == [hits |-> 0, expected |-> 0, faithful |-> 0, judged |-> 0]
NoRun == [pc |-> "none"]
Running == run.pc # "none"

EvalInit ==
  /\ rows = [design |-> NoDraft, gold |-> NoDraft]
  /\ session = [state |-> "DESIGN", design |-> NoDraft, cached |-> 0, result |-> NoResult,
                by |-> "nobody"]
  /\ run = NoRun
  /\ rival = FALSE
  /\ commits = 0

To(pc) == run' = [run EXCEPT !.pc = pc]
At(pc) == run.pc = pc

\* An exception that the run does not catch is answered 500; nothing is saved.
Raise == run' = NoRun

----------------------------------------------------------------------------
(* ArtifactComparator. *)

\* Bug: a later slide of the same name replaces the earlier one.
LastWords(sections, name) ==
  sections[Max({i \in DOMAIN sections : Canon[sections[i].title] = name})].words

\* prod_lookup: synonymous sections count together.
Words(sections, name) ==
  MapThenSumSet(LAMBDA i : sections[i].words,
                {i \in DOMAIN sections : Canon[sections[i].title] = name})

Names(sections) == {Canon[sections[i].title] : i \in DOMAIN sections}

Missing(ref, prod) == {i \in DOMAIN ref : Canon[ref[i].title] \notin Names(prod)}

\* Less than half the words of the reference.
Thin(ref, prod) ==
  {i \in DOMAIN ref \ Missing(ref, prod) :
     2 * Words(prod, Canon[ref[i].title]) < ref[i].words}

\* "none" stands for a comparator that was skipped or raised: without bytes of
\* both artifacts, or for a reference without sections.
Compare(ref, prod) ==
  IF ref = <<>> THEN [ran |-> FALSE]
  ELSE [ran |-> TRUE, missing |-> Missing(ref, prod), thin |-> Thin(ref, prod)]

----------------------------------------------------------------------------
(* _run_eval: samples, extraction, judge. *)

\* From the answer to INGEST.  Without samples of INSPECT_SOURCES the pages of
\* the sources are fetched again; a page that fails, or no page at all, raises.
Enter ==
  /\ ~Running /\ session.state = "INGEST"
  /\ \/ /\ \E n \in IF session.cached > 0 THEN {session.cached} ELSE PageCounts \ {0} :
             run' = [pc |-> "schema", left |-> IF n < 3 THEN n ELSE 3, pages |-> n,
                     schema |-> NoDraft, scores |-> NoScores, tojudge |-> 0,
                     positive |-> 0, negative |-> 0, failed |-> 0, verdict |-> TRUE,
                     config |-> NoDraft, status |-> "not_run", produced |-> Unbound,
                     passed |-> FALSE, compared |-> [ran |-> FALSE]]
     \/ session.cached = 0 /\ Raise
  /\ UNCHANGED <<rows, session, others>>

\* The committed schema, or the session's own fields when the read fails.
SchemaRead == {rows.design, session.design}

ReadSchema ==
  /\ At("schema")
  /\ \E d \in SchemaRead : run' = [run EXCEPT !.pc = "extract", !.schema = d]
  /\ UNCHANGED <<rows, session, others>>

\* Bug: an extraction that fails is tried again from the schema on.
ExtractRetries ==
  /\ At("extract") /\ run.left > 0
  /\ \/ \E hits \in 0..FieldCount :
          run' = [run EXCEPT !.left = @ - 1, !.tojudge = @ + hits,
                    !.scores.hits = @ + hits, !.scores.expected = @ + FieldCount]
     \/ To("schema")
  /\ UNCHANGED <<rows, session, others>>

\* A gold row: every field is expected, those with a value are hits and go to
\* the judge.  A source the provider rejects ends the run with a turn at EVAL
\* that saves the new state beside the old result; other failures raise.
Extract ==
  /\ At("extract") /\ run.left > 0
  /\ \/ /\ \E hits \in 0..FieldCount :
             run' = [run EXCEPT !.left = @ - 1, !.tojudge = @ + hits,
                       !.scores.hits = @ + hits, !.scores.expected = @ + FieldCount]
        /\ UNCHANGED session
     \/ /\ session' = [session EXCEPT !.state = "EVAL", !.cached = run.pages]
        /\ run' = NoRun
     \/ Raise /\ UNCHANGED session
  /\ UNCHANGED <<rows, others>>

\* One judgment less to make, with so much counted.
Counted(faithful, judged) ==
  [run EXCEPT !.tojudge = @ - 1, !.scores.faithful = @ + faithful, !.scores.judged = @ + judged]

\* Bug: a judgment that failed counts as faithful and not in the denominator.
JudgedFree(verdict) ==
  CASE verdict = "faithful"   -> Counted(1, 1)
    [] verdict = "unfaithful" -> Counted(0, 1)
    [] verdict = "failed"     -> Counted(1, 0)

\* A judgment that fails counts as faithful, and twice in the denominator.
Judged(verdict) ==
  CASE verdict = "faithful"   -> Counted(1, 1)
    [] verdict = "unfaithful" -> Counted(0, 1)
    [] verdict = "failed"     -> Counted(1, 2)

Judge ==
  /\ At("extract") /\ run.left = 0 /\ run.tojudge > 0
  /\ \E verdict \in {"faithful", "unfaithful", "failed"} : run' = Judged(verdict)
  /\ UNCHANGED <<rows, session, others>>

----------------------------------------------------------------------------
(* Path B, the routing self-test, and Path A, the execution. *)

\* Without positive queries, or when the classifier cannot be built, no query is
\* asked and the self-test passes.
StartRouting ==
  /\ At("extract") /\ run.left = 0 /\ run.tojudge = 0
  /\ \/ /\ session.design.positive > 0
        /\ run' = [run EXCEPT !.pc = "routing", !.positive = session.design.positive,
                     !.negative = session.design.negative]
     \/ To("config")
  /\ UNCHANGED <<rows, session, others>>

\* Bug: the verdict of the last query is the verdict of the test.
LastAssertion(ok) == ok
Assertion(ok) == run.verdict /\ ok

\* A query goes to the skill at tier 1 or not; a positive one should, a negative
\* one should not.  A classifier that raises ends the run.
Route(kind) ==
  /\ At("routing") /\ run[kind] > 0
  /\ kind = "negative" => run.positive = 0
  /\ \/ \E here \in BOOLEAN :
          run' = [run EXCEPT ![kind] = @ - 1, !.verdict = Assertion(here = (kind = "positive")),
                    !.failed = IF here = (kind = "positive") THEN @ ELSE @ + 1]
     \/ Raise
  /\ UNCHANGED <<rows, session, others>>

RoutingDone ==
  /\ At("routing") /\ run.positive = 0 /\ run.negative = 0
  /\ To("config")
  /\ UNCHANGED <<rows, session, others>>

\* The workflow_skill artifact as it is in the store now; none, or a failed
\* read, is a failed execution.  A parameterized skill gets the page of the
\* samples under its parameter's name, and raises when it has no such name.
ReadConfig ==
  /\ At("config")
  /\ \/ /\ rows.design # NoDraft
        /\ IF rows.design.parameterized /\ ~rows.design.named
           THEN Raise
           ELSE run' = [run EXCEPT !.pc = "execute", !.config = rows.design]
     \/ run' = [run EXCEPT !.pc = "gold", !.status = "failure"]
  /\ UNCHANGED <<rows, session, others>>

\* The executor delivers a file this process can read, or one it cannot, or fails.
Execute ==
  /\ At("execute")
  /\ \/ \E made \in Outputs \cup {Unbound} :
          run' = [run EXCEPT !.pc = "gold", !.status = "success", !.produced = made]
     \/ run' = [run EXCEPT !.pc = "gold", !.status = "failure"]
  /\ UNCHANGED <<rows, session, others>>

----------------------------------------------------------------------------
(* Gold rows, criteria, comparison, result. *)

GoldRows == [rows EXCEPT !.gold = session.design]

\* A write that fails is logged.
WriteGold ==
  /\ At("gold")
  /\ rows' \in {GoldRows, rows}
  /\ To("criteria")
  /\ UNCHANGED <<session, others>>

Reaches(part, whole) == 100 * part >= Threshold * Max({whole, 1})

\* Diagnostic only: nothing is gated on it.
Criteria ==
  /\ At("criteria")
  /\ run' = [run EXCEPT !.pc = "compare",
               !.passed = /\ Reaches(run.scores.hits, run.scores.expected)
                          /\ Reaches(run.scores.faithful, run.scores.judged)]
  /\ UNCHANGED <<rows, session, others>>

\* The reference may be unreadable or the comparison may raise.
CompareStep ==
  /\ At("compare")
  /\ \/ /\ Reference # Unbound /\ run.produced # Unbound
        /\ run' = [run EXCEPT !.pc = "result", !.compared = Compare(Reference, run.produced)]
     \/ To("result")
  /\ UNCHANGED <<rows, session, others>>

\* eval_result, of which the later turns read these, and the turn that shows it.
Answer ==
  /\ At("result")
  /\ session' = [session EXCEPT !.state = "EVAL", !.cached = run.pages,
       !.result = [design |-> session.design, status |-> run.status, failed |-> run.failed,
                   verdict |-> run.verdict]]
  /\ run' = NoRun
  /\ UNCHANGED <<rows, others>>

EvalStep ==
  \/ ReadSchema \/ Extract \/ Judge \/ StartRouting
  \/ \E kind \in {"positive", "negative"} : Route(kind)
  \/ RoutingDone \/ ReadConfig \/ Execute \/ WriteGold \/ Criteria \/ CompareStep \/ Answer

\* The process dies.
Restart == Running /\ Raise /\ UNCHANGED <<rows, session, others>>

----------------------------------------------------------------------------
(* _handle_eval_response, and the way back to another commit. *)

HasResult == session.result # NoResult

\* path_b_ran looks at the queries of the card, not at whether they were asked.
TestRan == HasResult /\ session.result.design.positive + session.result.design.negative > 0

Promote(by) ==
  /\ session' = [session EXCEPT !.state = "PROMOTE", !.by = by]
  /\ UNCHANGED <<rows, run, others>>

Accept ==
  /\ ~Running /\ session.state = "EVAL"
  /\ ~(TestRan /\ ~session.result.verdict)
  /\ Promote("accept")

ForcePromote ==
  /\ ~Running /\ session.state = "EVAL"
  /\ Promote("force")

\* Rejected, or another source chosen: the session designs and commits again.
\* The result of the last run stays.
Redesign ==
  /\ ~Running /\ session.state = "EVAL"
  /\ session' = [session EXCEPT !.state = "DESIGN"]
  /\ UNCHANGED <<rows, run, others>>

\* COMMIT, VALIDATE and a successful INGEST of the design.  The samples of
\* INSPECT_SOURCES are there unless the session predates them.
Commit(d) ==
  /\ ~Running /\ session.state = "DESIGN" /\ commits < MaxCommits
  /\ \E n \in PageCounts :
       session' = [session EXCEPT !.state = "INGEST", !.design = d,
                     !.cached = IF @ > 0 THEN @ ELSE n]
  /\ rows' = [rows EXCEPT !.design = d]
  /\ commits' = commits + 1
  /\ UNCHANGED <<run, rival>>

\* Another session commits the skill, or deletes it.
Rival(d) ==
  /\ commits < MaxCommits
  /\ rows' = [rows EXCEPT !.design = d]
  /\ commits' = commits + 1 /\ rival' = TRUE
  /\ UNCHANGED <<session, run>>

EvalNext ==
  \/ Enter \/ EvalStep \/ Restart
  \/ Accept \/ ForcePromote \/ Redesign
  \/ \E d \in Drafts : Commit(d)
  \/ \E d \in Drafts \cup {NoDraft} : Rival(d)

\* The steps of a run are one thread of the server; every call it makes returns
\* or raises.
EvalSpec == EvalInit /\ [][EvalNext]_evalVars /\ WF_evalVars(EvalStep)

----------------------------------------------------------------------------
(* Properties. *)

\* No acceptance takes a session to PROMOTE whose last self-test had a failed
\* assertion, whichever query failed and whatever came after it (ADR-038 F).
GateHolds ==
  session.state = "PROMOTE" /\ session.by = "accept" /\ HasResult =>
    session.result.failed = 0

\* The scores are ratios at most 1, and criteria are not met by a run that found
\* nothing, whatever the judge did.
ScoresSound ==
  At("compare") =>
    LET scores == run.scores IN
    /\ scores.hits <= scores.expected /\ scores.faithful <= scores.judged
    /\ run.passed => scores.hits > 0 /\ scores.faithful > 0

\* An artifact with the sections of the reference has no gaps, also when several
\* slides share a name.
SameHasNoGaps ==
  At("result") /\ run.compared.ran /\ run.produced = Reference =>
    run.compared.missing = {} /\ run.compared.thin = {}

\* Every run comes to an answer or an error, also when every judgment fails.
EvalEnds == Running ~> ~Running
=============================================================================
