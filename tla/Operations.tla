---------------------------- MODULE Operations ----------------------------
(***************************************************************************)
(* What operators see of a running server: failed tool calls and the bugs  *)
(* that clients and reviews file about them, kept twice (a JSON-lines file *)
(* and a table), the quality review of an authoring session, and the two   *)
(* commands that read the records back, watch-bugs and export-bugs.        *)
(*                                                                         *)
(* The server runs as several worker processes, so calls interleave        *)
(* although each handler runs to its end in its process.  Every write is   *)
(* allowed to fail: the stores log the failure and go on.                  *)
(***************************************************************************)
EXTENDS Naturals, FiniteSets, Sequences, SequencesExt

CONSTANTS
  Calls,        \* tool calls that fail
  Reports,      \* calls of reportBug
  Demands,      \* connectors that an author asks for and that do not exist
  Reviews,      \* calls of reviewSkillSession
  NoCall,
  ErrorKinds,   \* (type, first 80 characters of the message)
  Flaws,        \* what the checks find in an artifact: see Findings
  CritiqueBugs, \* numbers of bugs that the model may find
  ReadOrder,    \* the order in which Python enumerates the artifact types
  MaxCalls,     \* bound on the calls of one behaviour
  MaxWrites,    \* bound on commits and deletions of the skill
  MaxCommands   \* bound on the commands of the operator

ArtifactTypes == {"workflow_skill", "persona_builder_delta", "eval_extraction",
                  "eval_workflow", "extraction_schema"}

\* What a design without fields leads to.
Fieldless == {"workflow_skill", "eval_workflow"}

Callers == Calls \cup Reports \cup Demands \cup Reviews

ASSUME CallersAssumption ==
  /\ IsFiniteSet(Callers)
  /\ Calls \cap (Reports \cup Demands \cup Reviews) = {}
  /\ Reports \cap (Demands \cup Reviews) = {} /\ Demands \cap Reviews = {}
  /\ NoCall \notin Calls \cup Reviews
ASSUME FlawsAssumption == Flaws \subseteq [gold : Nat, name : Nat, refs : Nat, scope : Nat]
ASSUME OrderAssumption ==
  ReadOrder \in Seq(ArtifactTypes) /\ Len(ReadOrder) = 5 /\ ToSet(ReadOrder) = ArtifactTypes
ASSUME LimitsAssumption == CritiqueBugs \subseteq Nat /\ {MaxCalls, MaxWrites, MaxCommands} \subseteq Nat

VARIABLES
  pc,        \* of each call
  answered,  \* request ids that clients were given
  errors,    \* errors.jsonl
  quoted,    \* requestId of each report
  bugfile,   \* user_bugs.jsonl
  bugtab,    \* KBF_BUG_REPORTS
  failed,    \* history: <<record, "line" or "row">> that could not be written
  stored,    \* the types of the skill's artifacts in the skill store
  writes,
  review,
  audits,    \* KBF_AUDIT_RUNS
  commands,  \* how many the operator has given
  watch,     \* the operator's last watch-bugs
  export     \* the operator's last export-bugs

opsVars == <<pc, answered, errors, quoted, bugfile, bugtab, failed, stored, writes,
             review, audits, commands, watch, export>>
store == <<bugfile, bugtab, failed>>
operator == <<commands, watch, export>>
skill == <<stored, writes>>

Bug(p) == [by |-> p, no |-> IF p \in Reviews THEN review[p].filed ELSE 0]
BugsOf(p, bugs) == {b \in bugs : b.by = p}
\* lacked is history: the types that were not stored at some moment of the reading.
NewReview == [read |-> 0, held |-> {}, lacked |-> {}, bugs |-> 0, filed |-> 0,
              missing |-> {}, verdict |-> "none"]
NoWatch == [pc |-> "away", errors |-> <<>>, fresh |-> {}, before |-> {}]
NoExport == [pc |-> "away", bugs |-> {}, audits |-> {}, files |-> {}, before |-> {},
             read |-> FALSE]

OpsInit ==
  /\ pc = [p \in Callers |-> "new"]
  /\ answered = {} /\ errors = <<>> /\ quoted = [r \in Reports |-> NoCall]
  /\ bugfile = {} /\ bugtab = {} /\ failed = {}
  /\ stored \in {{}, Fieldless, ArtifactTypes} /\ writes = 0
  /\ review = [v \in Reviews |-> NewReview]
  /\ audits = {}
  /\ commands = 0 /\ watch = NoWatch /\ export = NoExport

At(p, at) == pc[p] = at
Starts(p) == At(p, "new") /\ Cardinality({o \in Callers : ~At(o, "new")}) < MaxCalls
To(p, to) == pc' = [pc EXCEPT ![p] = to]

----------------------------------------------------------------------------
(* A failing tools/call. *)

\* A tool that is not registered: the answer has a request id but nothing is recorded.
UnknownTool(c) ==
  /\ Starts(c) /\ To(c, "done")
  /\ answered' = answered \cup {c}
  /\ UNCHANGED <<errors, quoted, store, skill, review, audits, operator>>

\* The handler raised; the record may not be written.
Raises(p) ==
  /\ To(p, "done")
  /\ errors' \in {errors} \cup {Append(errors, [call |-> p, kind |-> k]) : k \in ErrorKinds}
  /\ answered' = answered \cup {p}

HandlerRaises(c) ==
  /\ Starts(c) /\ Raises(c)
  /\ UNCHANGED <<quoted, store, skill, review, audits, operator>>

----------------------------------------------------------------------------
(* record_user_bug: the line, then the row.  A connector request is recorded by the
   conversation, whose skill store has no error store: it makes one without a
   database. *)

HasTable(p) == p \notin Demands

\* Bug: the row is written, and may be confirmed, without the line.
WriteLineNever(p) == UNCHANGED <<bugfile, failed>>

WriteLine(p) ==
  \/ bugfile' = bugfile \cup {Bug(p)} /\ UNCHANGED failed
  \/ failed' = failed \cup {<<Bug(p), "line">>} /\ UNCHANGED bugfile

AppendLine(p) ==
  /\ At(p, "file") /\ To(p, "row")
  /\ WriteLine(p)
  /\ UNCHANGED <<answered, errors, quoted, bugtab, skill, review, audits, operator>>

WriteRow(p) ==
  \/ HasTable(p) /\ bugtab' = bugtab \cup {Bug(p)} /\ UNCHANGED failed
  \/ HasTable(p) /\ failed' = failed \cup {<<Bug(p), "row">>} /\ UNCHANGED bugtab
  \/ ~HasTable(p) /\ UNCHANGED <<bugtab, failed>>

\* Bug: the audit is stored inside the loop over the bugs.
AfterRowInLoop(p) == IF p \in Reviews THEN "audit" ELSE "done"

AfterRow(p) ==
  IF p \in Reviews /\ review[p].filed + 1 < review[p].bugs THEN "file"
  ELSE IF p \in Reviews THEN "audit" ELSE "done"

\* The review counts the bugs that it files, stored or not.
InsertRow(p) ==
  /\ At(p, "row") /\ To(p, AfterRow(p))
  /\ WriteRow(p)
  /\ review' = IF p \in Reviews THEN [review EXCEPT ![p].filed = @ + 1] ELSE review
  /\ UNCHANGED <<answered, errors, quoted, bugfile, skill, audits, operator>>

\* reportBug by a client that was given the request id.  It is confirmed, at "done",
\* whatever became of the record.
Report(r) ==
  /\ Starts(r) /\ To(r, "file")
  /\ \E c \in answered : quoted' = [quoted EXCEPT ![r] = c]
  /\ UNCHANGED <<answered, errors, store, skill, review, audits, operator>>

\* The hard stop on an unknown connector.
AskConnector(q) ==
  /\ Starts(q) /\ To(q, "file")
  /\ UNCHANGED <<answered, errors, quoted, store, skill, review, audits, operator>>

----------------------------------------------------------------------------
(* The skill under review: its artifacts are written and removed together.  A
   commit of a design without fields leaves what an earlier one has written. *)

\* Bug: the old rows are removed in a transaction of their own.
CommitSkillReplacing ==
  /\ writes < MaxWrites /\ writes' = writes + 1
  /\ \/ stored # {} /\ stored' = {}
     \/ stored = {} /\ stored' = ArtifactTypes
  /\ UNCHANGED <<pc, answered, errors, quoted, store, review, audits, operator>>

CommitSkill ==
  /\ writes < MaxWrites /\ writes' = writes + 1
  /\ \E types \in {Fieldless, ArtifactTypes} : stored' = stored \cup types
  /\ UNCHANGED <<pc, answered, errors, quoted, store, review, audits, operator>>

DeleteSkill ==
  /\ writes < MaxWrites /\ writes' = writes + 1
  /\ stored # {} /\ stored' = {}
  /\ review' = [v \in Reviews |->
       IF At(v, "load") THEN [review[v] EXCEPT !.lacked = ArtifactTypes] ELSE review[v]]
  /\ UNCHANGED <<pc, answered, errors, quoted, store, audits, operator>>

----------------------------------------------------------------------------
(* reviewSkillSession. *)

\* The session is looked up as the operations user, then by its id alone.
LoadSession(v) ==
  /\ Starts(v)
  /\ \/ To(v, "load") /\ review' = [review EXCEPT ![v].lacked = ArtifactTypes \ stored]
     \/ To(v, "done") /\ UNCHANGED review   \* not found, or no scope or model
  /\ UNCHANGED <<answered, errors, quoted, store, skill, audits, operator>>

\* The artifacts are read one type after the other, in the order of a set.
LoadArtifact(v) ==
  /\ At(v, "load") /\ review[v].read < Len(ReadOrder) /\ UNCHANGED pc
  /\ review' = [review EXCEPT ![v].read = @ + 1,
                              ![v].held = @ \cup ({ReadOrder[review[v].read + 1]} \cap stored)]
  /\ UNCHANGED <<answered, errors, quoted, store, skill, audits, operator>>

\* The session or an artifact cannot be read: the call fails like any other.
LoadFails(v) ==
  /\ Starts(v) \/ At(v, "load")
  /\ Raises(v)
  /\ review' = [review EXCEPT ![v] = NewReview]
  /\ UNCHANGED <<quoted, store, skill, audits, operator>>

\* The structural checks, each over what it can read of the artifacts.
MissingArtifacts(held) == IF held = ArtifactTypes THEN 0 ELSE 1
NullGold(held, flaws) == IF "eval_extraction" \in held THEN flaws.gold ELSE 0
NameMismatch(held, flaws) == IF "workflow_skill" \in held THEN flaws.name ELSE 0
DanglingKbs(held, flaws) ==
  IF {"workflow_skill", "persona_builder_delta"} \subseteq held THEN flaws.refs ELSE 0
ForeignFields(held, flaws) ==
  IF {"workflow_skill", "eval_workflow"} \subseteq held THEN flaws.scope ELSE 0

\* Findings of each structural dimension; schemaCompleteness never has any.
Findings(held, flaws) ==
  [artifactConsistency |-> MissingArtifacts(held) + NameMismatch(held, flaws),
   evalQuality |-> NullGold(held, flaws) + ForeignFields(held, flaws),
   kbWiring |-> DanglingKbs(held, flaws)]

Structural(f) == f.artifactConsistency + f.evalQuality + f.kbWiring
DimensionScore(findings) == IF findings > 5 THEN 0 ELSE 10 - 2 * findings

\* Seven dimensions, four of which the structural checks leave at 10.
StructuralSum(f) ==
  40 + DimensionScore(f.artifactConsistency) + DimensionScore(f.evalQuality)
     + DimensionScore(f.kbWiring)

Recommendation(sum, count) ==
  CASE sum >= 8 * count -> "promote"
    [] sum >= 5 * count /\ sum < 8 * count -> "promote_with_fixes"
    [] OTHER -> "do_not_promote"

Reviewed(v, bugs, verdict) ==
  /\ LET missing == ArtifactTypes \ review[v].held
     IN  review' = [review EXCEPT ![v] = [NewReview EXCEPT !.bugs = bugs, !.verdict = verdict,
                      !.missing = missing, !.lacked = missing \cap review[v].lacked]]
  /\ \/ To(v, IF bugs > 0 THEN "file" ELSE "audit")
     \/ To(v, "audit")                                \* fileBugs is false
  /\ UNCHANGED <<answered, errors, quoted, store, skill, audits, operator>>

\* Without the critique of the model, or when it fails: then with one bug more.
ReviewStructurally(v) ==
  /\ At(v, "load") /\ review[v].read = Len(ReadOrder)
  /\ \E flaws \in Flaws, more \in {0, 1} :
       LET f == Findings(review[v].held, flaws)
       IN  Reviewed(v, Structural(f) + more, Recommendation(StructuralSum(f), 7))

\* The score is the model's alone; its bugs are added to those of the checks.
ReviewByModel(v) ==
  /\ At(v, "load") /\ review[v].read = Len(ReadOrder)
  /\ \E flaws \in Flaws, more \in CritiqueBugs, score \in {0, 5, 8} :
       LET f == Findings(review[v].held, flaws)
       IN  Reviewed(v, Structural(f) + more, Recommendation(score, 1))

\* _persist_audit_run: a failure is only logged.
PersistAudit(v) ==
  /\ At(v, "audit") /\ To(v, "done")
  /\ audits' \in {audits, audits \cup {[by |-> v, verdict |-> review[v].verdict,
                                         filed |-> review[v].filed]}}
  /\ review' = [review EXCEPT ![v].verdict = "none", ![v].missing = {}, ![v].lacked = {}]
  /\ UNCHANGED <<answered, errors, quoted, store, skill, operator>>

----------------------------------------------------------------------------
(* kb-cli watch-bugs reads the two files, one after the other. *)

Confirmed == {r \in Reports : At(r, "done")}

Command == commands < MaxCommands /\ commands' = commands + 1

WatchErrors ==
  /\ Command /\ watch.pc # "errors"
  /\ watch' = [NoWatch EXCEPT !.pc = "errors", !.errors = errors, !.before = Confirmed]
  /\ UNCHANGED <<pc, answered, errors, quoted, store, skill, review, audits, export>>

\* Equal errors are one group, shown by the first of them.
Representatives(log) ==
  {log[i].call : i \in {j \in DOMAIN log : \A k \in 1..(j - 1) : log[k].kind # log[j].kind}}

Filed(bugs) == {quoted[r] : r \in {s \in Reports : BugsOf(s, bugs) # {}}}

WatchBugs ==
  /\ watch.pc = "errors"
  /\ watch' = [watch EXCEPT !.pc = "shown", !.errors = <<>>,
                            !.fresh = Representatives(watch.errors) \ Filed(bugfile)]
  /\ UNCHANGED <<pc, answered, errors, quoted, store, skill, review, audits, commands, export>>

----------------------------------------------------------------------------
(* kb-cli export-bugs --kind all. *)

\* A read that fails leaves an empty list.
FetchBugs ==
  /\ Command /\ export.pc # "bugs"
  /\ \E ok \in BOOLEAN :
       export' = [export EXCEPT !.pc = "bugs", !.read = ok,
                    !.bugs = IF ok THEN bugtab ELSE {},
                    !.before = {p \in Callers : At(p, "done")}]
  /\ UNCHANGED <<pc, answered, errors, quoted, store, skill, review, audits, watch>>

\* The recommendations that are asked for; no review makes one of them.
ExportedVerdicts == {"must-fix", "should-fix", "minor-issues"}
FailingAudits == {a \in audits : a.verdict \in ExportedVerdicts}

\* record_kind is absent from the rows of ordinary bugs.
Kind(b) == IF b.by \in Demands THEN "connector_request" ELSE "none"
OrdinaryBugs(bugs) == {b \in bugs : Kind(b) # "connector_request"}

ConnectorRequests(bugs) == {b \in bugs : Kind(b) = "connector_request"}

\* One file for each record, over the files of earlier exports.
WriteFiles ==
  /\ export.pc = "bugs"
  /\ \E found \in {{}, FailingAudits} :
       export' = [export EXCEPT !.pc = "written", !.bugs = {}, !.audits = @ \cup found,
                    !.files = @ \cup OrdinaryBugs(export.bugs)
                                \cup ConnectorRequests(export.bugs)]
  /\ UNCHANGED <<pc, answered, errors, quoted, store, skill, review, audits, commands, watch>>

----------------------------------------------------------------------------

CallStep(c) == UnknownTool(c) \/ HandlerRaises(c)
RecordStep(p) == AppendLine(p) \/ InsertRow(p)
ReviewStep(v) ==
  \/ LoadSession(v) \/ LoadArtifact(v) \/ LoadFails(v)
  \/ ReviewStructurally(v) \/ ReviewByModel(v) \/ PersistAudit(v)
OperatorStep == WatchErrors \/ WatchBugs \/ FetchBugs \/ WriteFiles

OpsNext ==
  \/ \E c \in Calls : CallStep(c)
  \/ \E p \in Callers : RecordStep(p)
  \/ \E r \in Reports : Report(r)
  \/ \E q \in Demands : AskConnector(q)
  \/ \E v \in Reviews : ReviewStep(v)
  \/ CommitSkill \/ DeleteSkill
  \/ OperatorStep

OpsSpec == OpsInit /\ [][OpsNext]_opsVars

----------------------------------------------------------------------------
(* Properties. *)

\* An audit accounts for the bugs of its review: it is stored after all of them were
\* recorded (or none was to be), each has its line or a line that failed, and no bug
\* of the review follows (mcp_tools.reviewSkillSession).
AuditAfterBugs ==
  \A a \in audits :
    LET lines == BugsOf(a.by, bugfile) \cup {b \in BugsOf(a.by, {f[1] : f \in failed}) :
                                               <<b, "line">> \in failed}
    IN  /\ a.filed \in {0, review[a.by].bugs}
        /\ Cardinality(lines) = a.filed
        /\ BugsOf(a.by, bugtab) \subseteq lines

\* An artifact that a review reports missing, which is critical, was not in the store at
\* some moment of the reading: not committed yet, deleted, or of a design without fields,
\* for which three types are never written.  The artifacts are read one by one while
\* authors commit over them, and no commit makes one seem to be missing
\* (session_loader._load_skill_artifacts).
CriticalTrue == \A v \in Reviews : review[v].missing \subseteq review[v].lacked

\* A client's confirmed report reaches who watches if it quotes the first occurrence of
\* its failure: a group that watch-bugs shows as a new candidate has no such report from
\* before, unless the line of the report could not be written.  Nothing is said of a
\* report that quotes a later occurrence: watch-bugs looks for none (cmd_watch_bugs,
\* reportBug).
FirstReportSeen ==
  watch.pc = "shown" =>
    \A r \in watch.before : quoted[r] \in watch.fresh => <<Bug(r), "line">> \in failed

\* export-bugs, when it can read, has every demand record that was kept before it
\* began, except the rows that could not be written (cmd_export_bugs).
RecordsExported ==
  export.pc = "written" /\ export.read =>
    \A q \in Demands \cap export.before : <<Bug(q), "row">> \notin failed => Bug(q) \in export.files

============================================================================
