---------------------------- MODULE SkillCatalog ---------------------------
(***************************************************************************)
(* The catalogue of skills as the worker processes share it: the artifact  *)
(* rows and the production KB cards in the database, and in every worker   *)
(* the two routing tables built from them (ShimWorkflows, ShimKb).         *)
(* Sessions commit and promote skills, any number of them the same skill   *)
(* at once, deleteSkill removes them, a worker                             *)
(* reloads its tables after the last turn of a REST session, after a       *)
(* deletion (ShimKb only) and when it starts.  The steps of one task are   *)
(* separate database calls, so tasks interleave between any two of them.   *)
(*                                                                         *)
(* A skill's content is the number of its commit, 0 for none.  The cards   *)
(* of the YAML files that ship with the code are the same in every table   *)
(* and are left out.                                                       *)
(***************************************************************************)
EXTENDS Naturals

CONSTANTS
  Skills,
  Workers,      \* uvicorn worker processes
  Tasks,        \* requests in flight at once
  NoSkill, NoWorker,
  MaxCommits    \* bound on the commits of each skill

ASSUME NamesAssumption == NoSkill \notin Skills /\ NoWorker \notin Workers
ASSUME CommitsAssumption == MaxCommits \in [Skills -> Nat]

VARIABLES
  rows,      \* KBF_SKILL_ARTIFACTS: a skill's artifacts, its delta of the KB, their status
  cards,     \* KBF_PERSONA_BUILDERS: content of a skill's production card
  routes,    \* ShimWorkflows._cards of each worker
  kbs,       \* ShimKb._cards of each worker
  tasks,     \* the requests in flight
  commits,   \* how often a skill was committed
  promoted,  \* history: the contents that were ever promoted
  overtaken, \* history: deltas written between a promotion and its reading of the delta
  torn       \* history: skills whose deletion failed half way or met a session's card

store == <<rows, cards>>
tables == <<routes, kbs>>
history == <<commits, promoted, overtaken, torn>>
vars == <<rows, cards, routes, kbs, tasks, commits, promoted, overtaken, torn>>

Nothing == [s \in Skills |-> 0]
NoRows == [content |-> 0, delta |-> 0, status |-> "absent"]

\* "goal" is the content a task has promoted; "undone": it was written over, deleted or
\* could not be read since.
Idle == [pc |-> "idle", kind |-> "none", at |-> NoWorker, skill |-> NoSkill,
         goal |-> 0, undone |-> FALSE, held |-> Nothing, todo |-> {}]

Init ==
  /\ rows = [s \in Skills |-> NoRows]
  /\ cards = Nothing
  /\ routes = [w \in Workers |-> Nothing]
  /\ kbs = [w \in Workers |-> Nothing]
  /\ tasks = [t \in Tasks |-> Idle]
  /\ commits = Nothing
  /\ promoted = {}
  /\ overtaken = {}
  /\ torn = {}

Starting(w) == \E t \in Tasks : tasks[t].kind = "start" /\ tasks[t].at = w
Authoring(t) == tasks[t].kind \in {"rest", "mcp"}
Meets(s, pc) == \E t \in Tasks : tasks[t].pc = pc /\ tasks[t].skill = s
To(t, pc) == tasks' = [tasks EXCEPT ![t].pc = pc]
Ends(t) == tasks' = [tasks EXCEPT ![t] = Idle]

\* Back to the question of PROMOTE.
Back(t) ==
  tasks' = [tasks EXCEPT ![t].pc = "committed", ![t].goal = 0, ![t].undone = FALSE]

\* What a task has promoted of s is no longer what the rows hold.
Undo(s) ==
  [t \in Tasks |->
    IF tasks[t].skill = s /\ tasks[t].goal # 0
    THEN [tasks[t] EXCEPT !.undone = TRUE] ELSE tasks[t]]

----------------------------------------------------------------------------
(* Authoring: the turns of a session that write to the store. *)

\* write_artifacts: new rows, or the old ones again as drafts; the delta stays when
\* there is none to write.
Write(s, deltas) ==
  /\ commits[s] < MaxCommits[s]
  /\ commits' = [commits EXCEPT ![s] = @ + 1]
  /\ \E d \in deltas :
       /\ rows' = [rows EXCEPT ![s] =
            [content |-> commits[s] + 1, delta |-> d, status |-> "draft"]]
       /\ overtaken' =
            IF Meets(s, "promoted") THEN overtaken \cup ({<<s, d>>} \ promoted) ELSE overtaken

\* Nothing keeps two sessions from working on one skill.  A design without fields has
\* no delta.
Commit(t, w, s, kind) ==
  /\ tasks[t].pc = "idle" /\ ~Starting(w)
  /\ Write(s, {commits[s] + 1, rows[s].delta})
  /\ tasks' = [Undo(s) EXCEPT ![t] =
       [Idle EXCEPT !.pc = "committed", !.kind = kind, !.at = w, !.skill = s]]
  /\ UNCHANGED <<cards, tables, promoted, torn>>

\* Bug: the card is registered whether or not the rows could be promoted.
PromoteAnyway(t) ==
  LET s == tasks[t].skill IN
  /\ tasks[t].pc = "committed" /\ rows[s].content # 0
  /\ tasks' = [tasks EXCEPT ![t].pc = "promoted"]
  /\ UNCHANGED <<store, tables, history>>

\* No rows or no database: the turn reports it and the session stays at PROMOTE.
Promote(t) ==
  LET s == tasks[t].skill IN
  /\ tasks[t].pc = "committed" /\ rows[s].content # 0
  /\ rows' = [rows EXCEPT ![s].status = "promoted"]
  /\ promoted' = promoted \cup {<<s, rows[s].content>>, <<s, rows[s].delta>>}
  /\ tasks' = [tasks EXCEPT ![t].pc = "promoted", ![t].goal = rows[s].content]
  /\ UNCHANGED <<cards, tables, commits, overtaken, torn>>

\* Whatever delta the rows hold by now; a missing one or a failed read raises.
ReadDelta(t) ==
  LET s == tasks[t].skill IN
  /\ tasks[t].pc = "promoted"
  /\ \/ /\ rows[s].delta # 0
        /\ tasks' = [tasks EXCEPT ![t].pc = "read", ![t].held[s] = rows[s].delta]
     \/ Back(t)
  /\ UNCHANGED <<store, tables, history>>

Register(t) ==
  LET s == tasks[t].skill IN
  /\ tasks[t].pc = "read"
  /\ \/ /\ cards' = [cards EXCEPT ![s] = tasks[t].held[s]]
        /\ To(t, "registered")
     \/ Back(t) /\ UNCHANGED cards
  /\ UNCHANGED <<rows, tables, history>>

\* Only a REST session reloads the tables of the worker that served its last turn.
Finish(t) ==
  IF tasks[t].kind = "rest" THEN To(t, "kb due") ELSE Ends(t)

\* A fresh table is loaded and must hold the card, unless loading it failed.
Verify(t) ==
  /\ tasks[t].pc = "registered"
  /\ \/ Finish(t)
     \/ cards[tasks[t].skill] = 0 /\ Back(t)
  /\ UNCHANGED <<store, tables, history>>

\* 'no' at PROMOTE closes the session with the skill a draft.
Decline(t) ==
  /\ tasks[t].pc = "committed"
  /\ Finish(t)
  /\ UNCHANGED <<store, tables, history>>

\* The author does not come back.
Leave(t) ==
  /\ tasks[t].pc = "committed"
  /\ Ends(t)
  /\ UNCHANGED <<store, tables, history>>

\* kb-cli backfill-skills-to-adb: a skill of the repository's files is written over the
\* rows of that name, without a delta; whoever works on it is not asked.
Backfill(s) ==
  /\ Write(s, {rows[s].delta})
  /\ tasks' = Undo(s)
  /\ UNCHANGED <<cards, tables, promoted, torn>>

Author ==
  \E t \in Tasks :
    \/ \E w \in Workers, s \in Skills, kind \in {"rest", "mcp"} : Commit(t, w, s, kind)
    \/ Promote(t) \/ ReadDelta(t) \/ Register(t) \/ Verify(t)
    \/ Decline(t) \/ Leave(t)

----------------------------------------------------------------------------
(* deleteSkill. *)

\* A skill with no rows is answered not_found and nothing else is tried.
DeleteRows(t, w, s) ==
  /\ tasks[t].pc = "idle" /\ ~Starting(w)
  /\ rows[s].content # 0
  /\ rows' = [rows EXCEPT ![s] = NoRows]
  /\ tasks' = [Undo(s) EXCEPT ![t] =
       [Idle EXCEPT !.pc = "deleted", !.kind = "delete", !.at = w, !.skill = s]]
  /\ torn' = IF Meets(s, "read") THEN torn \cup {s} ELSE torn
  /\ UNCHANGED <<cards, tables, commits, promoted, overtaken>>

\* Bug: the production card is left in place.
DeleteRowsOnly(t) ==
  /\ tasks[t].pc = "deleted"
  /\ To(t, "kb due")
  /\ UNCHANGED <<store, tables, history>>

\* A database error is logged and the deletion goes on.
DeleteCard(t) ==
  LET s == tasks[t].skill IN
  /\ tasks[t].pc = "deleted"
  /\ To(t, "kb due")
  /\ \/ cards' = [cards EXCEPT ![s] = 0] /\ UNCHANGED torn
     \/ torn' = torn \cup {s} /\ UNCHANGED cards
  /\ UNCHANGED <<rows, tables, commits, promoted, overtaken>>

----------------------------------------------------------------------------
(* Loading the tables of a worker. *)

\* A REST task loads inside its worker's event loop, one at a time; a deletion
\* loads in a thread of its own.
InLoop(t) == tasks[t].kind = "rest" /\ tasks[t].pc \in {"kb listed", "wf due", "wf listed"}
LoopFree(t) ==
  tasks[t].kind = "rest" =>
    \A u \in Tasks \ {t} : tasks[u].at = tasks[t].at => ~InLoop(u)

\* ShimKb.load takes a failed query for an empty table.
ListCards(t) ==
  /\ tasks[t].pc = "kb due" /\ LoopFree(t)
  /\ \E got \in {cards, Nothing} :
       tasks' = [tasks EXCEPT ![t].pc = "kb listed", ![t].held = got]
  /\ UNCHANGED <<store, tables, history>>

InstallCards(t) ==
  /\ tasks[t].pc = "kb listed"
  /\ kbs' = [kbs EXCEPT ![tasks[t].at] = tasks[t].held]
  /\ IF tasks[t].kind = "delete"
     THEN Ends(t)
     ELSE tasks' = [tasks EXCEPT ![t].pc = "wf due", ![t].held = Nothing]
  /\ UNCHANGED <<store, routes, history>>

\* Bug: the listing knows only the status of an older release.
ListedProduction == {s \in Skills : rows[s].status = "production"}
\* Bug: the listing takes every row.
ListedAll == {s \in Skills : rows[s].status # "absent"}

Listed == {s \in Skills : rows[s].status = "promoted"}

\* ShimWorkflows.load: no list, no cards at all.
ListPromoted(t) ==
  /\ tasks[t].pc = "wf due"
  /\ \/ /\ tasks' = [tasks EXCEPT ![t].pc = "wf listed", ![t].todo = Listed]
        /\ UNCHANGED routes
     \/ /\ routes' = [routes EXCEPT ![tasks[t].at] = Nothing]
        /\ Ends(t)
  /\ UNCHANGED <<store, kbs, history>>

\* Each listed skill is read by its key alone; one that cannot be read is skipped.
ReadSkill(t, s) ==
  /\ tasks[t].pc = "wf listed" /\ s \in tasks[t].todo
  /\ \/ tasks' = [tasks EXCEPT ![t].todo = @ \ {s}, ![t].held[s] = rows[s].content]
     \/ tasks' = [tasks EXCEPT ![t].todo = @ \ {s},
                               ![t].undone = @ \/ tasks[t].skill = s]
  /\ UNCHANGED <<store, tables, history>>

InstallRoutes(t) ==
  /\ tasks[t].pc = "wf listed" /\ tasks[t].todo = {}
  /\ routes' = [routes EXCEPT ![tasks[t].at] = tasks[t].held]
  /\ Ends(t)
  /\ UNCHANGED <<store, kbs, history>>

\* A worker dies with its tasks; the new one loads both tables before it serves.
Restart(t, w) ==
  /\ tasks[t].at = w \/ tasks[t].pc = "idle"
  /\ tasks' = [u \in Tasks |->
       IF u = t THEN [Idle EXCEPT !.pc = "kb due", !.kind = "start", !.at = w]
       ELSE IF tasks[u].at = w THEN Idle ELSE tasks[u]]
  /\ routes' = [routes EXCEPT ![w] = Nothing]
  /\ kbs' = [kbs EXCEPT ![w] = Nothing]
  /\ torn' = torn \cup {s \in Skills : \E u \in Tasks :
                 tasks[u].at = w /\ tasks[u].skill = s /\ tasks[u].pc = "deleted"}
  /\ UNCHANGED <<store, commits, promoted, overtaken>>

Remove ==
  \E t \in Tasks :
    \/ \E w \in Workers, s \in Skills : DeleteRows(t, w, s)
    \/ DeleteCard(t)

Load ==
  \E t \in Tasks :
    \/ ListCards(t) \/ InstallCards(t) \/ ListPromoted(t) \/ InstallRoutes(t)
    \/ \E s \in Skills : ReadSkill(t, s)
    \/ \E w \in Workers : Restart(t, w)

Next == Author \/ Remove \/ Load \/ \E s \in Skills : Backfill(s)

Spec == Init /\ [][Next]_vars

----------------------------------------------------------------------------
(* Properties. *)

TaskStates == [
  pc : {"idle", "committed", "promoted", "read", "registered", "deleted",
        "kb due", "kb listed", "wf due", "wf listed"},
  kind : {"none", "rest", "mcp", "delete", "start"},
  at : Workers \cup {NoWorker},
  skill : Skills \cup {NoSkill},
  goal : Nat,
  undone : BOOLEAN,
  held : [Skills -> Nat],
  todo : SUBSET Skills]

\* Rows, cards and tables hold contents that were committed, and a task that
\* works on a skill or a worker names it.
TypeOK ==
  /\ rows \in [Skills -> [content : Nat, delta : Nat, status : {"absent", "draft", "promoted"}]]
  /\ cards \in [Skills -> Nat]
  /\ routes \in [Workers -> [Skills -> Nat]]
  /\ kbs \in [Workers -> [Skills -> Nat]]
  /\ tasks \in [Tasks -> TaskStates]
  /\ commits \in [Skills -> Nat]
  /\ promoted \subseteq Skills \X Nat
  /\ overtaken \subseteq Skills \X Nat
  /\ torn \subseteq Skills

\* A production card, in the database and in any worker's table, was made from
\* content that had been promoted, also when other sessions, a deletion or a restart
\* cut in between the database calls of PROMOTE.  The one way in for a draft: it is
\* written after the promotion of the rows and before the same turn reads their delta.
CardsArePromoted ==
  \A s \in Skills :
    /\ cards[s] # 0 => <<s, cards[s]>> \in promoted \cup overtaken
    /\ \A w \in Workers : kbs[w][s] # 0 => <<s, kbs[w][s]>> \in promoted \cup overtaken

WasPromoted(s) == \E e \in promoted : e[1] = s

\* A skill nobody ever promoted is in no worker's routing table.
RoutedWasPromoted ==
  \A w \in Workers, s \in Skills :
    routes[w][s] # 0 => WasPromoted(s)

\* When the last turn of a REST session has been served, its worker routes to
\* the content the session promoted.  If the skill was deleted, written over by
\* another session or unreadable meanwhile, it routes to nothing or to something
\* newer, never back to what the session replaced.
ServedWhenAnswered ==
  [][\A t \in Tasks :
       LET now == routes'[tasks[t].at][tasks[t].skill]
       IN  InstallRoutes(t) /\ tasks[t].goal # 0 =>
             IF tasks[t].undone THEN now = 0 \/ now >= tasks[t].goal
                                ELSE now = tasks[t].goal]_vars

\* A skill without rows has no production card once its requests are over,
\* except where a deletion failed half way or removed the rows between a session's
\* reading of the delta and its registering of the card.
NoOrphanCard ==
  \A s \in Skills :
    (\A t \in Tasks : tasks[t].skill # s) /\ rows[s].content = 0 /\ s \notin torn
      => cards[s] = 0
=============================================================================
