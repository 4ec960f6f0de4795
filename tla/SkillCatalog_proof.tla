------------------------- MODULE SkillCatalog_proof ------------------------
(***************************************************************************)
(* Proofs about SkillCatalog for any skills, workers, tasks and bounds on  *)
(* the commits: type correctness and the four properties that the run of   *)
(* the catalogue checks on a small instance.                               *)
(*                                                                         *)
(* None of the four is inductive.  What a card, a table or a list will     *)
(* hold is in the task that has read it, so the invariant says of every    *)
(* task what it holds (HeldOf, ListOf, GoalOf), and of a skill without     *)
(* rows who is about to remove its card (Untorn).                          *)
(***************************************************************************)
EXTENDS SkillCatalog, TLAPS

\* What a task at a point of its request is.
ShapeOf(t) ==
  /\ tasks[t].pc = "idle" <=> tasks[t].kind = "none"
  /\ tasks[t].pc = "idle" => tasks[t].skill = NoSkill /\ tasks[t].goal = 0
  /\ tasks[t].pc # "idle" => tasks[t].at \in Workers
  /\ tasks[t].pc \in {"committed", "promoted", "read", "registered"} => Authoring(t)
  /\ Authoring(t) => tasks[t].skill \in Skills
  /\ tasks[t].pc = "deleted" => tasks[t].kind = "delete" /\ tasks[t].skill \in Skills
  /\ tasks[t].pc = "wf due" => tasks[t].held = Nothing

\* What may be in a card: contents once promoted, and deltas that overtook a promotion.
Known == promoted \cup overtaken

\* What a task is about to put into a card or into a table of cards.
HeldOf(t) ==
  /\ tasks[t].pc = "promoted" /\ rows[tasks[t].skill].delta # 0
       => <<tasks[t].skill, rows[tasks[t].skill].delta>> \in Known
  /\ tasks[t].pc = "read" /\ tasks[t].held[tasks[t].skill] # 0
       => <<tasks[t].skill, tasks[t].held[tasks[t].skill]>> \in Known
  /\ tasks[t].pc = "kb listed"
       => \A s \in Skills : tasks[t].held[s] # 0 => <<s, tasks[t].held[s]>> \in Known

\* What a task is about to route to was promoted at some time.
ListOf(t) ==
  tasks[t].pc = "wf listed" =>
    \A s \in Skills : s \in tasks[t].todo \/ tasks[t].held[s] # 0 => WasPromoted(s)

\* No content of this skill is older than the goal.
Recent(goal, n) == n = 0 \/ n >= goal

\* The rows hold what a task has promoted, or something newer when it is undone, and so
\* will its worker's table.
GoalOf(t) ==
  tasks[t].goal # 0 =>
    /\ Authoring(t)
    /\ commits[tasks[t].skill] >= tasks[t].goal
    /\ Recent(tasks[t].goal, rows[tasks[t].skill].content)
    /\ tasks[t].pc = "wf listed" => Recent(tasks[t].goal, tasks[t].held[tasks[t].skill])
    /\ ~tasks[t].undone =>
         /\ rows[tasks[t].skill].content = tasks[t].goal
         /\ rows[tasks[t].skill].status = "promoted"
         /\ tasks[t].pc = "wf listed"
              => tasks[t].skill \in tasks[t].todo \/ tasks[t].held[tasks[t].skill] = tasks[t].goal

TaskOf(t) == ShapeOf(t) /\ HeldOf(t) /\ ListOf(t) /\ GoalOf(t)

\* A card without rows is about to be removed, and a session about to register one has
\* rows, unless a deletion went wrong.
Untorn ==
  \A s \in Skills : s \notin torn =>
    /\ cards[s] # 0 /\ rows[s].content = 0
         => \E t \in Tasks : tasks[t].pc = "deleted" /\ tasks[t].skill = s
    /\ \A t \in Tasks : tasks[t].pc = "read" /\ tasks[t].skill = s => rows[s].content # 0

\* Contents are numbered by the commits, and only rows have a delta.
Numbered ==
  \A s \in Skills : commits[s] >= rows[s].content /\ (rows[s].content = 0 => rows[s].delta = 0)

RowsWerePromoted == \A s \in Skills : rows[s].status = "promoted" => WasPromoted(s)

IndInv ==
  /\ TypeOK
  /\ \A t \in Tasks : TaskOf(t)
  /\ Numbered /\ Untorn
  /\ RowsWerePromoted /\ CardsArePromoted /\ RoutedWasPromoted

----------------------------------------------------------------------------
(* What holds of the tasks that a step does not concern. *)

\* A request that changes only its own task.
Own(t) ==
  /\ tasks' \in [Tasks -> TaskStates]
  /\ \A u \in Tasks : u # t => tasks'[u] = tasks[u]

\* A task stays as it is when the rows it works on do and nothing promoted is forgotten.
LEMMA Untouched ==
  ASSUME NEW u \in Tasks, IndInv, tasks'[u] = tasks[u], promoted \subseteq promoted',
         overtaken \subseteq overtaken',
         Authoring(u) =>
           /\ rows'[tasks[u].skill].content = rows[tasks[u].skill].content
           /\ rows'[tasks[u].skill].delta = rows[tasks[u].skill].delta
           /\ rows[tasks[u].skill].status = "promoted"
                => rows'[tasks[u].skill].status = "promoted"
           /\ commits'[tasks[u].skill] = commits[tasks[u].skill]
  PROVE  TaskOf(u)'
<1>1. TaskOf(u)
  BY DEF IndInv
<1>2. ShapeOf(u)'
  BY <1>1 DEF TaskOf, ShapeOf, Authoring
<1>3. HeldOf(u)'
  BY <1>1 DEF TaskOf, ShapeOf, HeldOf, Known, Authoring
<1>4. ListOf(u)'
  BY <1>1 DEF TaskOf, ListOf, WasPromoted
<1>5. GoalOf(u)'
  BY <1>1 DEF TaskOf, GoalOf, Authoring
<1> QED
  BY <1>2, <1>3, <1>4, <1>5 DEF TaskOf

\* A request that has ended.
LEMMA Ended ==
  ASSUME NEW t \in Tasks, TypeOK, Ends(t)
  PROVE  Own(t) /\ tasks'[t].pc = "idle" /\ TaskOf(t)'
<1>1. Idle \in TaskStates
  BY DEF Idle, TaskStates, Nothing
<1>2. Own(t) /\ tasks'[t] = Idle
  BY <1>1 DEF TypeOK, Ends, Own
<1>3. /\ tasks'[t].pc = "idle" /\ tasks'[t].kind = "none" /\ tasks'[t].skill = NoSkill
      /\ tasks'[t].goal = 0
  BY <1>2 DEF Idle
<1> QED
  BY <1>2, <1>3 DEF TaskOf, ShapeOf, HeldOf, ListOf, GoalOf, Authoring

\* A step of one task that leaves the rows alone.
LEMMA Quiet ==
  ASSUME NEW t \in Tasks, IndInv, Own(t), TaskOf(t)', UNCHANGED <<rows, commits, promoted, overtaken>>
  PROVE  (\A u \in Tasks : TaskOf(u)') /\ Numbered' /\ RowsWerePromoted'
<1>1. \A u \in Tasks : TaskOf(u)'
  BY Untouched DEF Own
<1> QED
  BY <1>1 DEF IndInv, RowsWerePromoted, WasPromoted, Numbered

\* Nothing becomes an orphan when no deletion is in hand.
LEMMA StaysUntorn ==
  ASSUME NEW t \in Tasks, IndInv, Own(t), tasks[t].pc # "deleted", tasks'[t].pc # "read",
         UNCHANGED <<rows, cards, torn>>
  PROVE  Untorn'
<1>1. \A u \in Tasks : tasks[u].pc = "deleted" => tasks'[u] = tasks[u]
  BY DEF Own
<1>2. \A u \in Tasks : tasks'[u].pc = "read" => tasks'[u] = tasks[u]
  BY DEF Own
<1> QED
  BY <1>1, <1>2 DEF IndInv, Untorn

Pcs == {"idle", "committed", "promoted", "read", "registered", "deleted",
        "kb due", "kb listed", "wf due", "wf listed"}

\* Two tasks that differ in where they are and in what a request may set on its way.
Same(t) ==
  tasks'[t].kind = tasks[t].kind /\ tasks'[t].at = tasks[t].at /\ tasks'[t].skill = tasks[t].skill

\* A request's step that gives its task as a whole.
LEMMA Update ==
  ASSUME NEW t \in Tasks, TypeOK, NEW task \in TaskStates, tasks' = [tasks EXCEPT ![t] = task]
  PROVE  Own(t) /\ tasks'[t] = task
BY DEF TypeOK, Own

\* A request goes on to its next call.
LEMMA Goes ==
  ASSUME NEW t \in Tasks, TypeOK, NEW pc \in Pcs, To(t, pc)
  PROVE  /\ Own(t) /\ Same(t) /\ tasks'[t].pc = pc
         /\ tasks'[t].goal = tasks[t].goal /\ tasks'[t].undone = tasks[t].undone
         /\ tasks'[t].held = tasks[t].held /\ tasks'[t].todo = tasks[t].todo
<1> DEFINE task == [tasks[t] EXCEPT !.pc = pc]
<1>1. tasks[t] \in TaskStates /\ tasks' = [tasks EXCEPT ![t] = task]
  BY DEF TypeOK, To
<1>2. task \in TaskStates
  BY <1>1 DEF TaskStates, Pcs
<1>3. Own(t) /\ tasks'[t] = task
  BY <1>1, <1>2, Update
<1> HIDE DEF task
<1>4. task = [tasks[t] EXCEPT !.pc = pc]
  BY DEF task
<1>5. /\ task.kind = tasks[t].kind /\ task.at = tasks[t].at /\ task.skill = tasks[t].skill
      /\ task.goal = tasks[t].goal /\ task.undone = tasks[t].undone
      /\ task.held = tasks[t].held /\ task.todo = tasks[t].todo /\ task.pc = pc
  BY <1>1, <1>4 DEF TaskStates
<1> QED
  BY <1>3, <1>5 DEF Same

\* Back to the question of PROMOTE.
LEMMA GoesBack ==
  ASSUME NEW t \in Tasks, IndInv, Authoring(t),
         Back(t)
  PROVE  Own(t) /\ Same(t) /\ TaskOf(t)' /\ tasks'[t].pc = "committed"
<1> DEFINE task == [tasks[t] EXCEPT !.pc = "committed", !.goal = 0, !.undone = FALSE]
<1>1. tasks[t] \in TaskStates /\ tasks' = [tasks EXCEPT ![t] = task]
  BY DEF IndInv, TypeOK, Back
<1>2. task \in TaskStates
  BY <1>1 DEF TaskStates
<1>3. Own(t) /\ tasks'[t] = task
  BY <1>1, <1>2, Update DEF IndInv
<1>6. /\ task.kind = tasks[t].kind /\ task.at = tasks[t].at /\ task.skill = tasks[t].skill
      /\ task.pc = "committed" /\ task.goal = 0
  BY <1>1 DEF TaskStates
<1> HIDE DEF task
<1>4. Same(t) /\ tasks'[t].pc = "committed" /\ tasks'[t].goal = 0
  BY <1>3, <1>6 DEF Same
<1>5. ShapeOf(t)
  BY DEF IndInv, TaskOf
<1> QED
  BY <1>3, <1>4, <1>5 DEF Same, TaskOf, ShapeOf, HeldOf, ListOf, GoalOf, Authoring

\* The whole of a step that changes neither the store nor a table.
LEMMA QuietKeeps ==
  ASSUME NEW t \in Tasks, IndInv, Own(t), TaskOf(t)', tasks[t].pc # "deleted",
         tasks'[t].pc # "read", UNCHANGED <<store, tables, history>>
  PROVE  IndInv'
<1>1. UNCHANGED <<rows, cards, routes, kbs, commits, promoted, overtaken, torn>>
  BY DEF store, tables, history
<1>2. TypeOK'
  BY <1>1 DEF IndInv, TypeOK, Own
<1>3. CardsArePromoted' /\ RoutedWasPromoted'
  BY <1>1 DEF IndInv, CardsArePromoted, RoutedWasPromoted, WasPromoted
<1> QED
  BY <1>1, <1>2, <1>3, Quiet, StaysUntorn DEF IndInv

\* The session ends, and its reply reloads the tables if there is one.
LEMMA FinishKeeps ==
  ASSUME NEW t \in Tasks, IndInv, Authoring(t), Finish(t), UNCHANGED <<store, tables, history>>
  PROVE  IndInv'
<1>1. TypeOK /\ ShapeOf(t) /\ GoalOf(t) /\ tasks[t].pc # "deleted"
  BY DEF IndInv, TaskOf, ShapeOf, Authoring
<1>2. CASE Ends(t)
  BY <1>1, <1>2, Ended, QuietKeeps
<1>3. CASE To(t, "kb due")
  <2>1. /\ Own(t) /\ Same(t) /\ tasks'[t].pc = "kb due" /\ tasks'[t].goal = tasks[t].goal
        /\ tasks'[t].undone = tasks[t].undone
    BY <1>1, <1>3, Goes DEF Pcs
  <2>2. UNCHANGED <<rows, commits>>
    BY DEF store, history
  <2>3. TaskOf(t)'
    BY <1>1, <2>1, <2>2 DEF Same, TaskOf, ShapeOf, HeldOf, ListOf, GoalOf, Authoring
  <2> QED
    BY <1>1, <2>1, <2>3, QuietKeeps
<1> QED
  BY <1>2, <1>3 DEF Finish

\* The loaded table holds the card or the turn falls back.
LEMMA VerifyKeeps ==
  ASSUME NEW t \in Tasks, IndInv, Verify(t)
  PROVE  IndInv'
<1>1. Authoring(t) /\ tasks[t].pc # "deleted"
  BY DEF IndInv, TaskOf, ShapeOf, Verify
<1>2. CASE Finish(t)
  BY <1>1, <1>2, FinishKeeps DEF Verify
<1>3. CASE Back(t)
  BY <1>1, <1>3, GoesBack, QuietKeeps DEF Verify
<1> QED
  BY <1>2, <1>3 DEF Verify

\* Declining a promotion and not coming back.
LEMMA DeclineKeeps ==
  ASSUME NEW t \in Tasks, IndInv, Decline(t) \/ Leave(t)
  PROVE  IndInv'
<1>1. Authoring(t) /\ TypeOK /\ tasks[t].pc # "deleted"
  BY DEF IndInv, TaskOf, ShapeOf, Decline, Leave
<1> QED
  BY <1>1, FinishKeeps, Ended, QuietKeeps DEF Decline, Leave

\* The delta that is read belongs to rows that were promoted.
LEMMA ReadDeltaKeeps ==
  ASSUME NEW t \in Tasks, IndInv, ReadDelta(t)
  PROVE  IndInv'
<1> DEFINE s == tasks[t].skill
<1>1. /\ Authoring(t) /\ s \in Skills /\ tasks[t].pc = "promoted" /\ tasks[t] \in TaskStates
      /\ ShapeOf(t) /\ HeldOf(t) /\ GoalOf(t)
      /\ rows \in [Skills -> [content : Nat, delta : Nat, status : {"absent", "draft", "promoted"}]]
  BY DEF IndInv, TypeOK, TaskOf, ShapeOf, ReadDelta
<1>2. /\ UNCHANGED <<rows, cards, routes, kbs, commits, promoted, overtaken, torn>>
      /\ UNCHANGED <<store, tables, history>>
  BY DEF ReadDelta, store, tables, history
<1>3. CASE Back(t)
  BY <1>1, <1>2, <1>3, GoesBack, QuietKeeps
<1>4. CASE rows[s].delta # 0
           /\ tasks' = [tasks EXCEPT ![t].pc = "read", ![t].held[s] = rows[s].delta]
  <2> DEFINE task == [tasks[t] EXCEPT !.pc = "read", !.held = [tasks[t].held EXCEPT ![s] = rows[s].delta]]
  <2>1. tasks' = [tasks EXCEPT ![t] = task]
    BY <1>1, <1>4 DEF IndInv, TypeOK
  <2>2. rows[s].delta \in Nat /\ tasks[t].held \in [Skills -> Nat]
    BY <1>1 DEF TaskStates
  <2>3. task \in TaskStates
    BY <1>1, <2>2 DEF TaskStates
  <2>4. Own(t) /\ tasks'[t] = task
    BY <2>1, <2>3, Update DEF IndInv
  <2>5. /\ Same(t) /\ tasks'[t].pc = "read" /\ tasks'[t].goal = tasks[t].goal
        /\ tasks'[t].undone = tasks[t].undone
        /\ tasks'[t].held = [tasks[t].held EXCEPT ![s] = rows[s].delta]
        /\ tasks'[t].held[s] = rows[s].delta
    BY <1>1, <2>4, <2>2 DEF Same, TaskStates
  <2>6. ShapeOf(t)' /\ ListOf(t)'
    BY <1>1, <2>5 DEF Same, ShapeOf, ListOf, Authoring
  <2>7. HeldOf(t)'
    <3>1. <<s, rows[s].delta>> \in Known
      BY <1>1, <1>4 DEF HeldOf
    <3>2. tasks'[t].pc = "read" /\ tasks'[t].skill = s /\ tasks'[t].held[s] = rows[s].delta
      BY <2>5 DEF Same
    <3>3. Known' = Known
      BY <1>2 DEF Known
    <3> QED
      BY <3>1, <3>2, <3>3 DEF HeldOf
  <2>8. GoalOf(t)'
    BY <1>1, <1>2, <2>5 DEF Same, GoalOf, Authoring
  <2>9. TaskOf(t)'
    BY <2>6, <2>7, <2>8 DEF TaskOf
  <2>10. (\A u \in Tasks : TaskOf(u)') /\ Numbered' /\ RowsWerePromoted'
    BY <1>2, <2>4, <2>9, Quiet
  <2>11. Untorn'
    <3>1. rows[s].content # 0
      BY <1>1, <1>4 DEF IndInv, Numbered
    <3>2. \A u \in Tasks : tasks[u].pc = "deleted" => tasks'[u] = tasks[u]
      BY <1>1, <2>4 DEF Own
    <3>3. \A u \in Tasks : tasks'[u].pc = "read" => tasks'[u] = tasks[u] \/ tasks'[u].skill = s
      BY <2>4, <2>5 DEF Own, Same
    <3> QED
      BY <1>2, <3>1, <3>2, <3>3 DEF IndInv, Untorn
  <2>12. TypeOK' /\ CardsArePromoted' /\ RoutedWasPromoted'
    BY <1>2, <2>4 DEF IndInv, TypeOK, Own, CardsArePromoted, RoutedWasPromoted, WasPromoted
  <2> QED
    BY <2>10, <2>11, <2>12 DEF IndInv
<1> QED
  BY <1>3, <1>4 DEF ReadDelta

\* The card is the delta that was read; no rows are missing for it.
LEMMA RegisterKeeps ==
  ASSUME NEW t \in Tasks, IndInv, Register(t)
  PROVE  IndInv'
<1> DEFINE s == tasks[t].skill
<1>1. /\ Authoring(t) /\ s \in Skills /\ tasks[t].pc = "read" /\ tasks[t] \in TaskStates
      /\ ShapeOf(t) /\ HeldOf(t) /\ GoalOf(t)
  BY DEF IndInv, TypeOK, TaskOf, ShapeOf, Register
<1>2. UNCHANGED <<rows, routes, kbs, commits, promoted, overtaken, torn>>
  BY DEF Register, tables, history
<1>3. CASE Back(t) /\ UNCHANGED cards
  BY <1>1, <1>2, <1>3, GoesBack, QuietKeeps DEF store, tables, history
<1>4. CASE cards' = [cards EXCEPT ![s] = tasks[t].held[s]] /\ To(t, "registered")
  <2>1. /\ Own(t) /\ Same(t) /\ tasks'[t].pc = "registered" /\ tasks'[t].goal = tasks[t].goal
        /\ tasks'[t].undone = tasks[t].undone
    BY <1>4, Goes DEF Pcs, IndInv
  <2>2. TaskOf(t)'
    BY <1>1, <1>2, <2>1 DEF Same, TaskOf, ShapeOf, HeldOf, ListOf, GoalOf, Authoring
  <2>3. (\A u \in Tasks : TaskOf(u)') /\ Numbered' /\ RowsWerePromoted'
    BY <1>2, <2>1, <2>2, Quiet
  <2>4. /\ cards \in [Skills -> Nat] /\ tasks[t].held \in [Skills -> Nat]
        /\ cards'[s] = tasks[t].held[s] /\ \A r \in Skills : r # s => cards'[r] = cards[r]
    BY <1>1, <1>4 DEF IndInv, TypeOK, TaskStates
  <2>5. TypeOK'
    BY <1>1, <1>2, <1>4, <2>1, <2>4 DEF IndInv, TypeOK, Own
  <2>6. \A u \in Tasks : "deleted" = tasks[u].pc \/ "read" = tasks'[u].pc => tasks'[u] = tasks[u]
    BY <1>1, <2>1 DEF Own
  <2>7. s \in torn \/ rows[s].content # 0
    BY <1>1 DEF IndInv, Untorn
  <2>8. Untorn'
    BY <1>1, <1>2, <2>4, <2>6, <2>7 DEF IndInv, Untorn
  <2>9. CardsArePromoted' /\ RoutedWasPromoted'
    BY <1>1, <1>2, <2>4 DEF IndInv, CardsArePromoted, RoutedWasPromoted, WasPromoted, HeldOf, Known
  <2> QED
    BY <2>3, <2>5, <2>8, <2>9 DEF IndInv
<1> QED
  BY <1>3, <1>4 DEF Register

\* A listing of cards that were promoted.
LEMMA ListCardsKeeps ==
  ASSUME NEW t \in Tasks, IndInv, ListCards(t)
  PROVE  IndInv'
<1>1. /\ UNCHANGED <<rows, commits, promoted, overtaken>>
      /\ UNCHANGED <<store, tables, history>>
  BY DEF ListCards, store, history
<1>2. PICK got \in {cards, Nothing} : tasks' = [tasks EXCEPT ![t].pc = "kb listed", ![t].held = got]
  BY DEF ListCards
<1> DEFINE task == [tasks[t] EXCEPT !.pc = "kb listed", !.held = got]
<1>3. tasks[t] \in TaskStates /\ tasks[t].pc = "kb due" /\ ShapeOf(t) /\ GoalOf(t)
  BY DEF IndInv, TypeOK, TaskOf, ListCards
<1>4. got \in [Skills -> Nat] /\ \A s \in Skills : got[s] # 0 => <<s, got[s]>> \in Known
  BY DEF IndInv, TypeOK, Nothing, CardsArePromoted, Known
<1>5. task \in TaskStates
  BY <1>3, <1>4 DEF TaskStates
<1>6. /\ task.pc = "kb listed" /\ task.held = got
      /\ task.kind = tasks[t].kind /\ task.at = tasks[t].at /\ task.skill = tasks[t].skill
      /\ task.goal = tasks[t].goal /\ task.undone = tasks[t].undone
  BY <1>3 DEF TaskStates
<1>7. tasks' = [tasks EXCEPT ![t] = task]
  BY <1>2, <1>3
<1> HIDE DEF task
<1>8. Own(t) /\ tasks'[t] = task
  BY <1>5, <1>7, Update DEF IndInv
<1>9. TaskOf(t)'
  BY <1>1, <1>3, <1>4, <1>6, <1>8 DEF TaskOf, ShapeOf, HeldOf, ListOf, GoalOf, Authoring, Known
<1> QED
  BY <1>1, <1>3, <1>6, <1>8, <1>9, QuietKeeps

\* Installing that listing.
LEMMA InstallCardsKeeps ==
  ASSUME NEW t \in Tasks, IndInv, InstallCards(t)
  PROVE  IndInv'
<1> DEFINE w == tasks[t].at
<1>1. /\ w \in Workers /\ tasks[t] \in TaskStates /\ tasks[t].pc = "kb listed"
      /\ TypeOK /\ ShapeOf(t) /\ HeldOf(t) /\ GoalOf(t)
  BY DEF IndInv, TypeOK, TaskOf, ShapeOf, InstallCards
<1>2. UNCHANGED <<rows, cards, routes, commits, promoted, overtaken, torn>>
  BY DEF InstallCards, store, history
<1>3. Own(t) /\ TaskOf(t)' /\ tasks'[t].pc # "read"
  <2>1. CASE Ends(t)
    BY <1>1, <2>1, Ended
  <2>2. CASE tasks' = [tasks EXCEPT ![t].pc = "wf due", ![t].held = Nothing]
    <3> DEFINE task == [tasks[t] EXCEPT !.pc = "wf due", !.held = Nothing]
    <3>1. tasks' = [tasks EXCEPT ![t] = task]
      BY <1>1, <2>2
    <3>2. task \in TaskStates
      BY <1>1 DEF TaskStates, Nothing
    <3>3. /\ task.pc = "wf due" /\ task.held = Nothing
          /\ task.kind = tasks[t].kind /\ task.at = tasks[t].at /\ task.skill = tasks[t].skill
          /\ task.goal = tasks[t].goal /\ task.undone = tasks[t].undone
      BY <1>1 DEF TaskStates
    <3> HIDE DEF task
    <3>4. Own(t) /\ tasks'[t] = task
      BY <1>1, <3>1, <3>2, Update
    <3> QED
      BY <1>1, <1>2, <3>3, <3>4 DEF TaskOf, ShapeOf, HeldOf, ListOf, GoalOf, Authoring
  <2> QED
    BY <2>1, <2>2 DEF InstallCards
<1>4. (\A u \in Tasks : TaskOf(u)') /\ Numbered' /\ RowsWerePromoted'
  BY <1>2, <1>3, Quiet
<1>5. Untorn'
  BY <1>1, <1>2, <1>3, StaysUntorn
<1>6. /\ kbs' \in [Workers -> [Skills -> Nat]]
      /\ kbs'[w] = tasks[t].held /\ \A v \in Workers : v # w => kbs'[v] = kbs[v]
  BY <1>1 DEF InstallCards, TypeOK, TaskStates
<1>7. TypeOK'
  BY <1>1, <1>2, <1>3, <1>6 DEF TypeOK, Own
<1>8. CardsArePromoted' /\ RoutedWasPromoted'
  BY <1>1, <1>2, <1>6 DEF IndInv, CardsArePromoted, RoutedWasPromoted, WasPromoted, HeldOf, Known
<1> QED
  BY <1>4, <1>5, <1>7, <1>8 DEF IndInv

\* Listed rows are promoted rows, among them the ones of the goal.
LEMMA ListPromotedKeeps ==
  ASSUME NEW t \in Tasks, IndInv, ListPromoted(t)
  PROVE  IndInv'
<1> DEFINE w == tasks[t].at
<1>1. /\ w \in Workers /\ tasks[t] \in TaskStates /\ tasks[t].pc = "wf due"
      /\ TypeOK /\ ShapeOf(t) /\ GoalOf(t)
  BY DEF IndInv, TypeOK, TaskOf, ShapeOf, ListPromoted
<1>2. UNCHANGED <<rows, cards, kbs, commits, promoted, overtaken, torn>>
  BY DEF ListPromoted, store, history
<1>3. CASE UNCHANGED routes /\ tasks' = [tasks EXCEPT ![t].pc = "wf listed", ![t].todo = Listed]
  <2> DEFINE task == [tasks[t] EXCEPT !.pc = "wf listed", !.todo = Listed]
  <2>1. tasks' = [tasks EXCEPT ![t] = task]
    BY <1>1, <1>3
  <2>2. task \in TaskStates
    BY <1>1 DEF TaskStates, Listed
  <2>3. /\ task.pc = "wf listed" /\ task.held = Nothing /\ task.todo = Listed
        /\ task.kind = tasks[t].kind /\ task.at = tasks[t].at /\ task.skill = tasks[t].skill
        /\ task.goal = tasks[t].goal /\ task.undone = tasks[t].undone
    BY <1>1 DEF TaskStates, ShapeOf
  <2> HIDE DEF task
  <2>4. Own(t) /\ tasks'[t] = task
    BY <1>1, <2>1, <2>2, Update
  <2>5. ShapeOf(t)' /\ HeldOf(t)'
    BY <1>1, <2>3, <2>4 DEF ShapeOf, HeldOf, Authoring
  <2>6. ListOf(t)'
    <3>1. \A s \in Skills : s \in Listed => WasPromoted(s)
      BY DEF IndInv, RowsWerePromoted, Listed
    <3> QED
      BY <1>2, <2>3, <2>4, <3>1 DEF ListOf, WasPromoted, Nothing
  <2>7. GoalOf(t)'
    BY <1>1, <1>2, <2>3, <2>4 DEF ShapeOf, GoalOf, Authoring, Listed, Nothing, Recent
  <2> QED
    BY <1>1, <1>2, <1>3, <2>3, <2>4, <2>5, <2>6, <2>7, QuietKeeps
    DEF TaskOf, store, tables, history
<1>4. CASE routes' = [routes EXCEPT ![w] = Nothing] /\ Ends(t)
  <2>1. Own(t) /\ TaskOf(t)' /\ tasks'[t].pc = "idle"
    BY <1>1, <1>4, Ended
  <2>2. (\A u \in Tasks : TaskOf(u)') /\ Numbered' /\ RowsWerePromoted'
    BY <1>2, <2>1, Quiet
  <2>3. Untorn'
    BY <1>1, <1>2, <2>1, StaysUntorn
  <2>4. /\ routes' \in [Workers -> [Skills -> Nat]]
        /\ \A v \in Workers, s \in Skills : routes'[v][s] # 0 => routes[v][s] # 0
    BY <1>1, <1>4 DEF TypeOK, Nothing
  <2>5. TypeOK'
    BY <1>1, <1>2, <2>1, <2>4 DEF TypeOK, Own
  <2>6. CardsArePromoted' /\ RoutedWasPromoted'
    BY <1>2, <2>4 DEF IndInv, CardsArePromoted, RoutedWasPromoted, WasPromoted
  <2> QED
    BY <2>2, <2>3, <2>5, <2>6 DEF IndInv
<1> QED
  BY <1>3, <1>4 DEF ListPromoted

\* What is read of a listed skill may be newer, but the goal is the content the rows hold.
LEMMA ReadSkillKeeps ==
  ASSUME NEW t \in Tasks, NEW s \in Skills, IndInv, ReadSkill(t, s)
  PROVE  IndInv'
<1>1. /\ tasks[t] \in TaskStates /\ tasks[t].pc = "wf listed" /\ s \in tasks[t].todo
      /\ TypeOK /\ ShapeOf(t) /\ ListOf(t) /\ GoalOf(t)
      /\ tasks[t].held \in [Skills -> Nat]
      /\ rows \in [Skills -> [content : Nat, delta : Nat, status : {"absent", "draft", "promoted"}]]
  BY DEF IndInv, TypeOK, TaskOf, ReadSkill, TaskStates
<1>2. /\ UNCHANGED <<rows, commits, promoted, overtaken>>
      /\ UNCHANGED <<store, tables, history>>
  BY DEF ReadSkill, store, history
<1>3. CASE tasks' = [tasks EXCEPT ![t].todo = @ \ {s}, ![t].held[s] = rows[s].content]
  <2> DEFINE held == [tasks[t].held EXCEPT ![s] = rows[s].content]
             task == [tasks[t] EXCEPT !.todo = @ \ {s}, !.held = held]
  <2>1. tasks' = [tasks EXCEPT ![t] = task]
    BY <1>1, <1>3
  <2>2. held \in [Skills -> Nat] /\ held[s] = rows[s].content
        /\ \A r \in Skills : r # s => held[r] = tasks[t].held[r]
    BY <1>1
  <2> HIDE DEF held
  <2>3. task \in TaskStates
    BY <1>1, <2>2 DEF TaskStates
  <2>4. /\ task.pc = "wf listed" /\ task.held = held /\ task.todo = tasks[t].todo \ {s}
        /\ task.kind = tasks[t].kind /\ task.at = tasks[t].at /\ task.skill = tasks[t].skill
        /\ task.goal = tasks[t].goal /\ task.undone = tasks[t].undone
    BY <1>1, <2>2 DEF TaskStates
  <2> HIDE DEF task
  <2>5. Own(t) /\ tasks'[t] = task
    BY <1>1, <2>1, <2>3, Update
  <2>6. ShapeOf(t)' /\ HeldOf(t)'
    BY <1>1, <2>4, <2>5 DEF ShapeOf, HeldOf, Authoring
  <2>7. ListOf(t)'
    BY <1>1, <1>2, <2>2, <2>4, <2>5 DEF ListOf, WasPromoted
  <2>8. GoalOf(t)'
    BY <1>1, <1>2, <2>2, <2>4, <2>5 DEF ShapeOf, GoalOf, Authoring
  <2> QED
    BY <1>1, <1>2, <2>4, <2>5, <2>6, <2>7, <2>8, QuietKeeps DEF TaskOf
<1>4. CASE tasks' = [tasks EXCEPT ![t].todo = @ \ {s},
                                  ![t].undone = @ \/ tasks[t].skill = s]
  <2> DEFINE undone == tasks[t].undone \/ tasks[t].skill = s
             task == [tasks[t] EXCEPT !.todo = @ \ {s}, !.undone = undone]
  <2>1. tasks' = [tasks EXCEPT ![t] = task]
    BY <1>1, <1>4
  <2>2. undone \in BOOLEAN
    BY <1>1 DEF TaskStates
  <2>10. (~undone => ~tasks[t].undone /\ tasks[t].skill # s)
    OBVIOUS
  <2> HIDE DEF undone
  <2>3. task \in TaskStates
    BY <1>1, <2>2 DEF TaskStates
  <2>4. /\ task.pc = "wf listed" /\ task.held = tasks[t].held /\ task.todo = tasks[t].todo \ {s}
        /\ task.kind = tasks[t].kind /\ task.at = tasks[t].at /\ task.skill = tasks[t].skill
        /\ task.goal = tasks[t].goal /\ task.undone = undone
    BY <1>1, <2>2 DEF TaskStates
  <2> HIDE DEF task
  <2>5. Own(t) /\ tasks'[t] = task
    BY <1>1, <2>1, <2>3, Update
  <2>6. ShapeOf(t)' /\ HeldOf(t)' /\ ListOf(t)'
    BY <1>1, <1>2, <2>4, <2>5 DEF ShapeOf, HeldOf, ListOf, WasPromoted, Authoring
  <2>7. GoalOf(t)'
    BY <1>1, <1>2, <2>4, <2>5, <2>10 DEF ShapeOf, GoalOf, Authoring
  <2> QED
    BY <1>1, <1>2, <2>4, <2>5, <2>6, <2>7, QuietKeeps DEF TaskOf
<1> QED
  BY <1>3, <1>4 DEF ReadSkill

\* Installing what was read: the goal is routed to.
LEMMA InstallRoutesKeeps ==
  ASSUME NEW t \in Tasks, IndInv, InstallRoutes(t)
  PROVE  /\ IndInv'
         /\ tasks[t].goal # 0 =>
              IF tasks[t].undone
              THEN \/ routes'[tasks[t].at][tasks[t].skill] = 0
                   \/ routes'[tasks[t].at][tasks[t].skill] >= tasks[t].goal
              ELSE routes'[tasks[t].at][tasks[t].skill] = tasks[t].goal
<1> DEFINE w == tasks[t].at
<1>1. /\ w \in Workers /\ tasks[t] \in TaskStates /\ tasks[t].pc = "wf listed"
      /\ TypeOK /\ ShapeOf(t) /\ ListOf(t) /\ GoalOf(t) /\ tasks[t].todo = {}
  BY DEF IndInv, TypeOK, TaskOf, ShapeOf, InstallRoutes
<1>2. UNCHANGED <<rows, cards, kbs, commits, promoted, overtaken, torn>>
  BY DEF InstallRoutes, store, history
<1>3. Own(t) /\ TaskOf(t)' /\ tasks'[t].pc # "read"
  BY <1>1, Ended DEF InstallRoutes
<1>4. (\A u \in Tasks : TaskOf(u)') /\ Numbered' /\ RowsWerePromoted'
  BY <1>2, <1>3, Quiet
<1>5. Untorn'
  BY <1>1, <1>2, <1>3, StaysUntorn
<1>6. /\ routes' \in [Workers -> [Skills -> Nat]]
      /\ routes'[w] = tasks[t].held /\ \A v \in Workers : v # w => routes'[v] = routes[v]
  BY <1>1 DEF InstallRoutes, TypeOK, TaskStates
<1>7. TypeOK'
  BY <1>1, <1>2, <1>3, <1>6 DEF TypeOK, Own
<1>8. CardsArePromoted' /\ RoutedWasPromoted'
  <2>1. \A v \in Workers, s \in Skills : routes'[v][s] # 0 => WasPromoted(s)
    BY <1>1, <1>6 DEF IndInv, RoutedWasPromoted, ListOf
  <2> QED
    BY <1>2, <2>1 DEF IndInv, CardsArePromoted, RoutedWasPromoted, WasPromoted
<1>9. tasks[t].goal # 0 =>
        IF tasks[t].undone
        THEN routes'[w][tasks[t].skill] = 0 \/ routes'[w][tasks[t].skill] >= tasks[t].goal
        ELSE routes'[w][tasks[t].skill] = tasks[t].goal
  BY <1>1, <1>6 DEF GoalOf, Recent
<1>10. IndInv'
  BY <1>4, <1>5, <1>7, <1>8 DEF IndInv
<1> QED
  BY <1>9, <1>10

RowTypes == [content : Nat, delta : Nat, status : {"absent", "draft", "promoted"}]

\* write_artifacts leaves drafts with content, and touches no other skill.
LEMMA WriteKeeps ==
  ASSUME NEW s \in Skills, IndInv, NEW deltas \in SUBSET Nat, Write(s, deltas)
  PROVE  /\ rows' \in [Skills -> RowTypes] /\ commits' \in [Skills -> Nat]
         /\ rows'[s].content = commits[s] + 1 /\ rows'[s].status = "draft"
         /\ commits'[s] = commits[s] + 1
         /\ \A r \in Skills : r # s => rows'[r] = rows[r] /\ commits'[r] = commits[r]
         /\ overtaken \subseteq overtaken' /\ overtaken' \subseteq Skills \X Nat
         /\ Meets(s, "promoted") => <<s, rows'[s].delta>> \in promoted \cup overtaken'
<1>1. PICK d \in deltas :
        /\ rows' = [rows EXCEPT ![s] =
             [content |-> commits[s] + 1, delta |-> d, status |-> "draft"]]
        /\ overtaken' =
             IF Meets(s, "promoted") THEN overtaken \cup ({<<s, d>>} \ promoted) ELSE overtaken
  BY DEF Write
<1>2. rows \in [Skills -> RowTypes] /\ commits[s] + 1 \in Nat /\ commits \in [Skills -> Nat]
      /\ d \in Nat /\ overtaken \subseteq Skills \X Nat
  BY DEF IndInv, TypeOK, RowTypes
<1>3. [content |-> commits[s] + 1, delta |-> d, status |-> "draft"] \in RowTypes
  BY <1>2 DEF RowTypes
<1>4. commits' \in [Skills -> Nat] /\ commits'[s] = commits[s] + 1
      /\ \A r \in Skills : r # s => commits'[r] = commits[r]
  BY <1>2 DEF Write
<1>5. rows' \in [Skills -> RowTypes] /\ rows'[s].delta = d
      /\ rows'[s].content = commits[s] + 1 /\ rows'[s].status = "draft"
      /\ \A r \in Skills : r # s => rows'[r] = rows[r]
  BY <1>1, <1>2, <1>3
<1> QED
  BY <1>1, <1>2, <1>4, <1>5

\* What another request does to the rows of a skill shows in the tasks at that skill.
LEMMA Undone ==
  ASSUME TypeOK, NEW s \in Skills, NEW u \in Tasks, tasks'[u] = Undo(s)[u]
  PROVE  /\ tasks'[u] \in TaskStates
         /\ tasks'[u].pc = tasks[u].pc /\ tasks'[u].kind = tasks[u].kind
         /\ tasks'[u].at = tasks[u].at /\ tasks'[u].skill = tasks[u].skill
         /\ tasks'[u].held = tasks[u].held /\ tasks'[u].todo = tasks[u].todo
         /\ tasks'[u].goal = tasks[u].goal
         /\ tasks[u].skill = s /\ tasks[u].goal # 0 => tasks'[u].undone
         /\ tasks[u].skill # s => tasks'[u] = tasks[u]
<1>1. tasks[u] \in TaskStates
  BY DEF TypeOK
<1>2. [tasks[u] EXCEPT !.undone = TRUE] \in TaskStates
  BY <1>1 DEF TaskStates
<1> DEFINE task == [tasks[u] EXCEPT !.undone = TRUE]
<1>3. tasks'[u] = IF tasks[u].skill = s /\ tasks[u].goal # 0 THEN task ELSE tasks[u]
  BY DEF Undo
<1>4. /\ task.pc = tasks[u].pc /\ task.kind = tasks[u].kind /\ task.at = tasks[u].at
      /\ task.skill = tasks[u].skill /\ task.held = tasks[u].held
      /\ task.todo = tasks[u].todo /\ task.goal = tasks[u].goal /\ task.undone
  BY <1>1 DEF TaskStates
<1> HIDE DEF task
<1> QED
  BY <1>1, <1>2, <1>3, <1>4 DEF task

\* Such a task knows it, and will route to nothing older.
LEMMA Rewritten ==
  ASSUME NEW s \in Skills, NEW u \in Tasks, IndInv, tasks'[u] = Undo(s)[u],
         UNCHANGED promoted, overtaken \subseteq overtaken',
         \A r \in Skills : r # s => rows'[r] = rows[r] /\ commits'[r] = commits[r],
         rows'[s].content = 0 \/ rows'[s].content >= commits[s],
         rows'[s].content \in Nat, commits[s] \in Nat, commits'[s] \in Nat,
         commits'[s] >= commits[s],
         tasks[u].pc = "promoted" /\ tasks[u].skill = s /\ rows'[s].delta # 0
           => <<s, rows'[s].delta>> \in Known'
  PROVE  TaskOf(u)'
<1>1. /\ TypeOK /\ TaskOf(u) /\ ShapeOf(u) /\ HeldOf(u) /\ ListOf(u) /\ GoalOf(u)
      /\ tasks[u] \in TaskStates
  BY DEF IndInv, TypeOK, TaskOf
<1>2. /\ tasks'[u].pc = tasks[u].pc /\ tasks'[u].kind = tasks[u].kind
      /\ tasks'[u].at = tasks[u].at /\ tasks'[u].skill = tasks[u].skill
      /\ tasks'[u].held = tasks[u].held /\ tasks'[u].todo = tasks[u].todo
      /\ tasks'[u].goal = tasks[u].goal
      /\ tasks[u].skill = s /\ tasks[u].goal # 0 => tasks'[u].undone
      /\ tasks[u].skill # s => tasks'[u] = tasks[u]
  BY <1>1, Undone
<1>3. CASE tasks[u].skill # s
  <2>1. Authoring(u) => /\ rows'[tasks[u].skill] = rows[tasks[u].skill]
                        /\ commits'[tasks[u].skill] = commits[tasks[u].skill]
    BY <1>1, <1>3 DEF ShapeOf
  <2> QED
    BY <1>2, <1>3, <2>1, Untouched
<1>4. CASE tasks[u].skill = s
  <2>1. ShapeOf(u)' /\ ListOf(u)'
    BY <1>1, <1>2 DEF ShapeOf, ListOf, WasPromoted, Authoring
  <2>2. HeldOf(u)'
    <3>1. Known \subseteq Known'
      BY DEF Known
    <3> QED
      BY <1>1, <1>2, <1>4, <3>1 DEF HeldOf
  <2>3. GoalOf(u)'
    <3>1. CASE tasks[u].goal = 0
      BY <1>2, <3>1 DEF GoalOf
    <3>2. CASE tasks[u].goal # 0
      <4>1. tasks[u].goal \in Nat /\ commits[s] >= tasks[u].goal
        BY <1>1, <1>4, <3>2 DEF GoalOf, TaskStates
      <4>2. commits'[s] >= tasks[u].goal /\ Recent(tasks[u].goal, rows'[s].content)
        BY <4>1 DEF Recent
      <4> QED
        BY <1>1, <1>2, <1>4, <3>2, <4>2 DEF GoalOf, Authoring
    <3> QED
      BY <3>1, <3>2
  <2> QED
    BY <2>1, <2>2, <2>3 DEF TaskOf
<1> QED
  BY <1>3, <1>4

\* A commit writes drafts, over those of another session too.
LEMMA CommitKeeps ==
  ASSUME NEW t \in Tasks, NEW w \in Workers, NEW s \in Skills, NEW kind \in {"rest", "mcp"},
         IndInv, Commit(t, w, s, kind)
  PROVE  IndInv'
<1> DEFINE task == [Idle EXCEPT !.pc = "committed", !.kind = kind, !.at = w, !.skill = s]
<1>1. /\ tasks[t].pc = "idle" /\ tasks' = [Undo(s) EXCEPT ![t] = task] /\ TypeOK
  BY DEF Commit, IndInv
<1>2. UNCHANGED <<cards, routes, kbs, promoted, torn>>
  BY DEF Commit, tables
<1>3. task \in TaskStates /\ task.pc = "committed" /\ task.kind = kind /\ task.at = w
      /\ task.skill = s /\ task.goal = 0
  BY DEF Idle, TaskStates, Nothing
<1> HIDE DEF task
<1>4. DOMAIN Undo(s) = Tasks
  BY DEF Undo
<1>5. tasks'[t] = task /\ \A u \in Tasks : u # t => tasks'[u] = Undo(s)[u]
  BY <1>1, <1>4
<1>6. rows[s].delta \in Nat /\ commits[s] \in Nat /\ commits[s] + 1 \in Nat
  BY <1>1 DEF TypeOK
<1>7. /\ rows' \in [Skills -> RowTypes] /\ commits' \in [Skills -> Nat]
      /\ rows'[s].content = commits[s] + 1 /\ rows'[s].status = "draft"
      /\ commits'[s] = commits[s] + 1
      /\ \A r \in Skills : r # s => rows'[r] = rows[r] /\ commits'[r] = commits[r]
      /\ overtaken \subseteq overtaken' /\ overtaken' \subseteq Skills \X Nat
      /\ Meets(s, "promoted") => <<s, rows'[s].delta>> \in promoted \cup overtaken'
  BY <1>6, WriteKeeps DEF Commit
<1>8. tasks' \in [Tasks -> TaskStates]
  <2>1. \A u \in Tasks : tasks'[u] \in TaskStates
    BY <1>1, <1>3, <1>5, Undone
  <2> QED
    BY <1>1, <1>4, <2>1
<1>9. TypeOK'
  BY <1>1, <1>2, <1>7, <1>8 DEF TypeOK, RowTypes
<1>10. \A u \in Tasks : TaskOf(u)'
  <2>1. TaskOf(t)'
    BY <1>3, <1>5 DEF TaskOf, ShapeOf, HeldOf, ListOf, GoalOf, Authoring
  <2>2. ASSUME NEW u \in Tasks, u # t PROVE TaskOf(u)'
    <3>1. tasks[u].pc = "promoted" /\ tasks[u].skill = s => <<s, rows'[s].delta>> \in Known'
      BY <1>2, <1>7 DEF Meets, Known
    <3>2. commits'[s] \in Nat /\ commits'[s] >= commits[s]
          /\ rows'[s].content \in Nat /\ rows'[s].content >= commits[s]
      BY <1>6, <1>7
    <3> QED
      BY <1>2, <1>5, <1>6, <1>7, <2>2, <3>1, <3>2, Rewritten
  <2> QED
    BY <2>1, <2>2
<1>11. \A u \in Tasks : u # t => tasks'[u].pc = tasks[u].pc /\ tasks'[u].skill = tasks[u].skill
  BY <1>1, <1>5, Undone
<1>12. Untorn'
  <2>1. \A r \in Skills : rows'[r].content = 0 => r # s /\ rows[r].content = 0
    BY <1>6, <1>7
  <2>2. \A u \in Tasks : tasks[u].pc = "deleted" => u # t
    BY <1>1
  <2>3. \A u \in Tasks : tasks'[u].pc = "read" => u # t
    BY <1>3, <1>5
  <2> QED
    BY <1>2, <1>11, <2>1, <2>2, <2>3 DEF IndInv, Untorn
<1>13. Numbered'
  BY <1>6, <1>7 DEF IndInv, Numbered
<1>14. RowsWerePromoted' /\ CardsArePromoted' /\ RoutedWasPromoted'
  BY <1>2, <1>7 DEF IndInv, RowsWerePromoted, CardsArePromoted, RoutedWasPromoted, WasPromoted
<1> QED
  BY <1>9, <1>10, <1>12, <1>13, <1>14 DEF IndInv

\* A backfill writes drafts over the rows of anyone.
LEMMA BackfillKeeps ==
  ASSUME NEW s \in Skills, IndInv, Backfill(s)
  PROVE  IndInv'
<1>1. /\ tasks' = Undo(s)
      /\ UNCHANGED <<cards, routes, kbs, promoted, torn>> /\ TypeOK
  BY DEF Backfill, tables, IndInv
<1>2. rows[s].delta \in Nat /\ commits[s] \in Nat
  BY <1>1 DEF TypeOK
<1>3. /\ rows' \in [Skills -> RowTypes] /\ commits' \in [Skills -> Nat]
      /\ rows'[s].content = commits[s] + 1 /\ rows'[s].status = "draft"
      /\ commits'[s] = commits[s] + 1
      /\ \A r \in Skills : r # s => rows'[r] = rows[r] /\ commits'[r] = commits[r]
      /\ overtaken \subseteq overtaken' /\ overtaken' \subseteq Skills \X Nat
      /\ Meets(s, "promoted") => <<s, rows'[s].delta>> \in promoted \cup overtaken'
  BY <1>2, WriteKeeps DEF Backfill
<1>4. \A u \in Tasks : /\ tasks'[u] \in TaskStates
                       /\ tasks'[u].pc = tasks[u].pc /\ tasks'[u].skill = tasks[u].skill
  BY <1>1, Undone
<1>5. tasks' \in [Tasks -> TaskStates]
  BY <1>1, <1>4 DEF Undo
<1>6. TypeOK'
  BY <1>1, <1>3, <1>5 DEF TypeOK, RowTypes
<1>7. ASSUME NEW u \in Tasks PROVE TaskOf(u)'
  <2>1. tasks[u].pc = "promoted" /\ tasks[u].skill = s => <<s, rows'[s].delta>> \in Known'
    BY <1>1, <1>3 DEF Meets, Known
  <2>2. commits'[s] \in Nat /\ commits'[s] >= commits[s]
        /\ rows'[s].content \in Nat /\ rows'[s].content >= commits[s]
    BY <1>2, <1>3
  <2> QED
    BY <1>1, <1>2, <1>3, <2>1, <2>2, Rewritten
<1>8. Untorn'
  <2>1. \A r \in Skills : rows'[r].content = 0 => r # s /\ rows[r].content = 0
    BY <1>2, <1>3
  <2> QED
    BY <1>1, <1>4, <2>1 DEF IndInv, Untorn
<1>9. Numbered'
  BY <1>2, <1>3 DEF IndInv, Numbered
<1>10. RowsWerePromoted' /\ CardsArePromoted' /\ RoutedWasPromoted'
  BY <1>1, <1>3 DEF IndInv, RowsWerePromoted, CardsArePromoted, RoutedWasPromoted, WasPromoted
<1> QED
  BY <1>6, <1>7, <1>8, <1>9, <1>10 DEF IndInv

\* A promotion of the rows as they are.
LEMMA PromoteKeeps ==
  ASSUME NEW t \in Tasks, IndInv, Promote(t)
  PROVE  IndInv'
<1> DEFINE s == tasks[t].skill
           row == [rows[s] EXCEPT !.status = "promoted"]
           task == [tasks[t] EXCEPT !.pc = "promoted", !.goal = rows[s].content]
<1>1. /\ Authoring(t) /\ s \in Skills /\ tasks[t].pc = "committed" /\ tasks[t] \in TaskStates
      /\ rows[s].content # 0 /\ rows[s] \in RowTypes /\ rows \in [Skills -> RowTypes]
      /\ ShapeOf(t) /\ TypeOK
  BY DEF IndInv, TypeOK, TaskOf, ShapeOf, Promote, RowTypes
<1>2. UNCHANGED <<cards, routes, kbs, commits, overtaken, torn>>
  BY DEF Promote, tables
<1>3. /\ promoted' = promoted \cup {<<s, rows[s].content>>, <<s, rows[s].delta>>}
      /\ rows' = [rows EXCEPT ![s] = row] /\ tasks' = [tasks EXCEPT ![t] = task]
  BY <1>1 DEF Promote, TypeOK
<1>4. /\ row \in RowTypes /\ row.status = "promoted"
      /\ row.content = rows[s].content /\ row.delta = rows[s].delta
  BY <1>1 DEF RowTypes
<1>5. /\ task \in TaskStates
      /\ task.pc = "promoted" /\ task.goal = rows[s].content
      /\ task.kind = tasks[t].kind /\ task.at = tasks[t].at /\ task.skill = s
      /\ task.undone = tasks[t].undone
  BY <1>1 DEF TaskStates, RowTypes
<1> HIDE DEF row, task
<1>6. /\ rows' \in [Skills -> RowTypes] /\ rows'[s] = row
      /\ \A r \in Skills : r # s => rows'[r] = rows[r]
  BY <1>1, <1>3, <1>4
<1>7. Own(t) /\ tasks'[t] = task
  BY <1>1, <1>3, <1>5, Update
<1>8. promoted' \subseteq Skills \X Nat
  BY <1>1, <1>3 DEF TypeOK, RowTypes
<1>9. TypeOK'
  BY <1>1, <1>2, <1>6, <1>7, <1>8 DEF TypeOK, Own, RowTypes
<1>10. \A u \in Tasks : TaskOf(u)'
  <2>1. TaskOf(t)'
    <3>1. ShapeOf(t)' /\ ListOf(t)'
      BY <1>1, <1>5, <1>7 DEF ShapeOf, ListOf, Authoring
    <3>2. HeldOf(t)'
      <4>1. /\ tasks'[t].skill = s /\ tasks'[t].pc = "promoted"
            /\ rows'[s].delta = rows[s].delta /\ <<s, rows[s].delta>> \in promoted'
        BY <1>3, <1>4, <1>5, <1>6, <1>7
      <4> QED
        BY <4>1 DEF HeldOf, Known
    <3>3. GoalOf(t)'
      <4>1. /\ tasks'[t].skill = s /\ tasks'[t].pc = "promoted"
            /\ tasks'[t].kind = tasks[t].kind /\ tasks'[t].goal = rows[s].content
            /\ rows'[s].content = rows[s].content /\ rows'[s].status = "promoted"
        BY <1>4, <1>5, <1>6, <1>7
      <4>2. rows[s].content \in Nat /\ commits'[s] >= rows[s].content
        BY <1>1, <1>2 DEF IndInv, Numbered, RowTypes
      <4> QED
        BY <1>1, <4>1, <4>2 DEF GoalOf, Authoring, Recent
    <3> QED
      BY <3>1, <3>2, <3>3 DEF TaskOf
  <2>2. ASSUME NEW u \in Tasks, u # t PROVE TaskOf(u)'
    <3>1. \A r \in Skills :
            /\ rows'[r].content = rows[r].content /\ rows'[r].delta = rows[r].delta
            /\ rows[r].status = "promoted" => rows'[r].status = "promoted"
      BY <1>4, <1>6
    <3>2. Authoring(u) => tasks[u].skill \in Skills
      BY DEF IndInv, TaskOf, ShapeOf
    <3> QED
      BY <1>2, <1>3, <1>7, <2>2, <3>1, <3>2, Untouched DEF Own
  <2> QED
    BY <2>1, <2>2
<1>11. \A u \in Tasks : "deleted" = tasks[u].pc \/ "read" = tasks'[u].pc => tasks'[u] = tasks[u]
  BY <1>1, <1>5, <1>7 DEF Own
<1>12. Numbered'
  BY <1>2, <1>4, <1>6 DEF IndInv, Numbered
<1>13. \A r \in Skills : rows'[r].content = rows[r].content
  BY <1>4, <1>6
<1>14. Untorn'
  BY <1>2, <1>11, <1>13 DEF IndInv, Untorn
<1>15. /\ \E e \in promoted' : e[1] = s
       /\ \A r \in Skills : WasPromoted(r) => \E e \in promoted' : e[1] = r
  <2>1. <<s, rows[s].content>> \in promoted' /\ promoted \subseteq promoted'
    BY <1>3
  <2>2. <<s, rows[s].content>>[1] = s
    OBVIOUS
  <2> QED
    BY <2>1, <2>2 DEF WasPromoted
<1>16. RowsWerePromoted' /\ RoutedWasPromoted'
  <2>1. \A r \in Skills : rows'[r].status = "promoted" => \E e \in promoted' : e[1] = r
    BY <1>6, <1>15 DEF IndInv, RowsWerePromoted
  <2>2. \A v \in Workers, r \in Skills : routes'[v][r] # 0 => \E e \in promoted' : e[1] = r
    BY <1>2, <1>15 DEF IndInv, RoutedWasPromoted
  <2> QED
    BY <2>1, <2>2 DEF RowsWerePromoted, RoutedWasPromoted, WasPromoted
<1>17. CardsArePromoted'
  BY <1>2, <1>3 DEF IndInv, CardsArePromoted
<1> QED
  BY <1>9, <1>10, <1>12, <1>14, <1>16, <1>17 DEF IndInv

\* The rows go first, and the deletion is bound to remove the card.
LEMMA DeleteRowsKeeps ==
  ASSUME NEW t \in Tasks, NEW w \in Workers, NEW s \in Skills, IndInv, DeleteRows(t, w, s)
  PROVE  IndInv'
<1> DEFINE task == [Idle EXCEPT !.pc = "deleted", !.kind = "delete", !.at = w, !.skill = s]
<1>1. /\ tasks' = [Undo(s) EXCEPT ![t] = task] /\ tasks[t].pc = "idle" /\ TypeOK
      /\ torn' = IF Meets(s, "read") THEN torn \cup {s} ELSE torn
      /\ UNCHANGED <<cards, routes, kbs, commits, promoted, overtaken>>
  BY DEF DeleteRows, tables, IndInv
<1>2. /\ rows' \in [Skills -> RowTypes] /\ rows'[s] = NoRows
      /\ rows'[s].content = 0 /\ rows'[s].delta = 0 /\ rows'[s].status = "absent"
      /\ \A r \in Skills : r # s => rows'[r] = rows[r]
  BY <1>1 DEF DeleteRows, TypeOK, RowTypes, NoRows
<1>3. /\ task \in TaskStates /\ task.pc = "deleted" /\ task.kind = "delete" /\ task.at = w
      /\ task.skill = s /\ task.goal = 0
  BY DEF Idle, TaskStates, Nothing
<1> HIDE DEF task
<1>4. DOMAIN Undo(s) = Tasks
  BY DEF Undo
<1>5. tasks'[t] = task /\ \A u \in Tasks : u # t => tasks'[u] = Undo(s)[u]
  BY <1>1, <1>4
<1>6. \A u \in Tasks : tasks'[u] \in TaskStates
  BY <1>1, <1>3, <1>5, Undone
<1>7. TypeOK'
  BY <1>1, <1>2, <1>4, <1>6 DEF TypeOK, RowTypes
<1>8. ASSUME NEW u \in Tasks PROVE TaskOf(u)'
  <2>1. CASE u = t
    BY <1>3, <1>5, <2>1 DEF TaskOf, ShapeOf, HeldOf, ListOf, GoalOf, Authoring
  <2>2. CASE u # t
    <3>1. /\ commits[s] \in Nat /\ commits'[s] \in Nat /\ commits'[s] >= commits[s]
          /\ rows'[s].content \in Nat
      BY <1>1, <1>2 DEF TypeOK
    <3>3. tasks'[u] = Undo(s)[u] /\ UNCHANGED promoted /\ overtaken \subseteq overtaken'
      BY <1>1, <1>5, <2>2
    <3>2. \A r \in Skills : r # s => rows'[r] = rows[r] /\ commits'[r] = commits[r]
      BY <1>1, <1>2
    <3> QED
      BY <1>2, <3>1, <3>2, <3>3, Rewritten
  <2> QED
    BY <2>1, <2>2
<1>9. \A u \in Tasks : u # t => tasks'[u].pc = tasks[u].pc /\ tasks'[u].skill = tasks[u].skill
  BY <1>1, <1>5, Undone
<1>10. Numbered'
  BY <1>1, <1>2 DEF IndInv, Numbered, TypeOK
<1>11. Untorn'
  <2>1. \A u \in Tasks : tasks'[u].pc = "read" => u # t
    BY <1>3, <1>5
  <2>2. ASSUME NEW r \in Skills, r \notin torn'
        PROVE  /\ cards'[r] # 0 /\ rows'[r].content = 0
                    => \E u \in Tasks : tasks'[u].pc = "deleted" /\ tasks'[u].skill = r
               /\ \A u \in Tasks : tasks'[u].pc = "read" /\ tasks'[u].skill = r
                    => rows'[r].content # 0
    <3>1. r \notin torn
      BY <1>1, <2>2
    <3>2. CASE r = s
      <4>1. ~Meets(s, "read")
        BY <1>1, <2>2, <3>2
      <4> QED
        BY <1>3, <1>5, <1>9, <2>1, <3>2, <4>1 DEF Meets
    <3>3. CASE r # s
      <4>1. \A u \in Tasks : tasks[u].pc = "deleted" => u # t
        BY <1>1
      <4> QED
        BY <1>1, <1>2, <1>9, <2>1, <3>1, <3>3, <4>1 DEF IndInv, Untorn
    <3> QED
      BY <3>2, <3>3
  <2> QED
    BY <2>2 DEF Untorn
<1>12. RowsWerePromoted' /\ CardsArePromoted' /\ RoutedWasPromoted'
  BY <1>1, <1>2
  DEF IndInv, RowsWerePromoted, CardsArePromoted, RoutedWasPromoted, WasPromoted
<1> QED
  BY <1>7, <1>8, <1>10, <1>11, <1>12 DEF IndInv

\* The card goes, or the deletion has failed half way.
LEMMA DeleteCardKeeps ==
  ASSUME NEW t \in Tasks, IndInv, DeleteCard(t)
  PROVE  IndInv'
<1> DEFINE s == tasks[t].skill
<1>1. /\ s \in Skills /\ tasks[t].pc = "deleted" /\ ~Authoring(t) /\ TypeOK
      /\ ShapeOf(t) /\ GoalOf(t) /\ To(t, "kb due")
      /\ UNCHANGED <<rows, routes, kbs, commits, promoted, overtaken>>
  BY DEF IndInv, TaskOf, ShapeOf, Authoring, DeleteCard, tables
<1>2. Own(t) /\ Same(t) /\ tasks'[t].pc = "kb due" /\ tasks'[t].goal = tasks[t].goal
      /\ tasks'[t].undone = tasks[t].undone
  BY <1>1, Goes DEF Pcs
<1>3. TaskOf(t)' /\ ~Authoring(t)'
  BY <1>1, <1>2 DEF Same, TaskOf, ShapeOf, HeldOf, ListOf, GoalOf, Authoring
<1>4. (\A u \in Tasks : TaskOf(u)') /\ Numbered' /\ RowsWerePromoted'
  BY <1>1, <1>2, <1>3, Quiet
<1>5. /\ cards' \in [Skills -> Nat] /\ torn' \subseteq Skills
      /\ torn \subseteq torn' /\ (s \in torn' \/ cards'[s] = 0)
      /\ \A r \in Skills : cards'[r] # 0 => cards'[r] = cards[r]
  <2>1. CASE cards' = [cards EXCEPT ![s] = 0] /\ UNCHANGED torn
    BY <1>1, <2>1 DEF TypeOK
  <2>2. CASE torn' = torn \cup {s} /\ UNCHANGED cards
    BY <1>1, <2>2 DEF TypeOK
  <2> QED
    BY <2>1, <2>2 DEF DeleteCard
<1>6. TypeOK'
  BY <1>1, <1>2, <1>5 DEF TypeOK, Own
<1>7. \A u \in Tasks : tasks[u].skill # s => tasks'[u] = tasks[u]
  BY <1>2 DEF Own
<1>8. Untorn'
  <2>1. ASSUME NEW r \in Skills, r \notin torn', cards'[r] # 0, rows'[r].content = 0
        PROVE  \E u \in Tasks : tasks'[u].pc = "deleted" /\ tasks'[u].skill = r
    <3>1. r # s /\ r \notin torn /\ cards[r] # 0 /\ rows[r].content = 0
      BY <1>1, <1>5, <2>1
    <3> QED
      BY <1>7, <3>1 DEF IndInv, Untorn
  <2>2. ASSUME NEW r \in Skills, r \notin torn', NEW u \in Tasks,
               tasks'[u].pc = "read", tasks'[u].skill = r
        PROVE  rows'[r].content # 0
    <3>1. tasks'[u] = tasks[u] /\ r \notin torn
      BY <1>2, <1>5, <2>2 DEF Own
    <3> QED
      BY <1>1, <2>2, <3>1 DEF IndInv, Untorn
  <2> QED
    BY <2>1, <2>2 DEF Untorn
<1>9. CardsArePromoted' /\ RoutedWasPromoted'
  BY <1>1, <1>5 DEF IndInv, CardsArePromoted, RoutedWasPromoted, WasPromoted
<1> QED
  BY <1>4, <1>6, <1>8, <1>9 DEF IndInv

\* A restart forgets requests; deletions among them have failed half way.
LEMMA RestartKeeps ==
  ASSUME NEW t \in Tasks, NEW w \in Workers, IndInv, Restart(t, w)
  PROVE  IndInv'
<1> DEFINE task == [Idle EXCEPT !.pc = "kb due", !.kind = "start", !.at = w]
<1>1. /\ tasks' = [u \in Tasks |->
              IF u = t THEN task ELSE IF tasks[u].at = w THEN Idle ELSE tasks[u]]
      /\ tasks[t].at = w \/ tasks[t].pc = "idle"
      /\ torn' = torn \cup {s \in Skills : \E u \in Tasks :
                     tasks[u].at = w /\ tasks[u].skill = s /\ tasks[u].pc = "deleted"}
      /\ UNCHANGED <<rows, cards, commits, promoted, overtaken>> /\ TypeOK
  BY DEF Restart, store, IndInv
<1>2. /\ task \in TaskStates /\ task.pc = "kb due" /\ task.kind = "start" /\ task.at = w
      /\ task.skill = NoSkill /\ task.goal = 0
  BY DEF Idle, TaskStates, Nothing
<1>3. /\ Idle \in TaskStates /\ Idle.pc = "idle" /\ Idle.kind = "none"
      /\ Idle.skill = NoSkill /\ Idle.goal = 0
  BY DEF Idle, TaskStates, Nothing
<1> HIDE DEF task
<1>4. \A u \in Tasks : tasks'[u] \in {task, Idle} \/ tasks'[u] = tasks[u]
  BY <1>1
<1>5. tasks' \in [Tasks -> TaskStates]
  BY <1>1, <1>2, <1>3 DEF TypeOK
<1>6. /\ routes' \in [Workers -> [Skills -> Nat]] /\ kbs' \in [Workers -> [Skills -> Nat]]
      /\ \A v \in Workers, s \in Skills :
           /\ routes'[v][s] # 0 => routes[v][s] # 0
           /\ kbs'[v][s] # 0 => kbs'[v][s] = kbs[v][s]
  BY <1>1 DEF Restart, TypeOK, Nothing
<1>7. TypeOK'
  BY <1>1, <1>5, <1>6 DEF TypeOK
<1>8. ASSUME NEW u \in Tasks PROVE TaskOf(u)'
  <2>1. CASE tasks'[u] = tasks[u]
    BY <1>1, <2>1, Untouched
  <2>2. CASE tasks'[u] = task
    BY <1>2, <2>2 DEF TaskOf, ShapeOf, HeldOf, ListOf, GoalOf, Authoring
  <2>3. CASE tasks'[u] = Idle
    BY <1>3, <2>3 DEF TaskOf, ShapeOf, HeldOf, ListOf, GoalOf, Authoring
  <2> QED
    BY <1>4, <2>1, <2>2, <2>3
<1>9. \A u \in Tasks : tasks'[u].pc = "read" => tasks'[u] = tasks[u]
  BY <1>2, <1>3, <1>4
<1>10. Numbered'
  BY <1>1 DEF IndInv, Numbered
<1>11. Untorn'
  <2>1. ASSUME NEW u \in Tasks, tasks[u].pc = "deleted", tasks[u].skill \notin torn'
        PROVE  tasks'[u] = tasks[u]
    <3>1. tasks[u].at # w
      BY <1>1, <2>1 DEF IndInv, TaskOf, ShapeOf
    <3> QED
      BY <1>1, <2>1, <3>1
  <2> QED
    BY <1>1, <1>9, <2>1 DEF IndInv, Untorn
<1>12. RowsWerePromoted' /\ CardsArePromoted' /\ RoutedWasPromoted'
  BY <1>1, <1>6 DEF IndInv, RowsWerePromoted, CardsArePromoted, RoutedWasPromoted, WasPromoted
<1> QED
  BY <1>7, <1>8, <1>10, <1>11, <1>12 DEF IndInv

----------------------------------------------------------------------------
(* The theorems. *)

\* The invariant holds at the start.
LEMMA Starts == Init => IndInv
<1> SUFFICES ASSUME Init PROVE IndInv
  OBVIOUS
<1>1. /\ \A t \in Tasks : tasks[t] = Idle
      /\ \A s \in Skills : rows[s] = NoRows /\ cards[s] = 0
      /\ \A w \in Workers, s \in Skills : routes[w][s] = 0 /\ kbs[w][s] = 0
  BY DEF Init, Nothing
<1>2. /\ Idle \in TaskStates /\ Idle.pc = "idle" /\ Idle.kind = "none"
      /\ Idle.skill = NoSkill /\ Idle.goal = 0
  BY DEF Idle, TaskStates, Nothing
<1>3. NoRows \in RowTypes /\ NoRows.content = 0 /\ NoRows.status = "absent"
  BY DEF NoRows, RowTypes
<1>4. TypeOK
  BY <1>2, <1>3 DEF Init, TypeOK, Nothing, RowTypes
<1>5. \A t \in Tasks : TaskOf(t)
  BY <1>1, <1>2 DEF TaskOf, ShapeOf, HeldOf, ListOf, GoalOf, Authoring
<1>6. Numbered /\ Untorn
  BY <1>1, <1>2, <1>3 DEF Init, Nothing, NoRows, Numbered, Untorn
<1>7. RowsWerePromoted /\ CardsArePromoted /\ RoutedWasPromoted
  BY <1>1, <1>3 DEF RowsWerePromoted, CardsArePromoted, RoutedWasPromoted
<1> QED
  BY <1>4, <1>5, <1>6, <1>7 DEF IndInv

\* Every step preserves the invariant.
LEMMA StepKeeps == IndInv /\ [Next]_vars => IndInv'
<1> SUFFICES ASSUME IndInv, [Next]_vars PROVE IndInv'
  OBVIOUS
<1>1. CASE Author
  BY <1>1, CommitKeeps, PromoteKeeps, ReadDeltaKeeps, RegisterKeeps, VerifyKeeps, DeclineKeeps
  DEF Author
<1>2. CASE Remove
  BY <1>2, DeleteRowsKeeps, DeleteCardKeeps DEF Remove
<1>3. CASE Load
  BY <1>3, ListCardsKeeps, InstallCardsKeeps, ListPromotedKeeps, ReadSkillKeeps,
     InstallRoutesKeeps, RestartKeeps
  DEF Load
<1>4. CASE \E s \in Skills : Backfill(s)
  BY <1>4, BackfillKeeps
<1>5. CASE UNCHANGED vars
  <2>1. UNCHANGED <<rows, cards, routes, kbs, tasks, commits, promoted, overtaken, torn>>
    BY <1>5 DEF vars
  <2>2. \A t \in Tasks : TaskOf(t)'
    BY <2>1, Untouched
  <2>3. TypeOK'
    BY <2>1 DEF IndInv, TypeOK
  <2>4. Numbered' /\ Untorn'
    BY <2>1 DEF IndInv, Numbered, Untorn
  <2>5. RowsWerePromoted' /\ CardsArePromoted' /\ RoutedWasPromoted'
    BY <2>1 DEF IndInv, RowsWerePromoted, CardsArePromoted, RoutedWasPromoted, WasPromoted
  <2> QED
    BY <2>2, <2>3, <2>4, <2>5 DEF IndInv
<1> QED
  BY <1>1, <1>2, <1>3, <1>4, <1>5 DEF Next

\* The invariant holds in every behaviour.
THEOREM Inductive == Spec => []IndInv
BY Starts, StepKeeps, PTL DEF Spec

\* Rows, cards and tables hold contents that were committed, and every request names
\* what it works on.
THEOREM TypeCorrect == Spec => []TypeOK
<1>1. IndInv => TypeOK
  BY DEF IndInv
<1> QED
  BY <1>1, Inductive, PTL

\* PROMOTE registers what it has promoted, whatever request cuts in, sessions of the
\* same skill included: a draft reaches a card only when it was written between the
\* promotion of the rows and the reading of their delta.
THEOREM CardsPromoted == Spec => []CardsArePromoted
<1>1. IndInv => CardsArePromoted
  BY DEF IndInv
<1> QED
  BY <1>1, Inductive, PTL

\* No worker routes to a skill that nobody ever promoted.
THEOREM RoutedPromoted == Spec => []RoutedWasPromoted
<1>1. IndInv => RoutedWasPromoted
  BY DEF IndInv
<1> QED
  BY <1>1, Inductive, PTL

\* deleteSkill removes the card with the rows, unless one of its own steps failed or
\* the rows went between a session's reading of the delta and its writing of the card.
THEOREM NoOrphans == Spec => []NoOrphanCard
<1>1. IndInv => NoOrphanCard
  BY DEF IndInv, Untorn, NoOrphanCard
<1> QED
  BY <1>1, Inductive, PTL

\* The reply that ends a REST session has reloaded the tables of its worker: they hold
\* what the session promoted, or nothing or newer content when that was written over,
\* deleted or not readable meanwhile.
THEOREM Served == Spec => ServedWhenAnswered
<1> DEFINE Step == \A t \in Tasks :
             LET now == routes'[tasks[t].at][tasks[t].skill]
             IN  InstallRoutes(t) /\ tasks[t].goal # 0 =>
                   IF tasks[t].undone THEN now = 0 \/ now >= tasks[t].goal
                                      ELSE now = tasks[t].goal
<1>1. IndInv /\ [Next]_vars => [Step]_vars
  BY InstallRoutesKeeps
<1> QED
  BY <1>1, Inductive, PTL DEF Spec, ServedWhenAnswered
=============================================================================
