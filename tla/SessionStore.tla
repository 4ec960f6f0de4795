---------------------------- MODULE SessionStore ---------------------------
(***************************************************************************)
(* The rows of author_skill_sessions and the requests that read and write  *)
(* them: _start_or_continue_session and the DELETE route                   *)
(* (deploy/routes/author_skill.py) over AdbSessionStore                    *)
(* (deploy/session/adb_store.py), and the operator's command session       *)
(* recover (cli/kb_cli.py).  A request runs in a worker thread:            *)
(* load, conversation, save, with nothing held in between, so requests of  *)
(* different sessions interleave and a restart ends those in flight        *)
(* anywhere.  Overlapping says whether a client may send a request of a    *)
(* session before the last one has ended (a time-out and a retry, a client *)
(* closed and opened again); nothing in the code prevents it.  A           *)
(* conversation is reduced to how far it has come.  The clean-up of        *)
(* uploaded files between conversation and save is left out.               *)
(***************************************************************************)
EXTENDS FiniteSets

CONSTANTS
  Ids,       \* session ids, synth_id
  Requests,  \* the requests of a behaviour, each used once
  NoId,
  Overlapping

ASSUME NoIdAssumption == NoId \notin Ids
ASSUME OverlappingAssumption == Overlapping \in BOOLEAN

VARIABLES
  rows,      \* the rows of the table, by session id
  requests   \* what each request holds and how far it has come

vars == <<rows, requests>>

\* "at": persona not yet identified, dialogue under way, or the DONE state.
Stages == {"persona", "working", "done"}
\* "moved": an operator has sent it to IDENTIFY_PERSONA, or past it (history).
Sessions == [turns : SUBSET Requests, at : Stages, moved : BOOLEAN]
NoSession == [turns |-> {}, at |-> "persona", moved |-> FALSE]

Statuses == {"absent", "in_progress", "completed", "abandoned", "expired"}
Absent == [session |-> NoSession, status |-> "absent", lapsed |-> FALSE]

\* "to" is the id the request names, "as" the id the conversation answers under.
Idle == [pc |-> "idle", to |-> NoId, as |-> NoId, session |-> NoSession, done |-> FALSE]

Init ==
  /\ rows = [id \in Ids |-> Absent]
  /\ requests = [r \in Requests |-> Idle]

\* An id nothing uses: uuid4.
Fresh(id) ==
  /\ rows[id].status = "absent"
  /\ \A r \in Requests : requests[r].as # id

InFlight(r) == requests[r].pc \in {"loaded", "handled"}

\* Whether a request naming this id may be sent.
Clear(id) ==
  \/ Overlapping
  \/ \A r \in Requests : InFlight(r) => id \notin {requests[r].to, requests[r].as}

----------------------------------------------------------------------------
(* A request. *)

\* start(): the conversation is made in memory, under an id of its own.
Start(r) ==
  /\ requests[r].pc = "idle"
  /\ \E id \in Ids, at \in {"persona", "working"} :
       /\ Fresh(id)
       /\ requests' = [requests EXCEPT ![r] =
            [pc |-> "handled", to |-> NoId, as |-> id, done |-> FALSE,
             session |-> [turns |-> {r}, at |-> at, moved |-> FALSE]]]
  /\ UNCHANGED rows

Refuse(r, id) == requests' = [requests EXCEPT ![r].pc = "refused", ![r].to = id]

Overdue(id) == rows[id].status = "in_progress" /\ rows[id].lapsed

\* "lapsed" goes on saying that the TTL ran out; only an in-progress row minds.
Abandoned(row) == [row EXCEPT !.status = "abandoned"]

\* load(): no row, or one whose TTL has run out while in progress, is "not
\* found"; the latter is marked on the way.  Any other row is handed out,
\* whatever its status.
Load(r, id) ==
  /\ requests[r].pc = "idle"
  /\ Clear(id)
  /\ \/ /\ rows[id].status = "absent"
        /\ Refuse(r, id)
        /\ UNCHANGED rows
     \/ /\ Overdue(id)
        /\ Refuse(r, id)
        /\ rows' = [rows EXCEPT ![id] = Abandoned(@)]
     \/ /\ rows[id].status # "absent" /\ ~Overdue(id)
        /\ requests' = [requests EXCEPT ![r] =
             [pc |-> "loaded", to |-> id, as |-> id, done |-> FALSE,
              session |-> rows[id].session]]
        /\ UNCHANGED rows

Answered(r, id, at, done) ==
  LET s == requests[r].session
  IN  requests' = [requests EXCEPT ![r] =
        [pc |-> "handled", to |-> @.to, as |-> id, done |-> done,
         session |-> [turns |-> s.turns \cup {r}, at |-> at, moved |-> s.moved]]]

\* Naming a known persona gives the session a new id.  The mutant renews it at
\* every stage.
AnswerIdsAlwaysNew(r) == {requests[r].as} \cup {id \in Ids : Fresh(id)}

AnswerIds(r) ==
  {requests[r].as} \cup
    {id \in Ids : requests[r].session.at = "persona" /\ Fresh(id)}

\* respond(): a dialogue may end at DONE or close with the state kept
\* (PREVIEW_EXTRACTION's 'stop'); DONE only closes again.
Respond(r) ==
  /\ requests[r].pc = "loaded"
  /\ \E id \in AnswerIds(r) :
       \/ /\ requests[r].session.at = "persona"
          /\ \/ Answered(r, id, "persona", FALSE)
             \/ id # requests[r].as /\ Answered(r, id, "working", FALSE)
       \/ /\ requests[r].session.at = "working"
          /\ \/ \E done \in BOOLEAN : Answered(r, id, "working", done)
             \/ Answered(r, id, "done", TRUE)
       \/ requests[r].session.at = "done" /\ Answered(r, id, "done", TRUE)
  /\ UNCHANGED rows

\* A handler that raises: the session is not saved.
Raise(r) ==
  /\ requests[r].pc = "loaded"
  /\ requests' = [requests EXCEPT ![r].pc = "failed"]
  /\ UNCHANGED rows

\* Mutant: the status left at its default.
RowStatusDefault(done) == "in_progress"

RowStatus(done) == IF done THEN "completed" ELSE "in_progress"

\* Mutant: the row of the request instead of the conversation's.
SavedIdRequested(r) == IF requests[r].to \in Ids THEN requests[r].to ELSE requests[r].as

SavedId(r) == requests[r].as

\* save(): one MERGE on the conversation's id, which also renews the TTL, and
\* the reply.
Save(r) ==
  /\ requests[r].pc = "handled"
  /\ rows' = [rows EXCEPT ![SavedId(r)] =
       [session |-> requests[r].session, status |-> RowStatus(requests[r].done),
        lapsed |-> FALSE]]
  /\ requests' = [requests EXCEPT ![r].pc = "answered"]

----------------------------------------------------------------------------
(* What else happens to the rows. *)

\* DELETE: load, then abandon.
Delete(id) ==
  /\ Clear(id)
  /\ rows[id].status # "absent"
  /\ rows' = [rows EXCEPT ![id] = Abandoned(@)]
  /\ UNCHANGED requests

\* GET: load, for the last turn.
Get(id) ==
  /\ Overdue(id)
  /\ rows' = [rows EXCEPT ![id] = Abandoned(@)]
  /\ UNCHANGED requests

\* expires_at passes.
Lapse(id) ==
  /\ rows[id].status = "in_progress" /\ ~rows[id].lapsed
  /\ rows' = [rows EXCEPT ![id].lapsed = TRUE]
  /\ UNCHANGED requests

\* One UPDATE over all rows.
ExpireStale ==
  /\ \E id \in Ids : Overdue(id)
  /\ rows' = [id \in Ids |->
       IF Overdue(id) THEN [rows[id] EXCEPT !.status = "expired"] ELSE rows[id]]
  /\ UNCHANGED requests

MovedTo(s, to) ==
  [turns |-> s.turns, at |-> to, moved |-> s.moved \/ "persona" \in {s.at, to}]

\* kb-cli session recover: the row, whatever its status, is read, moved to any of
\* STATES, DONE and IDENTIFY_PERSONA included, and saved as in progress with a new TTL.
Recover(id) ==
  /\ Clear(id)
  /\ rows[id].status # "absent"
  /\ \E to \in Stages :
       rows' = [rows EXCEPT ![id] =
         [session |-> MovedTo(@.session, to), status |-> "in_progress", lapsed |-> FALSE]]
  /\ UNCHANGED requests

\* The server dies: requests in flight are gone, saved or not.
Restart ==
  /\ \E r \in Requests : InFlight(r)
  /\ requests' = [r \in Requests |->
       IF InFlight(r) THEN [requests[r] EXCEPT !.pc = "failed"] ELSE requests[r]]
  /\ UNCHANGED rows

Next ==
  \/ \E r \in Requests :
       \/ Start(r)
       \/ \E id \in Ids : Load(r, id)
       \/ Respond(r)
       \/ Raise(r)
       \/ Save(r)
  \/ \E id \in Ids : Delete(id) \/ Get(id) \/ Lapse(id) \/ Recover(id)
  \/ ExpireStale
  \/ Restart

Spec == Init /\ [][Next]_vars

----------------------------------------------------------------------------
(* Properties. *)

Rows == [session : Sessions, status : Statuses, lapsed : BOOLEAN]
RequestStates ==
  [pc : {"idle", "loaded", "handled", "answered", "refused", "failed"},
   to : Ids \cup {NoId}, as : Ids \cup {NoId}, session : Sessions, done : BOOLEAN]

(* Every variable has its type; the statuses are those the table's check
   constraint allows. *)
TypeOK ==
  /\ rows \in [Ids -> Rows]
  /\ requests \in [Requests -> RequestStates]

(***************************************************************************)
(* What the author was told is kept: the row a reply names holds the       *)
(* answer, however the requests of other sessions, the change of id at     *)
(* IDENTIFY_PERSONA, a second try under the old id, restarts, the TTL,     *)
(* GET and DELETE fall between.  It takes an author who waits:             *)
(* with Overlapping it does not hold.                                      *)
(***************************************************************************)
RepliesSaved ==
  \A r \in Requests :
    requests[r].pc = "answered" => r \in rows[requests[r].as].session.turns

(***************************************************************************)
(* What the author has finished is opened again by the operator alone: not *)
(* by a retry after a restart, a request under the id the session had      *)
(* before, a request after a DELETE, nor by a status that GET, the TTL or  *)
(* the clean-up sets.  It takes an author who waits, as above.             *)
(***************************************************************************)
Closed(id) ==
  rows[id].session.at = "done" /\ rows[id].status \in {"completed", "abandoned"}

ReopenedByOperatorOnly ==
  [][\A id \in Ids : Closed(id) /\ ~Closed(id)' => Recover(id)]_vars

(***************************************************************************)
(* A request never takes over another session: the answers of a row were   *)
(* given to it, or to the id it had before the persona was known.  An      *)
(* operator who sends a session back to that question makes two of it.     *)
(***************************************************************************)
OneSessionPerRow ==
  \A i, j \in Ids :
    LET s == rows[i].session
        t == rows[j].session
    IN  i # j /\ ~s.moved /\ ~t.moved /\ s.at # "persona" /\ t.at # "persona"
          => \A r \in s.turns \cap t.turns : requests[r].session.at = "persona"

=============================================================================
