---------------------------- MODULE Server_proof ----------------------------
(***************************************************************************)
(* Proofs about what the server's processes keep for several callers: the  *)
(* rows of the sessions (SessionStore), and the records of failures and    *)
(* reviews (Operations).                                                   *)
(*                                                                         *)
(* SessionStore, for any number of session ids and requests: types and     *)
(* OneSessionPerRow whether or not a client overlaps its requests,         *)
(* RepliesSaved and ReopenedByOperatorOnly when it does not.               *)
(* OneSessionPerRow is about pairs of rows; what is inductive is that the  *)
(* answers of a session past the persona were all given under its id       *)
(* (Whose), in the row and in the copies that requests hold.  For the      *)
(* others, a request in flight holds all that its row holds and has come   *)
(* as far, and no two hold one row (Waiting).                              *)
(*                                                                         *)
(* Operations, for any number of calls, reports, reviews, bugs and         *)
(* commands: types, AuditAfterBugs, CriticalTrue and FirstReportSeen.  An  *)
(* audit is right because at every step the lines of a review are exactly  *)
(* the numbers below its count (Accounts); a missing artifact is true      *)
(* because each type that was looked for in vain was gone then, and a      *)
(* review that reads sees a deletion (Witnessed); a confirmed report is    *)
(* seen because it has its line, or the line failed (Reported).            *)
(***************************************************************************)
EXTENDS SessionStore, Operations, FiniteSetTheorems, TLAPS

\* The answers of session s, kept under this id, according to the requests reqs.
Whose(reqs, s, id) ==
  \A r \in s.turns :
    /\ reqs[r].pc \notin {"idle", "loaded"}
    /\ ~s.moved /\ reqs[r].session.at # "persona" => reqs[r].as = id /\ s.at # "persona"

RowOf(id) ==
  /\ Whose(requests, rows[id].session, id)
  /\ rows[id].status = "absent" => rows[id].session = NoSession

FlightOf(r) ==
  /\ InFlight(r) \/ requests[r].pc = "answered" => requests[r].as \in Ids
  /\ InFlight(r) => Whose(requests, requests[r].session, requests[r].as)
  /\ requests[r].pc = "handled" =>
       /\ requests[r].session.at = "done" => requests[r].done
       /\ r \in requests[r].session.turns

WaitOf(r) ==
  InFlight(r) =>
    /\ rows[requests[r].as].session.turns \subseteq requests[r].session.turns
    /\ rows[requests[r].as].session.at = "done" => requests[r].session.at = "done"
    /\ \A q \in Requests : InFlight(q) /\ requests[q].as = requests[r].as => q = r

Waiting == ~Overlapping => RepliesSaved /\ \A r \in Requests : WaitOf(r)

IndInv ==
  /\ TypeOK
  /\ \A id \in Ids : RowOf(id)
  /\ \A r \in Requests : FlightOf(r)
  /\ Waiting

----------------------------------------------------------------------------
\* What a request has answered stays what it was.
Forward ==
  \A r \in Requests :
    requests[r].pc \notin {"idle", "loaded"} =>
      /\ requests'[r].pc \notin {"idle", "loaded"}
      /\ requests'[r].session = requests[r].session /\ requests'[r].as = requests[r].as

LEMMA Kept ==
  ASSUME NEW s \in Sessions, NEW id, Forward, Whose(requests, s, id)
  PROVE  Whose(requests', s, id)
BY DEF Sessions, Forward, Whose

\* One request moves.
LEMMA Entry ==
  ASSUME NEW r \in Requests, TypeOK, NEW x \in RequestStates,
         requests' = [requests EXCEPT ![r] = x]
  PROVE  /\ requests' \in [Requests -> RequestStates] /\ requests'[r] = x
         /\ \A q \in Requests : q # r => requests'[q] = requests[q]
BY DEF TypeOK

\* The rows keep their answers, whatever becomes of their statuses and stages.
SameSessions ==
  /\ rows' \in [Ids -> Rows]
  /\ \A id \in Ids :
       /\ rows'[id].session.turns = rows[id].session.turns
       /\ "absent" \in {rows[id].status, rows'[id].status} => rows'[id] = rows[id]
       /\ ~rows'[id].session.moved =>
            /\ ~rows[id].session.moved
            /\ rows'[id].session.at = "persona" <=> rows[id].session.at = "persona"
       /\ ~Overlapping /\ rows'[id].session.at = "done" =>
            \/ rows[id].session.at = "done"
            \/ \A q \in Requests : InFlight(q) => requests[q].as # id

LEMMA Rowwise ==
  ASSUME IndInv, SameSessions, UNCHANGED requests
  PROVE  IndInv'
<1>1. TypeOK'
  BY DEF IndInv, TypeOK, SameSessions
<1>2. \A id \in Ids : RowOf(id)'
  BY DEF IndInv, RowOf, Whose, SameSessions
<1>3. \A r \in Requests : InFlight(r)' <=> InFlight(r)
  BY DEF InFlight
<1>4. \A r \in Requests : FlightOf(r)'
  BY <1>3 DEF IndInv, FlightOf
<1>5. ASSUME NEW r \in Requests, ~Overlapping PROVE WaitOf(r)'
  <2>1. WaitOf(r) /\ FlightOf(r)
    BY <1>5 DEF IndInv, Waiting
  <2> QED
    BY <1>3, <1>5, <2>1 DEF WaitOf, FlightOf, SameSessions
<1>6. ASSUME ~Overlapping PROVE RepliesSaved'
  BY <1>6 DEF IndInv, Waiting, RepliesSaved, FlightOf, SameSessions
<1> QED
  BY <1>1, <1>2, <1>4, <1>5, <1>6 DEF IndInv, Waiting

\* Time, GET, DELETE, the clean-up and the operator.
LEMMA RowsInv ==
  ASSUME IndInv,
         (\E id \in Ids : Delete(id) \/ Get(id) \/ Lapse(id) \/ Recover(id)) \/ ExpireStale
  PROVE  IndInv'
<1>1. TypeOK /\ UNCHANGED requests
  <2>1. \A id \in Ids : Recover(id) => UNCHANGED requests
    BY Zenon DEF Recover
  <2> QED
    BY <2>1 DEF IndInv, Delete, Get, Lapse, ExpireStale
<1>2. ASSUME NEW i \in Ids, NEW x \in Rows, rows' = [rows EXCEPT ![i] = x],
             rows[i].status # "absent", x.status # "absent",
             x.session.turns = rows[i].session.turns,
             ~x.session.moved =>
               /\ ~rows[i].session.moved
               /\ x.session.at = "persona" <=> rows[i].session.at = "persona",
             ~Overlapping =>
               \/ x.session.at = rows[i].session.at
               \/ \A q \in Requests : InFlight(q) => requests[q].as # i
      PROVE  IndInv'
  <2>1. rows' \in [Ids -> Rows] /\ rows'[i] = x /\ \A j \in Ids : j # i => rows'[j] = rows[j]
    BY <1>1, <1>2 DEF TypeOK
  <2>2. SameSessions
    BY <1>1, <1>2, <2>1 DEF SameSessions
  <2> QED
    BY <1>1, <2>2, Rowwise
<1>3. ASSUME NEW i \in Ids, Delete(i) \/ Get(i) PROVE IndInv'
  <2> DEFINE x == [rows[i] EXCEPT !.status = "abandoned"]
  <2>1. rows[i] \in Rows /\ rows[i].status # "absent"
    BY <1>1, <1>3 DEF TypeOK, Delete, Get, Overdue
  <2>2. x \in Rows /\ x.session = rows[i].session /\ x.status = "abandoned"
    BY <2>1 DEF Rows, Statuses
  <2>3. rows' = [rows EXCEPT ![i] = x]
    BY <1>3 DEF Delete, Get, Abandoned
  <2> HIDE DEF x
  <2> QED
    BY <1>2, <2>1, <2>2, <2>3
<1>4. ASSUME NEW i \in Ids, Lapse(i) PROVE IndInv'
  <2> DEFINE x == [rows[i] EXCEPT !.lapsed = TRUE]
  <2>1. rows[i] \in Rows /\ rows[i].status = "in_progress"
    BY <1>1, <1>4 DEF TypeOK, Lapse
  <2>2. x \in Rows /\ x.session = rows[i].session /\ x.status = rows[i].status
    BY <2>1 DEF Rows
  <2>3. rows' = [rows EXCEPT ![i] = x]
    BY <1>4 DEF Lapse
  <2> HIDE DEF x
  <2> QED
    BY <1>2, <2>1, <2>2, <2>3
<1>5. ASSUME NEW i \in Ids, Recover(i) PROVE IndInv'
  <2> DEFINE s == rows[i].session
  <2>1. PICK to \in Stages :
          rows' = [rows EXCEPT ![i] =
            [session |-> MovedTo(s, to), status |-> "in_progress", lapsed |-> FALSE]]
    BY <1>5, Zenon DEF Recover
  <2> DEFINE n == MovedTo(s, to)
             x == [session |-> n, status |-> "in_progress", lapsed |-> FALSE]
  <2>2. rows[i] \in Rows /\ s \in Sessions /\ rows[i].status # "absent" /\ Clear(i)
    <3>1. rows[i].status # "absent" /\ Clear(i)
      BY <1>5, Zenon DEF Recover
    <3> QED
      BY <1>1, <3>1 DEF TypeOK, Rows
  <2>3. n \in Sessions /\ n.turns = s.turns /\ n.at = to
        /\ n.moved = (s.moved \/ "persona" \in {to, s.at})
    BY <2>2 DEF Sessions, MovedTo
  <2>4. rows' = [rows EXCEPT ![i] = x]
    BY <2>1
  <2> HIDE DEF n
  <2>5. x \in Rows /\ x.session = n /\ x.status = "in_progress"
    BY <2>3 DEF Rows, Statuses
  <2>6. ~n.moved => ~s.moved /\ (n.at = "persona" <=> s.at = "persona")
    BY <2>3
  <2>7. ~Overlapping => \A q \in Requests : InFlight(q) => requests[q].as # i
    BY <2>2 DEF Clear
  <2> HIDE DEF x
  <2> QED
    BY <1>2, <2>2, <2>3, <2>4, <2>5, <2>6, <2>7, Zenon
<1>6. CASE ExpireStale
  <2>1. ASSUME NEW i \in Ids
        PROVE  /\ rows'[i] \in Rows /\ rows'[i].session = rows[i].session
               /\ "absent" \in {rows[i].status, rows'[i].status} => rows'[i] = rows[i]
    <3> DEFINE x == [rows[i] EXCEPT !.status = "expired"]
    <3>1. rows[i] \in Rows /\ (Overdue(i) => rows[i].status = "in_progress")
      BY <1>1 DEF TypeOK, Overdue
    <3>2. x \in Rows /\ x.session = rows[i].session /\ x.status = "expired"
      BY <3>1 DEF Rows, Statuses
    <3>3. rows'[i] = IF Overdue(i) THEN x ELSE rows[i]
      BY <1>6 DEF ExpireStale
    <3> HIDE DEF x
    <3> QED
      BY <3>1, <3>2, <3>3
  <2>2. rows' \in [Ids -> Rows]
    BY <1>6, <2>1 DEF ExpireStale
  <2> QED
    BY <1>1, <2>1, <2>2, Rowwise DEF SameSessions
<1> QED
  BY <1>3, <1>4, <1>5, <1>6

----------------------------------------------------------------------------
(* Requests. *)

\* A request that changes nothing but its own state, and the rows' statuses.
LEMMA Requestwise ==
  ASSUME NEW r \in Requests, IndInv, SameSessions,
         NEW x \in RequestStates, requests' = [requests EXCEPT ![r] = x],
         x.pc \notin {"idle", "answered"},
         requests[r].pc \notin {"idle", "loaded"}
           => x.pc \notin {"idle", "loaded"} /\ x.session = requests[r].session
              /\ x.as = requests[r].as,
         x.pc \in {"loaded", "handled"} => x.as \in Ids /\ Whose(requests', x.session, x.as),
         x.pc = "handled" => /\ x.session.at = "done" => x.done
                             /\ r \in x.session.turns,
         ~Overlapping /\ x.pc \in {"loaded", "handled"} =>
           /\ rows'[x.as].session.turns \subseteq x.session.turns
           /\ rows'[x.as].session.at = "done" => x.session.at = "done"
           /\ \A q \in Requests : InFlight(q) /\ requests[q].as = x.as => q = r
  PROVE  IndInv'
<1>1. /\ requests' \in [Requests -> RequestStates] /\ requests'[r] = x
      /\ \A q \in Requests : q # r => requests'[q] = requests[q]
  BY Entry DEF IndInv
<1>2. TypeOK'
  BY <1>1 DEF TypeOK, SameSessions
<1>3. Forward
  BY <1>1 DEF Forward
<1>4. ASSUME NEW id \in Ids PROVE RowOf(id)'
  <2>1. rows[id].session \in Sessions /\ Whose(requests, rows[id].session, id)
    BY DEF IndInv, TypeOK, Rows, RowOf
  <2>2. Whose(requests', rows[id].session, id)
    BY <1>3, <2>1, Kept
  <2>3. Whose(requests', rows'[id].session, id)
    BY <2>2 DEF Whose, SameSessions
  <2> QED
    BY <2>3 DEF IndInv, RowOf, SameSessions
<1>5. ASSUME NEW q \in Requests PROVE FlightOf(q)'
  <2>1. CASE q = r
    BY <1>1, <2>1 DEF FlightOf, InFlight
  <2>2. CASE q # r
    <3>1. FlightOf(q) /\ requests'[q] = requests[q] /\ requests[q].session \in Sessions
      BY <1>1, <2>2 DEF IndInv, TypeOK, RequestStates
    <3>2. InFlight(q) => Whose(requests', requests[q].session, requests[q].as)
      BY <1>3, <3>1, Kept DEF FlightOf
    <3> QED
      BY <3>1, <3>2 DEF FlightOf, InFlight
  <2> QED
    BY <2>1, <2>2
<1>6. ASSUME ~Overlapping PROVE RepliesSaved' /\ \A q \in Requests : WaitOf(q)'
  <2>1. RepliesSaved /\ \A q \in Requests : WaitOf(q) /\ FlightOf(q)
    BY <1>6 DEF IndInv, Waiting
  <2>2. RepliesSaved'
    BY <1>1, <2>1 DEF RepliesSaved, FlightOf, SameSessions
  <2>3. WaitOf(r)'
    BY <1>1, <1>6 DEF WaitOf, InFlight, SameSessions
  <2>4. ASSUME NEW q \in Requests, q # r PROVE WaitOf(q)'
    BY <1>1, <1>6, <2>1, <2>4 DEF WaitOf, FlightOf, InFlight, SameSessions
  <2> QED
    BY <2>2, <2>3, <2>4
<1> QED
  BY <1>2, <1>4, <1>5, <1>6 DEF IndInv, Waiting

LEMMA SameRows ==
  ASSUME IndInv, UNCHANGED rows
  PROVE  SameSessions
BY DEF IndInv, TypeOK, SameSessions

LEMMA StartInv ==
  ASSUME NEW r \in Requests, IndInv, Start(r)
  PROVE  IndInv'
<1>1. PICK id \in Ids, at \in {"persona", "working"} :
        /\ Fresh(id)
        /\ requests' = [requests EXCEPT ![r] =
             [pc |-> "handled", to |-> NoId, as |-> id, done |-> FALSE,
              session |-> [turns |-> {r}, at |-> at, moved |-> FALSE]]]
  BY DEF Start
<1> DEFINE x == [pc |-> "handled", to |-> NoId, as |-> id, done |-> FALSE,
                 session |-> [turns |-> {r}, at |-> at, moved |-> FALSE]]
<1>2. /\ UNCHANGED rows /\ requests[r].pc = "idle" /\ TypeOK
      /\ rows[id].session.turns = {} /\ rows[id].session.at = "persona"
      /\ \A q \in Requests : requests[q].as # id
  BY <1>1 DEF IndInv, RowOf, NoSession, Start, Fresh
<1>3. [turns |-> {r}, at |-> at, moved |-> FALSE] \in Sessions
  BY DEF Sessions, Stages
<1>4. x \in RequestStates
  BY <1>3 DEF RequestStates
<1>5. x.pc = "handled" /\ x.as = id /\ x.session.turns = {r} /\ x.session.at = at
  OBVIOUS
<1>6. requests' = [requests EXCEPT ![r] = x]
  BY <1>1
<1> HIDE DEF x
<1>7. requests'[r] = x
  BY <1>2, <1>6 DEF TypeOK
<1>8. Whose(requests', x.session, x.as)
  BY <1>5, <1>7 DEF Whose
<1> QED
  BY <1>2, <1>4, <1>5, <1>6, <1>8, SameRows, Requestwise

LEMMA LoadInv ==
  ASSUME NEW r \in Requests, NEW id \in Ids, IndInv, Load(r, id)
  PROVE  IndInv'
<1>1. TypeOK /\ requests[r].pc = "idle" /\ Clear(id) /\ requests[r] \in RequestStates
      /\ rows[id] \in Rows
  BY DEF IndInv, TypeOK, Load
<1>2. CASE Refuse(r, id)
  <2> DEFINE x == [requests[r] EXCEPT !.pc = "refused", !.to = id]
  <2>1. x \in RequestStates /\ x.pc = "refused"
    BY <1>1 DEF RequestStates
  <2>2. requests' = [requests EXCEPT ![r] = x]
    BY <1>2 DEF Refuse
  <2>3. SameSessions
    <3>1. CASE UNCHANGED rows
      BY <3>1, SameRows
    <3>2. CASE Overdue(id) /\ rows' = [rows EXCEPT ![id] = Abandoned(@)]
      <4> DEFINE y == [rows[id] EXCEPT !.status = "abandoned"]
      <4>1. y \in Rows /\ y.session = rows[id].session /\ y.status = "abandoned"
        BY <1>1 DEF Rows, Statuses
      <4>2. rows' = [rows EXCEPT ![id] = y] /\ rows[id].status # "absent"
        BY <3>2 DEF Abandoned, Overdue
      <4> HIDE DEF y
      <4>3. rows' \in [Ids -> Rows] /\ rows'[id] = y /\ \A j \in Ids : j # id => rows'[j] = rows[j]
        BY <1>1, <4>1, <4>2 DEF TypeOK
      <4> QED
        BY <1>1, <4>1, <4>2, <4>3 DEF SameSessions
    <3>3. UNCHANGED rows \/ (Overdue(id) /\ rows' = [rows EXCEPT ![id] = Abandoned(@)])
      BY DEF Load
    <3> QED
      BY <3>1, <3>2, <3>3
  <2> HIDE DEF x
  <2> QED
    BY <1>1, <2>1, <2>2, <2>3, Requestwise
<1>3. CASE /\ UNCHANGED rows
           /\ requests' = [requests EXCEPT ![r] =
                [pc |-> "loaded", to |-> id, as |-> id, done |-> FALSE,
                 session |-> rows[id].session]]
  <2> DEFINE x == [pc |-> "loaded", to |-> id, as |-> id, done |-> FALSE,
                   session |-> rows[id].session]
  <2>1. x \in RequestStates
    BY <1>1 DEF RequestStates, Rows
  <2>2. x.pc = "loaded" /\ x.as = id /\ x.session = rows[id].session
    OBVIOUS
  <2>3. requests' = [requests EXCEPT ![r] = x]
    BY <1>3
  <2> HIDE DEF x
  <2>4. Forward
    BY <1>1, <2>3 DEF Forward, TypeOK
  <2>5. Whose(requests', x.session, x.as)
    BY <1>1, <2>2, <2>4, Kept DEF IndInv, RowOf, Rows
  <2>6. ~Overlapping => \A q \in Requests : InFlight(q) => requests[q].as # id
    BY <1>1 DEF Clear
  <2>7. SameSessions
    BY <1>3, SameRows
  <2>8. ~Overlapping =>
          /\ rows'[x.as].session.turns \subseteq x.session.turns
          /\ rows'[x.as].session.at = "done" => x.session.at = "done"
          /\ \A q \in Requests : InFlight(q) /\ requests[q].as = x.as => q = r
    BY <1>3, <2>2, <2>6
  <2>9. x.pc = "loaded" /\ x.as \in Ids /\ requests[r].pc = "idle"
    BY <1>1, <2>2
  <2> QED
    BY <2>1, <2>3, <2>5, <2>7, <2>8, <2>9, Requestwise
<1> QED
  BY <1>2, <1>3 DEF Load

LEMMA RespondInv ==
  ASSUME NEW r \in Requests, IndInv, Respond(r)
  PROVE  IndInv'
<1> DEFINE s == requests[r].session
<1>1. /\ TypeOK /\ requests[r].pc = "loaded" /\ requests[r] \in RequestStates
      /\ s \in Sessions /\ requests[r].as \in Ids
      /\ Whose(requests, s, requests[r].as) /\ UNCHANGED rows
  BY DEF IndInv, TypeOK, RequestStates, Respond, FlightOf, InFlight
<1>2. PICK id \in AnswerIds(r), at \in Stages, done \in BOOLEAN :
        /\ Answered(r, id, at, done)
        /\ at = "persona" => s.at = "persona"
        /\ at = "done" => done
        /\ s.at = "done" => at = "done"
  BY DEF Respond, Stages
<1>3. id \in Ids /\ (id # requests[r].as => s.at = "persona" /\ Fresh(id))
  BY <1>1, <1>2 DEF AnswerIds
<1> DEFINE n == [turns |-> s.turns \cup {r}, at |-> at, moved |-> s.moved]
           x == [pc |-> "handled", to |-> requests[r].to, as |-> id, done |-> done, session |-> n]
<1>4. n \in Sessions /\ n.turns = s.turns \cup {r} /\ n.at = at /\ n.moved = s.moved
  BY <1>1 DEF Sessions
<1>5. requests' = [requests EXCEPT ![r] = x]
  BY <1>2 DEF Answered
<1> HIDE DEF n
<1>6. x \in RequestStates /\ x.pc = "handled" /\ x.as = id /\ x.done = done /\ x.session = n
  BY <1>1, <1>3, <1>4 DEF RequestStates
<1> HIDE DEF x
<1>7. /\ requests'[r] = x /\ \A q \in Requests : q # r => requests'[q] = requests[q]
  BY <1>1, <1>5, <1>6, Entry
<1>8. ASSUME NEW q \in n.turns
      PROVE  /\ requests'[q].pc \notin {"idle", "loaded"}
             /\ ~s.moved /\ requests'[q].session.at # "persona"
                  => requests'[q].as = id /\ at # "persona"
  <2>1. CASE q = r
    BY <1>4, <1>6, <1>7, <2>1
  <2>2. CASE q # r
    <3>1. q \in s.turns /\ q \in Requests
      BY <1>1, <1>4, <2>2 DEF Sessions
    <3>2. /\ requests'[q] = requests[q] /\ requests[q].pc \notin {"idle", "loaded"}
          /\ ~s.moved /\ requests[q].session.at # "persona"
               => requests[q].as = requests[r].as /\ s.at # "persona"
      BY <1>1, <1>7, <2>2, <3>1 DEF Whose
    <3> QED
      BY <1>2, <1>3, <3>2
  <2> QED
    BY <2>1, <2>2
<1>9. Whose(requests', x.session, x.as)
  BY <1>4, <1>6, <1>8 DEF Whose
<1>10. ASSUME ~Overlapping
       PROVE  /\ rows[id].session.turns \subseteq n.turns
              /\ rows[id].session.at = "done" => at = "done"
              /\ \A q \in Requests : InFlight(q) /\ requests[q].as = id => q = r
  <2>1. WaitOf(r) /\ InFlight(r)
    BY <1>1, <1>10 DEF IndInv, Waiting, InFlight
  <2>2. CASE id = requests[r].as
    BY <1>2, <1>4, <2>1, <2>2 DEF WaitOf
  <2>3. CASE id # requests[r].as
    BY <1>3, <2>3 DEF IndInv, RowOf, NoSession, Fresh
  <2> QED
    BY <2>2, <2>3
<1> QED
  BY <1>1, <1>2, <1>3, <1>4, <1>5, <1>6, <1>9, <1>10, SameRows, Requestwise

LEMMA RaiseInv ==
  ASSUME NEW r \in Requests, IndInv, Raise(r)
  PROVE  IndInv'
<1> DEFINE x == [requests[r] EXCEPT !.pc = "failed"]
<1>1. TypeOK /\ requests[r].pc = "loaded" /\ requests[r] \in RequestStates /\ UNCHANGED rows
  BY DEF IndInv, TypeOK, Raise
<1>2. x \in RequestStates /\ x.pc = "failed"
  BY <1>1 DEF RequestStates
<1>3. requests' = [requests EXCEPT ![r] = x]
  BY DEF Raise
<1> HIDE DEF x
<1> QED
  BY <1>1, <1>2, <1>3, SameRows, Requestwise

LEMMA SaveInv ==
  ASSUME NEW r \in Requests, IndInv, Save(r)
  PROVE  IndInv'
<1> DEFINE s == requests[r].session
           i == requests[r].as
           x == [requests[r] EXCEPT !.pc = "answered"]
           y == [session |-> s, status |-> RowStatus(requests[r].done), lapsed |-> FALSE]
<1>1. /\ TypeOK /\ requests[r].pc = "handled"
      /\ requests[r] \in RequestStates /\ s \in Sessions /\ i \in Ids
      /\ Whose(requests, s, i) /\ r \in s.turns /\ (s.at = "done" => requests[r].done)
  BY DEF IndInv, TypeOK, RequestStates, Save, FlightOf, InFlight
<1>2. x \in RequestStates /\ x.pc = "answered" /\ x.session = s /\ x.as = i
  BY <1>1 DEF RequestStates
<1>3. /\ y \in Rows /\ y.session = s /\ y.status # "absent"
  BY <1>1 DEF Rows, Statuses, RowStatus, RequestStates
<1>4. requests' = [requests EXCEPT ![r] = x] /\ rows' = [rows EXCEPT ![i] = y]
  BY DEF Save, SavedId
<1> HIDE DEF x, y
<1>5. /\ requests' \in [Requests -> RequestStates] /\ requests'[r] = x
      /\ \A q \in Requests : q # r => requests'[q] = requests[q]
  BY <1>1, <1>2, <1>4, Entry
<1>6. rows' \in [Ids -> Rows] /\ rows'[i] = y /\ \A j \in Ids : j # i => rows'[j] = rows[j]
  BY <1>1, <1>3, <1>4 DEF TypeOK
<1>7. Forward
  BY <1>1, <1>2, <1>5 DEF Forward
<1>8. ASSUME NEW j \in Ids PROVE RowOf(j)'
  <2>1. rows'[j].session \in Sessions /\ Whose(requests, rows'[j].session, j)
    BY <1>1, <1>3, <1>6 DEF IndInv, TypeOK, Rows, RowOf
  <2>2. Whose(requests', rows'[j].session, j)
    BY <1>7, <2>1, Kept
  <2> QED
    BY <1>3, <1>6, <2>2 DEF IndInv, RowOf
<1>9. ASSUME NEW q \in Requests PROVE FlightOf(q)'
  <2>1. CASE q = r
    BY <1>1, <1>2, <1>5, <2>1 DEF FlightOf, InFlight
  <2>2. CASE q # r
    <3>1. FlightOf(q) /\ requests'[q] = requests[q] /\ requests[q].session \in Sessions
      BY <1>1, <1>5, <2>2 DEF IndInv, TypeOK, RequestStates
    <3>2. InFlight(q) => Whose(requests', requests[q].session, requests[q].as)
      BY <1>7, <3>1, Kept DEF FlightOf
    <3> QED
      BY <3>1, <3>2 DEF FlightOf, InFlight
  <2> QED
    BY <2>1, <2>2
<1>10. ASSUME ~Overlapping PROVE RepliesSaved' /\ \A q \in Requests : WaitOf(q)'
  <2>1. RepliesSaved /\ \A q \in Requests : WaitOf(q) /\ FlightOf(q)
    BY <1>10 DEF IndInv, Waiting
  <2>2. InFlight(r) /\ rows[i].session.turns \subseteq s.turns
    BY <1>1, <2>1 DEF WaitOf, InFlight
  <2>3. \A q \in Requests : InFlight(q) /\ q # r => requests[q].as # i
    BY <2>1, <2>2 DEF WaitOf
  <2>4. \A j \in Ids : rows[j].session.turns \subseteq rows'[j].session.turns
    BY <1>3, <1>6, <2>2
  <2>5. ASSUME NEW q \in Requests, requests'[q].pc = "answered"
        PROVE  q \in rows'[requests'[q].as].session.turns
    <3>1. CASE q = r
      BY <1>1, <1>2, <1>3, <1>5, <1>6, <3>1
    <3>2. CASE q # r
      <4>1. requests'[q] = requests[q] /\ requests[q].as \in Ids
            /\ q \in rows[requests[q].as].session.turns
        BY <1>5, <2>1, <2>5, <3>2 DEF RepliesSaved, FlightOf
      <4> QED
        BY <2>4, <4>1
    <3> QED
      BY <3>1, <3>2
  <2>6. WaitOf(r)'
    BY <1>2, <1>5 DEF WaitOf, InFlight
  <2>7. ASSUME NEW q \in Requests, q # r PROVE WaitOf(q)'
    <3>1. requests'[q] = requests[q] /\ WaitOf(q)
          /\ (InFlight(q) => requests[q].as \in Ids /\ requests[q].as # i)
      BY <1>5, <2>1, <2>3, <2>7 DEF FlightOf
    <3>2. \A p \in Requests : InFlight(p)' => InFlight(p) /\ requests'[p].as = requests[p].as
      BY <1>2, <1>5 DEF InFlight
    <3>3. InFlight(q) => rows'[requests[q].as] = rows[requests[q].as]
      BY <1>6, <3>1
    <3> QED
      BY <3>1, <3>2, <3>3 DEF WaitOf
  <2> QED
    BY <2>5, <2>6, <2>7 DEF RepliesSaved
<1>11. TypeOK'
  BY <1>1, <1>3, <1>5, <1>6 DEF TypeOK
<1> QED
  BY <1>8, <1>9, <1>10, <1>11 DEF IndInv, Waiting

LEMMA RestartInv ==
  ASSUME IndInv, Restart
  PROVE  IndInv'
<1>1. TypeOK /\ UNCHANGED rows
  BY DEF IndInv, Restart
<1>2. ASSUME NEW q \in Requests
      PROVE  /\ requests'[q] \in RequestStates /\ ~InFlight(q)'
             /\ requests'[q].as = requests[q].as /\ requests'[q].session = requests[q].session
             /\ InFlight(q) => requests'[q].pc = "failed"
             /\ ~InFlight(q) => requests'[q] = requests[q]
  <2> DEFINE x == [requests[q] EXCEPT !.pc = "failed"]
  <2>1. requests[q] \in RequestStates
    BY <1>1 DEF TypeOK
  <2>2. x \in RequestStates /\ x.pc = "failed" /\ x.as = requests[q].as
        /\ x.session = requests[q].session
    BY <2>1 DEF RequestStates
  <2>3. requests'[q] = IF InFlight(q) THEN x ELSE requests[q]
    BY DEF Restart
  <2> HIDE DEF x
  <2> QED
    BY <2>1, <2>2, <2>3 DEF InFlight
<1>3. TypeOK'
  BY <1>1, <1>2 DEF TypeOK, Restart
<1>4. Forward
  BY <1>2 DEF Forward, InFlight
<1>5. ASSUME NEW id \in Ids PROVE RowOf(id)'
  <2>1. rows[id].session \in Sessions /\ Whose(requests, rows[id].session, id)
    BY <1>1 DEF IndInv, TypeOK, Rows, RowOf
  <2>2. Whose(requests', rows[id].session, id)
    BY <1>4, <2>1, Kept
  <2> QED
    BY <1>1, <2>2 DEF IndInv, RowOf
<1>6. ASSUME NEW q \in Requests PROVE FlightOf(q)' /\ WaitOf(q)'
  <2>1. requests'[q].pc = "answered" => requests[q].pc = "answered"
    BY <1>2
  <2> QED
    BY <1>2, <2>1 DEF IndInv, FlightOf, WaitOf, InFlight
<1>7. ~Overlapping => RepliesSaved'
  BY <1>1, <1>2 DEF IndInv, Waiting, RepliesSaved
<1> QED
  BY <1>1, <1>3, <1>5, <1>6, <1>7, SameRows DEF IndInv, Waiting

LEMMA InitInv ==
  ASSUME Init
  PROVE  IndInv
<1>1. NoSession \in Sessions /\ NoSession.turns = {} /\ NoSession.at = "persona"
  BY DEF NoSession, Sessions, Stages
<1>2. Absent \in Rows /\ Absent.session = NoSession /\ Absent.status = "absent"
  BY <1>1 DEF Absent, Rows, Statuses
<1>3. Idle \in RequestStates /\ Idle.pc = "idle"
  BY <1>1 DEF Idle, RequestStates
<1>4. \A id \in Ids : rows[id] = Absent
  BY DEF Init
<1>5. \A r \in Requests : requests[r].pc = "idle"
  BY <1>3 DEF Init
<1>6. TypeOK
  BY <1>2, <1>3 DEF Init, TypeOK
<1>7. \A id \in Ids : RowOf(id)
  BY <1>1, <1>2, <1>4 DEF RowOf, Whose
<1>9. \A r \in Requests : FlightOf(r) /\ WaitOf(r)
  BY <1>5 DEF FlightOf, WaitOf, InFlight
<1>10. RepliesSaved
  BY <1>5 DEF RepliesSaved
<1> QED
  BY <1>6, <1>7, <1>9, <1>10 DEF IndInv, Waiting

LEMMA NextInv ==
  ASSUME IndInv, [Next]_vars
  PROVE  IndInv'
<1>1. CASE UNCHANGED vars
  BY <1>1 DEF vars, IndInv, TypeOK, RowOf, Whose, FlightOf, InFlight,
              Waiting, RepliesSaved, WaitOf
<1>2. CASE \E r \in Requests :
             \/ Start(r)
             \/ \E id \in Ids : Load(r, id)
             \/ Respond(r)
             \/ Raise(r)
             \/ Save(r)
  BY <1>2, StartInv, LoadInv, RespondInv, RaiseInv, SaveInv
<1>3. CASE (\E id \in Ids : Delete(id) \/ Get(id) \/ Lapse(id) \/ Recover(id)) \/ ExpireStale
  BY <1>3, RowsInv
<1>4. CASE Restart
  BY <1>4, RestartInv
<1> QED
  BY <1>1, <1>2, <1>3, <1>4 DEF Next

----------------------------------------------------------------------------
(* The inductive invariant holds in every reachable state of the store. *)
THEOREM Inductive == Spec => []IndInv
BY InitInv, NextInv, PTL DEF Spec

(* The table never holds a status its check constraint would reject, and a
   request only what the code gives it. *)
THEOREM TypeCorrect == Spec => []TypeOK
<1>1. IndInv => TypeOK
  BY DEF IndInv
<1> QED
  BY <1>1, Inductive, PTL

\* A save that finds its row at DONE is of a session at DONE.
LEMMA SaveOnDone ==
  ASSUME IndInv, ~Overlapping, NEW r \in Requests, Save(r), NEW id \in Ids, Closed(id)
  PROVE  Closed(id)'
<1> DEFINE s == requests[r].session
           y == [session |-> s, status |-> RowStatus(requests[r].done), lapsed |-> FALSE]
<1>1. /\ TypeOK /\ WaitOf(r) /\ InFlight(r) /\ FlightOf(r) /\ requests[r].pc = "handled"
      /\ requests[r].as \in Ids
  BY DEF IndInv, Waiting, Save, FlightOf, InFlight
<1>2. rows' = [rows EXCEPT ![requests[r].as] = y]
  BY DEF Save, SavedId
<1>3. y.session = s /\ (requests[r].done => y.status = "completed")
  BY DEF RowStatus
<1> HIDE DEF y
<1>4. CASE id = requests[r].as
  <2>1. s.at = "done" /\ requests[r].done
    BY <1>1, <1>4 DEF WaitOf, FlightOf, Closed
  <2>2. rows'[id] = y
    BY <1>1, <1>2, <1>4 DEF TypeOK
  <2> QED
    BY <1>3, <2>1, <2>2 DEF Closed
<1>5. CASE id # requests[r].as
  <2>1. rows'[id] = rows[id]
    BY <1>1, <1>2, <1>5 DEF TypeOK
  <2> QED
    BY <2>1 DEF Closed
<1> QED
  BY <1>4, <1>5

\* Marking a row abandoned.
LEMMA AbandonOther ==
  ASSUME TypeOK, NEW i \in Ids, rows' = [rows EXCEPT ![i] = Abandoned(@)],
         NEW id \in Ids, Closed(id)
  PROVE  Closed(id)'
<1> DEFINE x == [rows[i] EXCEPT !.status = "abandoned"]
<1>1. rows[i] \in Rows
  BY DEF TypeOK
<1>2. x.session = rows[i].session /\ x.status = "abandoned"
  BY <1>1 DEF Rows
<1>3. rows' = [rows EXCEPT ![i] = x]
  BY DEF Abandoned
<1> HIDE DEF x
<1>4. rows'[id] = IF id = i THEN x ELSE rows[id]
  BY <1>3 DEF TypeOK
<1> QED
  BY <1>2, <1>4 DEF Closed

LEMMA StepReopens ==
  ASSUME IndInv, ~Overlapping, [Next]_vars, NEW id \in Ids, Closed(id), ~Closed(id)'
  PROVE  Recover(id)
<1>1. TypeOK
  BY DEF IndInv
<1>2. ~(UNCHANGED rows)
  BY DEF Closed
<1>3. ASSUME NEW r \in Requests PROVE ~Start(r) /\ ~Respond(r) /\ ~Raise(r) /\ ~Restart
  BY <1>2 DEF Start, Respond, Raise, Restart
<1>4. ASSUME NEW r \in Requests, NEW i \in Ids PROVE ~Load(r, i)
  BY <1>1, <1>2, AbandonOther DEF Load
<1>5. ASSUME NEW r \in Requests PROVE ~Save(r)
  BY SaveOnDone
<1>6. ASSUME NEW i \in Ids PROVE ~Delete(i) /\ ~Get(i)
  BY <1>1, AbandonOther DEF Delete, Get
<1>7. ASSUME NEW i \in Ids PROVE ~Lapse(i)
  <2> DEFINE x == [rows[i] EXCEPT !.lapsed = TRUE]
  <2>1. rows[i] \in Rows
    BY <1>1 DEF TypeOK
  <2>2. x.session = rows[i].session /\ x.status = rows[i].status
    BY <2>1 DEF Rows
  <2>3. Lapse(i) => rows' = [rows EXCEPT ![i] = x]
    BY DEF Lapse
  <2> HIDE DEF x
  <2>4. Lapse(i) => rows'[id] = IF id = i THEN x ELSE rows[id]
    BY <1>1, <2>3 DEF TypeOK
  <2> QED
    BY <2>2, <2>4 DEF Closed
<1>8. ~ExpireStale
  BY DEF ExpireStale, Overdue, Closed
<1>9. ~Restart
  BY <1>2 DEF Restart
<1>10. ASSUME NEW i \in Ids, i # id PROVE ~Recover(i)
  <2>1. ASSUME NEW x, rows' = [rows EXCEPT ![i] = x] PROVE Closed(id)'
    BY <1>1, <1>10, <2>1 DEF TypeOK, Closed
  <2> QED
    BY <2>1, Zenon DEF Recover
<1> QED
  BY <1>2, <1>3, <1>4, <1>5, <1>6, <1>7, <1>8, <1>9, <1>10 DEF Next, vars

(* Of a client that waits for each reply, a session completed or abandoned at
   DONE is opened again by no request, retry, DELETE, GET, TTL or clean-up:
   only the operator's recover does. *)
THEOREM Reopened == ~Overlapping => (Spec => ReopenedByOperatorOnly)
<1> SUFFICES ASSUME ~Overlapping PROVE Spec => ReopenedByOperatorOnly
  OBVIOUS
<1>1. IndInv /\ [Next]_vars =>
        [\A id \in Ids : Closed(id) /\ ~Closed(id)' => Recover(id)]_vars
  BY StepReopens
<1> QED
  BY <1>1, Inductive, PTL DEF Spec, ReopenedByOperatorOnly

(* No two rows past the persona share an answer: a request of one session
   never lands in the row of another, unless the operator moved one of them to
   IDENTIFY_PERSONA or past it. *)
THEOREM OneSession == Spec => []OneSessionPerRow
<1>1. ASSUME IndInv, NEW i \in Ids, NEW j \in Ids, i # j,
             ~rows[i].session.moved, ~rows[j].session.moved,
             NEW r \in rows[i].session.turns \cap rows[j].session.turns
      PROVE  requests[r].session.at = "persona"
  BY <1>1 DEF IndInv, RowOf, Whose
<1>2. IndInv => OneSessionPerRow
  BY <1>1 DEF OneSessionPerRow
<1> QED
  BY <1>2, Inductive, PTL

(* Of a client that waits for each reply, every reply names a row that holds
   its answer, over restarts, the TTL, GET, DELETE and recover. *)
THEOREM Replies == ~Overlapping => (Spec => []RepliesSaved)
<1> SUFFICES ASSUME ~Overlapping PROVE Spec => []RepliesSaved
  OBVIOUS
<1>1. IndInv => RepliesSaved
  BY DEF IndInv, Waiting
<1> QED
  BY <1>1, Inductive, PTL

----------------------------------------------------------------------------
(* Operations: the records, what a review lacks, what the operator sees. *)

CallStages == {"new", "file", "row", "audit", "load", "done"}
BugRecords == [by : Callers, no : Nat]
Verdicts == {"none", "promote", "promote_with_fixes", "do_not_promote"}
Reads == 0..Len(ReadOrder)
Holdings == SUBSET ArtifactTypes
ReviewStates ==
  [read : Reads, held : Holdings, lacked : Holdings, bugs : Nat, filed : Nat,
   missing : Holdings, verdict : Verdicts]
MayFail == Calls \cup Reviews
ErrorRecords == [call : MayFail, kind : ErrorKinds]
AuditRecords == [by : Reviews, verdict : Verdicts, filed : Nat]
WatchStages == {"away", "errors", "shown"}
Watches ==
  [pc : WatchStages, errors : Seq(ErrorRecords), fresh : SUBSET MayFail,
   before : SUBSET Reports]
ExportStages == {"away", "bugs", "written"}
Exports ==
  [pc : ExportStages, bugs : SUBSET BugRecords, audits : SUBSET AuditRecords,
   files : SUBSET BugRecords, before : SUBSET Callers, read : BOOLEAN]

RecordsTypeOK ==
  /\ errors \in Seq(ErrorRecords) /\ audits \subseteq AuditRecords
  /\ bugfile \subseteq BugRecords /\ bugtab \subseteq BugRecords
  /\ failed \subseteq BugRecords \X {"line", "row"}

OpsTypeOK ==
  /\ pc \in [Callers -> CallStages] /\ answered \subseteq MayFail
  /\ quoted \in [Reports -> MayFail \cup {NoCall}]
  /\ RecordsTypeOK
  /\ stored \in Holdings /\ writes \in Nat /\ commands \in Nat
  /\ review \in [Reviews -> ReviewStates]
  /\ watch \in Watches /\ export \in Exports

\* Bug b has its line, or the line failed.
Accounted(b) == b \in bugfile \/ <<b, "line">> \in failed

\* The bugs of review v whose line was tried: those filed, and the one at "row".
Lines(v) == review[v].filed + (IF pc[v] = "row" THEN 1 ELSE 0)

\* The bugs of a review are recorded one by one, and the audit comes last.
Accounts(v) ==
  /\ pc[v] \in {"new", "load"} => review[v].filed = 0
  /\ pc[v] \in {"file", "row"} => review[v].filed < review[v].bugs
  /\ pc[v] \in {"audit", "done"} => review[v].filed \in {0, review[v].bugs}
  /\ \A b \in BugRecords : b.by = v => (Accounted(b) <=> b.no < Lines(v))
  /\ \A b \in bugtab : b.by = v => b.no < review[v].filed

\* What a review lacks was not stored at some moment of its reading.
Witnessed(v) ==
  /\ pc[v] = "new" => review[v] = NewReview
  /\ pc[v] = "load" => ArtifactTypes \ stored \subseteq review[v].lacked
  /\ pc[v] = "load" =>
       \A i \in 1..review[v].read : ReadOrder[i] \in review[v].held \cup review[v].lacked
  /\ review[v].missing \subseteq review[v].lacked

\* The record of a client's report.
ReportOf(r) == [by |-> r, no |-> 0]

Reported ==
  /\ \A r \in Reports : pc[r] \in {"row", "done"} => Accounted(ReportOf(r))
  /\ watch.before \subseteq Confirmed

Audited == \A a \in audits : pc[a.by] = "done" /\ a.filed = review[a.by].filed

OpsInv ==
  /\ OpsTypeOK
  /\ \A v \in Reviews : Accounts(v) /\ Witnessed(v)
  /\ Reported /\ FirstReportSeen /\ Audited

----------------------------------------------------------------------------
(* Callers and records. *)

LEMMA Kinds ==
  /\ Calls \subseteq Callers /\ Reports \subseteq Callers /\ Demands \subseteq Callers
  /\ Reviews \subseteq Callers
  /\ Calls \cap Reviews = {} /\ Reports \cap Reviews = {} /\ Demands \cap Reviews = {}
  /\ Calls \cap Reports = {} /\ Demands \cap Reports = {}
BY CallersAssumption DEF Callers

LEMMA StageNames ==
  /\ {"new", "file", "row", "audit", "load", "done"} \subseteq CallStages
  /\ {"away", "errors", "shown"} \subseteq WatchStages
  /\ {"away", "bugs", "written"} \subseteq ExportStages
  /\ {"none", "promote", "promote_with_fixes", "do_not_promote"} \subseteq Verdicts
BY DEF CallStages, WatchStages, ExportStages, Verdicts

LEMMA ReportBug ==
  ASSUME NEW r \in Reports
  PROVE  Bug(r) = ReportOf(r) /\ Bug(r)' = ReportOf(r) /\ ReportOf(r) \in BugRecords
BY Kinds DEF Bug, ReportOf, BugRecords

LEMMA BugTyped ==
  ASSUME NEW p \in Callers, OpsTypeOK
  PROVE  /\ Bug(p) \in BugRecords /\ Bug(p).by = p
         /\ p \in Reviews => Bug(p).no = review[p].filed
<1>1. p \in Reviews => review[p].filed \in Nat
  BY DEF OpsTypeOK, ReviewStates
<1> QED
  BY <1>1 DEF Bug, BugRecords

LEMMA ReviewTyped ==
  ASSUME NEW v \in Reviews, OpsTypeOK
  PROVE  /\ review[v] \in ReviewStates
         /\ review[v].read \in Nat /\ review[v].read \in Reads /\ review[v].held \in Holdings
         /\ review[v].lacked \in Holdings /\ review[v].missing \in Holdings
         /\ review[v].bugs \in Nat /\ review[v].filed \in Nat
         /\ review[v].verdict \in Verdicts
BY OrderAssumption DEF OpsTypeOK, ReviewStates, Reads

----------------------------------------------------------------------------
(* The kinds of steps. *)

\* Caller p moves on, and touches no records but its own.
LEMMA Moves ==
  ASSUME OpsInv, OpsTypeOK', NEW p \in Callers, NEW to, To(p, to), pc[p] # "done",
         UNCHANGED <<stored, watch>>, failed \subseteq failed', bugfile \subseteq bugfile',
         \A b \in BugRecords : Accounted(b)' /\ b.by # p => Accounted(b),
         \A b \in bugtab' : b \in bugtab \/ b.by = p,
         \A v \in Reviews \ {p} : review'[v] = review[v],
         p \in Reviews => Accounts(p)' /\ Witnessed(p)',
         p \in Reports /\ to \in {"row", "done"} => Accounted(ReportOf(p))',
         \A r \in Reports : pc[r] = "done" => quoted'[r] = quoted[r],
         Audited'
  PROVE  OpsInv'
<1>1. \A q \in Callers \ {p} : pc'[q] = pc[q]
  BY DEF To, OpsInv, OpsTypeOK
<1>2. \A b \in BugRecords : Accounted(b) => Accounted(b)'
  BY DEF Accounted
<1>3. ASSUME NEW v \in Reviews
      PROVE  Accounts(v)' /\ Witnessed(v)'
  <2>1. CASE v # p
    <3>1. pc'[v] = pc[v] /\ review'[v] = review[v] /\ v \in Callers
      BY <1>1, <2>1, Kinds
    <3>2. Accounts(v) /\ Witnessed(v)
      BY DEF OpsInv
    <3>3. \A b \in BugRecords : b.by = v => (Accounted(b)' <=> Accounted(b))
      BY <1>2, <2>1
    <3>4. \A b \in bugtab' : b.by = v => b \in bugtab
      BY <2>1
    <3>5. Accounts(v)'
      BY <3>1, <3>2, <3>3, <3>4 DEF Accounts, Lines
    <3>6. Witnessed(v)'
      BY <3>1, <3>2 DEF Witnessed
    <3> QED
      BY <3>5, <3>6
  <2> QED
    BY <2>1
<1>4. Reported'
  <2>1. ASSUME NEW r \in Reports, pc'[r] \in {"row", "done"}
        PROVE  Accounted(ReportOf(r))'
    <3>1. CASE r = p
      <4>1. pc'[p] = to
        BY DEF To, OpsInv, OpsTypeOK
      <4> QED
        BY <2>1, <3>1, <4>1
    <3>2. CASE r # p
      BY <1>1, <1>2, <2>1, <3>2, Kinds, ReportBug DEF OpsInv, Reported
    <3> QED
      BY <3>1, <3>2
  <2>2. (watch.before \subseteq Confirmed)'
    BY <1>1, Kinds DEF OpsInv, Reported, Confirmed, At
  <2> QED
    BY <2>1, <2>2 DEF Reported
<1>5. FirstReportSeen'
  <2>1. SUFFICES ASSUME watch'.pc = "shown", NEW r \in watch'.before,
                        quoted'[r] \in watch'.fresh
                 PROVE  <<Bug(r)', "line">> \in failed'
    BY DEF FirstReportSeen
  <2>2. r \in Reports /\ pc[r] = "done" /\ r \in watch.before
    BY DEF OpsInv, Reported, Confirmed, At
  <2> QED
    BY <2>1, <2>2, ReportBug DEF OpsInv, FirstReportSeen
<1> QED
  BY <1>3, <1>4, <1>5 DEF OpsInv

LEMMA AuditsKept ==
  ASSUME OpsInv, NEW p \in Callers, NEW to, To(p, to), pc[p] # "done", audits' = audits,
         \A v \in Reviews \ {p} : review'[v] = review[v]
  PROVE  Audited'
<1>1. SUFFICES ASSUME NEW a \in audits PROVE pc'[a.by] = "done" /\ a.filed = review'[a.by].filed
  BY DEF Audited
<1>2. a.by \in Reviews /\ pc[a.by] = "done" /\ a.filed = review[a.by].filed
  BY DEF OpsInv, Audited, OpsTypeOK, RecordsTypeOK, AuditRecords
<1> QED
  BY <1>2, Kinds DEF To, OpsInv, OpsTypeOK

\* No record is touched, and no review but p's.
LEMMA MovesOn ==
  ASSUME OpsInv, OpsTypeOK', NEW p \in Callers, NEW to, To(p, to), pc[p] # "done",
         UNCHANGED <<stored, store, audits, watch>>,
         \A v \in Reviews \ {p} : review'[v] = review[v],
         p \in Reviews => Accounts(p)' /\ Witnessed(p)',
         p \in Reports => to \notin {"row", "done"},
         \A r \in Reports : pc[r] = "done" => quoted'[r] = quoted[r]
  PROVE  OpsInv'
<1>1. Audited'
  BY AuditsKept
<1>2. \A b \in BugRecords : Accounted(b)' <=> Accounted(b)
  BY DEF Accounted, store
<1> QED
  BY <1>1, <1>2, Moves DEF store

\* Nothing of a call, a review or a record changes.
LEMMA Elsewhere ==
  ASSUME OpsInv, OpsTypeOK', UNCHANGED <<pc, store, quoted, review, audits, watch>>,
         stored' = stored
  PROVE  OpsInv'
<1>1. ASSUME NEW v \in Reviews PROVE Accounts(v)' /\ Witnessed(v)'
  BY DEF OpsInv, Accounts, Witnessed, Lines, Accounted, store
<1>2. Reported' /\ Audited'
  BY DEF OpsInv, Reported, Audited, Accounted, Confirmed, At, store
<1>3. FirstReportSeen'
  BY DEF OpsInv, FirstReportSeen, Bug, store
<1> QED
  BY <1>1, <1>2, <1>3 DEF OpsInv

----------------------------------------------------------------------------
(* Failing calls, reports, requests. *)

\* A call of a tool or a review fails: its record is well formed.
LEMMA RaisesTyped ==
  ASSUME OpsInv, NEW p \in MayFail, Raises(p)
  PROVE  errors' \in Seq(ErrorRecords) /\ answered' \subseteq MayFail
<1>1. errors \in Seq(ErrorRecords) /\ answered \subseteq MayFail
  BY DEF OpsInv, OpsTypeOK, RecordsTypeOK
<1>2. \A k \in ErrorKinds : [call |-> p, kind |-> k] \in ErrorRecords
  BY DEF ErrorRecords
<1>3. ASSUME NEW k \in ErrorKinds, errors' = Append(errors, [call |-> p, kind |-> k])
      PROVE  errors' \in Seq(ErrorRecords)
  <2> DEFINE e == [call |-> p, kind |-> k]
  <2>1. e \in ErrorRecords /\ errors' = Append(errors, e)
    BY <1>2, <1>3
  <2> HIDE DEF e
  <2> QED
    BY <1>1, <2>1
<1> QED
  BY <1>1, <1>3 DEF Raises

LEMMA CallInv ==
  ASSUME OpsInv, NEW c \in Calls, CallStep(c)
  PROVE  OpsInv'
<1>1. /\ To(c, "done") /\ pc[c] = "new" /\ c \in Callers /\ c \notin Reviews /\ c \notin Reports
      /\ UNCHANGED <<quoted, store, skill, review, audits, operator>>
  BY Kinds DEF CallStep, UnknownTool, HandlerRaises, Raises, Starts, At
<1>2. errors' \in Seq(ErrorRecords) /\ answered' \subseteq MayFail
  <2>1. CASE UnknownTool(c)
    BY <2>1 DEF UnknownTool, OpsInv, OpsTypeOK, RecordsTypeOK, MayFail
  <2>2. CASE HandlerRaises(c)
    BY <2>2, RaisesTyped DEF HandlerRaises, MayFail
  <2> QED
    BY <2>1, <2>2 DEF CallStep
<1>3. OpsTypeOK'
  BY <1>1, <1>2, StageNames
     DEF OpsInv, OpsTypeOK, RecordsTypeOK, To, store, skill, operator
<1> QED
  BY <1>1, <1>3, MovesOn DEF skill, operator

LEMMA ReportInv ==
  ASSUME OpsInv, NEW r \in Reports, Report(r)
  PROVE  OpsInv'
<1>1. /\ To(r, "file") /\ pc[r] = "new" /\ r \in Callers /\ r \notin Reviews
      /\ \E c \in answered : quoted' = [quoted EXCEPT ![r] = c]
      /\ UNCHANGED <<answered, errors, store, skill, review, audits, operator>>
  BY Kinds DEF Report, Starts, At
<1>2. OpsTypeOK'
  BY <1>1, StageNames DEF OpsInv, OpsTypeOK, RecordsTypeOK, To, store, skill, operator
<1>3. \A s \in Reports : pc[s] = "done" => quoted'[s] = quoted[s]
  BY <1>1 DEF OpsInv, OpsTypeOK
<1> QED
  BY <1>1, <1>2, <1>3, MovesOn DEF skill, operator

LEMMA AskInv ==
  ASSUME OpsInv, NEW q \in Demands, AskConnector(q)
  PROVE  OpsInv'
<1>1. /\ To(q, "file") /\ pc[q] = "new" /\ q \in Callers /\ q \notin Reviews /\ q \notin Reports
      /\ UNCHANGED <<answered, errors, quoted, store, skill, review, audits, operator>>
  BY Kinds DEF AskConnector, Starts, At
<1>2. OpsTypeOK'
  BY <1>1, StageNames DEF OpsInv, OpsTypeOK, RecordsTypeOK, To, store, skill, operator
<1> QED
  BY <1>1, <1>2, MovesOn DEF skill, operator

----------------------------------------------------------------------------
(* A line and a row for each bug. *)

LEMMA LineInv ==
  ASSUME OpsInv, NEW p \in Callers, AppendLine(p)
  PROVE  OpsInv'
<1>1. /\ To(p, "row") /\ pc[p] = "file" /\ WriteLine(p) /\ OpsTypeOK
      /\ UNCHANGED <<answered, errors, quoted, bugtab, skill, review, audits, operator>>
  BY DEF AppendLine, At, OpsInv
<1> DEFINE b0 == Bug(p)
<1>2. b0 \in BugRecords /\ b0.by = p /\ (p \in Reviews => b0.no = review[p].filed)
  BY <1>1, BugTyped
<1>3. /\ bugfile' \subseteq BugRecords /\ failed' \subseteq BugRecords \X {"line", "row"}
      /\ bugfile \subseteq bugfile' /\ failed \subseteq failed'
  BY <1>1, <1>2 DEF WriteLine, OpsTypeOK, RecordsTypeOK
<1>4. \A b \in BugRecords : Accounted(b)' <=> Accounted(b) \/ b = b0
  BY <1>1 DEF WriteLine, Accounted
<1> HIDE DEF b0
<1>5. OpsTypeOK'
  BY <1>1, <1>3, StageNames DEF OpsTypeOK, RecordsTypeOK, To, skill, operator
<1>6. ASSUME p \in Reviews
      PROVE  Accounts(p)' /\ Witnessed(p)'
  <2>1. pc'[p] = "row" /\ review'[p] = review[p] /\ bugtab' = bugtab
    BY <1>1 DEF To, OpsTypeOK
  <2>2. Accounts(p) /\ Witnessed(p) /\ review[p].filed \in Nat
    BY <1>1, <1>6, ReviewTyped DEF OpsInv
  <2>3. \A b \in BugRecords : b.by = p => (Accounted(b) <=> b.no < review[p].filed)
    BY <1>1, <2>2 DEF Accounts, Lines
  <2>4. \A b \in BugRecords : b.by = p => (b = b0 <=> b.no = review[p].filed)
    BY <1>2, <1>6 DEF BugRecords
  <2>5. \A b \in BugRecords : b.no \in Nat
    BY DEF BugRecords
  <2>6. \A b \in BugRecords : b.by = p => (Accounted(b)' <=> b.no < review[p].filed + 1)
    BY <1>4, <2>2, <2>3, <2>4, <2>5
  <2>7. Accounts(p)'
    BY <1>1, <2>1, <2>2, <2>6 DEF Accounts, Lines
  <2>8. Witnessed(p)'
    BY <2>1, <2>2 DEF Witnessed
  <2> QED
    BY <2>7, <2>8
<1>7. p \in Reports => Accounted(ReportOf(p))'
  BY <1>2, <1>4, ReportBug DEF b0
<1>8. Audited'
  BY <1>1, AuditsKept
<1>9. \A b \in BugRecords : Accounted(b)' /\ b.by # p => Accounted(b)
  BY <1>2, <1>4
<1> QED
  BY <1>1, <1>3, <1>5, <1>6, <1>7, <1>8, <1>9, Moves DEF skill, operator

LEMMA FiledOneMore ==
  ASSUME NEW x \in ReviewStates
  PROVE  /\ [x EXCEPT !.filed = @ + 1] \in ReviewStates
         /\ [x EXCEPT !.filed = @ + 1].filed = x.filed + 1
         /\ [x EXCEPT !.filed = @ + 1].bugs = x.bugs
         /\ [x EXCEPT !.filed = @ + 1].missing = x.missing
         /\ [x EXCEPT !.filed = @ + 1].lacked = x.lacked
BY DEF ReviewStates

LEMMA RowInv ==
  ASSUME OpsInv, NEW p \in Callers, InsertRow(p)
  PROVE  OpsInv'
<1>1. /\ To(p, AfterRow(p)) /\ pc[p] = "row" /\ WriteRow(p) /\ OpsTypeOK
      /\ review' = IF p \in Reviews THEN [review EXCEPT ![p].filed = @ + 1] ELSE review
      /\ UNCHANGED <<answered, errors, quoted, bugfile, skill, audits, operator>>
  BY DEF InsertRow, At, OpsInv
<1> DEFINE b0 == Bug(p)
<1>2. b0 \in BugRecords /\ b0.by = p /\ (p \in Reviews => b0.no = review[p].filed)
  BY <1>1, BugTyped
<1>3. /\ bugtab' \subseteq BugRecords /\ failed' \subseteq BugRecords \X {"line", "row"}
      /\ failed \subseteq failed' /\ bugtab' \subseteq bugtab \cup {b0}
  BY <1>1, <1>2 DEF WriteRow, OpsTypeOK, RecordsTypeOK
<1>4. \A b \in BugRecords : Accounted(b)' <=> Accounted(b)
  BY <1>1 DEF WriteRow, Accounted
<1> HIDE DEF b0
<1>5. AfterRow(p) \in CallStages /\ (p \notin Reviews => AfterRow(p) = "done")
  BY StageNames DEF AfterRow
<1>6. review' \in [Reviews -> ReviewStates] /\ \A v \in Reviews \ {p} : review'[v] = review[v]
  BY <1>1, FiledOneMore DEF OpsTypeOK
<1>7. OpsTypeOK'
  BY <1>1, <1>3, <1>5, <1>6 DEF OpsTypeOK, RecordsTypeOK, To, skill, operator
<1>8. ASSUME p \in Reviews
      PROVE  Accounts(p)' /\ Witnessed(p)'
  <2>1. /\ pc'[p] = AfterRow(p)
        /\ review'[p].filed = review[p].filed + 1 /\ review'[p].bugs = review[p].bugs
        /\ review'[p].missing = review[p].missing /\ review'[p].lacked = review[p].lacked
    BY <1>1, <1>8, FiledOneMore DEF To, OpsTypeOK
  <2>2. /\ Accounts(p) /\ Witnessed(p) /\ review[p].filed \in Nat /\ review[p].bugs \in Nat
        /\ review[p].filed < review[p].bugs
    BY <1>1, <1>8, ReviewTyped DEF OpsInv, Accounts
  <2>3. \/ pc'[p] = "file" /\ review'[p].filed < review'[p].bugs
        \/ pc'[p] = "audit" /\ review'[p].filed = review'[p].bugs
    BY <1>8, <2>1, <2>2 DEF AfterRow
  <2>4. \A b \in BugRecords : b.by = p => (Accounted(b)' <=> b.no < review[p].filed + 1)
    BY <1>1, <1>4, <2>2 DEF Accounts, Lines
  <2>5. ASSUME NEW b \in bugtab', b.by = p
        PROVE  b.no < review[p].filed + 1
    <3>1. CASE b = b0
      BY <1>2, <1>8, <2>2, <3>1
    <3>2. CASE b # b0
      <4>1. b \in bugtab /\ b \in BugRecords
        BY <1>1, <1>3, <2>5, <3>2 DEF OpsTypeOK, RecordsTypeOK
      <4>2. b.no < review[p].filed /\ b.no \in Nat
        BY <2>2, <2>5, <4>1 DEF Accounts, BugRecords
      <4> QED
        BY <2>2, <4>2
    <3> QED
      BY <3>1, <3>2
  <2>6. Accounts(p)'
    BY <2>1, <2>2, <2>3, <2>4, <2>5 DEF Accounts, Lines
  <2>7. Witnessed(p)'
    BY <2>1, <2>2, <2>3 DEF Witnessed
  <2> QED
    BY <2>6, <2>7
<1>9. p \in Reports => Accounted(ReportOf(p))'
  BY <1>1, <1>4, ReportBug DEF OpsInv, Reported
<1>10. Audited'
  BY <1>1, <1>6, AuditsKept
<1>11. \A b \in bugtab' : b \in bugtab \/ b.by = p
  BY <1>2, <1>3
<1> QED
  BY <1>1, <1>3, <1>4, <1>6, <1>7, <1>8, <1>9, <1>10, <1>11, Moves DEF skill, operator

----------------------------------------------------------------------------
(* Reviews. *)

\* Review v is written, and goes on.
LEMMA ReviewMoves ==
  ASSUME OpsInv, NEW v \in Reviews, NEW x \in ReviewStates, NEW to \in CallStages, To(v, to),
         review' = [review EXCEPT ![v] = x], pc[v] # "done",
         UNCHANGED <<answered, errors, quoted, store, skill, audits, operator>>,
         Accounts(v)', Witnessed(v)'
  PROVE  OpsInv'
<1>1. \A w \in Reviews \ {v} : review'[w] = review[w]
  BY DEF OpsInv, OpsTypeOK
<1>2. OpsTypeOK'
  BY DEF OpsInv, OpsTypeOK, RecordsTypeOK, To, store, skill, operator
<1>3. v \in Callers /\ v \notin Reports
  BY Kinds
<1> QED
  BY <1>1, <1>2, <1>3, MovesOn DEF skill, operator

\* No line of v was tried, and no row was written, before its reading ends.
LEMMA NothingFiled ==
  ASSUME OpsInv, NEW v \in Reviews, pc[v] \in {"new", "load"}
  PROVE  /\ review[v].filed = 0
         /\ \A b \in BugRecords : b.by = v => ~Accounted(b)
         /\ \A b \in bugtab : b.by # v
<1>1. review[v].filed = 0
  BY DEF OpsInv, Accounts
<1>2. \A b \in BugRecords : b.no \in Nat
  BY DEF BugRecords
<1>3. bugtab \subseteq BugRecords
  BY DEF OpsInv, OpsTypeOK, RecordsTypeOK
<1> QED
  BY <1>1, <1>2, <1>3 DEF OpsInv, Accounts, Lines

LEMMA StillNothing ==
  ASSUME OpsInv, NEW v \in Reviews, pc[v] \in {"new", "load"}, UNCHANGED store,
         pc'[v] \in {"load", "file", "audit", "done"}, review'[v].filed = 0,
         pc'[v] = "file" => 0 < review'[v].bugs
  PROVE  Accounts(v)'
<1>1. \A b \in BugRecords : b.no \in Nat
  BY DEF BugRecords
<1>2. \A b \in BugRecords : b.by = v => ~Accounted(b)'
  BY NothingFiled DEF Accounted, store
<1>3. bugtab' = bugtab /\ \A b \in bugtab : b.by # v
  BY NothingFiled DEF store
<1> QED
  BY <1>1, <1>2, <1>3 DEF Accounts, Lines

LEMMA EveryType ==
  /\ \A i \in 1..Len(ReadOrder) : ReadOrder[i] \in ArtifactTypes
  /\ \A t \in ArtifactTypes : \E i \in 1..Len(ReadOrder) : ReadOrder[i] = t
<1>1. ReadOrder \in Seq(ArtifactTypes) /\ ToSet(ReadOrder) = ArtifactTypes
  BY OrderAssumption
<1>2. DOMAIN ReadOrder = 1..Len(ReadOrder)
  BY <1>1
<1> QED
  BY <1>1, <1>2 DEF ToSet

LEMMA NewTyped == NewReview \in ReviewStates
<1>1. 0 \in Reads /\ {} \in Holdings /\ "none" \in Verdicts
  BY OrderAssumption, StageNames DEF Reads, Holdings
<1> QED
  BY <1>1 DEF NewReview, ReviewStates

LEMMA LoadSessionInv ==
  ASSUME OpsInv, NEW v \in Reviews, LoadSession(v)
  PROVE  OpsInv'
<1>1. /\ pc[v] = "new" /\ review[v] \in ReviewStates /\ review[v] = NewReview
      /\ UNCHANGED <<answered, errors, quoted, store, skill, audits, operator>>
      /\ \/ To(v, "load") /\ review' = [review EXCEPT ![v].lacked = ArtifactTypes \ stored]
         \/ To(v, "done") /\ UNCHANGED review
  BY ReviewTyped DEF LoadSession, Starts, At, OpsInv, Witnessed
<1>2. CASE To(v, "load") /\ review' = [review EXCEPT ![v].lacked = ArtifactTypes \ stored]
  <2> DEFINE g == ArtifactTypes \ stored
             x == [review[v] EXCEPT !.lacked = g]
  <2>1. /\ g \in Holdings /\ g = ArtifactTypes \ stored
        /\ review[v].filed = 0 /\ review[v].read = 0 /\ review[v].missing = {}
    BY <1>1 DEF NewReview, Holdings
  <2>2. review' = [review EXCEPT ![v] = x]
    BY <1>2 DEF OpsInv, OpsTypeOK
  <2> HIDE DEF g
  <2>3. /\ x \in ReviewStates /\ x.filed = 0 /\ x.read = 0 /\ x.lacked = g
        /\ x.missing = {}
    BY <1>1, <2>1 DEF ReviewStates
  <2> HIDE DEF x
  <2>4. pc'[v] = "load" /\ review'[v] = x /\ stored' = stored
    BY <1>1, <1>2, <2>2, Kinds DEF To, OpsInv, OpsTypeOK, skill
  <2>5. Accounts(v)'
    BY <1>1, <2>3, <2>4, StillNothing
  <2>6. Witnessed(v)'
    <3>1. 1..review'[v].read = {}
      BY <2>3, <2>4
    <3> QED
      BY <2>1, <2>3, <2>4, <3>1 DEF Witnessed
  <2> QED
    BY <1>1, <1>2, <2>2, <2>3, <2>5, <2>6, ReviewMoves, StageNames
<1>3. CASE To(v, "done") /\ UNCHANGED review
  <2>1. pc'[v] = "done" /\ review'[v] = NewReview
    BY <1>1, <1>3, Kinds DEF To, OpsInv, OpsTypeOK
  <2>2. review' = [review EXCEPT ![v] = review[v]]
    BY <1>3 DEF OpsInv, OpsTypeOK
  <2>3. NewReview.filed = 0 /\ NewReview.missing = {}
    BY DEF NewReview
  <2>4. Accounts(v)'
    BY <1>1, <2>1, <2>3, StillNothing
  <2>5. Witnessed(v)'
    BY <2>1, <2>3 DEF Witnessed
  <2> QED
    BY <1>1, <1>3, <2>2, <2>4, <2>5, ReviewMoves, StageNames
<1> QED
  BY <1>1, <1>2, <1>3

\* An artifact that is not held was not in the store when its turn came.
LEMMA LoadArtifactInv ==
  ASSUME OpsInv, NEW v \in Reviews, LoadArtifact(v)
  PROVE  OpsInv'
<1>1. /\ pc[v] = "load" /\ review[v] \in ReviewStates /\ Witnessed(v) /\ UNCHANGED pc
      /\ review[v].read \in Nat /\ review[v].read < Len(ReadOrder)
      /\ review[v].held \in Holdings /\ review[v].filed = 0
      /\ UNCHANGED <<answered, errors, quoted, store, skill, audits, operator>>
  BY ReviewTyped, NothingFiled DEF LoadArtifact, At, OpsInv
<1> DEFINE k == review[v].read + 1
           h == review[v].held \cup ({ReadOrder[k]} \cap stored)
           x == [review[v] EXCEPT !.read = k, !.held = h]
<1>2. k \in Reads /\ k \in 1..Len(ReadOrder) /\ k = review[v].read + 1 /\ k \in Nat
  BY <1>1, OrderAssumption DEF Reads
<1>3. review[v].held \subseteq h /\ ReadOrder[k] \in h \cup review[v].lacked
  <2>1. ReadOrder[k] \in ArtifactTypes
    BY <1>2, EveryType
  <2> QED
    BY <1>1, <2>1 DEF Witnessed
<1>4. h \in Holdings
  <2>1. ReadOrder[k] \in ArtifactTypes
    BY <1>2, EveryType
  <2> QED
    BY <1>1, <2>1 DEF Holdings
<1>5. review' = [review EXCEPT ![v] = x]
  BY DEF LoadArtifact, OpsInv, OpsTypeOK
<1> HIDE DEF k, h
<1>6. /\ x \in ReviewStates /\ x.read = k /\ x.held = h /\ x.lacked = review[v].lacked
      /\ x.missing = review[v].missing /\ x.filed = 0
  BY <1>1, <1>2, <1>4 DEF ReviewStates
<1> HIDE DEF x
<1>7. pc'[v] = "load" /\ review'[v] = x /\ stored' = stored /\ To(v, "load")
  BY <1>1, <1>5, Kinds DEF To, OpsInv, OpsTypeOK, skill
<1>8. Accounts(v)'
  BY <1>1, <1>6, <1>7, StillNothing
<1>9. ASSUME NEW i \in 1..k
      PROVE  ReadOrder[i] \in h \cup review[v].lacked
  <2>1. CASE i = k
    BY <1>3, <2>1
  <2>2. CASE i # k
    <3>1. i \in 1..review[v].read
      BY <1>1, <1>2, <2>2
    <3> QED
      BY <1>1, <1>3, <3>1 DEF Witnessed
  <2> QED
    BY <2>1, <2>2
<1>10. Witnessed(v)'
  BY <1>1, <1>6, <1>7, <1>9 DEF Witnessed
<1> QED
  BY <1>1, <1>5, <1>6, <1>7, <1>8, <1>10, ReviewMoves, StageNames

\* A session or an artifact that cannot be read ends the review.
LEMMA LoadFailsInv ==
  ASSUME OpsInv, NEW v \in Reviews, LoadFails(v)
  PROVE  OpsInv'
<1>1. /\ pc[v] \in {"new", "load"} /\ To(v, "done") /\ v \in Callers /\ v \notin Reports
      /\ review' = [review EXCEPT ![v] = NewReview]
      /\ UNCHANGED <<quoted, store, skill, audits, operator>>
  BY Kinds DEF LoadFails, Raises, Starts, At
<1>2. errors' \in Seq(ErrorRecords) /\ answered' \subseteq MayFail
  BY RaisesTyped DEF LoadFails, MayFail
<1>3. OpsTypeOK'
  BY <1>1, <1>2, NewTyped, StageNames
     DEF OpsInv, OpsTypeOK, RecordsTypeOK, To, store, skill, operator
<1>4. /\ pc'[v] = "done" /\ review'[v] = NewReview
      /\ \A w \in Reviews \ {v} : review'[w] = review[w]
  BY <1>1 DEF To, OpsInv, OpsTypeOK
<1>5. NewReview.filed = 0 /\ NewReview.missing = {}
  BY DEF NewReview
<1>6. Accounts(v)'
  BY <1>1, <1>4, <1>5, StillNothing
<1>7. Witnessed(v)'
  BY <1>4, <1>5 DEF Witnessed
<1> QED
  BY <1>1, <1>3, <1>4, <1>6, <1>7, MovesOn DEF skill, operator

\* All five types were looked for; one that is missing was not stored at its turn.
LEMMA ReviewedInv ==
  ASSUME OpsInv, NEW v \in Reviews, NEW bugs \in Nat, NEW verdict \in Verdicts,
         pc[v] = "load", review[v].read = Len(ReadOrder), Reviewed(v, bugs, verdict)
  PROVE  OpsInv'
<1>1. /\ review[v] \in ReviewStates /\ Witnessed(v) /\ review[v].held \subseteq ArtifactTypes
      /\ UNCHANGED <<answered, errors, quoted, store, skill, audits, operator>>
  BY ReviewTyped DEF Reviewed, OpsInv, Holdings
<1> DEFINE c == ArtifactTypes \ review[v].held
           g == c \cap review[v].lacked
           x == [NewReview EXCEPT !.bugs = bugs, !.verdict = verdict, !.missing = c, !.lacked = g]
<1>2. ASSUME NEW t \in c
      PROVE  t \in review[v].lacked
  <2>1. PICK i \in 1..Len(ReadOrder) : ReadOrder[i] = t
    BY EveryType
  <2> QED
    BY <1>1, <2>1 DEF Witnessed
<1>3. c \in Holdings /\ g \in Holdings /\ c \subseteq g
  BY <1>2 DEF Holdings
<1>4. review' = [review EXCEPT ![v] = x]
  BY DEF Reviewed
<1>5. PICK to \in {"file", "audit"} : To(v, to) /\ (to = "file" => bugs > 0)
  BY DEF Reviewed
<1> HIDE DEF c, g
<1>6. /\ x \in ReviewStates /\ x.filed = 0 /\ x.bugs = bugs /\ x.missing = c /\ x.lacked = g
  <2>1. NewReview \in ReviewStates /\ NewReview.filed = 0
    BY NewTyped DEF NewReview
  <2> QED
    BY <1>3, <2>1 DEF ReviewStates
<1> HIDE DEF x
<1>7. pc'[v] = to /\ review'[v] = x
  BY <1>4, <1>5, Kinds DEF To, OpsInv, OpsTypeOK
<1>8. Accounts(v)'
  BY <1>1, <1>5, <1>6, <1>7, StillNothing
<1>9. Witnessed(v)'
  BY <1>3, <1>5, <1>6, <1>7 DEF Witnessed
<1> QED
  BY <1>1, <1>4, <1>5, <1>6, <1>8, <1>9, ReviewMoves, StageNames

LEMMA FindingsTyped ==
  ASSUME NEW held, NEW flaws \in Flaws
  PROVE  /\ Structural(Findings(held, flaws)) \in Nat
         /\ StructuralSum(Findings(held, flaws)) \in Nat
<1> DEFINE f == Findings(held, flaws)
<1>1. f.artifactConsistency \in Nat /\ f.evalQuality \in Nat /\ f.kbWiring \in Nat
  BY FlawsAssumption
     DEF Findings, MissingArtifacts, NullGold, NameMismatch, DanglingKbs, ForeignFields
<1> HIDE DEF f
<1>2. \A n \in Nat : DimensionScore(n) \in Nat
  BY DEF DimensionScore
<1> QED
  BY <1>1, <1>2 DEF Structural, StructuralSum, f

LEMMA Recommended ==
  ASSUME NEW sum \in Nat, NEW count \in Nat
  PROVE  Recommendation(sum, count) \in Verdicts
BY StageNames DEF Recommendation

LEMMA AuditInv ==
  ASSUME OpsInv, NEW v \in Reviews, PersistAudit(v)
  PROVE  OpsInv'
<1>1. /\ pc[v] = "audit" /\ To(v, "done") /\ review[v] \in ReviewStates
      /\ Accounts(v) /\ Witnessed(v)
      /\ UNCHANGED <<answered, errors, quoted, store, skill, operator>>
  BY ReviewTyped DEF PersistAudit, At, OpsInv
<1> DEFINE a == [by |-> v, verdict |-> review[v].verdict, filed |-> review[v].filed]
           x == [review[v] EXCEPT !.verdict = "none", !.missing = {}, !.lacked = {}]
<1>2. audits' \in {audits, audits \cup {a}} /\ review' = [review EXCEPT ![v] = x]
  BY DEF PersistAudit, OpsInv, OpsTypeOK
<1>3. /\ x \in ReviewStates /\ x.filed = review[v].filed /\ x.bugs = review[v].bugs
      /\ x.missing = {} /\ x.lacked = {}
  BY <1>1, StageNames DEF ReviewStates, Holdings
<1>4. a \in AuditRecords /\ a.by = v /\ a.filed = review[v].filed
  BY ReviewTyped DEF AuditRecords, OpsInv
<1> HIDE DEF a, x
<1>5. /\ pc'[v] = "done" /\ review'[v] = x /\ v \in Callers /\ v \notin Reports
      /\ \A w \in Reviews \ {v} : review'[w] = review[w]
      /\ \A p \in Callers \ {v} : pc'[p] = pc[p]
  BY <1>1, <1>2, Kinds DEF To, OpsInv, OpsTypeOK
<1>6. OpsTypeOK'
  BY <1>1, <1>2, <1>3, <1>4, StageNames
     DEF OpsInv, OpsTypeOK, RecordsTypeOK, To, store, skill, operator
<1>7. Accounts(v)'
  BY <1>1, <1>3, <1>5 DEF Accounts, Lines, Accounted, store
<1>8. Witnessed(v)'
  BY <1>1, <1>3, <1>5 DEF Witnessed
<1>9. Audited'
  <2>1. SUFFICES ASSUME NEW d \in audits'
                 PROVE  pc'[d.by] = "done" /\ d.filed = review'[d.by].filed
    BY DEF Audited
  <2>2. CASE d = a
    BY <1>3, <1>4, <1>5, <2>2
  <2>3. CASE d # a
    <3>1. d \in audits
      BY <1>2, <2>1, <2>3
    <3>2. d.by \in Reviews /\ pc[d.by] = "done" /\ d.filed = review[d.by].filed
      BY <3>1 DEF OpsInv, Audited, OpsTypeOK, RecordsTypeOK, AuditRecords
    <3>3. d.by # v /\ d.by \in Callers
      BY <1>1, <3>2, Kinds
    <3> QED
      BY <1>5, <3>2, <3>3
  <2> QED
    BY <2>2, <2>3
<1>10. \A b \in BugRecords : Accounted(b)' <=> Accounted(b)
  BY <1>1 DEF Accounted, store
<1> QED
  BY <1>1, <1>5, <1>6, <1>7, <1>8, <1>9, <1>10, Moves DEF store, skill, operator

LEMMA ReviewInv ==
  ASSUME OpsInv, NEW v \in Reviews, ReviewStep(v)
  PROVE  OpsInv'
<1>1. CASE LoadSession(v) \/ LoadArtifact(v) \/ LoadFails(v) \/ PersistAudit(v)
  BY <1>1, LoadSessionInv, LoadArtifactInv, LoadFailsInv, AuditInv
<1>2. CASE ReviewStructurally(v)
  <2>1. PICK flaws \in Flaws, more \in {0, 1} :
          Reviewed(v, Structural(Findings(review[v].held, flaws)) + more,
                   Recommendation(StructuralSum(Findings(review[v].held, flaws)), 7))
    BY <1>2 DEF ReviewStructurally
  <2> DEFINE f == Findings(review[v].held, flaws)
  <2>2. Structural(f) + more \in Nat /\ Recommendation(StructuralSum(f), 7) \in Verdicts
    BY FindingsTyped, Recommended
  <2> QED
    BY <1>2, <2>1, <2>2, ReviewedInv DEF ReviewStructurally, At
<1>3. CASE ReviewByModel(v)
  <2>1. PICK flaws \in Flaws, more \in CritiqueBugs, score \in {0, 5, 8} :
          Reviewed(v, Structural(Findings(review[v].held, flaws)) + more,
                   Recommendation(score, 1))
    BY <1>3 DEF ReviewByModel
  <2>2. /\ Structural(Findings(review[v].held, flaws)) + more \in Nat
        /\ Recommendation(score, 1) \in Verdicts
    BY FindingsTyped, Recommended, LimitsAssumption
  <2> QED
    BY <1>3, <2>1, <2>2, ReviewedInv DEF ReviewByModel, At
<1> QED
  BY <1>1, <1>2, <1>3 DEF ReviewStep

----------------------------------------------------------------------------
(* The skill under review, and the operator. *)

\* A deletion is seen by every review that is reading.
LEMMA SkillInv ==
  ASSUME OpsInv, CommitSkill \/ DeleteSkill
  PROVE  OpsInv'
<1>1. /\ UNCHANGED <<pc, answered, errors, quoted, store, audits, operator>>
      /\ writes' = writes + 1
  BY DEF CommitSkill, DeleteSkill
<1>2. CASE CommitSkill
  <2>0. UNCHANGED review /\ stored \subseteq stored' /\ stored' \in Holdings
    BY <1>2 DEF CommitSkill, Fieldless, ArtifactTypes, Holdings, OpsInv, OpsTypeOK
  <2>1. OpsTypeOK'
    BY <1>1, <2>0 DEF OpsInv, OpsTypeOK, RecordsTypeOK, store, operator
  <2>2. ASSUME NEW v \in Reviews PROVE Accounts(v)' /\ Witnessed(v)'
    BY <1>1, <2>0 DEF OpsInv, Accounts, Witnessed, Lines, Accounted, store
  <2>3. Reported' /\ Audited' /\ FirstReportSeen'
    BY <1>1, <2>0
       DEF OpsInv, Reported, Audited, FirstReportSeen, Bug, Accounted, Confirmed, At, store,
           operator
  <2> QED
    BY <2>1, <2>2, <2>3 DEF OpsInv
<1>3. CASE DeleteSkill
  <2> DEFINE x(v) == IF At(v, "load") THEN [review[v] EXCEPT !.lacked = ArtifactTypes]
                     ELSE review[v]
  <2>1. review' = [v \in Reviews |-> x(v)]
    BY <1>3 DEF DeleteSkill
  <2>2. ASSUME NEW v \in Reviews
        PROVE  /\ x(v) \in ReviewStates /\ x(v).filed = review[v].filed
               /\ x(v).bugs = review[v].bugs /\ x(v).missing = review[v].missing
               /\ x(v).read = review[v].read /\ x(v).held = review[v].held
               /\ x(v).lacked = (IF At(v, "load") THEN ArtifactTypes ELSE review[v].lacked)
               /\ pc[v] = "new" => x(v) = review[v]
    BY ReviewTyped DEF ReviewStates, Holdings, At, OpsInv
  <2> HIDE DEF x
  <2>3. OpsTypeOK'
    <3>1. review' \in [Reviews -> ReviewStates]
      BY <2>1, <2>2
    <3>2. stored' \in Holdings /\ writes' \in Nat
      BY <1>1, <1>3 DEF DeleteSkill, Holdings, OpsInv, OpsTypeOK
    <3> QED
      BY <1>1, <3>1, <3>2 DEF OpsInv, OpsTypeOK, RecordsTypeOK, store, operator
  <2>4. ASSUME NEW v \in Reviews PROVE Accounts(v)' /\ Witnessed(v)'
    <3>1. review'[v] = x(v) /\ pc' = pc /\ Accounts(v) /\ Witnessed(v)
      BY <1>1, <2>1 DEF OpsInv
    <3>2. Accounts(v)'
      BY <1>1, <2>2, <3>1 DEF Accounts, Lines, Accounted, store
    <3>3. Witnessed(v)'
      <4>1. /\ review[v].missing \in Holdings /\ review[v].read \in Nat
            /\ review[v].read \in Reads
        BY ReviewTyped DEF OpsInv
      <4>2. \A i \in 1..review[v].read : ReadOrder[i] \in ArtifactTypes
        BY <4>1, EveryType, OrderAssumption DEF Reads
      <4> QED
        BY <2>2, <3>1, <4>1, <4>2 DEF Witnessed, At, Holdings
    <3> QED
      BY <3>2, <3>3
  <2>5. Audited'
    BY <1>1, <2>1, <2>2
       DEF OpsInv, OpsTypeOK, RecordsTypeOK, AuditRecords, Audited
  <2>6. Reported'
    BY <1>1 DEF OpsInv, Reported, Accounted, Confirmed, At, store, operator
  <2>7. FirstReportSeen'
    <3>1. watch' = watch /\ quoted' = quoted /\ failed' = failed
      BY <1>1 DEF store, operator
    <3>2. watch.before \subseteq Reports
      BY DEF OpsInv, OpsTypeOK, Watches
    <3> QED
      BY <3>1, <3>2, ReportBug DEF OpsInv, FirstReportSeen
  <2> QED
    BY <2>3, <2>4, <2>5, <2>6, <2>7 DEF OpsInv
<1> QED
  BY <1>2, <1>3

LEMMA WatchErrorsInv ==
  ASSUME OpsInv, WatchErrors
  PROVE  OpsInv'
<1>1. /\ watch' = [NoWatch EXCEPT !.pc = "errors", !.errors = errors, !.before = Confirmed]
      /\ commands' = commands + 1
      /\ UNCHANGED <<pc, answered, errors, quoted, store, skill, review, audits, export>>
  BY DEF WatchErrors, Command
<1>2. errors \in Seq(ErrorRecords) /\ Confirmed \subseteq Reports
  BY DEF OpsInv, OpsTypeOK, RecordsTypeOK, Confirmed
<1>3. watch' \in Watches /\ watch'.pc = "errors" /\ watch'.before = Confirmed
  BY <1>1, <1>2, StageNames DEF Watches, NoWatch
<1>4. OpsTypeOK'
  BY <1>1, <1>3 DEF OpsInv, OpsTypeOK, RecordsTypeOK, store, skill
<1>5. ASSUME NEW v \in Reviews PROVE Accounts(v)' /\ Witnessed(v)'
  BY <1>1 DEF OpsInv, Accounts, Witnessed, Lines, Accounted, store, skill
<1>6. Reported' /\ Audited'
  BY <1>1, <1>3 DEF OpsInv, Reported, Audited, Accounted, Confirmed, At, store
<1>7. FirstReportSeen'
  BY <1>3 DEF FirstReportSeen
<1> QED
  BY <1>4, <1>5, <1>6, <1>7 DEF OpsInv

\* A report that has its line hides the error that it quotes.
LEMMA WatchBugsInv ==
  ASSUME OpsInv, WatchBugs
  PROVE  OpsInv'
<1> DEFINE fresh == Representatives(watch.errors) \ Filed(bugfile)
<1>1. /\ watch' = [watch EXCEPT !.pc = "shown", !.errors = <<>>, !.fresh = fresh]
      /\ UNCHANGED <<pc, answered, errors, quoted, store, skill, review, audits, commands,
                     export>>
      /\ watch \in Watches
  BY DEF WatchBugs, OpsInv, OpsTypeOK
<1>2. fresh \subseteq MayFail
  <2>1. watch.errors \in Seq(ErrorRecords)
    BY <1>1 DEF Watches
  <2>2. \A i \in DOMAIN watch.errors : watch.errors[i] \in ErrorRecords
    BY <2>1
  <2> QED
    BY <2>2 DEF Representatives, ErrorRecords
<1>3. \A r \in Reports : ReportOf(r) \in bugfile => quoted[r] \notin fresh
  BY DEF Filed, BugsOf, ReportOf
<1>4. << >> \in Seq(ErrorRecords)
  OBVIOUS
<1> HIDE DEF fresh
<1>5. /\ watch' \in Watches /\ watch'.pc = "shown" /\ watch'.fresh = fresh
      /\ watch'.before = watch.before
  BY <1>1, <1>2, <1>4, StageNames DEF Watches
<1>6. OpsTypeOK'
  BY <1>1, <1>5 DEF OpsInv, OpsTypeOK, RecordsTypeOK, store, skill
<1>7. ASSUME NEW v \in Reviews PROVE Accounts(v)' /\ Witnessed(v)'
  BY <1>1 DEF OpsInv, Accounts, Witnessed, Lines, Accounted, store, skill
<1>8. Reported' /\ Audited'
  BY <1>1, <1>5 DEF OpsInv, Reported, Audited, Accounted, Confirmed, At, store
<1>9. FirstReportSeen'
  <2>1. SUFFICES ASSUME NEW r \in watch.before, quoted[r] \in fresh
                 PROVE  <<Bug(r)', "line">> \in failed
    BY <1>1, <1>5 DEF FirstReportSeen, store
  <2>2. r \in Reports /\ Accounted(ReportOf(r))
    BY DEF OpsInv, Reported, Confirmed, At
  <2> QED
    BY <1>3, <2>1, <2>2, ReportBug DEF Accounted
<1> QED
  BY <1>6, <1>7, <1>8, <1>9 DEF OpsInv

\* What export-bugs reads is read only.
LEMMA ExportInv ==
  ASSUME OpsInv, FetchBugs \/ WriteFiles
  PROVE  OpsInv'
<1>1. /\ UNCHANGED <<pc, answered, errors, quoted, store, skill, review, audits, watch>>
      /\ commands' \in {commands, commands + 1}
  BY DEF FetchBugs, WriteFiles, Command
<1>2. export' \in Exports
  <2>1. /\ export \in Exports /\ bugtab \subseteq BugRecords /\ audits \subseteq AuditRecords
    BY DEF OpsInv, OpsTypeOK, RecordsTypeOK
  <2>2. CASE FetchBugs
    <3>1. PICK ok \in BOOLEAN :
            export' = [export EXCEPT !.pc = "bugs", !.read = ok,
                         !.bugs = IF ok THEN bugtab ELSE {},
                         !.before = {p \in Callers : At(p, "done")}]
      BY <2>2 DEF FetchBugs
    <3> DEFINE bugs == IF ok THEN bugtab ELSE {}
               before == {p \in Callers : At(p, "done")}
    <3>2. bugs \in SUBSET BugRecords /\ before \in SUBSET Callers
      BY <2>1
    <3> HIDE DEF bugs, before
    <3> QED
      BY <2>1, <3>1, <3>2, StageNames DEF Exports, bugs, before
  <2>3. CASE WriteFiles
    <3>1. PICK found \in {{}, FailingAudits} :
            export' = [export EXCEPT !.pc = "written", !.bugs = {}, !.audits = @ \cup found,
                         !.files = @ \cup OrdinaryBugs(export.bugs)
                                     \cup ConnectorRequests(export.bugs)]
      BY <2>3 DEF WriteFiles
    <3> DEFINE kept == export.audits \cup found
               files == export.files \cup OrdinaryBugs(export.bugs)
                          \cup ConnectorRequests(export.bugs)
    <3>2. kept \in SUBSET AuditRecords /\ files \in SUBSET BugRecords
      BY <2>1 DEF FailingAudits, OrdinaryBugs, ConnectorRequests, Exports
    <3>3. export' = [export EXCEPT !.pc = "written", !.bugs = {}, !.audits = kept,
                       !.files = files]
      BY <2>1, <3>1 DEF Exports
    <3> HIDE DEF kept, files
    <3> QED
      BY <2>1, <3>2, <3>3, StageNames DEF Exports
  <2> QED
    BY <2>2, <2>3
<1>3. OpsTypeOK'
  BY <1>1, <1>2 DEF OpsInv, OpsTypeOK, RecordsTypeOK, store, skill
<1> QED
  BY <1>1, <1>3, Elsewhere DEF skill

----------------------------------------------------------------------------
(* The specification. *)

LEMMA OpsInitInv == OpsInit => OpsInv
<1> SUFFICES ASSUME OpsInit PROVE OpsInv
  OBVIOUS
<1>1. watch \in Watches /\ watch.pc = "away" /\ watch.before = {}
  BY StageNames DEF OpsInit, NoWatch, Watches
<1>2. export \in Exports
  BY StageNames DEF OpsInit, NoExport, Exports
<1>3. OpsTypeOK
  BY <1>1, <1>2, NewTyped, StageNames
     DEF OpsInit, OpsTypeOK, RecordsTypeOK, Holdings, Fieldless, ArtifactTypes
<1>4. ASSUME NEW v \in Reviews PROVE Accounts(v) /\ Witnessed(v)
  <2>1. pc[v] = "new" /\ review[v] = NewReview /\ NewReview.filed = 0 /\ NewReview.missing = {}
    BY Kinds DEF OpsInit, NewReview
  <2>2. \A b \in BugRecords : ~Accounted(b) /\ b.no \in Nat
    BY DEF OpsInit, Accounted, BugRecords
  <2>3. Accounts(v)
    BY <2>1, <2>2 DEF OpsInit, Accounts, Lines
  <2> QED
    BY <2>1, <2>3 DEF Witnessed
<1>5. Reported /\ Audited /\ FirstReportSeen
  BY <1>1, Kinds DEF OpsInit, Reported, Audited, FirstReportSeen
<1> QED
  BY <1>3, <1>4, <1>5 DEF OpsInv

LEMMA OpsNextInv == OpsInv /\ [OpsNext]_opsVars => OpsInv'
<1> SUFFICES ASSUME OpsInv, [OpsNext]_opsVars PROVE OpsInv'
  OBVIOUS
<1>1. ASSUME NEW c \in Calls, CallStep(c) PROVE OpsInv'
  BY <1>1, CallInv
<1>2. ASSUME NEW p \in Callers, RecordStep(p) PROVE OpsInv'
  BY <1>2, LineInv, RowInv DEF RecordStep
<1>3. ASSUME NEW r \in Reports, Report(r) PROVE OpsInv'
  BY <1>3, ReportInv
<1>4. ASSUME NEW q \in Demands, AskConnector(q) PROVE OpsInv'
  BY <1>4, AskInv
<1>5. ASSUME NEW v \in Reviews, ReviewStep(v) PROVE OpsInv'
  BY <1>5, ReviewInv
<1>6. CASE CommitSkill \/ DeleteSkill
  BY <1>6, SkillInv
<1>7. CASE OperatorStep
  BY <1>7, WatchErrorsInv, WatchBugsInv, ExportInv DEF OperatorStep
<1>8. CASE UNCHANGED opsVars
  <2>1. OpsTypeOK'
    BY <1>8 DEF OpsInv, OpsTypeOK, RecordsTypeOK, opsVars
  <2> QED
    BY <1>8, <2>1, Elsewhere DEF opsVars, store
<1> QED
  BY <1>1, <1>2, <1>3, <1>4, <1>5, <1>6, <1>7, <1>8 DEF OpsNext

\* Records, reviews and what the operator has read agree with each other always.
THEOREM OpsInductive == OpsSpec => []OpsInv
<1> QED
  BY OpsInitInv, OpsNextInv, PTL DEF OpsSpec

\* Calls, records, reviews and the operator's commands keep their types.
THEOREM OpsTypeCorrect == OpsSpec => []OpsTypeOK
<1>1. OpsInv => OpsTypeOK
  BY DEF OpsInv
<1> QED
  BY <1>1, OpsInductive, PTL

\* So many bugs of a review as it filed.
LEMMA LinesCounted ==
  ASSUME NEW v \in Reviews, NEW n \in Nat, NEW S \in SUBSET BugRecords,
         \A b \in BugRecords : b \in S <=> b.by = v /\ b.no < n
  PROVE  Cardinality(S) = n
<1> DEFINE f == [k \in 0..(n - 1) |-> [by |-> v, no |-> k]]
<1>1. \A k \in 0..(n - 1) : [by |-> v, no |-> k] \in S
  BY Kinds DEF BugRecords
<1>2. \A b \in S : b.no \in 0..(n - 1) /\ b = [by |-> v, no |-> b.no]
  BY DEF BugRecords
<1>3. f \in Bijection(0..(n - 1), S)
  BY <1>1, <1>2 DEF Bijection, Injection, Surjection, IsInjective
<1>4. ExistsBijection(0..(n - 1), S)
  BY <1>3 DEF ExistsBijection
<1>5. IsFiniteSet(0..(n - 1)) /\ Cardinality(0..(n - 1)) = n
  BY FS_Interval
<1> QED
  BY <1>4, <1>5, FS_Bijection

\* However many bugs a review files and whichever writes fail in between, its audit is
\* the last record and accounts for every bug (reviewSkillSession, _persist_audit_run).
THEOREM AuditLast == OpsSpec => []AuditAfterBugs
<1>1. OpsInv => AuditAfterBugs
  <2> SUFFICES ASSUME OpsInv, NEW a \in audits
               PROVE  LET lines == BugsOf(a.by, bugfile)
                                     \cup {b \in BugsOf(a.by, {f[1] : f \in failed}) :
                                             <<b, "line">> \in failed}
                      IN  /\ a.filed \in {0, review[a.by].bugs}
                          /\ Cardinality(lines) = a.filed
                          /\ BugsOf(a.by, bugtab) \subseteq lines
    BY DEF AuditAfterBugs
  <2> DEFINE v == a.by
             lines == BugsOf(v, bugfile)
                        \cup {b \in BugsOf(v, {f[1] : f \in failed}) : <<b, "line">> \in failed}
  <2>1. v \in Reviews /\ pc[v] = "done" /\ a.filed = review[v].filed /\ a.filed \in Nat
    BY DEF OpsInv, Audited, OpsTypeOK, RecordsTypeOK, AuditRecords
  <2>2. /\ a.filed \in {0, review[v].bugs}
        /\ \A b \in BugRecords : b.by = v => (Accounted(b) <=> b.no < a.filed)
        /\ \A b \in bugtab : b.by = v => b.no < a.filed
    BY <2>1 DEF OpsInv, Accounts, Lines
  <2>3. \A b : b \in lines <=> b.by = v /\ Accounted(b)
    <3>1. \A b : <<b, "line">> \in failed => b \in {f[1] : f \in failed}
      OBVIOUS
    <3> QED
      BY <3>1 DEF BugsOf, Accounted
  <2>4. bugfile \subseteq BugRecords /\ bugtab \subseteq BugRecords /\ lines \subseteq BugRecords
    <3>1. bugfile \subseteq BugRecords /\ bugtab \subseteq BugRecords
          /\ failed \subseteq BugRecords \X {"line", "row"}
      BY DEF OpsInv, OpsTypeOK, RecordsTypeOK
    <3>2. \A b : Accounted(b) => b \in BugRecords
      BY <3>1 DEF Accounted
    <3> QED
      BY <2>3, <3>1, <3>2
  <2>5. BugsOf(v, bugtab) \subseteq lines
    BY <2>2, <2>3, <2>4 DEF BugsOf
  <2> HIDE DEF lines
  <2>6. Cardinality(lines) = a.filed
    BY <2>1, <2>2, <2>3, <2>4, LinesCounted
  <2> QED
    BY <2>2, <2>5, <2>6 DEF lines
<1> QED
  BY <1>1, OpsInductive, PTL

\* Whenever the reads of a review fall between commits and deletions, with fields or
\* without, it reports missing only artifacts that were not stored at some moment of its
\* reading: no commit makes one seem to be missing (_load_skill_artifacts).
THEOREM CriticalIsTrue == OpsSpec => []CriticalTrue
<1>1. OpsInv => CriticalTrue
  BY DEF OpsInv, Witnessed, CriticalTrue
<1> QED
  BY <1>1, OpsInductive, PTL

\* For any number of calls, reports and commands: a group of equal errors whose first
\* occurrence was reported before, to a client that was told so, is not shown as new,
\* unless the line failed; reports of later occurrences are not covered
\* (cmd_watch_bugs).
THEOREM FirstReportsSeen == OpsSpec => []FirstReportSeen
<1>1. OpsInv => FirstReportSeen
  BY DEF OpsInv
<1> QED
  BY <1>1, OpsInductive, PTL
=============================================================================
