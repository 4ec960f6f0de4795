---------------------------- MODULE CodexProxy ----------------------------
(***************************************************************************)
(* Calls to the Confluence MCP server through a codex child process: one   *)
(* process for an adapter, started when it is needed and again after it    *)
(* died, its standard input written under a lock, its output read by a     *)
(* thread that files every response under its id, and callers that wait    *)
(* for their id without the lock.                                          *)
(*                                                                         *)
(* Codex is external: it answers what it was asked, in any order, asks     *)
(* something itself under an id of its own, or dies.                       *)
(***************************************************************************)
EXTENDS RemoteConstants

VARIABLES
  proc,       \* _proc, 0 if none was started
  alive,      \* processes that run
  reader,     \* the process whose output the reader thread reads, 0 if there is no thread
  initDone,
  seq,
  thread,     \* the process that made last_thread_id, 0 if none
  lock,
  asked,      \* requests that a process has been sent: its number, id and caller
  printed,    \* responses in its output
  responses,  \* what the response under each id answers
  call

vars == <<proc, alive, reader, initDone, seq, thread, lock, asked, printed, responses, call>>
pipes == <<asked, printed>>

Procs == 1..MaxProcs
Ids == 0..Cardinality(Calls)
Ended == {"done", "failed"}

Init ==
  /\ proc = 0 /\ alive = {} /\ reader = 0 /\ initDone = FALSE
  /\ seq = 1 /\ thread = 0 /\ lock = Nobody
  /\ asked = {} /\ printed = {}
  /\ responses = [i \in Ids |-> Nobody]
  /\ call = [c \in Calls |-> [pc |-> "idle", id |-> 0, got |-> Nobody]]

At(c, pc) == call[c].pc = pc
To(c, pc) == call' = [call EXCEPT ![c].pc = pc]
Request(p, i, c, t) == [proc |-> p, id |-> i, caller |-> c, thread |-> t]

----------------------------------------------------------------------------
(* _start, _initialize: with the lock held. *)

Begin(c) ==
  /\ At(c, "idle") /\ To(c, "begun")
  /\ UNCHANGED <<proc, alive, reader, initDone, seq, thread, lock, pipes, responses>>

Spawn ==
  /\ proc < MaxProcs
  /\ proc' = proc + 1 /\ alive' = alive \cup {proc + 1} /\ initDone' = FALSE

Process == IF proc \notin alive THEN Spawn ELSE UNCHANGED <<proc, alive, initDone>>

\* Bug: the ids start again with a new process.
StartRenumbered(c) ==
  /\ At(c, "begun") /\ lock = Nobody
  /\ Process
  /\ reader' = IF reader = 0 THEN proc' ELSE reader
  /\ lock' = c
  /\ seq' = IF proc' # proc THEN 1 ELSE seq
  /\ IF initDone' THEN To(c, "ask") /\ UNCHANGED asked
     ELSE To(c, "greet") /\ asked' = asked \cup {Request(proc', 0, Greeting, 0)}
  /\ UNCHANGED <<thread, printed, responses>>

\* A reader that has not seen the end of the last process's output goes on with it,
\* and the new process has none.
Start(c) ==
  /\ At(c, "begun") /\ lock = Nobody
  /\ Process
  /\ reader' = IF reader = 0 THEN proc' ELSE reader
  /\ lock' = c
  /\ IF initDone' THEN To(c, "ask") /\ UNCHANGED asked
     ELSE To(c, "greet") /\ asked' = asked \cup {Request(proc', 0, Greeting, 0)}
  /\ UNCHANGED <<seq, thread, printed, responses>>

\* Whatever is filed under id 0, be it the answer to a handshake that was given up or a
\* request of codex; an answer may be an error.
Greeted(c) ==
  /\ At(c, "greet") /\ responses[0] # Nobody
  /\ responses' = [responses EXCEPT ![0] = Nobody]
  /\ \/ proc \in alive /\ initDone' = TRUE /\ To(c, "ask") /\ UNCHANGED lock
     \/ To(c, "failed") /\ lock' = Nobody /\ UNCHANGED initDone
  /\ UNCHANGED <<proc, alive, reader, seq, thread, pipes>>

\* The process died or took more than init_timeout_s.
NotGreeted(c) ==
  /\ At(c, "greet")
  /\ To(c, "failed") /\ lock' = Nobody
  /\ UNCHANGED <<proc, alive, reader, initDone, seq, thread, pipes, responses>>

----------------------------------------------------------------------------
(* call_codex_tool *)

\* A new conversation with codex, or the next message of the last one.
Ask(c) ==
  /\ At(c, "ask")
  /\ seq' = seq + 1 /\ lock' = Nobody
  /\ IF proc \in alive
     THEN /\ asked' = asked \cup {Request(proc, seq, c, thread)}
          /\ call' = [call EXCEPT ![c].pc = "waiting", ![c].id = seq]
     ELSE To(c, "failed") /\ UNCHANGED asked
  /\ UNCHANGED <<proc, alive, reader, initDone, thread, printed, responses>>

\* The text of the answer; an answer without text is an error, and so is a message for
\* a conversation that the process does not know.  A request of codex has no text.
Receive(c) ==
  /\ At(c, "waiting") /\ responses[call[c].id] # Nobody
  /\ LET r == responses[call[c].id]
     IN  /\ responses' = [responses EXCEPT ![call[c].id] = Nobody]
         /\ \/ /\ r.caller # Codex /\ r.thread \in {0, r.proc}
               /\ call' = [call EXCEPT ![c].pc = "done", ![c].got = r.caller]
               /\ thread' = r.proc
            \/ To(c, "failed") /\ UNCHANGED thread
  /\ UNCHANGED <<proc, alive, reader, initDone, seq, lock, pipes>>

\* request_timeout_s, or the process that is current by now has exited: the response
\* may be there all the same, and stays.
GiveUp(c) ==
  /\ At(c, "waiting")
  /\ To(c, "failed")
  /\ UNCHANGED <<proc, alive, reader, initDone, seq, thread, lock, pipes, responses>>

----------------------------------------------------------------------------
(* _reader_loop *)

Read ==
  \E r \in printed :
    /\ r.proc = reader
    /\ printed' = printed \ {r}
    /\ responses' = [responses EXCEPT ![r.id] = r]
    /\ UNCHANGED <<proc, alive, reader, initDone, seq, thread, lock, asked, call>>

ReaderEnds ==
  /\ reader # 0 /\ reader \notin alive
  /\ \A r \in printed : r.proc # reader
  /\ reader' = 0
  /\ UNCHANGED <<proc, alive, initDone, seq, thread, lock, pipes, responses, call>>

----------------------------------------------------------------------------
(* The child process. *)

Answer ==
  \E r \in asked :
    /\ r.proc \in alive
    /\ asked' = asked \ {r} /\ printed' = printed \cup {r}
    /\ UNCHANGED <<proc, alive, reader, initDone, seq, thread, lock, responses, call>>

\* While it works on a prompt codex asks its client something, under a number that it
\* counts itself; the reader takes everything with an id for a response.  Bound: one
\* such message is in the output or among the responses at a time.
Interject ==
  /\ \A r \in printed : r.caller # Codex
  /\ \A i \in Ids : responses[i] # Nobody => responses[i].caller # Codex
  /\ \E r \in asked, i \in Ids :
       /\ r.proc \in alive /\ r.caller # Greeting
       /\ printed' = printed \cup {Request(r.proc, i, Codex, 0)}
  /\ UNCHANGED <<proc, alive, reader, initDone, seq, thread, lock, asked, responses, call>>

\* The last process of the bound lives on.
Die(p) ==
  /\ p \in alive /\ proc < MaxProcs
  /\ alive' = alive \ {p}
  /\ asked' = {r \in asked : r.proc # p}
  /\ UNCHANGED <<proc, reader, initDone, seq, thread, lock, printed, responses, call>>

Step(c) ==
  Start(c) \/ Greeted(c) \/ NotGreeted(c) \/ Ask(c) \/ Receive(c) \/ GiveUp(c)

Next ==
  \/ \E c \in Calls : Begin(c) \/ Step(c)
  \/ Read \/ ReaderEnds \/ Answer \/ Interject
  \/ \E p \in Procs : Die(p)

Spec == Init /\ [][Next]_vars /\ \A c \in Calls : WF_vars(Step(c))

----------------------------------------------------------------------------
Requests == [proc : Procs, id : Ids, caller : Calls \cup {Greeting, Codex}, thread : 0..MaxProcs]

CallStates == [pc : {"idle", "begun", "greet", "ask", "waiting"} \cup Ended,
               id : Ids, got : Calls \cup {Nobody}]

TypeOK ==
  /\ proc \in 0..MaxProcs /\ alive \subseteq Procs /\ reader \in 0..MaxProcs
  /\ initDone \in BOOLEAN /\ seq \in 1..Cardinality(Calls) + 1 /\ thread \in 0..MaxProcs
  /\ lock \in Calls \cup {Nobody}
  /\ asked \subseteq Requests /\ printed \subseteq Requests
  /\ responses \in [Ids -> Requests \cup {Nobody}]
  /\ call \in [Calls -> CallStates]

\* A call gets the answer to its own prompt, whatever was answered late, given up or
\* asked of a process that died (call_codex_tool).
OwnAnswer == \A c \in Calls : call[c].got \in {c, Nobody}
=============================================================================
