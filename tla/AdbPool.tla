------------------------------ MODULE AdbPool ------------------------------
(***************************************************************************)
(* The database connections of a server: two pools, each in a              *)
(* RetryWrapper, that on a laptop reach the database through one SSH       *)
(* tunnel on one local port.  A thread that meets a connectivity error     *)
(* makes a new tunnel itself; nothing keeps the threads apart.             *)
(*                                                                         *)
(* adb-connect.sh makes tunnels too, in every configuration: kbf-start.sh  *)
(* runs it before it starts the server, and kills the server of before     *)
(* (kill -9), whose tunnel stays.                                          *)
(*                                                                         *)
(* The database and the bastion are external: a call may succeed, lose the *)
(* connection or raise otherwise.                                          *)
(***************************************************************************)
EXTENDS Naturals, FiniteSets

CONSTANTS
  Threads,
  BugThreads,      \* threads that store bugs
  Tunnels,         \* ssh processes there may be
  NoTunnel,
  MaxConnections,  \* of a pool
  MaxReconnects,   \* max_reconnect_attempts
  MaxAttempts,     \* of _acquire_with_backoff
  MaxRequests,     \* bound on the requests of a thread
  MaxFaults        \* bound on the tunnels that are lost

ASSUME ThreadsAssumption == BugThreads \subseteq Threads /\ IsFiniteSet(Threads)
ASSUME TunnelsAssumption == Tunnels # {} /\ NoTunnel \notin Tunnels
ASSUME LimitsAssumption ==
  /\ MaxConnections \in Nat \ {0} /\ MaxAttempts \in Nat \ {0}
  /\ {MaxReconnects, MaxRequests, MaxFaults} \subseteq Nat

VARIABLES
  mode,      \* "vm", or on a laptop: "script", "inline", "bare" (no bastion configured)
  shared,    \* the bugs have no pool of their own and use the main one
  up,        \* the server runs
  busy,      \* connections given out by each pool
  thread,
  alive,     \* ssh processes
  port,      \* the one that has the local port
  handle,    \* _tunnel_proc
  own,       \* the ssh processes that this server process has started and not ended
  faults,
  overlapped \* history of the process: two threads have reconnected at the same time

vars == <<mode, shared, up, busy, thread, alive, port, handle, own, faults, overlapped>>
setup == <<mode, shared, up>>
net == <<alive, port, handle, own>>

Laptop == mode # "vm"
PoolOf(t) == IF t \in BugThreads /\ ~shared THEN "bug" ELSE "adb"
Away == [pc |-> "away", attempt |-> 0, conn |-> NoTunnel, done |-> 0]
Reconnecting(t) == thread[t].pc \in {"session", "kill", "clear", "start", "open", "wait", "check"}
Gone == [t \in Threads |-> [Away EXCEPT !.done = thread[t].done]]
Unused == [p \in {"adb", "bug"} |-> 0]

\* _init_adb_pool must succeed; the pool of the bugs may be missing.  On a laptop
\* kbf-start.sh has run the script, which may have failed.
Init ==
  /\ mode \in {"vm", "script", "inline", "bare"} /\ shared \in BOOLEAN /\ up = TRUE
  /\ busy = Unused
  /\ thread = [t \in Threads |-> Away]
  /\ port \in {NoTunnel} \cup
       (IF mode = "vm" THEN {} ELSE {CHOOSE n \in Tunnels : TRUE})
  /\ alive = {port} \ {NoTunnel}
  /\ handle = NoTunnel /\ own = {}
  /\ faults = 0 /\ overlapped = FALSE

At(t, pc) == up /\ thread[t].pc = pc
To(t, pc) == thread' = [thread EXCEPT ![t].pc = pc]
\* Whether a connection to the database can be had, and one that a thread holds is good.
Reachable == ~Laptop \/ port # NoTunnel
Good(t) == ~Laptop \/ thread[t].conn \in alive

----------------------------------------------------------------------------
(* RetryWrapper.acquire. *)

Ask(t) ==
  /\ At(t, "away") /\ thread[t].done < MaxRequests
  /\ thread' = [thread EXCEPT ![t].pc = "acquire", ![t].attempt = 0]
  /\ UNCHANGED <<setup, busy, net, faults, overlapped>>

\* The pool waits until one of its connections is free.
Free(t) == busy[PoolOf(t)] < MaxConnections

Leave(t) == [Away EXCEPT !.done = thread[t].done + 1]

Acquired(t) ==
  /\ At(t, "acquire") /\ Free(t) /\ Reachable
  /\ busy' = [busy EXCEPT ![PoolOf(t)] = @ + 1]
  /\ thread' = [thread EXCEPT ![t].pc = "use", ![t].conn = port]
  /\ UNCHANGED <<setup, net, faults, overlapped>>

\* Not a connectivity error: it is the caller's.
Refused(t) ==
  /\ At(t, "acquire") /\ Free(t)
  /\ thread' = [thread EXCEPT ![t] = Leave(t)]
  /\ UNCHANGED <<setup, busy, net, faults, overlapped>>

\* _acquire_with_backoff raises what it met last.
BackOff(t) ==
  /\ At(t, "acquire") /\ Free(t) /\ ~Laptop
  /\ thread' = [thread EXCEPT ![t] =
       IF thread[t].attempt + 1 >= MaxAttempts
       THEN Leave(t)
       ELSE [thread[t] EXCEPT !.attempt = @ + 1]]
  /\ UNCHANGED <<setup, busy, net, faults, overlapped>>

\* Bug: the attempts are counted anew when a reconnection has succeeded.
CountedAnew(t) == IF port = NoTunnel THEN thread[t].attempt + 1 ELSE 1
Counted(t) == thread[t].attempt + 1

\* _acquire_laptop: BastionReconnectError, or one more reconnection.
Disconnected(t) ==
  /\ At(t, "acquire") /\ Free(t) /\ Laptop
  /\ IF Counted(t) > MaxReconnects \/ mode = "bare"
     THEN thread' = [thread EXCEPT ![t] = Leave(t)] /\ UNCHANGED overlapped
     ELSE /\ thread' = [thread EXCEPT ![t].pc = "session", ![t].attempt = Counted(t)]
          /\ overlapped' = (overlapped \/ \E s \in Threads \ {t} : Reconnecting(s))
  /\ UNCHANGED <<setup, busy, net, faults>>

\* Bug: the connection is closed only when its use went well.
ReleaseGood(t) ==
  /\ At(t, "use")
  /\ busy' = [busy EXCEPT ![PoolOf(t)] = IF Good(t) THEN @ - 1 ELSE @]
  /\ thread' = [thread EXCEPT ![t] = Leave(t)]
  /\ UNCHANGED <<setup, net, faults, overlapped>>

\* The caller is done with the connection, or its use of it raised.
Release(t) ==
  /\ At(t, "use")
  /\ busy' = [busy EXCEPT ![PoolOf(t)] = @ - 1]
  /\ thread' = [thread EXCEPT ![t] = Leave(t)]
  /\ UNCHANGED <<setup, net, faults, overlapped>>

----------------------------------------------------------------------------
(* BastionReconnector.reconnect; an exception leads back to acquire. *)

\* create_session.
CreateSession(t) ==
  /\ At(t, "session") /\ mode = "inline"
  /\ To(t, "kill") \/ To(t, "acquire")
  /\ UNCHANGED <<setup, busy, net, faults, overlapped>>

Dead(n) ==
  /\ alive' = alive \ {n} /\ own' = own \ {n}
  /\ port' = IF port = n THEN NoTunnel ELSE port

\* Bug: the tunnel that may still work is left alone.
KillNothing(t) ==
  /\ At(t, "kill")
  /\ To(t, "start")
  /\ UNCHANGED <<setup, busy, net, faults, overlapped>>

\* _kill_tunnel: the process is terminated and waited for, and then forgotten.
Kill(t) ==
  /\ At(t, "kill")
  /\ IF handle \in alive
     THEN Dead(handle) /\ To(t, "clear")
     ELSE To(t, "start") /\ UNCHANGED <<alive, port, own>>
  /\ UNCHANGED <<setup, busy, handle, faults, overlapped>>

\* Another thread may have forgotten the process by now, so that waiting for it
\* raises, or have started its own, which is then forgotten, or waited for in vain,
\* killed and forgotten.
Clear(t) ==
  /\ At(t, "clear")
  /\ \/ handle = NoTunnel /\ To(t, "acquire") /\ UNCHANGED net
     \/ handle' = NoTunnel /\ To(t, "start") /\ UNCHANGED <<alive, port, own>>
     \/ handle \in alive /\ Dead(handle) /\ handle' = NoTunnel /\ To(t, "start")
  /\ UNCHANGED <<setup, busy, faults, overlapped>>

\* start_tunnel: a tunnel whose port is taken, be it by a tunnel of the script or of
\* a server that was killed, stays without it.  The process may fail to start.
Start(t) ==
  /\ At(t, "start")
  /\ \/ \E n \in Tunnels \ alive :
          /\ alive' = alive \cup {n} /\ own' = own \cup {n}
          /\ handle' = n
          /\ port' \in IF port = NoTunnel THEN {n, NoTunnel} ELSE {port}
          /\ To(t, "wait")
     \/ To(t, "acquire") /\ UNCHANGED net
  /\ UNCHANGED <<setup, busy, faults, overlapped>>

\* A connection of the process is on the port while it is in use, and may be while
\* it is idle or closing.
OnPort == IF \E t \in Threads : thread[t].pc = "use" /\ thread[t].conn = port /\ port # NoTunnel
          THEN {TRUE} ELSE BOOLEAN

\* Of a server that has ended nothing is left but the tunnels it did not kill.
Ended ==
  /\ up' = FALSE /\ thread' = Gone /\ busy' = Unused
  /\ handle' = NoTunnel /\ own' = {} /\ overlapped' = FALSE

\* adb-connect.sh first kills every process that has a socket on the port, be it the
\* tunnel or the server that has called it, unless it ends before.
ScriptKills(t) ==
  /\ At(t, "session") /\ mode = "script"
  /\ \/ To(t, "acquire") /\ UNCHANGED <<up, busy, net, overlapped>>
     \/ Dead(port) /\ (To(t, "open") \/ To(t, "acquire"))
           /\ FALSE \in OnPort /\ UNCHANGED <<up, busy, handle, overlapped>>
     \/ TRUE \in OnPort /\ Ended /\ alive' = alive \ {port} /\ port' = NoTunnel
  /\ UNCHANGED <<mode, shared, faults>>

\* The script's ssh ends if the port is taken.
Opens(n) ==
  /\ port = NoTunnel /\ n \notin alive
  /\ alive' = alive \cup {n} /\ port' = n
  /\ UNCHANGED <<handle, own>>

\* Then it opens a tunnel, unless it fails; it succeeds if the port is open.  The
\* caller may have given up by then, with the tunnel open (its timeout).
ScriptOpens(t) ==
  /\ At(t, "open")
  /\ \/ \E n \in Tunnels : Opens(n) /\ (To(t, "wait") \/ To(t, "acquire"))
     \/ UNCHANGED net /\ (To(t, "acquire") \/ (port # NoTunnel /\ To(t, "wait")))
  /\ UNCHANGED <<setup, busy, faults, overlapped>>

\* wait_for_port, with its timeout.
Wait(t) ==
  /\ At(t, "wait")
  /\ IF port = NoTunnel THEN To(t, "acquire") ELSE To(t, "check")
  /\ UNCHANGED <<setup, busy, net, faults, overlapped>>

\* _health_check takes a connection and gives it back; its outcome changes nothing.
HealthCheck(t) ==
  /\ At(t, "check") /\ Free(t)
  /\ To(t, "acquire")
  /\ UNCHANGED <<setup, busy, net, faults, overlapped>>

ReconnectStep(t) ==
  CreateSession(t) \/ Kill(t) \/ Clear(t) \/ Start(t) \/ ScriptKills(t) \/ ScriptOpens(t)
    \/ Wait(t) \/ HealthCheck(t)

AcquireStep(t) ==
  Acquired(t) \/ Refused(t) \/ BackOff(t) \/ Disconnected(t) \/ Release(t)

----------------------------------------------------------------------------
(* The surroundings. *)

\* A bastion session ends after its time, or the network fails.
Lose(n) ==
  /\ n \in alive /\ faults < MaxFaults
  /\ faults' = faults + 1
  /\ Dead(n)
  /\ UNCHANGED <<setup, busy, thread, handle, overlapped>>

\* The script is run by hand or by kbf-start.sh, or its ssh was still connecting when
\* the script had failed.
TunnelByScript(n) ==
  /\ Laptop /\ Opens(n)
  /\ UNCHANGED <<setup, busy, thread, faults, overlapped>>

\* The server ends and kills the tunnel it knows of (atexit).
Stop ==
  /\ up /\ \A t \in Threads : thread[t].pc = "away"
  /\ Ended
  /\ alive' = alive \ {handle} /\ port' = (IF port = handle THEN NoTunnel ELSE port)
  /\ UNCHANGED <<mode, shared, faults>>

\* It crashes, or kbf-start.sh kills it.
Killed ==
  /\ up /\ Ended
  /\ UNCHANGED <<mode, shared, alive, port, faults>>

Boot ==
  /\ ~up
  /\ up' = TRUE
  /\ UNCHANGED <<mode, shared, busy, thread, net, faults, overlapped>>

Next ==
  \/ \E t \in Threads : Ask(t) \/ AcquireStep(t) \/ ReconnectStep(t)
  \/ \E n \in Tunnels : Lose(n) \/ TunnelByScript(n)
  \/ Stop \/ Killed \/ Boot

\* Every call returns or raises in time: the script and the waits for a process and
\* for the port have timeouts, the OCI command (create_session) and the driver are
\* taken to have theirs.  Callers give their connections back, and the pool serves
\* who waits.
Spec == Init /\ [][Next]_vars /\ \A t \in Threads : WF_vars(AcquireStep(t) \/ ReconnectStep(t))
----------------------------------------------------------------------------
(* Properties. *)

ThreadStates ==
  [pc : {"away", "acquire", "use", "session", "kill", "clear", "start", "open", "wait", "check"},
   attempt : Nat, conn : Tunnels \cup {NoTunnel}, done : Nat]

\* Every variable has its type (AdbPool_proof).
TypeOK ==
  /\ mode \in {"vm", "script", "inline", "bare"} /\ shared \in BOOLEAN /\ up \in BOOLEAN
  /\ busy \in [{"adb", "bug"} -> Nat]
  /\ thread \in [Threads -> ThreadStates]
  /\ alive \subseteq Tunnels
  /\ {port, handle} \subseteq Tunnels \cup {NoTunnel} /\ own \subseteq Tunnels
  /\ faults \in Nat /\ overlapped \in BOOLEAN

\* The threads that hold a connection of a pool.
Users(p) == {t \in Threads : thread[t].pc = "use" /\ PoolOf(t) = p}

\* The connections given out are those in use: none is lost to a failed operation or
\* a reconnection, and no pool gives out more than it has (RetryWrapper.acquire).
ConnectionsReturned ==
  \A p \in {"adb", "bug"} :
    /\ busy[p] = Cardinality(Users(p))
    /\ busy[p] <= MaxConnections

\* The local port is that of a live tunnel; where only the script makes tunnels there
\* is no other, even when threads reconnect together and servers are killed meanwhile.
\* A server that makes its own knows the one it has to kill, as long as no two of its
\* threads have reconnected at the same time ("Kill any existing tunnel, start a new
\* one").  Tunnels of the script and of killed servers are beyond its knowledge.
OneTunnel ==
  /\ port = NoTunnel \/ port \in alive
  /\ mode \in {"script", "bare"} => alive \subseteq {port}
  /\ ~overlapped => own \subseteq {handle}

\* Whoever asks for a connection gets one or an error, whatever the tunnel and the
\* other threads do.
RequestsEnd == \A t \in Threads : thread[t].pc = "acquire" ~> thread[t].pc \in {"use", "away"}
=============================================================================
