--------------------------- MODULE AdbPool_proof ---------------------------
(***************************************************************************)
(* Proofs about AdbPool for any number of threads, tunnels, connections    *)
(* and attempts: types, ConnectionsReturned and OneTunnel.                 *)
(*                                                                         *)
(* OneTunnel is inductive with what the ways to a tunnel keep (Tunnel): a  *)
(* tunnel of the script has the port, a server makes its own only with a   *)
(* bastion session of its own, and a thread starts one only after the last *)
(* the process had was killed, which holds while threads do not reconnect  *)
(* at the same time.                                                       *)
(***************************************************************************)
EXTENDS AdbPool, FiniteSetTheorems, TLAPS

\* Who may be where: only a server on its own bastion session kills and starts
\* tunnels, only the script's opens one.
Places ==
  /\ ~up => \A t \in Threads : thread[t].pc = "away"
  /\ \A t \in Threads :
       /\ thread[t].pc \in {"kill", "clear", "start"} => mode = "inline"
       /\ thread[t].pc = "open" => mode = "script"
       /\ Reconnecting(t) => mode \in {"script", "inline"}

Tunnel ==
  /\ port = NoTunnel \/ port \in alive
  /\ own \subseteq alive
  /\ mode \in {"script", "bare"} => alive \subseteq {port}
  /\ mode # "inline" => handle = NoTunnel /\ own = {}
  /\ ~up => own = {}
  /\ ~overlapped =>
       /\ \A s, t \in Threads : Reconnecting(s) /\ Reconnecting(t) => s = t
       /\ own \subseteq {handle}
       /\ \A t \in Threads : thread[t].pc \in {"clear", "start"} => own = {}

IndInv == TypeOK /\ ConnectionsReturned /\ Places /\ Tunnel

----------------------------------------------------------------------------
(* One thread moves. *)

\* A thread's state is replaced by one of its type.
Moved(t, x) == x \in ThreadStates /\ thread' = [thread EXCEPT ![t] = x]

LEMMA Entry ==
  ASSUME NEW t \in Threads, NEW x, TypeOK, Moved(t, x)
  PROVE  /\ thread' \in [Threads -> ThreadStates] /\ thread'[t] = x
         /\ \A s \in Threads : s # t => thread'[s] = thread[s]
BY DEF Moved, TypeOK

LEMMA ToMoved ==
  ASSUME NEW t \in Threads, TypeOK, NEW pc, To(t, pc),
         pc \in {"away", "acquire", "use", "session", "kill", "clear", "start", "open", "wait", "check"}
  PROVE  \E x : Moved(t, x) /\ x.pc = pc
<1> DEFINE x == [thread[t] EXCEPT !.pc = pc]
<1>1. thread[t] \in ThreadStates
  BY DEF TypeOK
<1>2. x \in ThreadStates /\ x.pc = pc
  BY <1>1 DEF ThreadStates
<1>3. thread' = [thread EXCEPT ![t] = x]
  BY DEF To
<1> HIDE DEF x
<1> QED
  BY <1>2, <1>3 DEF Moved

LEMMA LeaveMoved ==
  ASSUME NEW t \in Threads, TypeOK
  PROVE  Leave(t) \in ThreadStates /\ Leave(t).pc = "away"
<1>1. thread[t] \in ThreadStates
  BY DEF TypeOK
<1>2. thread[t].done + 1 \in Nat
  BY <1>1 DEF ThreadStates
<1> QED
  BY <1>2 DEF Leave, Away, ThreadStates

\* The connections stay where they are.
LEMMA SameUsers ==
  ASSUME ConnectionsReturned, UNCHANGED <<shared, busy>>,
         \A s \in Threads : thread'[s].pc = "use" <=> thread[s].pc = "use"
  PROVE  ConnectionsReturned'
<1>1. \A p : Users(p)' = Users(p)
  BY DEF Users, PoolOf
<1> QED
  BY <1>1 DEF ConnectionsReturned

\* What is left to show of a move between two places that hold no connection.
LEMMA MoveInv ==
  ASSUME NEW t \in Threads, NEW x, IndInv, Moved(t, x), up, UNCHANGED <<setup, busy, faults>>,
         thread[t].pc # "use", x.pc # "use",
         alive' \subseteq Tunnels, own' \subseteq Tunnels,
         {port', handle'} \subseteq Tunnels \cup {NoTunnel}, overlapped' \in BOOLEAN,
         x.pc \in {"kill", "clear", "start"} => mode = "inline",
         x.pc = "open" => mode = "script",
         x.pc \in {"session", "wait", "check"} => mode \in {"script", "inline"}
  PROVE  TypeOK' /\ ConnectionsReturned' /\ Places'
<1>1. /\ thread' \in [Threads -> ThreadStates] /\ thread'[t] = x
      /\ \A s \in Threads : s # t => thread'[s] = thread[s]
  BY Entry DEF IndInv
<1>2. TypeOK'
  BY <1>1 DEF IndInv, TypeOK, setup
<1>3. ConnectionsReturned'
  BY <1>1, SameUsers DEF IndInv, setup
<1>4. Places'
  BY <1>1 DEF IndInv, Places, Reconnecting, setup
<1> QED
  BY <1>2, <1>3, <1>4

\* The tunnels stay as they are.
LEMMA SameTunnel ==
  ASSUME NEW t \in Threads, NEW x, IndInv, Moved(t, x), up, UNCHANGED <<setup, net>>,
         x.pc \notin {"clear", "start"}, overlapped => overlapped',
         ~overlapped' /\ Reconnecting(t)' /\ ~Reconnecting(t)
           => \A s \in Threads \ {t} : ~Reconnecting(s)
  PROVE  Tunnel'
<1>1. /\ thread' \in [Threads -> ThreadStates] /\ thread'[t] = x
      /\ \A s \in Threads : s # t => thread'[s] = thread[s]
  BY Entry DEF IndInv
<1>2. \A s \in Threads : s # t => (Reconnecting(s)' <=> Reconnecting(s))
  BY <1>1 DEF Reconnecting
<1>3. UNCHANGED <<mode, up, alive, port, handle, own>>
  BY DEF setup, net
<1>4. ASSUME ~overlapped', NEW r \in Threads, NEW s \in Threads, Reconnecting(r)', Reconnecting(s)'
      PROVE  r = s
  BY <1>2, <1>4 DEF IndInv, Tunnel
<1>5. ASSUME ~overlapped', NEW s \in Threads, thread'[s].pc \in {"clear", "start"}
      PROVE  own = {}
  BY <1>1, <1>5 DEF IndInv, Tunnel
<1> QED
  BY <1>3, <1>4, <1>5 DEF IndInv, Tunnel

LEMMA QuietInv ==
  ASSUME NEW t \in Threads, NEW x, IndInv, Moved(t, x), up, UNCHANGED <<setup, busy, net, faults, overlapped>>,
         thread[t].pc # "use", x.pc \in {"away", "acquire", "check", "kill"},
         x.pc = "kill" => mode = "inline" /\ thread[t].pc = "session",
         x.pc = "check" => thread[t].pc = "wait"
  PROVE  IndInv'
<1>1. Reconnecting(t)' => Reconnecting(t)
  BY Entry DEF IndInv, Reconnecting
<1>2. x.pc = "check" => mode \in {"script", "inline"}
  BY DEF IndInv, Places, Reconnecting
<1>3. /\ alive' \subseteq Tunnels /\ own' \subseteq Tunnels
      /\ {port', handle'} \subseteq Tunnels \cup {NoTunnel} /\ overlapped' \in BOOLEAN
  BY DEF IndInv, TypeOK, net
<1>4. TypeOK' /\ ConnectionsReturned' /\ Places'
  BY <1>2, <1>3, MoveInv
<1>5. Tunnel'
  BY <1>1, SameTunnel
<1> QED
  BY <1>4, <1>5 DEF IndInv

----------------------------------------------------------------------------
(* RetryWrapper.acquire. *)

LEMMA AskInv ==
  ASSUME NEW t \in Threads, IndInv, Ask(t)
  PROVE  IndInv'
<1> DEFINE x == [thread[t] EXCEPT !.pc = "acquire", !.attempt = 0]
<1>1. thread[t] \in ThreadStates /\ thread[t].pc = "away" /\ up
  BY DEF IndInv, TypeOK, Ask, At
<1>2. x \in ThreadStates /\ x.pc = "acquire"
  BY <1>1 DEF ThreadStates
<1>3. thread' = [thread EXCEPT ![t] = x]
  BY DEF Ask
<1> HIDE DEF x
<1>4. Moved(t, x)
  BY <1>2, <1>3 DEF Moved
<1> QED
  BY <1>1, <1>2, <1>4, QuietInv DEF Ask

\* The two outcomes that leave with an error, and the back-off.
LEMMA RefusedInv ==
  ASSUME NEW t \in Threads, IndInv, Refused(t) \/ BackOff(t)
  PROVE  IndInv'
<1>1. /\ thread[t] \in ThreadStates /\ thread[t].pc = "acquire" /\ up
      /\ UNCHANGED <<setup, busy, net, faults, overlapped>>
  BY DEF IndInv, TypeOK, Refused, BackOff, At
<1>2. ASSUME thread' = [thread EXCEPT ![t] = Leave(t)] PROVE IndInv'
  <2>1. Moved(t, Leave(t)) /\ Leave(t).pc = "away"
    BY <1>2, LeaveMoved DEF IndInv, Moved
  <2> QED
    BY <1>1, <2>1, QuietInv
<1>3. ASSUME thread' = [thread EXCEPT ![t] = [thread[t] EXCEPT !.attempt = thread[t].attempt + 1]]
      PROVE  IndInv'
  <2> DEFINE x == [thread[t] EXCEPT !.attempt = thread[t].attempt + 1]
  <2>1. x \in ThreadStates /\ x.pc = "acquire"
    BY <1>1 DEF ThreadStates
  <2>2. thread' = [thread EXCEPT ![t] = x]
    BY <1>3
  <2> HIDE DEF x
  <2>3. Moved(t, x)
    BY <2>1, <2>2 DEF Moved
  <2> QED
    BY <1>1, <2>1, <2>3, QuietInv
<1>4. CASE Refused(t)
  BY <1>2, <1>4 DEF Refused
<1>5. CASE BackOff(t)
  <2>1. CASE thread[t].attempt + 1 >= MaxAttempts
    BY <1>2, <1>5, <2>1 DEF BackOff
  <2>2. CASE ~(thread[t].attempt + 1 >= MaxAttempts)
    BY <1>3, <1>5, <2>2 DEF BackOff
  <2> QED
    BY <2>1, <2>2
<1> QED
  BY <1>4, <1>5

LEMMA DisconnectedInv ==
  ASSUME NEW t \in Threads, IndInv, Disconnected(t)
  PROVE  IndInv'
<1>1. /\ thread[t] \in ThreadStates /\ thread[t].pc = "acquire" /\ up
      /\ UNCHANGED <<setup, busy, net, faults>> /\ TypeOK
  BY DEF IndInv, TypeOK, Disconnected, At
<1>2. CASE Counted(t) > MaxReconnects \/ mode = "bare"
  <2>1. Moved(t, Leave(t)) /\ Leave(t).pc = "away" /\ UNCHANGED overlapped
    BY <1>1, <1>2, LeaveMoved DEF Disconnected, Moved
  <2> QED
    BY <1>1, <2>1, QuietInv
<1>3. CASE ~(Counted(t) > MaxReconnects \/ mode = "bare")
  <2> DEFINE x == [thread[t] EXCEPT !.pc = "session", !.attempt = Counted(t)]
  <2>1. /\ mode \in {"script", "inline"}
        /\ thread' = [thread EXCEPT ![t] = x]
        /\ overlapped' = (overlapped \/ \E s \in Threads \ {t} : Reconnecting(s))
    BY <1>1, <1>3 DEF Disconnected, Laptop, TypeOK
  <2>7. Counted(t) \in Nat
    BY <1>1 DEF ThreadStates, Counted
  <2>2. x \in ThreadStates /\ x.pc = "session"
    BY <1>1, <2>7 DEF ThreadStates
  <2> HIDE DEF x
  <2>3. Moved(t, x) /\ overlapped' \in BOOLEAN
    BY <1>1, <2>1, <2>2 DEF Moved, TypeOK
  <2>4. /\ alive' \subseteq Tunnels /\ own' \subseteq Tunnels
        /\ {port', handle'} \subseteq Tunnels \cup {NoTunnel}
    BY <1>1 DEF TypeOK, net
  <2>5. TypeOK' /\ ConnectionsReturned' /\ Places'
    BY <1>1, <2>1, <2>2, <2>3, <2>4, MoveInv
  <2>6. Tunnel'
    BY <1>1, <2>1, <2>2, <2>3, SameTunnel
  <2> QED
    BY <2>5, <2>6 DEF IndInv
<1> QED
  BY <1>2, <1>3

\* A connection is taken or given back.
LEMMA HoldInv ==
  ASSUME NEW t \in Threads, NEW x, IndInv, Moved(t, x), up,
         UNCHANGED <<setup, net, faults, overlapped>>,
         ~Reconnecting(t), x.pc \in {"use", "away"},
         \/ /\ thread[t].pc # "use" /\ x.pc = "use" /\ Free(t)
            /\ busy' = [busy EXCEPT ![PoolOf(t)] = busy[PoolOf(t)] + 1]
         \/ /\ thread[t].pc = "use" /\ x.pc = "away"
            /\ busy' = [busy EXCEPT ![PoolOf(t)] = busy[PoolOf(t)] - 1]
  PROVE  IndInv'
<1>1. /\ thread' \in [Threads -> ThreadStates] /\ thread'[t] = x
      /\ \A s \in Threads : s # t => thread'[s] = thread[s]
  BY Entry DEF IndInv
<1>2. \A s \in Threads : PoolOf(s)' = PoolOf(s) /\ PoolOf(s) \in {"adb", "bug"}
  BY DEF PoolOf, setup
<1>3. \A p : IsFiniteSet(Users(p)) /\ Cardinality(Users(p)) \in Nat
  BY ThreadsAssumption, FS_Subset, FS_CardinalityType DEF Users
<1>4. TypeOK /\ ConnectionsReturned /\ MaxConnections \in Nat
  BY LimitsAssumption DEF IndInv
<1>5. ASSUME thread[t].pc # "use", x.pc = "use", Free(t),
             busy' = [busy EXCEPT ![PoolOf(t)] = busy[PoolOf(t)] + 1]
      PROVE  busy' \in [{"adb", "bug"} -> Nat] /\ ConnectionsReturned'
  <2>1. Users(PoolOf(t))' = Users(PoolOf(t)) \cup {t} /\ t \notin Users(PoolOf(t))
    BY <1>1, <1>2, <1>5 DEF Users
  <2>2. Cardinality(Users(PoolOf(t))') = Cardinality(Users(PoolOf(t))) + 1
    BY <1>3, <2>1, FS_AddElement
  <2>3. \A p \in {"adb", "bug"} : p # PoolOf(t) => Users(p)' = Users(p)
    BY <1>1, <1>2 DEF Users
  <2>4. busy' \in [{"adb", "bug"} -> Nat]
    BY <1>2, <1>4, <1>5 DEF TypeOK
  <2>5. busy[PoolOf(t)] + 1 <= MaxConnections
    BY <1>2, <1>4, <1>5 DEF Free, TypeOK
  <2>6. ASSUME NEW p \in {"adb", "bug"} PROVE busy'[p] = Cardinality(Users(p)') /\ busy'[p] <= MaxConnections
    <3>1. CASE p = PoolOf(t)
      BY <1>2, <1>4, <1>5, <2>2, <2>5, <3>1 DEF TypeOK, ConnectionsReturned
    <3>2. CASE p # PoolOf(t)
      BY <1>4, <1>5, <2>3, <3>2 DEF TypeOK, ConnectionsReturned
    <3> QED
      BY <3>1, <3>2
  <2>7. ConnectionsReturned'
    BY <2>6 DEF ConnectionsReturned
  <2> QED
    BY <2>4, <2>7
<1>6. ASSUME thread[t].pc = "use", x.pc = "away",
             busy' = [busy EXCEPT ![PoolOf(t)] = busy[PoolOf(t)] - 1]
      PROVE  busy' \in [{"adb", "bug"} -> Nat] /\ ConnectionsReturned'
  <2>1. Users(PoolOf(t))' = Users(PoolOf(t)) \ {t} /\ t \in Users(PoolOf(t))
    BY <1>1, <1>2, <1>6 DEF Users
  <2>2. /\ Cardinality(Users(PoolOf(t))') = Cardinality(Users(PoolOf(t))) - 1
        /\ Cardinality(Users(PoolOf(t))') \in Nat
    BY <1>3, <2>1, FS_RemoveElement, FS_CardinalityType
  <2>3. \A p \in {"adb", "bug"} : p # PoolOf(t) => Users(p)' = Users(p)
    BY <1>1, <1>2 DEF Users
  <2>4. busy[PoolOf(t)] = Cardinality(Users(PoolOf(t))) /\ busy[PoolOf(t)] <= MaxConnections
    BY <1>2, <1>4 DEF ConnectionsReturned
  <2>5. busy' \in [{"adb", "bug"} -> Nat]
    BY <1>2, <1>3, <1>4, <1>6, <2>2, <2>4 DEF TypeOK
  <2>6. ASSUME NEW p \in {"adb", "bug"} PROVE busy'[p] = Cardinality(Users(p)') /\ busy'[p] <= MaxConnections
    <3>1. CASE p = PoolOf(t)
      BY <1>2, <1>3, <1>4, <1>6, <2>2, <2>4, <3>1 DEF TypeOK
    <3>2. CASE p # PoolOf(t)
      BY <1>4, <1>6, <2>3, <3>2 DEF TypeOK, ConnectionsReturned
    <3> QED
      BY <3>1, <3>2
  <2>7. ConnectionsReturned'
    BY <2>6 DEF ConnectionsReturned
  <2> QED
    BY <2>5, <2>7
<1>7. busy' \in [{"adb", "bug"} -> Nat] /\ ConnectionsReturned'
  BY <1>5, <1>6
<1>8. TypeOK'
  BY <1>1, <1>4, <1>7 DEF TypeOK, setup, net
<1>9. ~Reconnecting(t)' /\ \A s \in Threads \ {t} : (Reconnecting(s)' <=> Reconnecting(s))
  BY <1>1 DEF Reconnecting
<1>10. Places'
  BY <1>1, <1>9 DEF IndInv, Places, setup
<1>11. Tunnel'
  BY <1>9, SameTunnel
<1> QED
  BY <1>7, <1>8, <1>10, <1>11 DEF IndInv

LEMMA AcquiredInv ==
  ASSUME NEW t \in Threads, IndInv, Acquired(t)
  PROVE  IndInv'
<1> DEFINE x == [thread[t] EXCEPT !.pc = "use", !.conn = port]
<1>1. /\ thread[t] \in ThreadStates /\ thread[t].pc = "acquire" /\ up /\ Free(t)
      /\ UNCHANGED <<setup, net, faults, overlapped>> /\ port \in Tunnels \cup {NoTunnel}
      /\ ~Reconnecting(t)
  BY DEF IndInv, TypeOK, Acquired, At, Reconnecting
<1>2. x \in ThreadStates /\ x.pc = "use"
  BY <1>1 DEF ThreadStates
<1>3. /\ thread' = [thread EXCEPT ![t] = x]
      /\ busy' = [busy EXCEPT ![PoolOf(t)] = busy[PoolOf(t)] + 1]
  BY DEF Acquired
<1> HIDE DEF x
<1>4. Moved(t, x)
  BY <1>2, <1>3 DEF Moved
<1> QED
  BY <1>1, <1>2, <1>3, <1>4, HoldInv

LEMMA ReleaseInv ==
  ASSUME NEW t \in Threads, IndInv, Release(t)
  PROVE  IndInv'
<1>1. /\ thread[t].pc = "use" /\ up /\ ~Reconnecting(t)
      /\ UNCHANGED <<setup, net, faults, overlapped>>
      /\ busy' = [busy EXCEPT ![PoolOf(t)] = busy[PoolOf(t)] - 1]
  BY DEF Release, At, Reconnecting
<1>2. Moved(t, Leave(t)) /\ Leave(t).pc = "away"
  BY LeaveMoved DEF IndInv, Moved, Release
<1> QED
  BY <1>1, <1>2, HoldInv

----------------------------------------------------------------------------
(* BastionReconnector.reconnect. *)

\* No thread reconnects beside this one.
LEMMA Alone ==
  ASSUME NEW t \in Threads, NEW x, IndInv, Moved(t, x), Reconnecting(t), ~overlapped
  PROVE  /\ \A r, s \in Threads : Reconnecting(r)' /\ Reconnecting(s)' => r = s
         /\ \A s \in Threads : s # t => thread'[s].pc \notin {"clear", "start"}
<1>1. \A s \in Threads : s # t => thread'[s] = thread[s] /\ ~Reconnecting(s)
  BY Entry DEF IndInv, Tunnel
<1> QED
  BY <1>1 DEF Reconnecting

\* A step on the process's own tunnel.
LEMMA InlineInv ==
  ASSUME NEW t \in Threads, NEW x, IndInv, Moved(t, x), up, mode = "inline", Reconnecting(t),
         UNCHANGED <<setup, busy, faults, overlapped>>,
         x.pc \in {"clear", "start", "wait"},
         alive' \subseteq Tunnels, {port', handle'} \subseteq Tunnels \cup {NoTunnel},
         port' = NoTunnel \/ port' \in alive', own' \subseteq alive',
         ~overlapped => own' \subseteq {handle'} /\ (x.pc \in {"clear", "start"} => own' = {})
  PROVE  IndInv'
<1>1. /\ overlapped' \in BOOLEAN /\ thread[t].pc # "use" /\ thread'[t] = x
      /\ own' \subseteq Tunnels
  BY Entry DEF IndInv, TypeOK, Reconnecting
<1>2. TypeOK' /\ ConnectionsReturned' /\ Places'
  BY <1>1, MoveInv
<1>3. Tunnel'
  BY <1>1, Alone DEF Tunnel, setup
<1> QED
  BY <1>2, <1>3 DEF IndInv

\* A step on the script's tunnel.
LEMMA ScriptInv ==
  ASSUME NEW t \in Threads, NEW x, IndInv, Moved(t, x), up, mode = "script", Reconnecting(t),
         UNCHANGED <<setup, busy, handle, own, faults, overlapped>>,
         x.pc \in {"acquire", "open", "wait"},
         alive' \subseteq Tunnels, port' \in Tunnels \cup {NoTunnel},
         port' = NoTunnel \/ port' \in alive', alive' \subseteq {port'}
  PROVE  IndInv'
<1>1. /\ overlapped' \in BOOLEAN /\ thread[t].pc # "use"
      /\ {port', handle'} \subseteq Tunnels \cup {NoTunnel} /\ own' = {} /\ handle' = NoTunnel
  BY DEF IndInv, TypeOK, Reconnecting, Tunnel
<1>2. TypeOK' /\ ConnectionsReturned' /\ Places'
  BY <1>1, MoveInv
<1>3. Tunnel'
  BY <1>1, Alone DEF IndInv, Tunnel, setup
<1> QED
  BY <1>2, <1>3 DEF IndInv

LEMMA QuietSteps ==
  ASSUME NEW t \in Threads, IndInv, CreateSession(t) \/ Wait(t) \/ HealthCheck(t)
  PROVE  IndInv'
<1>1. up /\ TypeOK /\ UNCHANGED <<setup, busy, net, faults, overlapped>>
  BY DEF IndInv, CreateSession, Wait, HealthCheck, At
<1>2. /\ thread[t].pc \in {"session", "wait", "check"}
      /\ \/ To(t, "acquire")
         \/ To(t, "kill") /\ mode = "inline" /\ thread[t].pc = "session"
         \/ To(t, "check") /\ thread[t].pc = "wait"
  BY DEF CreateSession, Wait, HealthCheck, At
<1>3. CASE To(t, "acquire")
  <2>1. PICK x : Moved(t, x) /\ x.pc = "acquire"
    BY <1>1, <1>3, ToMoved
  <2> QED
    BY <1>1, <1>2, <2>1, QuietInv
<1>4. CASE To(t, "kill") /\ mode = "inline" /\ thread[t].pc = "session"
  <2>1. PICK x : Moved(t, x) /\ x.pc = "kill"
    BY <1>1, <1>4, ToMoved
  <2> QED
    BY <1>1, <1>4, <2>1, QuietInv
<1>5. CASE To(t, "check") /\ thread[t].pc = "wait"
  <2>1. PICK x : Moved(t, x) /\ x.pc = "check"
    BY <1>1, <1>5, ToMoved
  <2> QED
    BY <1>1, <1>5, <2>1, QuietInv
<1> QED
  BY <1>2, <1>3, <1>4, <1>5

\* What a thread that reconnects knows of the tunnels.
LEMMA TunnelFacts ==
  ASSUME IndInv
  PROVE  /\ TypeOK /\ (port = NoTunnel \/ port \in alive)
         /\ own \subseteq alive /\ alive \subseteq Tunnels
         /\ {port, handle} \subseteq Tunnels \cup {NoTunnel}
         /\ ~overlapped => own \subseteq {handle}
BY DEF IndInv, Tunnel, TypeOK

LEMMA KillInv ==
  ASSUME NEW t \in Threads, IndInv, Kill(t)
  PROVE  IndInv'
<1>1. /\ up /\ TypeOK /\ thread[t].pc = "kill" /\ Reconnecting(t) /\ mode = "inline"
      /\ UNCHANGED <<setup, busy, handle, faults, overlapped>>
  BY DEF IndInv, Kill, At, Places, Reconnecting
<1>2. CASE handle \in alive
  <2>1. PICK x : Moved(t, x) /\ x.pc = "clear"
    BY <1>1, <1>2, ToMoved DEF Kill
  <2>2. /\ alive' = alive \ {handle} /\ own' = own \ {handle}
        /\ port' = IF port = handle THEN NoTunnel ELSE port
    BY <1>2 DEF Kill, Dead
  <2> QED
    BY <1>1, <2>1, <2>2, TunnelFacts, InlineInv
<1>3. CASE handle \notin alive
  <2>1. PICK x : Moved(t, x) /\ x.pc = "start"
    BY <1>1, <1>3, ToMoved DEF Kill
  <2>2. alive' = alive /\ port' = port /\ own' = own
    BY <1>3 DEF Kill
  <2> QED
    BY <1>1, <1>3, <2>1, <2>2, TunnelFacts, InlineInv
<1> QED
  BY <1>2, <1>3

LEMMA ClearInv ==
  ASSUME NEW t \in Threads, IndInv, Clear(t)
  PROVE  IndInv'
<1>1. /\ up /\ TypeOK /\ thread[t].pc = "clear" /\ Reconnecting(t) /\ mode = "inline"
      /\ UNCHANGED <<setup, busy, faults, overlapped>>
      /\ ~overlapped => own = {}
  BY DEF IndInv, Clear, At, Places, Reconnecting, Tunnel
<1>2. CASE To(t, "acquire") /\ UNCHANGED net
  <2>1. PICK x : Moved(t, x) /\ x.pc = "acquire"
    BY <1>1, <1>2, ToMoved
  <2> QED
    BY <1>1, <1>2, <2>1, QuietInv
<1>3. CASE handle' = NoTunnel /\ To(t, "start") /\ UNCHANGED <<alive, port, own>>
  <2>1. PICK x : Moved(t, x) /\ x.pc = "start"
    BY <1>1, <1>3, ToMoved
  <2> QED
    BY <1>1, <1>3, <2>1, TunnelFacts, InlineInv
<1>4. CASE Dead(handle) /\ handle' = NoTunnel /\ To(t, "start")
  <2>1. PICK x : Moved(t, x) /\ x.pc = "start"
    BY <1>1, <1>4, ToMoved
  <2> QED
    BY <1>1, <1>4, <2>1, TunnelFacts, InlineInv DEF Dead
<1> QED
  BY <1>2, <1>3, <1>4 DEF Clear

LEMMA StartInv ==
  ASSUME NEW t \in Threads, IndInv, Start(t)
  PROVE  IndInv'
<1>1. /\ up /\ TypeOK /\ thread[t].pc = "start" /\ Reconnecting(t) /\ mode = "inline"
      /\ UNCHANGED <<setup, busy, faults, overlapped>>
      /\ ~overlapped => own = {}
  BY DEF IndInv, Start, At, Places, Reconnecting, Tunnel
<1>2. CASE To(t, "acquire") /\ UNCHANGED net
  <2>1. PICK x : Moved(t, x) /\ x.pc = "acquire"
    BY <1>1, <1>2, ToMoved
  <2> QED
    BY <1>1, <1>2, <2>1, QuietInv
<1>3. CASE ~(To(t, "acquire") /\ UNCHANGED net)
  <2>1. PICK n \in Tunnels \ alive :
          /\ alive' = alive \cup {n} /\ own' = own \cup {n} /\ handle' = n
          /\ port' \in IF port = NoTunnel THEN {n, NoTunnel} ELSE {port}
          /\ To(t, "wait")
    BY <1>3 DEF Start
  <2>2. PICK x : Moved(t, x) /\ x.pc = "wait"
    BY <1>1, <2>1, ToMoved
  <2>3. /\ alive' \subseteq Tunnels /\ {port', handle'} \subseteq Tunnels \cup {NoTunnel}
        /\ (port' = NoTunnel \/ port' \in alive') /\ own' \subseteq alive'
        /\ ~overlapped => own' \subseteq {handle'}
    BY <1>1, <2>1, TunnelFacts
  <2> QED
    BY <1>1, <2>2, <2>3, InlineInv
<1> QED
  BY <1>2, <1>3

LEMMA ScriptOpensInv ==
  ASSUME NEW t \in Threads, IndInv, ScriptOpens(t)
  PROVE  IndInv'
<1>1. /\ up /\ TypeOK /\ thread[t].pc = "open" /\ Reconnecting(t) /\ mode = "script"
      /\ UNCHANGED <<setup, busy, handle, own, faults, overlapped>>
      /\ alive \subseteq {port}
  BY DEF IndInv, ScriptOpens, At, Places, Reconnecting, Tunnel, Opens, net
<1>2. PICK pc \in {"acquire", "wait"} : To(t, pc)
  BY DEF ScriptOpens
<1>3. PICK x : Moved(t, x) /\ x.pc = pc
  BY <1>1, <1>2, ToMoved
<1>4. \/ UNCHANGED <<alive, port>>
      \/ port = NoTunnel /\ \E n \in Tunnels : alive' = alive \cup {n} /\ port' = n
  BY DEF ScriptOpens, Opens, net
<1>5. /\ alive' \subseteq Tunnels /\ port' \in Tunnels \cup {NoTunnel}
      /\ port' = NoTunnel \/ port' \in alive'
      /\ alive' \subseteq {port'}
  BY <1>1, <1>4, TunnelFacts, TunnelsAssumption
<1> QED
  BY <1>1, <1>2, <1>3, <1>5, ScriptInv

\* Nobody holds a connection, and the pools are whole.
LEMMA Emptied ==
  ASSUME \A t \in Threads : thread'[t].pc = "away", busy' = Unused
  PROVE  ConnectionsReturned'
<1>1. \A p : Users(p)' = {}
  BY DEF Users
<1>2. Cardinality({}) = 0 /\ 0 <= MaxConnections
  BY FS_EmptySet, LimitsAssumption
<1>3. \A p \in {"adb", "bug"} : busy'[p] = Cardinality(Users(p)') /\ busy'[p] <= MaxConnections
  BY <1>1, <1>2 DEF Unused
<1> QED
  BY <1>3 DEF ConnectionsReturned

LEMMA GoneTyped ==
  ASSUME TypeOK
  PROVE  Gone \in [Threads -> ThreadStates] /\ \A t \in Threads : Gone[t].pc = "away"
<1>1. ASSUME NEW t \in Threads
      PROVE  [Away EXCEPT !.done = thread[t].done] \in ThreadStates
             /\ [Away EXCEPT !.done = thread[t].done].pc = "away"
  <2>1. thread[t].done \in Nat
    BY DEF TypeOK, ThreadStates
  <2> QED
    BY <2>1 DEF Away, ThreadStates
<1> QED
  BY <1>1 DEF Gone

\* A server that ends leaves nothing of its own.
LEMMA EndedInv ==
  ASSUME IndInv, Ended, UNCHANGED <<mode, shared, faults>>, alive' \subseteq alive,
         port' = NoTunnel \/ port' \in alive', port' \in Tunnels \cup {NoTunnel},
         mode \in {"script", "bare"} => alive' \subseteq {port'}
  PROVE  IndInv'
<1>1. /\ thread' \in [Threads -> ThreadStates]
      /\ \A t \in Threads : thread'[t].pc = "away" /\ ~Reconnecting(t)'
  BY GoneTyped DEF IndInv, Ended, Reconnecting
<1>2. ConnectionsReturned'
  BY <1>1, Emptied DEF Ended
<1>3. busy' \in [{"adb", "bug"} -> Nat]
  BY DEF Ended, Unused
<1>4. TypeOK'
  BY <1>1, <1>3 DEF IndInv, TypeOK, Ended
<1>5. Places' /\ Tunnel'
  BY <1>1 DEF Places, Tunnel, Ended
<1> QED
  BY <1>2, <1>4, <1>5 DEF IndInv

LEMMA ScriptKillsInv ==
  ASSUME NEW t \in Threads, IndInv, ScriptKills(t)
  PROVE  IndInv'
<1>1. /\ up /\ TypeOK /\ thread[t].pc = "session" /\ Reconnecting(t) /\ mode = "script"
      /\ UNCHANGED <<mode, shared, faults>> /\ alive \subseteq {port}
  BY DEF IndInv, ScriptKills, At, Reconnecting, Tunnel
<1>2. CASE To(t, "acquire") /\ UNCHANGED <<up, busy, net, overlapped>>
  <2>1. PICK x : Moved(t, x) /\ x.pc = "acquire"
    BY <1>1, <1>2, ToMoved
  <2> QED
    BY <1>1, <1>2, <2>1, QuietInv DEF setup
<1>3. CASE Dead(port) /\ (To(t, "open") \/ To(t, "acquire")) /\ UNCHANGED <<up, busy, handle, overlapped>>
  <2>1. PICK pc \in {"acquire", "open"} : To(t, pc)
    BY <1>3
  <2>2. PICK x : Moved(t, x) /\ x.pc = pc
    BY <1>1, <2>1, ToMoved
  <2>3. alive' = {} /\ port' = NoTunnel /\ own' = own
    BY <1>1, <1>3 DEF Dead, IndInv, Tunnel
  <2> QED
    BY <1>1, <1>3, <2>1, <2>2, <2>3, ScriptInv DEF setup
<1>4. CASE Ended /\ alive' = alive \ {port} /\ port' = NoTunnel
  BY <1>1, <1>4, EndedInv
<1> QED
  BY <1>2, <1>3, <1>4 DEF ScriptKills

----------------------------------------------------------------------------
(* The surroundings. *)

\* The tunnels change under the threads.
LEMMA UnderneathInv ==
  ASSUME IndInv, UNCHANGED <<setup, busy, thread, handle, overlapped>>, faults' \in Nat,
         alive' \subseteq Tunnels, port' \in Tunnels \cup {NoTunnel}, own' \subseteq own,
         port' = NoTunnel \/ port' \in alive', own' \subseteq alive',
         mode \in {"script", "bare"} => alive' \subseteq {port'}
  PROVE  IndInv'
<1>1. TypeOK'
  BY DEF IndInv, TypeOK, setup
<1>2. ConnectionsReturned'
  BY SameUsers DEF IndInv, setup
<1>3. Places'
  BY DEF IndInv, Places, Reconnecting, setup
<1>4. Tunnel'
  BY DEF IndInv, Tunnel, Reconnecting, setup
<1> QED
  BY <1>1, <1>2, <1>3, <1>4 DEF IndInv

LEMMA LoseInv ==
  ASSUME NEW n \in Tunnels, IndInv, Lose(n)
  PROVE  IndInv'
<1>1. /\ UNCHANGED <<setup, busy, thread, handle, overlapped>> /\ n \in alive
      /\ alive' = alive \ {n} /\ port' = (IF port = n THEN NoTunnel ELSE port)
      /\ own' = own \ {n} /\ faults' \in Nat
  BY DEF IndInv, Lose, Dead, TypeOK
<1>2. mode \in {"script", "bare"} => alive' \subseteq {port'}
  BY <1>1 DEF IndInv, Tunnel
<1> QED
  BY <1>1, <1>2, TunnelFacts, UnderneathInv

LEMMA TunnelByScriptInv ==
  ASSUME NEW n \in Tunnels, IndInv, TunnelByScript(n)
  PROVE  IndInv'
<1>1. /\ UNCHANGED <<setup, busy, thread, handle, own, faults, overlapped>> /\ port = NoTunnel
      /\ alive' = alive \cup {n} /\ port' = n /\ faults' \in Nat
  BY DEF IndInv, TunnelByScript, Opens, TypeOK
<1>2. mode \in {"script", "bare"} => alive = {}
  BY <1>1, TunnelsAssumption DEF IndInv, Tunnel, TypeOK
<1> QED
  BY <1>1, <1>2, TunnelFacts, UnderneathInv

LEMMA StopInv ==
  ASSUME IndInv, Stop \/ Killed
  PROVE  IndInv'
<1>1. Ended /\ UNCHANGED <<mode, shared, faults>>
  BY DEF Stop, Killed
<1>2. \/ alive' = alive \ {handle} /\ port' = (IF port = handle THEN NoTunnel ELSE port)
      \/ alive' = alive /\ port' = port
  BY DEF Stop, Killed
<1>3. mode \in {"script", "bare"} => alive' \subseteq {port'}
  BY <1>2, TunnelsAssumption DEF IndInv, Tunnel, TypeOK
<1> QED
  BY <1>1, <1>2, <1>3, TunnelFacts, EndedInv

LEMMA BootInv ==
  ASSUME IndInv, Boot
  PROVE  IndInv'
<1>1. /\ UNCHANGED <<mode, shared, busy, thread, net, faults, overlapped>> /\ TypeOK
      /\ ~up /\ up' /\ up' \in BOOLEAN
      /\ \A t \in Threads : thread[t].pc = "away" /\ ~Reconnecting(t)
  BY DEF IndInv, Boot, Reconnecting, Places
<1>2. TypeOK'
  BY <1>1 DEF TypeOK, net
<1>3. ConnectionsReturned'
  BY <1>1, SameUsers DEF IndInv
<1>4. Places'
  BY <1>1 DEF IndInv, Places, Reconnecting
<1>5. Tunnel'
  BY <1>1 DEF IndInv, Tunnel, Reconnecting, net
<1> QED
  BY <1>2, <1>3, <1>4, <1>5 DEF IndInv

LEMMA InitInv ==
  ASSUME Init
  PROVE  IndInv
<1>1. Away \in ThreadStates /\ Away.pc = "away"
  BY DEF Away, ThreadStates
<1>2. \A t \in Threads : thread[t].pc = "away"
  BY <1>1 DEF Init
<1>3. /\ mode \in {"vm", "script", "inline", "bare"} /\ up = TRUE /\ handle = NoTunnel
      /\ alive = {port} \ {NoTunnel} /\ ~overlapped /\ own = {}
  BY DEF Init
<1>4. port \in Tunnels \cup {NoTunnel}
  <2>1. (CHOOSE n \in Tunnels : TRUE) \in Tunnels
    BY TunnelsAssumption
  <2> QED
    BY <2>1 DEF Init
<1>5. TypeOK
  BY <1>1, <1>3, <1>4 DEF Init, TypeOK, Unused
<1>6. Users("adb") = {} /\ Users("bug") = {}
  BY <1>2 DEF Users
<1>7. ConnectionsReturned
  BY <1>6, FS_EmptySet, LimitsAssumption DEF Init, ConnectionsReturned, Unused
<1>8. Places
  BY <1>2, <1>3 DEF Places, Reconnecting
<1>9. Tunnel
  BY <1>2, <1>3 DEF Tunnel, Reconnecting
<1> QED
  BY <1>5, <1>7, <1>8, <1>9 DEF IndInv

LEMMA NextInv ==
  ASSUME IndInv, [Next]_vars
  PROVE  IndInv'
<1>1. CASE UNCHANGED vars
  <2>1. TypeOK' /\ Places' /\ Tunnel'
    BY <1>1 DEF vars, IndInv, TypeOK, Places, Tunnel, Reconnecting
  <2>2. ConnectionsReturned'
    BY <1>1, SameUsers DEF vars, IndInv
  <2> QED
    BY <2>1, <2>2 DEF IndInv
<1>2. ASSUME NEW t \in Threads, Ask(t) \/ AcquireStep(t) PROVE IndInv'
  BY <1>2, AskInv, AcquiredInv, RefusedInv, DisconnectedInv, ReleaseInv DEF AcquireStep
<1>3. ASSUME NEW t \in Threads, ReconnectStep(t) PROVE IndInv'
  BY <1>3, QuietSteps, KillInv, ClearInv, StartInv, ScriptKillsInv, ScriptOpensInv
     DEF ReconnectStep
<1>4. CASE (\E n \in Tunnels : Lose(n) \/ TunnelByScript(n)) \/ Stop \/ Killed \/ Boot
  BY <1>4, LoseInv, TunnelByScriptInv, StopInv, BootInv
<1> QED
  BY <1>1, <1>2, <1>3, <1>4 DEF Next

----------------------------------------------------------------------------
(* The inductive invariant holds in every reachable state of the pools. *)
THEOREM Inductive == Spec => []IndInv
BY InitInv, NextInv, PTL DEF Spec

(* Counters, threads and tunnels keep their types; only the ways to a tunnel
   that the configuration has are taken. *)
THEOREM TypeCorrect == Spec => []TypeOK
<1>1. IndInv => TypeOK
  BY DEF IndInv
<1> QED
  BY <1>1, Inductive, PTL

(* Every connection a pool has given out is held by a thread that is using
   it, and there are never more than the pool has, whatever fails on the way
   to one. *)
THEOREM Returned == Spec => []ConnectionsReturned
<1>1. IndInv => ConnectionsReturned
  BY DEF IndInv
<1> QED
  BY <1>1, Inductive, PTL

(* The port is that of a live tunnel, where only the script makes tunnels there is no
   other, and a server knows the one of its own, as long as no two of its threads have
   reconnected at the same time (BastionReconnector, adb-connect.sh). *)
THEOREM SingleTunnel == Spec => []OneTunnel
<1>1. IndInv => OneTunnel
  BY DEF IndInv, Tunnel, OneTunnel
<1> QED
  BY <1>1, Inductive, PTL
=============================================================================
