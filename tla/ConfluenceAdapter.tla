------------------------- MODULE ConfluenceAdapter -------------------------
(***************************************************************************)
(* The Confluence adapter the factory builds: over the direct runtime      *)
(* (EmcpToken), over the codex child process (CodexProxy), or none.  Its   *)
(* operations turn the outcome of a call into a result or an exception;    *)
(* a listing tries a second tool.                                          *)
(***************************************************************************)
EXTENDS RemoteConstants

CONSTANT Listings  \* calls that list a space; the others fetch, resolve or check the health

ASSUME ListingsAssumption == Listings \subseteq Calls

VARIABLES
  valid, keychain, other, cached, lapsed, refused, refreshLock, elock, initialized,
  ecall, consumer, lost, faults,
  proc, alive, reader, initDone, seq, thread, clock, asked, printed, responses, ccall,
  mode,     \* of the configuration
  second,   \* listings that have turned to the second tool
  result,   \* of each call
  hanging   \* calls inside something outside the program that has no time limit

E == INSTANCE EmcpToken WITH lock <- elock, call <- ecall
C == INSTANCE CodexProxy WITH lock <- clock, call <- ccall

tokens == <<valid, keychain, other, consumer, lost>>
evars == <<tokens, cached, lapsed, refused, refreshLock, elock, initialized, ecall, faults>>
cvars == <<proc, alive, reader, initDone, seq, thread, clock, asked, printed, responses, ccall>>
operation == <<mode, second, result, hanging>>
vars == <<evars, cvars, operation>>

None == "none"

\* build_confluence_adapter: one adapter for a configuration, none for an unknown mode
\* or when it cannot be built.
Init ==
  /\ E!Init /\ C!Init
  /\ mode \in {"emcp_direct", "codex_proxy", None}
  /\ second = {}
  /\ result = [c \in Calls |-> None] /\ hanging = {}

Emcp == mode = "emcp_direct" /\ UNCHANGED cvars
Proxy == mode = "codex_proxy" /\ UNCHANGED evars

----------------------------------------------------------------------------
Give(c, r) == result' = [result EXCEPT ![c] = r] /\ UNCHANGED <<mode, second, hanging>>

\* list, fetch, healthcheck or the resolution of a reference by its title.
Begin(c) ==
  /\ result[c] = None
  /\ (Emcp /\ E!Begin(c)) \/ (Proxy /\ C!Begin(c))
  /\ UNCHANGED operation

\* canonical_identity: a numeric id or something that is no reference needs no call.
FastPath(c) ==
  /\ mode = "emcp_direct" /\ c \notin Listings /\ E!At(c, "idle") /\ result[c] = None
  /\ Give(c, "returned") \/ Give(c, "unresolvable")
  /\ UNCHANGED <<evars, cvars>>

\* Without an adapter its callers fail.
Unavailable(c) ==
  /\ mode = None /\ result[c] = None
  /\ Give(c, "raised")
  /\ UNCHANGED <<evars, cvars>>

----------------------------------------------------------------------------
(* With the direct runtime; "escaped" is an error of the network in the refresh. *)

EmcpEnded(c) == mode = "emcp_direct" /\ ecall[c].pc \in E!Ended /\ result[c] = None
Failed(c) == ecall[c].pc \in {"auth", "error"}

\* Some servers have only the second tool; every EmcpError leads to it.
Fallback(c) ==
  /\ EmcpEnded(c) /\ c \in Listings \ second /\ Failed(c)
  /\ second' = second \cup {c}
  /\ ecall' = [ecall EXCEPT ![c] = [E!Idle EXCEPT !.pc = "begun"]]
  /\ UNCHANGED <<tokens, cached, lapsed, refused, refreshLock, elock, initialized, faults,
                 cvars, mode, result, hanging>>

EmcpList(c) ==
  /\ EmcpEnded(c) /\ c \in Listings /\ ~(Failed(c) /\ c \notin second)
  /\ Give(c, IF E!At(c, "done") THEN "returned" ELSE "raised")
  /\ UNCHANGED <<evars, cvars>>

\* A page that is not found is an exception.
EmcpFetch(c) ==
  /\ EmcpEnded(c) /\ c \notin Listings
  /\ (E!At(c, "done") /\ Give(c, "returned")) \/ Give(c, "raised")
  /\ UNCHANGED <<evars, cvars>>

EmcpResolve(c) ==
  /\ EmcpEnded(c) /\ c \notin Listings
  /\ CASE E!At(c, "done") -> Give(c, "returned") \/ Give(c, "unresolvable")
       [] Failed(c) -> Give(c, "unresolvable")
       [] E!At(c, "escaped") -> Give(c, "untyped")
  /\ UNCHANGED <<evars, cvars>>

EmcpHealth(c) ==
  /\ EmcpEnded(c) /\ c \notin Listings
  /\ Give(c, "returned")
  /\ UNCHANGED <<evars, cvars>>

----------------------------------------------------------------------------
(* With the child process: the answer is text in which JSON is looked for. *)

ProxyEnded(c) == mode = "codex_proxy" /\ ccall[c].pc \in C!Ended /\ result[c] = None

\* list and fetch; the check of the health reports what went wrong.
ProxyResult(c) ==
  /\ ProxyEnded(c)
  /\ \/ C!At(c, "done") /\ Give(c, "returned")
     \/ Give(c, "raised")
  /\ UNCHANGED <<evars, cvars>>

ProxyHealth(c) ==
  /\ ProxyEnded(c) /\ c \notin Listings
  /\ Give(c, "returned")
  /\ UNCHANGED <<evars, cvars>>

----------------------------------------------------------------------------
\* A security command has no time limit, nor has the body of a response that goes on
\* trickling in, nor a write to a child that reads nothing, its error output, which
\* nobody reads, being full.  The read of the keychain under the refresh lock and the
\* one of the discovery are part of "grant".
Unlimited(c) ==
  \/ /\ mode = "emcp_direct" /\ ecall[c].pc \in {"token", "grant", "write", "sent"}
     /\ E!At(c, "token") => ~E!Usable(cached[Home[c]])
  \/ mode = "codex_proxy" /\ ccall[c].pc \in {"greet", "ask"}

\* It does not come back; what takes long and comes back is a step that is taken late.
Hang(c) ==
  /\ c \notin hanging /\ Unlimited(c) /\ hanging' = hanging \cup {c}
  /\ E!Fault
  /\ UNCHANGED <<tokens, cached, lapsed, refused, refreshLock, elock, initialized, ecall, cvars,
                 mode, second, result>>

Runtime(c) ==
  /\ c \notin hanging
  /\ (Emcp /\ E!Step(c)) \/ (Proxy /\ C!Step(c))
  /\ UNCHANGED operation

Operation(c) ==
  \/ Unavailable(c)
  \/ Fallback(c) \/ EmcpList(c) \/ EmcpFetch(c) \/ EmcpResolve(c) \/ EmcpHealth(c)
  \/ ProxyResult(c) \/ ProxyHealth(c)

Surroundings ==
  /\ \/ Emcp /\ (E!OtherGranted \/ E!OtherWrites \/ E!Lapse \/ E!Revoke)
     \/ Proxy /\ (C!Read \/ C!ReaderEnds \/ C!Answer \/ C!Interject
                    \/ \E p \in C!Procs : C!Die(p))
  /\ UNCHANGED operation

Crash(r) ==
  /\ Emcp /\ E!Crash(r)
  /\ hanging' = {c \in hanging : Home[c] # r}
  /\ UNCHANGED <<mode, second, result>>

Next ==
  \/ \E c \in Calls : Begin(c) \/ FastPath(c) \/ Runtime(c) \/ Operation(c)
                        \/ Hang(c)
  \/ Surroundings
  \/ \E r \in Runtimes : Crash(r)

\* A thread that has called goes on unless it hangs; what hangs need never resume, and
\* nothing else needs to happen.
Spec == Init /\ [][Next]_vars /\ \A c \in Calls : WF_vars(Runtime(c) \/ Operation(c))

----------------------------------------------------------------------------
Begun(c) == E!At(c, "begun") \/ C!At(c, "begun")

CacheBehindKeychain == E!CacheBehindKeychain
RejectedOnlyByOthers == E!RejectedOnlyByOthers
OwnAnswer == C!OwnAnswer

\* A thread that hangs holds up itself and those that need a lock it has.
HoldsUp(d, c) == d = c \/ d \in {elock[Home[c]], refreshLock[Home[c]], clock}

\* An operation of the adapter ends, in a result or an exception, whatever the servers,
\* the child process and the other threads do, unless it hangs for ever in something
\* without a time limit, or a thread does with a lock of its runtime (list, fetch,
\* healthcheck, canonical_identity).
OperationsEnd == \A c \in Calls :
  <>[](\A d \in hanging : ~HoldsUp(d, c)) => (Begun(c) ~> result[c] # None)
=============================================================================
