----------------------------- MODULE EmcpToken -----------------------------
(***************************************************************************)
(* Direct calls to the Confluence MCP server, authorised by the token      *)
(* bundle that codex keeps in the keychain.  Several runtimes (the one of  *)
(* a worker's lifespan, one for every sample, ingestion and evaluation)    *)
(* and codex itself share the bundle; a lock keeps the threads of one      *)
(* runtime apart, nothing the runtimes.                                    *)
(*                                                                         *)
(* A grant issues the next generation of tokens and makes the refresh      *)
(* token of the one before worthless.  Tokens are their generations.       *)
(***************************************************************************)
EXTENDS RemoteConstants

VARIABLES
  valid,        \* the generation whose refresh token the identity provider accepts
  keychain,     \* the one in the keychain
  other,        \* the one codex has been granted and not written yet, 0 if none
  cached,       \* the one each runtime remembers, 0 if none
  lapsed,       \* the clock is within 60 s of the expiry of this one and those before
  refused,      \* the server answers 401 to this one and those before
  refreshLock,  \* of each runtime
  lock,         \* of each runtime
  initialized,  \* of each runtime
  call,
  consumer,     \* history: who used the refresh token of a generation
  lost,         \* history: generations that were granted and never reached the keychain
  faults

vars == <<valid, keychain, other, cached, lapsed, refused, refreshLock, lock, initialized,
          call, consumer, lost, faults>>
tokens == <<valid, keychain, other, consumer, lost>>
clock == <<lapsed, refused>>

Idle == [pc |-> "idle", phase |-> "call", held |-> 0, forced |-> FALSE,
         refreshed |-> FALSE, tries |-> 0]
Ended == {"done", "auth", "error", "escaped"}

Init ==
  /\ valid = 1 /\ keychain = 1 /\ other = 0
  /\ cached = [r \in Runtimes |-> 0]
  /\ lapsed \in {0, 1} /\ refused \in {0, 1}
  /\ refreshLock = [r \in Runtimes |-> Nobody] /\ lock = refreshLock
  /\ initialized = [r \in Runtimes |-> FALSE]
  /\ call = [c \in Calls |-> Idle]
  /\ consumer = [g \in 1..MaxGen |-> Nobody] /\ lost = {}
  /\ faults = 0

At(c, pc) == call[c].pc = pc
Becomes(c, x) == call' = [call EXCEPT ![c] = x]
Usable(g) == g > lapsed
Fault == faults < MaxFaults /\ faults' = faults + 1
Forget(c, locks) == [locks EXCEPT ![Home[c]] = IF @ = c THEN Nobody ELSE @]
\* The call ends; a handshake gives _lock back.
End(c, how) ==
  /\ Becomes(c, [Idle EXCEPT !.pc = how])
  /\ lock' = Forget(c, lock)

----------------------------------------------------------------------------
(* call_tool and _ensure_initialized: the first call of a runtime makes the
   handshake, two posts, with _lock held. *)

Begin(c) ==
  /\ At(c, "idle") /\ Becomes(c, [call[c] EXCEPT !.pc = "begun"])
  /\ UNCHANGED <<tokens, cached, clock, refreshLock, lock, initialized, faults>>

Handshake(c) ==
  /\ At(c, "begun") /\ ~initialized[Home[c]] /\ lock[Home[c]] = Nobody
  /\ lock' = [lock EXCEPT ![Home[c]] = c]
  /\ Becomes(c, [Idle EXCEPT !.pc = "token", !.phase = "initialize"])
  /\ UNCHANGED <<tokens, cached, clock, refreshLock, initialized, faults>>

Call(c) ==
  /\ At(c, "begun") /\ initialized[Home[c]] /\ lock[Home[c]] = Nobody
  /\ Becomes(c, [Idle EXCEPT !.pc = "token"])
  /\ UNCHANGED <<tokens, cached, clock, refreshLock, lock, initialized, faults>>

\* A post has been answered: the next one starts, with its own budgets.
Answered(c) ==
  CASE call[c].phase = "initialize" ->
         /\ Becomes(c, [Idle EXCEPT !.pc = "token", !.phase = "notify"])
         /\ UNCHANGED <<lock, initialized>>
    [] call[c].phase = "notify" ->
         /\ Becomes(c, [Idle EXCEPT !.pc = "token"])
         /\ initialized' = [initialized EXCEPT ![Home[c]] = TRUE]
         /\ lock' = Forget(c, lock)
    [] OTHER -> End(c, "done") /\ UNCHANGED initialized

----------------------------------------------------------------------------
(* _ensure_token *)

UseCached(c) ==
  /\ At(c, "token") /\ Usable(cached[Home[c]])
  /\ Becomes(c, [call[c] EXCEPT !.pc = "sent", !.held = cached[Home[c]]])
  /\ UNCHANGED <<tokens, cached, clock, refreshLock, lock, initialized, faults>>

\* The keychain is read by a subprocess, outside any lock.
LoadBundle(c) ==
  /\ At(c, "token") /\ ~Usable(cached[Home[c]])
  /\ Becomes(c, [call[c] EXCEPT !.pc = IF Usable(keychain) THEN "adopt" ELSE "stale",
                                !.held = keychain])
  /\ UNCHANGED <<tokens, cached, clock, refreshLock, lock, initialized, faults>>

\* The keychain cannot be read, or holds no bundle: when a token is needed, or with the
\* refresh lock held.
ReadFails(c) ==
  /\ \/ At(c, "token") /\ ~Usable(cached[Home[c]])
     \/ At(c, "refresh") /\ refreshLock[Home[c]] = Nobody
  /\ End(c, "auth")
  /\ UNCHANGED <<tokens, cached, clock, refreshLock, initialized, faults>>

\* What was read becomes the cached token, and is refreshed when it expires.
Adopt(c) ==
  /\ At(c, "adopt") \/ At(c, "stale")
  /\ cached' = [cached EXCEPT ![Home[c]] = call[c].held]
  /\ Becomes(c, [call[c] EXCEPT !.pc = IF At(c, "adopt") THEN "sent" ELSE "refresh",
                                !.forced = FALSE])
  /\ UNCHANGED <<tokens, clock, refreshLock, lock, initialized, faults>>

----------------------------------------------------------------------------
(* _refresh_access_token *)

After(c) == IF call[c].forced THEN "token" ELSE "sent"
\* Bug: the lock is not taken.
RefreshUnlocked(c) ==
  /\ At(c, "refresh")
  /\ IF ~call[c].forced /\ Usable(keychain)
     THEN /\ cached' = [cached EXCEPT ![Home[c]] = keychain]
          /\ Becomes(c, [call[c] EXCEPT !.pc = "sent", !.held = keychain])
     ELSE Becomes(c, [call[c] EXCEPT !.pc = "grant", !.held = keychain]) /\ UNCHANGED cached
  /\ UNCHANGED <<tokens, clock, refreshLock, lock, initialized, faults>>
\* The bundle is read with the lock held; one that another thread or codex has
\* refreshed is adopted, unless the server has just refused the token.
Refresh(c) ==
  /\ At(c, "refresh") /\ refreshLock[Home[c]] = Nobody
  /\ IF ~call[c].forced /\ Usable(keychain)
     THEN /\ cached' = [cached EXCEPT ![Home[c]] = keychain]
          /\ Becomes(c, [call[c] EXCEPT !.pc = "sent", !.held = keychain])
          /\ UNCHANGED refreshLock
     ELSE /\ refreshLock' = [refreshLock EXCEPT ![Home[c]] = c]
          /\ Becomes(c, [call[c] EXCEPT !.pc = "grant", !.held = keychain])
          /\ UNCHANGED cached
  /\ UNCHANGED <<tokens, clock, lock, initialized, faults>>

\* Bug: the new token is cached before it is in the keychain.
GrantedCached(c) ==
  /\ At(c, "grant") /\ call[c].held = valid /\ valid < MaxGen
  /\ valid' = valid + 1 /\ consumer' = [consumer EXCEPT ![valid] = Home[c]]
  /\ Becomes(c, [call[c] EXCEPT !.pc = "write", !.held = valid + 1])
  /\ cached' = [cached EXCEPT ![Home[c]] = valid + 1]
  /\ UNCHANGED <<keychain, other, lost, clock, refreshLock, lock, initialized, faults>>
Granted(c) ==
  /\ At(c, "grant") /\ call[c].held = valid /\ valid < MaxGen
  /\ valid' = valid + 1 /\ consumer' = [consumer EXCEPT ![valid] = Home[c]]
  /\ Becomes(c, [call[c] EXCEPT !.pc = "write", !.held = valid + 1])
  /\ UNCHANGED <<cached, keychain, other, lost, clock, refreshLock, lock, initialized, faults>>

\* HTTPError: the refresh token was used before, or the last one has expired.
Rejected(c) ==
  /\ At(c, "grant") /\ (call[c].held # valid \/ valid = MaxGen)
  /\ End(c, "auth") /\ refreshLock' = Forget(c, refreshLock)
  /\ UNCHANGED <<tokens, cached, clock, initialized, faults>>

\* The network fails before the grant, in the discovery of the endpoint too, or the
\* answer to it is lost: the URLError, TimeoutError or JSONDecodeError is nobody's to
\* catch.  A discovery that finds no endpoint, or no keychain, is an EmcpAuthError.
GrantFails(c) ==
  /\ At(c, "grant") /\ Fault
  /\ \/ UNCHANGED tokens /\ (End(c, "escaped") \/ End(c, "auth"))
     \/ /\ call[c].held = valid /\ valid < MaxGen
        /\ valid' = valid + 1 /\ consumer' = [consumer EXCEPT ![valid] = Home[c]]
        /\ lost' = lost \cup {valid + 1} /\ UNCHANGED <<keychain, other>>
        /\ End(c, "escaped")
  /\ refreshLock' = Forget(c, refreshLock)
  /\ UNCHANGED <<cached, clock, initialized>>

\* The keychain before the cache.
Write(c) ==
  /\ At(c, "write")
  /\ keychain' = call[c].held
  /\ cached' = [cached EXCEPT ![Home[c]] = call[c].held]
  /\ refreshLock' = Forget(c, refreshLock)
  /\ Becomes(c, [call[c] EXCEPT !.pc = After(c)])
  /\ UNCHANGED <<valid, other, consumer, lost, clock, lock, initialized, faults>>

WriteFails(c) ==
  /\ At(c, "write") /\ Fault
  /\ lost' = lost \cup {call[c].held}
  /\ End(c, "auth") /\ refreshLock' = Forget(c, refreshLock)
  /\ UNCHANGED <<valid, keychain, other, consumer, cached, clock, initialized>>

----------------------------------------------------------------------------
(* _post *)

Succeeds(c) ==
  /\ At(c, "sent") /\ call[c].held > refused
  /\ Answered(c)
  /\ UNCHANGED <<tokens, cached, clock, refreshLock, faults>>

\* 401: one refresh for a post, which costs no attempt.
Unauthorised(c) ==
  /\ At(c, "sent") /\ call[c].held <= refused
  /\ IF call[c].refreshed
     THEN End(c, "error")
     ELSE /\ Becomes(c, [call[c] EXCEPT !.pc = "refresh", !.forced = TRUE, !.refreshed = TRUE])
          /\ UNCHANGED lock
  /\ UNCHANGED <<tokens, cached, clock, refreshLock, initialized, faults>>

\* Bug: a transient failure does not use up an attempt.
TransientUncounted(c) ==
  /\ At(c, "sent")
  /\ Becomes(c, [call[c] EXCEPT !.pc = "token"]) /\ UNCHANGED lock
  /\ UNCHANGED <<tokens, cached, clock, refreshLock, initialized, faults>>
\* 408, 429, 5xx and a URLError, which is a connection that cannot be made: again from
\* _ensure_token, MaxAttempts times in all.
Transient(c) ==
  /\ At(c, "sent")
  /\ IF call[c].tries + 1 < MaxAttempts
     THEN /\ Becomes(c, [call[c] EXCEPT !.pc = "token", !.tries = @ + 1]) /\ UNCHANGED lock
     ELSE End(c, "error")
  /\ UNCHANGED <<tokens, cached, clock, refreshLock, initialized, faults>>

\* Another 4xx, or an error in the answer.
Fails(c) ==
  /\ At(c, "sent") /\ call[c].held > refused
  /\ End(c, "error")
  /\ UNCHANGED <<tokens, cached, clock, refreshLock, initialized, faults>>

\* A connection that breaks or is silent for timeout_s once the request is sent raises
\* no URLError, and an answer that is no JSON no EmcpError: neither is tried again.
Breaks(c) ==
  /\ At(c, "sent")
  /\ End(c, "escaped")
  /\ UNCHANGED <<tokens, cached, clock, refreshLock, initialized, faults>>

----------------------------------------------------------------------------
(* The surroundings. *)

\* Codex, or a process that is not modelled, refreshes the bundle in the same way.
OtherGranted ==
  /\ other = 0 /\ keychain = valid /\ valid < MaxGen
  /\ valid' = valid + 1 /\ other' = valid + 1
  /\ consumer' = [consumer EXCEPT ![valid] = Codex]
  /\ UNCHANGED <<keychain, cached, clock, refreshLock, lock, initialized, call, lost, faults>>

OtherWrites ==
  /\ other # 0 /\ other' = 0
  /\ \/ keychain' = other /\ UNCHANGED <<lost, faults>>
     \/ Fault /\ lost' = lost \cup {other} /\ UNCHANGED keychain
  /\ UNCHANGED <<valid, consumer, cached, clock, refreshLock, lock, initialized, call>>

Lapse == lapsed < valid /\ lapsed' = lapsed + 1
  /\ UNCHANGED <<tokens, cached, refused, refreshLock, lock, initialized, call, faults>>
Revoke == refused < valid /\ refused' = refused + 1
  /\ UNCHANGED <<tokens, cached, lapsed, refreshLock, lock, initialized, call, faults>>

\* The process of a runtime dies, with what its threads have been granted.
Crash(r) ==
  /\ Fault
  /\ cached' = [cached EXCEPT ![r] = 0] /\ initialized' = [initialized EXCEPT ![r] = FALSE]
  /\ refreshLock' = [refreshLock EXCEPT ![r] = Nobody] /\ lock' = [lock EXCEPT ![r] = Nobody]
  /\ lost' = lost \cup {call[c].held : c \in {d \in Calls : Home[d] = r /\ At(d, "write")}}
  /\ call' = [c \in Calls |->
       IF Home[c] = r /\ call[c].pc \notin Ended \cup {"idle"}
       THEN [Idle EXCEPT !.pc = "error"] ELSE call[c]]
  /\ UNCHANGED <<valid, keychain, other, consumer, clock>>

Step(c) ==
  \/ Handshake(c) \/ Call(c) \/ UseCached(c) \/ LoadBundle(c) \/ ReadFails(c) \/ Adopt(c)
  \/ Refresh(c) \/ Granted(c) \/ Rejected(c) \/ GrantFails(c) \/ Write(c) \/ WriteFails(c)
  \/ Succeeds(c) \/ Unauthorised(c) \/ Transient(c) \/ Fails(c) \/ Breaks(c)

Next ==
  \/ \E c \in Calls : Begin(c) \/ Step(c)
  \/ OtherGranted \/ OtherWrites \/ Lapse \/ Revoke
  \/ \E r \in Runtimes : Crash(r)

Spec == Init /\ [][Next]_vars /\ \A c \in Calls : WF_vars(Step(c))

----------------------------------------------------------------------------
CallStates ==
  [pc : {"idle", "begun", "token", "adopt", "stale", "refresh", "grant", "write", "sent"}
          \cup Ended,
   phase : {"initialize", "notify", "call"}, held : 0..MaxGen,
   forced : BOOLEAN, refreshed : BOOLEAN, tries : 0..MaxAttempts]

TypeOK ==
  /\ {valid, keychain} \subseteq 1..MaxGen /\ lost \subseteq 1..MaxGen /\ other \in 0..MaxGen
  /\ cached \in [Runtimes -> 0..MaxGen] /\ {lapsed, refused} \subseteq 0..MaxGen
  /\ refreshLock \in [Runtimes -> Calls \cup {Nobody}]
  /\ lock \in [Runtimes -> Calls \cup {Nobody}]
  /\ initialized \in [Runtimes -> BOOLEAN]
  /\ consumer \in [1..MaxGen -> Runtimes \cup {Codex, Nobody}]
  /\ call \in [Calls -> CallStates]
  /\ faults \in 0..MaxFaults

\* The keychain holds the refresh token the identity provider accepts, unless a thread
\* is about to write it or it was lost between the grant and the write
\* (_write_credential_bundle).
CredentialKept ==
  \/ keychain = valid
  \/ valid \in lost \/ other = valid
  \/ \E c \in Calls : At(c, "write") /\ call[c].held = valid

\* No runtime remembers a token that is newer than the keychain's: when the write
\* fails nobody thinks there is a working token (_refresh_access_token).
CacheBehindKeychain == \A r \in Runtimes : cached[r] <= keychain

\* The threads of a runtime never take each other's refresh token: a grant that is
\* about to be rejected was overtaken by codex or by another runtime, or follows one
\* whose answer was lost (_refresh_lock).
RejectedOnlyByOthers == \A c \in Calls :
  At(c, "grant") /\ call[c].held # valid =>
    \/ consumer[call[c].held] # Home[c]
    \/ valid \in lost
=============================================================================
