---------------------- MODULE ConfluenceAdapter_proof ----------------------
(***************************************************************************)
(* Proofs about the adapter and the two runtimes it is built over, for any *)
(* number of calls, runtimes, attempts, token generations, faults and      *)
(* processes.                                                              *)
(*                                                                         *)
(* The direct runtime rests on a chain: the keychain is at most one        *)
(* generation behind the identity provider, and when it is behind, exactly *)
(* one party has the missing generation to write, or it is lost for good   *)
(* (Chain, WriteOf).  Nobody else holds or remembers more than the         *)
(* keychain has (HeldOf), and who asks for a grant holds his runtime's     *)
(* lock (LockOf).                                                          *)
(*                                                                         *)
(* With the child process a request carries the id of its caller, unless   *)
(* it is codex's own, wherever it is (Mine): in the input of a process, in its output, or filed among  *)
(* the responses.  Ids are given once (IdOf) and do not run out (Counted). *)
(*                                                                         *)
(* Each step of the adapter is a step of the runtime in use, a listing     *)
(* that starts over, or none.                                              *)
(***************************************************************************)
EXTENDS ConfluenceAdapter, FiniteSetTheorems, TLAPS

----------------------------------------------------------------------------
(* The direct runtime (EmcpToken): what its invariant says. *)

\* Who is behind, and whose turn it is.
Chain ==
  /\ keychain <= valid /\ valid <= keychain + 1
  /\ other # 0 => /\ other = valid /\ keychain + 1 = valid /\ valid \notin lost
                  /\ consumer[keychain] = Codex
  /\ valid \in lost => keychain + 1 = valid
  /\ \A g \in lost : g <= valid
  /\ keychain # valid => other = valid \/ valid \in lost \/ \E c \in Calls : E!At(c, "write")

\* A thread that has been granted a generation is the only one to have it.
WriteOf(c) ==
  E!At(c, "write") =>
    /\ ecall[c].held = valid /\ keychain + 1 = valid
    /\ other = 0 /\ valid \notin lost
    /\ consumer[keychain] = Home[c]
    /\ \A d \in Calls : E!At(d, "write") => d = c

HeldOf(c) == ~E!At(c, "write") => ecall[c].held <= keychain

LockOf(c) == E!At(c, "grant") \/ E!At(c, "write") => refreshLock[Home[c]] = c

GrantOf(c) ==
  E!At(c, "grant") =>
    /\ ecall[c].held \in 1..MaxGen
    /\ ecall[c].held # valid => consumer[ecall[c].held] # Home[c] \/ valid \in lost

CallOf(c) == WriteOf(c) /\ HeldOf(c) /\ LockOf(c) /\ GrantOf(c)

TokenInv == E!TypeOK /\ Chain /\ E!CacheBehindKeychain /\ \A c \in Calls : CallOf(c)

----------------------------------------------------------------------------
(* Steps by what they leave alone. *)

\* Only this thread moves.
Own(c) ==
  /\ ecall' \in [Calls -> E!CallStates]
  /\ \A d \in Calls : d # c => ecall'[d] = ecall[d]

Asking(c) == E!At(c, "grant") \/ E!At(c, "write")

LEMMA Entry ==
  ASSUME NEW c \in Calls, E!TypeOK, NEW x \in E!CallStates, E!Becomes(c, x)
  PROVE  Own(c) /\ ecall'[c] = x
BY DEF E!TypeOK, Own, E!Becomes

LEMMA IdleEntry ==
  E!Idle \in E!CallStates /\ E!Idle.held = 0 /\ E!Idle.pc = "idle"
BY BoundsAssumption DEF E!Idle, E!CallStates

LEMMA Released ==
  ASSUME NEW c \in Calls, NEW locks \in [Runtimes -> Calls \cup {Nobody}]
  PROVE  /\ E!Forget(c, locks) \in [Runtimes -> Calls \cup {Nobody}]
         /\ \A d \in Calls : d # c /\ locks[Home[d]] = d => E!Forget(c, locks)[Home[d]] = d
BY HomeAssumption DEF E!Forget

LEMMA EndEntry ==
  ASSUME NEW c \in Calls, E!TypeOK, NEW how \in E!Ended, E!End(c, how)
  PROVE  /\ \E x \in E!CallStates : E!Becomes(c, x) /\ x.pc = how /\ x.held = 0
         /\ elock' \in [Runtimes -> Calls \cup {Nobody}]
<1>1. /\ [E!Idle EXCEPT !.pc = how] \in E!CallStates
      /\ [E!Idle EXCEPT !.pc = how].pc = how /\ [E!Idle EXCEPT !.pc = how].held = 0
  BY IdleEntry DEF E!CallStates
<1>2. elock' \in [Runtimes -> Calls \cup {Nobody}]
  BY Released DEF E!End, E!TypeOK
<1> QED
  BY <1>1, <1>2 DEF E!End

\* What the variables that no part of the chain speaks of must keep.
RestTyped ==
  /\ {lapsed, refused} \subseteq 0..MaxGen
  /\ elock \in [Runtimes -> Calls \cup {Nobody}]
  /\ initialized \in [Runtimes -> BOOLEAN]
  /\ faults \in 0..MaxFaults

\* A thread that holds no lock before or after, and no more than the keychain has.
LEMMA Quiet ==
  ASSUME NEW c \in Calls, TokenInv, ~Asking(c),
         NEW x \in E!CallStates, E!Becomes(c, x),
         x.pc \notin {"grant", "write"}, x.held <= keychain,
         UNCHANGED <<E!tokens, refreshLock>>, RestTyped',
         cached' \in [Runtimes -> 0..MaxGen], E!CacheBehindKeychain'
  PROVE  TokenInv'
<1>1. Own(c) /\ ecall'[c] = x
  BY Entry DEF TokenInv
<1>2. \A d \in Calls : E!At(d, "write")' <=> E!At(d, "write")
  BY <1>1 DEF Own, E!At, Asking
<1>3. E!TypeOK'
  BY <1>1 DEF TokenInv, E!TypeOK, RestTyped, Own, E!tokens
<1>4. Chain'
  BY <1>2 DEF TokenInv, Chain, E!tokens
<1>5. CallOf(c)'
  BY <1>1 DEF CallOf, WriteOf, HeldOf, LockOf, GrantOf, E!At, E!tokens
<1>6. ASSUME NEW d \in Calls, d # c PROVE CallOf(d)'
  <2>1. CallOf(d) /\ ecall'[d] = ecall[d]
    BY <1>1, <1>6 DEF TokenInv, Own
  <2> QED
    BY <1>2, <2>1 DEF CallOf, WriteOf, HeldOf, LockOf, GrantOf, E!At, E!tokens
<1> QED
  BY <1>3, <1>4, <1>5, <1>6 DEF TokenInv

----------------------------------------------------------------------------
(* The calls and their posts. *)

LEMMA TokenBeginInv ==
  ASSUME NEW c \in Calls, TokenInv, E!Begin(c)
  PROVE  TokenInv'
<1> DEFINE x == [ecall[c] EXCEPT !.pc = "begun"]
<1>1. /\ E!TypeOK /\ ecall[c] \in E!CallStates /\ Home[c] \in Runtimes
      /\ HeldOf(c) /\ E!CacheBehindKeychain
      /\ keychain \in 0..MaxGen /\ cached \in [Runtimes -> 0..MaxGen]
  BY HomeAssumption DEF TokenInv, E!TypeOK, CallOf
<1>2. x \in E!CallStates
  BY <1>1 DEF E!CallStates
<1>3. x.pc \notin {"grant", "write"} /\ x.held <= keychain /\ ~Asking(c)
  BY <1>1 DEF E!Begin, E!CallStates, HeldOf, E!At, Asking, E!CacheBehindKeychain
<1>4. E!Becomes(c, x) /\ UNCHANGED <<E!tokens, refreshLock>>
  BY DEF E!Begin
<1>5. RestTyped'
  BY <1>1 DEF E!Begin, E!TypeOK, RestTyped, E!clock
<1>6. cached' \in [Runtimes -> 0..MaxGen] /\ E!CacheBehindKeychain'
  BY <1>1 DEF E!Begin, E!TypeOK, E!CacheBehindKeychain, HeldOf, E!At, E!CallStates, E!tokens
<1> HIDE DEF x
<1> QED
  BY <1>2, <1>3, <1>4, <1>5, <1>6, Quiet DEF TokenInv

\* A caller that starts over, as the adapter does with another tool.
LEMMA TokenAgainInv ==
  ASSUME NEW c \in Calls, TokenInv, ecall[c].pc \in E!Ended,
         E!Becomes(c, [E!Idle EXCEPT !.pc = "begun"]),
         UNCHANGED <<E!tokens, cached, E!clock, refreshLock, elock, initialized, faults>>
  PROVE  TokenInv'
<1> DEFINE x == [E!Idle EXCEPT !.pc = "begun"]
<1>1. E!TypeOK /\ E!CacheBehindKeychain /\ keychain \in Nat
  BY DEF TokenInv, E!TypeOK
<1>2. x \in E!CallStates /\ x.pc = "begun" /\ x.held = 0
  BY IdleEntry DEF E!CallStates
<1>3. ~Asking(c) /\ x.pc \notin {"grant", "write"} /\ x.held <= keychain
  BY <1>1, <1>2 DEF Asking, E!At, E!Ended
<1>4. RestTyped' /\ cached' \in [Runtimes -> 0..MaxGen] /\ E!CacheBehindKeychain'
  BY <1>1 DEF E!TypeOK, RestTyped, E!CacheBehindKeychain, E!tokens, E!clock
<1>5. E!Becomes(c, x) /\ UNCHANGED <<E!tokens, refreshLock>>
  OBVIOUS
<1> HIDE DEF x
<1> QED
  BY <1>2, <1>3, <1>4, <1>5, Quiet

LEMMA TokenHandshakeInv ==
  ASSUME NEW c \in Calls, TokenInv, E!Handshake(c)
  PROVE  TokenInv'
<1> DEFINE x == [E!Idle EXCEPT !.pc = "token", !.phase = "initialize"]
<1>1. /\ E!TypeOK /\ ecall[c] \in E!CallStates /\ Home[c] \in Runtimes
      /\ HeldOf(c) /\ E!CacheBehindKeychain
      /\ keychain \in 0..MaxGen /\ cached \in [Runtimes -> 0..MaxGen]
  BY HomeAssumption DEF TokenInv, E!TypeOK, CallOf
<1>2. x \in E!CallStates
  BY IdleEntry DEF E!CallStates
<1>3. x.pc \notin {"grant", "write"} /\ x.held <= keychain /\ ~Asking(c)
  BY <1>1 DEF E!Handshake, E!CallStates, HeldOf, E!At, Asking, E!CacheBehindKeychain, E!Idle
<1>4. E!Becomes(c, x) /\ UNCHANGED <<E!tokens, refreshLock>>
  BY DEF E!Handshake
<1>5. RestTyped'
  BY <1>1 DEF E!Handshake, E!TypeOK, RestTyped, E!clock
<1>6. cached' \in [Runtimes -> 0..MaxGen] /\ E!CacheBehindKeychain'
  BY <1>1 DEF E!Handshake, E!TypeOK, E!CacheBehindKeychain, HeldOf, E!At, E!CallStates, E!tokens
<1> HIDE DEF x
<1> QED
  BY <1>2, <1>3, <1>4, <1>5, <1>6, Quiet DEF TokenInv

LEMMA TokenCallInv ==
  ASSUME NEW c \in Calls, TokenInv, E!Call(c)
  PROVE  TokenInv'
<1> DEFINE x == [E!Idle EXCEPT !.pc = "token"]
<1>1. /\ E!TypeOK /\ ecall[c] \in E!CallStates /\ Home[c] \in Runtimes
      /\ HeldOf(c) /\ E!CacheBehindKeychain
      /\ keychain \in 0..MaxGen /\ cached \in [Runtimes -> 0..MaxGen]
  BY HomeAssumption DEF TokenInv, E!TypeOK, CallOf
<1>2. x \in E!CallStates
  BY IdleEntry DEF E!CallStates
<1>3. x.pc \notin {"grant", "write"} /\ x.held <= keychain /\ ~Asking(c)
  BY <1>1 DEF E!Call, E!CallStates, HeldOf, E!At, Asking, E!CacheBehindKeychain, E!Idle
<1>4. E!Becomes(c, x) /\ UNCHANGED <<E!tokens, refreshLock>>
  BY DEF E!Call
<1>5. RestTyped'
  BY <1>1 DEF E!Call, E!TypeOK, RestTyped, E!clock
<1>6. cached' \in [Runtimes -> 0..MaxGen] /\ E!CacheBehindKeychain'
  BY <1>1 DEF E!Call, E!TypeOK, E!CacheBehindKeychain, HeldOf, E!At, E!CallStates, E!tokens
<1> HIDE DEF x
<1> QED
  BY <1>2, <1>3, <1>4, <1>5, <1>6, Quiet DEF TokenInv

LEMMA TokenUseCachedInv ==
  ASSUME NEW c \in Calls, TokenInv, E!UseCached(c)
  PROVE  TokenInv'
<1> DEFINE x == [ecall[c] EXCEPT !.pc = "sent", !.held = cached[Home[c]]]
<1>1. /\ E!TypeOK /\ ecall[c] \in E!CallStates /\ Home[c] \in Runtimes
      /\ HeldOf(c) /\ E!CacheBehindKeychain
      /\ keychain \in 0..MaxGen /\ cached \in [Runtimes -> 0..MaxGen]
  BY HomeAssumption DEF TokenInv, E!TypeOK, CallOf
<1>2. x \in E!CallStates
  BY <1>1 DEF E!CallStates
<1>3. x.pc \notin {"grant", "write"} /\ x.held <= keychain /\ ~Asking(c)
  BY <1>1 DEF E!UseCached, E!CallStates, HeldOf, E!At, Asking, E!CacheBehindKeychain
<1>4. E!Becomes(c, x) /\ UNCHANGED <<E!tokens, refreshLock>>
  BY DEF E!UseCached
<1>5. RestTyped'
  BY <1>1 DEF E!UseCached, E!TypeOK, RestTyped, E!clock
<1>6. cached' \in [Runtimes -> 0..MaxGen] /\ E!CacheBehindKeychain'
  BY <1>1 DEF E!UseCached, E!TypeOK, E!CacheBehindKeychain, HeldOf, E!At, E!CallStates, E!tokens
<1> HIDE DEF x
<1> QED
  BY <1>2, <1>3, <1>4, <1>5, <1>6, Quiet DEF TokenInv

LEMMA TokenLoadBundleInv ==
  ASSUME NEW c \in Calls, TokenInv, E!LoadBundle(c)
  PROVE  TokenInv'
<1> DEFINE x == [ecall[c] EXCEPT !.pc = IF E!Usable(keychain) THEN "adopt" ELSE "stale",
                            !.held = keychain]
<1>1. /\ E!TypeOK /\ ecall[c] \in E!CallStates /\ Home[c] \in Runtimes
      /\ HeldOf(c) /\ E!CacheBehindKeychain
      /\ keychain \in 0..MaxGen /\ cached \in [Runtimes -> 0..MaxGen]
  BY HomeAssumption DEF TokenInv, E!TypeOK, CallOf
<1>2. x \in E!CallStates
  BY <1>1 DEF E!CallStates
<1>3. x.pc \notin {"grant", "write"} /\ x.held <= keychain /\ ~Asking(c)
  BY <1>1 DEF E!LoadBundle, E!CallStates, HeldOf, E!At, Asking, E!CacheBehindKeychain
<1>4. E!Becomes(c, x) /\ UNCHANGED <<E!tokens, refreshLock>>
  BY DEF E!LoadBundle
<1>5. RestTyped'
  BY <1>1 DEF E!LoadBundle, E!TypeOK, RestTyped, E!clock
<1>6. cached' \in [Runtimes -> 0..MaxGen] /\ E!CacheBehindKeychain'
  BY <1>1 DEF E!LoadBundle, E!TypeOK, E!CacheBehindKeychain, HeldOf, E!At, E!CallStates, E!tokens
<1> HIDE DEF x
<1> QED
  BY <1>2, <1>3, <1>4, <1>5, <1>6, Quiet DEF TokenInv

\* The keychain cannot be read.
LEMMA TokenReadFailsInv ==
  ASSUME NEW c \in Calls, TokenInv, E!ReadFails(c)
  PROVE  TokenInv'
<1>1. /\ E!TypeOK /\ E!CacheBehindKeychain /\ ~Asking(c) /\ keychain \in Nat
      /\ E!End(c, "auth") /\ "auth" \in E!Ended
      /\ UNCHANGED <<E!tokens, cached, E!clock, refreshLock, initialized, faults>>
  BY DEF TokenInv, E!TypeOK, E!ReadFails, E!At, Asking, E!Ended
<1>2. PICK x \in E!CallStates : E!Becomes(c, x) /\ x.pc = "auth" /\ x.held = 0
  BY <1>1, EndEntry
<1>3. x.pc \notin {"grant", "write"} /\ x.held <= keychain
  BY <1>1, <1>2
<1>4. RestTyped' /\ cached' \in [Runtimes -> 0..MaxGen] /\ E!CacheBehindKeychain'
  BY <1>1, EndEntry DEF E!TypeOK, RestTyped, E!CacheBehindKeychain, E!tokens, E!clock
<1> QED
  BY <1>1, <1>2, <1>3, <1>4, Quiet

LEMMA TokenAdoptInv ==
  ASSUME NEW c \in Calls, TokenInv, E!Adopt(c)
  PROVE  TokenInv'
<1> DEFINE x == [ecall[c] EXCEPT !.pc = IF E!At(c, "adopt") THEN "sent" ELSE "refresh",
                             !.forced = FALSE]
<1>1. /\ E!TypeOK /\ ecall[c] \in E!CallStates /\ Home[c] \in Runtimes
      /\ HeldOf(c) /\ E!CacheBehindKeychain
      /\ keychain \in 0..MaxGen /\ cached \in [Runtimes -> 0..MaxGen]
  BY HomeAssumption DEF TokenInv, E!TypeOK, CallOf
<1>2. x \in E!CallStates
  BY <1>1 DEF E!CallStates
<1>3. x.pc \notin {"grant", "write"} /\ x.held <= keychain /\ ~Asking(c)
  BY <1>1 DEF E!Adopt, E!CallStates, HeldOf, E!At, Asking, E!CacheBehindKeychain
<1>4. E!Becomes(c, x) /\ UNCHANGED <<E!tokens, refreshLock>>
  BY DEF E!Adopt
<1>5. RestTyped'
  BY <1>1 DEF E!Adopt, E!TypeOK, RestTyped, E!clock
<1>6. cached' \in [Runtimes -> 0..MaxGen] /\ E!CacheBehindKeychain'
  BY <1>1 DEF E!Adopt, E!TypeOK, E!CacheBehindKeychain, HeldOf, E!At, E!CallStates, E!tokens
<1> HIDE DEF x
<1> QED
  BY <1>2, <1>3, <1>4, <1>5, <1>6, Quiet DEF TokenInv

LEMMA AnsweredEntry ==
  ASSUME NEW c \in Calls, E!TypeOK, E!Answered(c)
  PROVE  /\ \E x \in E!CallStates : E!Becomes(c, x) /\ x.pc \in {"token", "done"} /\ x.held = 0
         /\ elock' \in [Runtimes -> Calls \cup {Nobody}]
         /\ initialized' \in [Runtimes -> BOOLEAN]
<1>1. CASE ecall[c].phase = "initialize"
  <2> DEFINE x == [E!Idle EXCEPT !.pc = "token", !.phase = "notify"]
  <2>1. x \in E!CallStates /\ x.pc = "token" /\ x.held = 0
    BY IdleEntry DEF E!CallStates
  <2> QED
    BY <1>1, <2>1 DEF E!Answered, E!TypeOK
<1>2. CASE ecall[c].phase = "notify"
  <2> DEFINE x == [E!Idle EXCEPT !.pc = "token"]
  <2>1. x \in E!CallStates /\ x.pc = "token" /\ x.held = 0
    BY IdleEntry DEF E!CallStates
  <2>2. elock' = E!Forget(c, elock) /\ E!Becomes(c, x)
        /\ initialized' = [initialized EXCEPT ![Home[c]] = TRUE]
    BY <1>2 DEF E!Answered
  <2> QED
    BY <2>1, <2>2, Released DEF E!TypeOK
<1>3. CASE ecall[c].phase \notin {"initialize", "notify"}
  <2>1. E!End(c, "done") /\ UNCHANGED initialized
    BY <1>3 DEF E!Answered
  <2> QED
    BY <2>1, EndEntry DEF E!TypeOK, E!Ended
<1> QED
  BY <1>1, <1>2, <1>3

\* What a post that is sent may lead to.
LEMMA TokenSentInv ==
  ASSUME NEW c \in Calls, TokenInv,
         \/ E!Succeeds(c) \/ E!Unauthorised(c) \/ E!Transient(c) \/ E!Fails(c)
         \/ E!Breaks(c)
  PROVE  TokenInv'
<1>1. /\ E!TypeOK /\ ecall[c] \in E!CallStates /\ HeldOf(c) /\ E!At(c, "sent") /\ ~Asking(c)
      /\ keychain \in 1..MaxGen /\ MaxGen \in Nat
  BY BoundsAssumption
  DEF TokenInv, E!TypeOK, CallOf, E!Succeeds, E!Unauthorised, E!Transient, E!Fails, E!Breaks, E!At,
      Asking
<1>2. UNCHANGED <<E!tokens, cached, E!clock, refreshLock, faults>>
  BY DEF E!Succeeds, E!Unauthorised, E!Transient, E!Fails, E!Breaks
<1>3. /\ \E x \in E!CallStates :
           E!Becomes(c, x) /\ x.pc \notin {"grant", "write"} /\ x.held <= keychain
      /\ elock' \in [Runtimes -> Calls \cup {Nobody}]
      /\ initialized' \in [Runtimes -> BOOLEAN]
  <2>1. CASE E!Succeeds(c)
    BY <1>1, <2>1, AnsweredEntry DEF E!Succeeds
  <2>2. ASSUME NEW how \in {"error", "escaped"}, E!End(c, how), UNCHANGED initialized
        PROVE  /\ \E x \in E!CallStates :
                    E!Becomes(c, x) /\ x.pc \notin {"grant", "write"} /\ x.held <= keychain
               /\ elock' \in [Runtimes -> Calls \cup {Nobody}]
               /\ initialized' \in [Runtimes -> BOOLEAN]
    <3>1. how \in E!Ended
      BY DEF E!Ended
    <3>2. PICK x \in E!CallStates : E!Becomes(c, x) /\ x.pc = how /\ x.held = 0
      BY <1>1, <2>2, <3>1, EndEntry
    <3>3. elock' \in [Runtimes -> Calls \cup {Nobody}]
      BY <1>1, <2>2, <3>1, EndEntry
    <3>4. x.pc \notin {"grant", "write"} /\ x.held <= keychain
      BY <1>1, <3>2
    <3>5. initialized' \in [Runtimes -> BOOLEAN]
      BY <1>1, <2>2 DEF E!TypeOK
    <3> QED
      BY <3>2, <3>3, <3>4, <3>5
  <2>3. CASE E!Unauthorised(c) /\ ~ecall[c].refreshed
    <3> DEFINE x == [ecall[c] EXCEPT !.pc = "refresh", !.forced = TRUE, !.refreshed = TRUE]
    <3>1. x \in E!CallStates
      BY <1>1 DEF E!CallStates
    <3>2. x.pc = "refresh" /\ x.held <= keychain
      BY <1>1 DEF E!CallStates, HeldOf, E!At
    <3> QED
      BY <1>1, <2>3, <3>1, <3>2 DEF E!Unauthorised, E!TypeOK
  <2>4. CASE E!Transient(c) /\ ecall[c].tries + 1 < MaxAttempts
    <3> DEFINE x == [ecall[c] EXCEPT !.pc = "token", !.tries = @ + 1]
    <3>1. ecall[c].tries + 1 \in 0..MaxAttempts
      BY <1>1, <2>4, BoundsAssumption DEF E!CallStates
    <3>2. x \in E!CallStates
      BY <1>1, <3>1 DEF E!CallStates
    <3>3. x.pc = "token" /\ x.held <= keychain
      BY <1>1 DEF E!CallStates, HeldOf, E!At
    <3> QED
      BY <1>1, <2>4, <3>2, <3>3 DEF E!Transient, E!TypeOK
  <2> QED
    BY <2>1, <2>2, <2>3, <2>4 DEF E!Unauthorised, E!Transient, E!Fails, E!Breaks
<1>4. RestTyped' /\ cached' \in [Runtimes -> 0..MaxGen]
  BY <1>1, <1>2, <1>3 DEF E!TypeOK, RestTyped, E!clock
<1>5. E!CacheBehindKeychain'
  BY <1>2 DEF TokenInv, E!CacheBehindKeychain, E!tokens
<1> QED
  BY <1>1, <1>2, <1>3, <1>4, <1>5, Quiet

----------------------------------------------------------------------------
(* The refresh. *)

LEMMA TokenRefreshInv ==
  ASSUME NEW c \in Calls, TokenInv, E!Refresh(c)
  PROVE  TokenInv'
<1>1. /\ E!TypeOK /\ ecall[c] \in E!CallStates /\ Home[c] \in Runtimes /\ ~Asking(c)
      /\ keychain \in 0..MaxGen /\ keychain \in 1..MaxGen /\ valid \in 1..MaxGen /\ MaxGen \in Nat
      /\ refreshLock \in [Runtimes -> Calls \cup {Nobody}]
      /\ refreshLock[Home[c]] = Nobody
  BY HomeAssumption, BoundsAssumption DEF TokenInv, E!TypeOK, E!Refresh, E!At, Asking
<1>2. CASE ~ecall[c].forced /\ E!Usable(keychain)
  <2> DEFINE x == [ecall[c] EXCEPT !.pc = "sent", !.held = keychain]
  <2>1. x \in E!CallStates
    BY <1>1 DEF E!CallStates
  <2>2. x.pc = "sent" /\ x.held <= keychain
    BY <1>1 DEF E!CallStates
  <2>3. E!Becomes(c, x) /\ UNCHANGED <<E!tokens, refreshLock>> /\ RestTyped'
    BY <1>1, <1>2 DEF E!Refresh, RestTyped, E!TypeOK, E!clock
  <2>4. cached' = [cached EXCEPT ![Home[c]] = keychain] /\ cached \in [Runtimes -> 0..MaxGen]
    BY <1>1, <1>2 DEF E!Refresh, E!TypeOK
  <2>5. cached' \in [Runtimes -> 0..MaxGen] /\ E!CacheBehindKeychain'
    BY <1>1, <2>3, <2>4 DEF TokenInv, E!CacheBehindKeychain, E!tokens
  <2> HIDE DEF x
  <2> QED
    BY <1>1, <2>1, <2>2, <2>3, <2>5, Quiet
<1>3. CASE ~(~ecall[c].forced /\ E!Usable(keychain))
  <2> DEFINE x == [ecall[c] EXCEPT !.pc = "grant", !.held = keychain]
  <2>1. x \in E!CallStates /\ x.pc = "grant" /\ x.held = keychain
    BY <1>1 DEF E!CallStates
  <2>2. /\ E!Becomes(c, x) /\ refreshLock' = [refreshLock EXCEPT ![Home[c]] = c]
        /\ UNCHANGED <<E!tokens, cached, E!clock, elock, initialized, faults>>
    BY <1>3 DEF E!Refresh
  <2> HIDE DEF x
  <2>3. Own(c) /\ ecall'[c] = x
    BY <1>1, <2>1, <2>2, Entry
  <2>4. E!TypeOK'
    BY <1>1, <2>2, <2>3 DEF E!TypeOK, Own, E!tokens, E!clock
  <2>5. \A d \in Calls : E!At(d, "write")' <=> E!At(d, "write")
    BY <2>1, <2>3, <1>1 DEF Own, E!At, Asking
  <2>6. Chain' /\ E!CacheBehindKeychain'
    BY <2>2, <2>5 DEF TokenInv, Chain, E!CacheBehindKeychain, E!tokens
  <2>7. keychain # valid => consumer[keychain] # Home[c] \/ valid \in lost
    <3>1. ASSUME other = valid PROVE consumer[keychain] # Home[c]
      BY <1>1, <3>1, HomeAssumption DEF TokenInv, Chain
    <3>2. ASSUME NEW d \in Calls, E!At(d, "write") PROVE consumer[keychain] # Home[c]
      BY <1>1, <3>2, HomeAssumption DEF TokenInv, CallOf, WriteOf, LockOf
    <3> QED
      BY <3>1, <3>2 DEF TokenInv, Chain
  <2>8. CallOf(c)'
    BY <1>1, <2>1, <2>2, <2>3, <2>7
    DEF CallOf, WriteOf, HeldOf, LockOf, GrantOf, E!At, E!tokens
  <2>9. ASSUME NEW d \in Calls, d # c PROVE CallOf(d)'
    <3>1. CallOf(d) /\ ecall'[d] = ecall[d] /\ Home[d] \in Runtimes
      BY <2>3, <2>9, HomeAssumption DEF TokenInv, Own
    <3>2. refreshLock[Home[d]] = d => refreshLock'[Home[d]] = d
      BY <1>1, <2>2, <3>1, HomeAssumption
    <3> QED
      BY <2>2, <2>5, <3>1, <3>2 DEF CallOf, WriteOf, HeldOf, LockOf, GrantOf, E!At, E!tokens
  <2> QED
    BY <2>4, <2>6, <2>8, <2>9 DEF TokenInv
<1> QED
  BY <1>2, <1>3

\* Nobody is behind: there is nothing to write.
LEMMA Current ==
  ASSUME TokenInv, keychain = valid
  PROVE  other = 0 /\ valid \notin lost /\ \A c \in Calls : ~E!At(c, "write")
BY DEF TokenInv, E!TypeOK, Chain, CallOf, WriteOf

\* A thread asks for a grant with what the identity provider accepts, and gets it.
LEMMA Grants ==
  ASSUME NEW c \in Calls, TokenInv, E!At(c, "grant"), ecall[c].held = valid
  PROVE  /\ keychain = valid /\ other = 0 /\ valid \notin lost
         /\ \A d \in Calls : ~E!At(d, "write")
<1>1. keychain = valid
  BY DEF TokenInv, E!TypeOK, Chain, CallOf, HeldOf, E!At
<1> QED
  BY <1>1, Current

\* The others keep what they hold when a new generation is granted to somebody.
LEMMA Overtaken ==
  ASSUME NEW d \in Calls, TokenInv, NEW r, keychain = valid, valid < MaxGen,
         valid' = valid + 1, consumer' = [consumer EXCEPT ![valid] = r],
         ecall'[d] = ecall[d], UNCHANGED keychain,
         LockOf(d)', E!At(d, "grant") => r # Home[d] /\ valid \notin lost
  PROVE  CallOf(d)'
<1>1. /\ E!TypeOK /\ CallOf(d) /\ ~E!At(d, "write") /\ Chain
      /\ valid \in 1..MaxGen /\ MaxGen \in Nat
      /\ consumer \in [1..MaxGen -> Runtimes \cup {Codex, Nobody}]
  BY Current, BoundsAssumption DEF TokenInv, E!TypeOK
<1>2. WriteOf(d)' /\ HeldOf(d)'
  BY <1>1 DEF CallOf, WriteOf, HeldOf, E!At
<1>3. ASSUME E!At(d, "grant")
      PROVE  consumer'[ecall[d].held] # Home[d] /\ ecall[d].held \in 1..MaxGen
  <2>1. ecall[d].held \in 1..MaxGen
    BY <1>1, <1>3 DEF CallOf, GrantOf
  <2>2. CASE ecall[d].held = valid
    BY <1>1, <1>3, <2>1, <2>2
  <2>3. CASE ecall[d].held # valid
    BY <1>1, <1>3, <2>1, <2>3 DEF CallOf, GrantOf
  <2> QED
    BY <2>1, <2>2, <2>3
<1>4. GrantOf(d)'
  BY <1>3 DEF GrantOf, E!At
<1> QED
  BY <1>2, <1>4 DEF CallOf

LEMMA TokenGrantedInv ==
  ASSUME NEW c \in Calls, TokenInv, E!Granted(c)
  PROVE  TokenInv'
<1>1. /\ E!TypeOK /\ ecall[c] \in E!CallStates /\ Home[c] \in Runtimes
      /\ E!At(c, "grant") /\ ecall[c].held = valid /\ valid < MaxGen
      /\ valid \in 1..MaxGen /\ MaxGen \in Nat
      /\ consumer \in [1..MaxGen -> Runtimes \cup {Codex, Nobody}]
  BY HomeAssumption, BoundsAssumption DEF TokenInv, E!TypeOK, E!Granted
<1>2. /\ keychain = valid /\ other = 0 /\ valid \notin lost
      /\ \A d \in Calls : ~E!At(d, "write")
  BY <1>1, Grants
<1> DEFINE x == [ecall[c] EXCEPT !.pc = "write", !.held = valid + 1]
<1>3. valid + 1 \in 0..MaxGen
  BY <1>1
<1>4. x \in E!CallStates /\ x.pc = "write" /\ x.held = valid + 1
  BY <1>1, <1>3 DEF E!CallStates
<1>5. /\ E!Becomes(c, x) /\ valid' = valid + 1
      /\ consumer' = [consumer EXCEPT ![valid] = Home[c]]
      /\ UNCHANGED <<cached, keychain, other, lost, E!clock, refreshLock, elock, initialized,
                     faults>>
  BY DEF E!Granted
<1> HIDE DEF x
<1>6. Own(c) /\ ecall'[c] = x
  BY <1>1, <1>4, <1>5, Entry
<1>7. E!TypeOK'
  BY <1>1, <1>5, <1>6 DEF E!TypeOK, Own, E!clock
<1>8. E!At(c, "write")' /\ valid' \notin lost' /\ \A g \in lost' : g <= valid'
  BY <1>1, <1>4, <1>5, <1>6 DEF E!At, TokenInv, E!TypeOK, Chain
<1>9. Chain' /\ E!CacheBehindKeychain'
  BY <1>1, <1>2, <1>5, <1>8 DEF TokenInv, Chain, E!CacheBehindKeychain
<1>10. LockOf(c)'
  BY <1>1, <1>5 DEF TokenInv, CallOf, LockOf
<1>11. CallOf(c)'
  <2>1. WriteOf(c)'
    BY <1>1, <1>2, <1>4, <1>5, <1>6, <1>8 DEF WriteOf, E!At, Own
  <2> QED
    BY <2>1, <1>4, <1>6, <1>8, <1>10 DEF CallOf, HeldOf, GrantOf, E!At
<1>12. ASSUME NEW d \in Calls, d # c PROVE CallOf(d)'
  <2>1. ecall'[d] = ecall[d] /\ LockOf(d) /\ LockOf(c)
    BY <1>6, <1>12 DEF Own, TokenInv, CallOf
  <2>2. LockOf(d)'
    BY <1>5, <2>1 DEF LockOf, E!At
  <2>3. E!At(d, "grant") => Home[d] # Home[c]
    BY <1>1, <1>12, <2>1 DEF LockOf
  <2> QED
    BY <1>1, <1>2, <1>5, <2>1, <2>2, <2>3, Overtaken
<1> QED
  BY <1>7, <1>9, <1>11, <1>12 DEF TokenInv

\* The others keep what they hold when nobody is granted anything.
LEMMA Bystander ==
  ASSUME NEW d \in Calls, CallOf(d), ecall'[d] = ecall[d], LockOf(d)',
         UNCHANGED <<valid, consumer>>, lost \subseteq lost',
         keychain \in Nat, keychain' \in Nat, keychain <= keychain', ecall[d].held \in Nat,
         E!At(d, "write") =>
           /\ UNCHANGED <<keychain, other, lost>>
           /\ \A e \in Calls : E!At(e, "write")' => E!At(e, "write")
  PROVE  CallOf(d)'
<1>1. E!At(d, "write")' <=> E!At(d, "write")
  BY DEF E!At
<1>2. WriteOf(d)'
  BY <1>1 DEF CallOf, WriteOf
<1>3. HeldOf(d)'
  BY <1>1 DEF CallOf, HeldOf
<1>4. GrantOf(d)'
  BY DEF CallOf, GrantOf, E!At
<1> QED
  BY <1>2, <1>3, <1>4 DEF CallOf

\* A thread that gives its runtime's lock back.
LEMMA Unlocks ==
  ASSUME NEW c \in Calls, NEW d \in Calls, d # c, E!TypeOK, LockOf(d), Own(c),
         refreshLock' = E!Forget(c, refreshLock)
  PROVE  LockOf(d)'
<1>1. refreshLock[Home[d]] = d => refreshLock'[Home[d]] = d
  BY Released DEF E!TypeOK
<1> QED
  BY <1>1 DEF LockOf, E!At, Own

\* A thread that ends without a token, which may be lost with it.
LEMMA LetsGo ==
  ASSUME NEW c \in Calls, TokenInv, Asking(c),
         NEW x \in E!CallStates, E!Becomes(c, x), x.pc \notin {"grant", "write"},
         x.held = 0 \/ x.held = keychain',
         UNCHANGED <<valid, other, consumer, E!clock>>, RestTyped',
         refreshLock' = E!Forget(c, refreshLock),
         cached' \in [Runtimes -> 0..MaxGen], E!CacheBehindKeychain',
         \/ UNCHANGED <<keychain, lost>> /\ E!At(c, "grant")
         \/ keychain' = keychain /\ lost' = lost \cup {valid} /\ E!At(c, "write")
         \/ keychain' = valid /\ lost' = lost /\ E!At(c, "write")
  PROVE  TokenInv'
<1>1. /\ E!TypeOK /\ Chain /\ CallOf(c) /\ Own(c) /\ ecall'[c] = x
      /\ keychain \in 1..MaxGen /\ valid \in 1..MaxGen /\ MaxGen \in Nat
  BY Entry, BoundsAssumption DEF TokenInv, E!TypeOK
<1>2. /\ refreshLock' \in [Runtimes -> Calls \cup {Nobody}]
      /\ keychain' \in 1..MaxGen /\ lost' \subseteq 1..MaxGen
      /\ keychain <= keychain' /\ lost \subseteq lost'
  BY <1>1, Released DEF E!TypeOK, Chain
<1>3. E!TypeOK'
  BY <1>1, <1>2 DEF E!TypeOK, RestTyped, Own
<1>4. \A e \in Calls : E!At(e, "write")' <=> E!At(e, "write") /\ e # c
  BY <1>1 DEF Own, E!At
<1>5. CallOf(c)'
  <2>1. ~E!At(c, "write")' /\ ~E!At(c, "grant")'
    BY <1>1 DEF E!At
  <2>2. ecall'[c].held <= keychain'
    BY <1>1, <1>2
  <2> QED
    BY <2>1, <2>2 DEF CallOf, WriteOf, HeldOf, LockOf, GrantOf
<1>6. ASSUME NEW d \in Calls, d # c
      PROVE  CallOf(d) /\ ecall'[d] = ecall[d] /\ LockOf(d)' /\ ecall[d].held \in Nat
  <2>1. CallOf(d) /\ ecall'[d] = ecall[d] /\ LockOf(d)
    BY <1>1, <1>6 DEF TokenInv, CallOf, Own
  <2>2. ecall[d] \in E!CallStates
    BY <1>1 DEF E!TypeOK
  <2> QED
    BY <1>1, <1>6, <2>1, <2>2, Unlocks DEF E!CallStates
<1>7. CASE E!At(c, "grant")
  <2>1. UNCHANGED <<keychain, lost>> /\ \A e \in Calls : E!At(e, "write")' <=> E!At(e, "write")
    BY <1>4, <1>7 DEF E!At
  <2>2. Chain'
    BY <1>1, <2>1 DEF Chain
  <2>3. ASSUME NEW d \in Calls, d # c PROVE CallOf(d)'
    <3>1. CallOf(d) /\ ecall'[d] = ecall[d] /\ LockOf(d)' /\ ecall[d].held \in Nat
      BY <1>1, <1>6, <2>3
    <3> QED
      BY <1>1, <1>2, <2>1, <3>1, Bystander
  <2> QED
    BY <1>3, <1>5, <2>2, <2>3 DEF TokenInv
<1>8. CASE E!At(c, "write")
  <2>1. /\ other = 0 /\ valid \notin lost /\ keychain + 1 = valid
        /\ \A e \in Calls : e # c => ~E!At(e, "write")
    BY <1>1, <1>8 DEF CallOf, WriteOf
  <2>2. Chain'
    <3>1. keychain' = keychain \/ keychain' = valid
      BY <1>8 DEF E!At
    <3>2. keychain' <= valid /\ valid <= keychain' + 1
      BY <1>1, <2>1, <3>1
    <3>3. \A g \in lost' : g <= valid
      BY <1>1, <1>8 DEF Chain, E!At
    <3>4. valid \in lost' => keychain' + 1 = valid
      BY <1>1, <2>1, <1>8 DEF E!At
    <3>5. keychain' # valid => valid \in lost'
      BY <1>8 DEF E!At
    <3> QED
      BY <1>1, <2>1, <3>2, <3>3, <3>4, <3>5 DEF Chain
  <2>3. ASSUME NEW d \in Calls, d # c PROVE CallOf(d)'
    <3>1. /\ CallOf(d) /\ ecall'[d] = ecall[d] /\ LockOf(d)' /\ ecall[d].held \in Nat
          /\ ~E!At(d, "write")
      BY <1>6, <2>1, <2>3
    <3> QED
      BY <1>1, <1>2, <3>1, Bystander
  <2> QED
    BY <1>3, <1>5, <2>2, <2>3 DEF TokenInv
<1> QED
  BY <1>7, <1>8 DEF Asking

LEMMA TokenRejectedInv ==
  ASSUME NEW c \in Calls, TokenInv, E!Rejected(c)
  PROVE  TokenInv'
<1>1. /\ E!TypeOK /\ E!At(c, "grant") /\ Asking(c) /\ E!End(c, "auth") /\ "auth" \in E!Ended
      /\ refreshLock' = E!Forget(c, refreshLock)
      /\ UNCHANGED <<E!tokens, cached, E!clock, initialized, faults>>
  BY DEF TokenInv, E!Rejected, Asking, E!Ended
<1>2. PICK x \in E!CallStates : E!Becomes(c, x) /\ x.pc = "auth" /\ x.held = 0
  BY <1>1, EndEntry
<1>3. RestTyped' /\ cached' \in [Runtimes -> 0..MaxGen]
  BY <1>1, EndEntry DEF RestTyped, E!TypeOK, E!clock
<1>4. E!CacheBehindKeychain'
  BY <1>1 DEF TokenInv, E!CacheBehindKeychain, E!tokens
<1> QED
  BY <1>1, <1>2, <1>3, <1>4, LetsGo DEF E!tokens

LEMMA TokenWriteFailsInv ==
  ASSUME NEW c \in Calls, TokenInv, E!WriteFails(c)
  PROVE  TokenInv'
<1>1. /\ E!TypeOK /\ E!At(c, "write") /\ Asking(c) /\ E!End(c, "auth") /\ "auth" \in E!Ended
      /\ refreshLock' = E!Forget(c, refreshLock) /\ E!Fault
      /\ lost' = lost \cup {ecall[c].held}
      /\ UNCHANGED <<valid, keychain, other, consumer, cached, E!clock, initialized>>
  BY DEF TokenInv, E!WriteFails, Asking, E!Ended
<1>2. PICK x \in E!CallStates : E!Becomes(c, x) /\ x.pc = "auth" /\ x.held = 0
  BY <1>1, EndEntry
<1>3. RestTyped' /\ cached' \in [Runtimes -> 0..MaxGen]
  BY <1>1, EndEntry, BoundsAssumption DEF RestTyped, E!TypeOK, E!clock, E!Fault
<1>4. E!CacheBehindKeychain' /\ ecall[c].held = valid
  BY <1>1 DEF TokenInv, E!CacheBehindKeychain, CallOf, WriteOf
<1> QED
  BY <1>1, <1>2, <1>3, <1>4, LetsGo

LEMMA TokenWriteInv ==
  ASSUME NEW c \in Calls, TokenInv, E!Write(c)
  PROVE  TokenInv'
<1> DEFINE x == [ecall[c] EXCEPT !.pc = E!After(c)]
<1>1. /\ E!TypeOK /\ E!At(c, "write") /\ Asking(c) /\ ecall[c] \in E!CallStates
      /\ refreshLock' = E!Forget(c, refreshLock) /\ E!Becomes(c, x)
      /\ keychain' = ecall[c].held /\ cached' = [cached EXCEPT ![Home[c]] = ecall[c].held]
      /\ UNCHANGED <<valid, other, consumer, lost, E!clock, elock, initialized, faults>>
  BY DEF TokenInv, E!TypeOK, E!Write, Asking
<1>2. /\ ecall[c].held = valid /\ keychain + 1 = valid
      /\ valid \in 0..MaxGen /\ keychain \in 0..MaxGen /\ MaxGen \in Nat
  BY <1>1, BoundsAssumption DEF TokenInv, E!TypeOK, CallOf, WriteOf
<1>3. x \in E!CallStates
  BY <1>1 DEF E!CallStates, E!After
<1>4. x.pc \notin {"grant", "write"} /\ x.held = keychain'
  BY <1>1 DEF E!CallStates, E!After
<1>5. RestTyped' /\ cached' \in [Runtimes -> 0..MaxGen]
  BY <1>1, <1>2 DEF RestTyped, E!TypeOK, E!clock
<1>6. E!CacheBehindKeychain'
  BY <1>1, <1>2 DEF TokenInv, E!TypeOK, E!CacheBehindKeychain
<1> HIDE DEF x
<1> QED
  BY <1>1, <1>2, <1>3, <1>4, <1>5, <1>6, LetsGo

\* The answer to a grant is lost: the generation exists, and nobody has it.
LEMMA TokenGrantFailsInv ==
  ASSUME NEW c \in Calls, TokenInv, E!GrantFails(c)
  PROVE  TokenInv'
<1>1. /\ E!TypeOK /\ Chain /\ E!At(c, "grant") /\ Asking(c)
      /\ refreshLock' = E!Forget(c, refreshLock) /\ E!Fault
      /\ UNCHANGED <<cached, E!clock, initialized>>
      /\ valid \in 1..MaxGen /\ MaxGen \in Nat
  BY BoundsAssumption DEF TokenInv, E!TypeOK, E!GrantFails, Asking
<1>0. PICK how \in E!Ended : E!End(c, how)
  BY DEF E!GrantFails, E!Ended
<1>2. PICK x \in E!CallStates :
        E!Becomes(c, x) /\ x.pc \notin {"grant", "write"} /\ x.held = 0
  BY <1>0, <1>1, EndEntry DEF E!Ended
<1>3. RestTyped' /\ cached' \in [Runtimes -> 0..MaxGen]
  <2>1. elock' \in [Runtimes -> Calls \cup {Nobody}]
    BY <1>0, <1>1, EndEntry
  <2>2. faults' \in 0..MaxFaults
    BY <1>1, BoundsAssumption DEF E!TypeOK, E!Fault
  <2> QED
    BY <1>1, <2>1, <2>2 DEF RestTyped, E!TypeOK, E!clock
<1>4. CASE UNCHANGED E!tokens
  <2>1. E!CacheBehindKeychain'
    BY <1>1, <1>4 DEF TokenInv, E!CacheBehindKeychain, E!tokens
  <2> QED
    BY <1>1, <1>2, <1>3, <1>4, <2>1, LetsGo DEF E!tokens
<1>5. CASE /\ ecall[c].held = valid /\ valid < MaxGen
           /\ valid' = valid + 1 /\ consumer' = [consumer EXCEPT ![valid] = Home[c]]
           /\ lost' = lost \cup {valid + 1} /\ UNCHANGED <<keychain, other>>
  <2>1. /\ keychain = valid /\ other = 0 /\ valid \notin lost
        /\ \A d \in Calls : ~E!At(d, "write")
    BY <1>1, <1>5, Grants
  <2>2. Own(c) /\ ecall'[c] = x /\ \A d \in Calls : ~E!At(d, "write")'
    BY <1>1, <1>2, <2>1, Entry DEF Own, E!At
  <2>3. refreshLock' \in [Runtimes -> Calls \cup {Nobody}]
    BY <1>1, Released DEF E!TypeOK
  <2>4. E!TypeOK'
    <3>1. /\ {valid', keychain'} \subseteq 1..MaxGen /\ other' \in 0..MaxGen
          /\ lost' \subseteq 1..MaxGen
          /\ consumer' \in [1..MaxGen -> Runtimes \cup {Codex, Nobody}]
      BY <1>1, <1>5, HomeAssumption DEF E!TypeOK
    <3> QED
      BY <1>3, <2>2, <2>3, <3>1 DEF E!TypeOK, RestTyped, Own
  <2>5. Chain' /\ E!CacheBehindKeychain'
    <3>1. \A g \in lost' : g <= valid'
      <4>1. \A g \in lost : g \in Nat /\ g <= valid
        BY <1>1 DEF E!TypeOK, Chain
      <4> QED
        BY <1>1, <1>5, <4>1
    <3>2. E!CacheBehindKeychain'
      BY <1>1, <1>5 DEF TokenInv, E!CacheBehindKeychain
    <3>3. valid' \in lost' /\ keychain' + 1 = valid' /\ other' = 0
      BY <1>5, <2>1
    <3> QED
      BY <1>1, <1>5, <2>1, <3>1, <3>2, <3>3 DEF Chain
  <2>6. CallOf(c)'
    BY <1>1, <1>2, <1>5, <2>1, <2>2 DEF CallOf, WriteOf, HeldOf, LockOf, GrantOf, E!At
  <2>7. ASSUME NEW d \in Calls, d # c PROVE CallOf(d)'
    <3>1. ecall'[d] = ecall[d] /\ LockOf(d) /\ LockOf(c)
      BY <2>2, <2>7 DEF Own, TokenInv, CallOf
    <3>2. LockOf(d)'
      BY <1>1, <2>2, <2>7, <3>1, Unlocks
    <3>3. E!At(d, "grant") => Home[d] # Home[c]
      BY <1>1, <2>7, <3>1 DEF LockOf
    <3> QED
      BY <1>1, <1>5, <2>1, <3>1, <3>2, <3>3, Overtaken
  <2> QED
    BY <2>4, <2>5, <2>6, <2>7 DEF TokenInv
<1> QED
  BY <1>4, <1>5 DEF E!GrantFails

----------------------------------------------------------------------------
(* The surroundings. *)

LEMMA TokenOtherGrantedInv ==
  ASSUME TokenInv, E!OtherGranted
  PROVE  TokenInv'
<1>1. /\ E!TypeOK /\ Chain /\ keychain = valid /\ valid < MaxGen
      /\ valid' = valid + 1 /\ other' = valid + 1
      /\ consumer' = [consumer EXCEPT ![valid] = Codex]
      /\ UNCHANGED <<keychain, cached, E!clock, refreshLock, elock, initialized, ecall, lost,
                     faults>>
      /\ valid \in 1..MaxGen /\ MaxGen \in Nat
  BY BoundsAssumption DEF TokenInv, E!TypeOK, E!OtherGranted
<1>2. other = 0 /\ valid \notin lost /\ \A d \in Calls : ~E!At(d, "write")
  BY <1>1, Current
<1>3. E!TypeOK'
  <2>1. /\ {valid', keychain'} \subseteq 1..MaxGen /\ other' \in 0..MaxGen
        /\ consumer' \in [1..MaxGen -> Runtimes \cup {Codex, Nobody}]
    BY <1>1 DEF E!TypeOK
  <2> QED
    BY <1>1, <2>1 DEF E!TypeOK, E!clock
<1>4. Chain'
  <2>1. valid' \notin lost' /\ \A g \in lost' : g <= valid'
    BY <1>1 DEF E!TypeOK, Chain
  <2>2. consumer'[keychain'] = Codex
    BY <1>1 DEF E!TypeOK
  <2> QED
    BY <1>1, <2>1, <2>2 DEF Chain
<1>5. E!CacheBehindKeychain'
  BY <1>1 DEF TokenInv, E!CacheBehindKeychain
<1>6. ASSUME NEW d \in Calls PROVE CallOf(d)'
  <2>1. LockOf(d)' /\ Home[d] # Codex
    BY <1>1, HomeAssumption DEF TokenInv, CallOf, LockOf, E!At
  <2> QED
    BY <1>1, <1>2, <2>1, Overtaken
<1> QED
  BY <1>3, <1>4, <1>5, <1>6 DEF TokenInv

LEMMA TokenOtherWritesInv ==
  ASSUME TokenInv, E!OtherWrites
  PROVE  TokenInv'
<1>1. /\ E!TypeOK /\ Chain /\ other # 0 /\ other' = 0
      /\ UNCHANGED <<valid, consumer, cached, E!clock, refreshLock, elock, initialized, ecall>>
      /\ valid \in 1..MaxGen /\ keychain \in 1..MaxGen /\ MaxGen \in Nat
  BY BoundsAssumption DEF TokenInv, E!TypeOK, E!OtherWrites
<1>2. /\ other = valid /\ keychain + 1 = valid /\ valid \notin lost
      /\ \A d \in Calls : ~E!At(d, "write")
  BY <1>1 DEF TokenInv, Chain, CallOf, WriteOf
<1>3. \/ keychain' = valid /\ lost' = lost /\ faults' = faults
      \/ keychain' = keychain /\ lost' = lost \cup {valid} /\ faults' \in 0..MaxFaults
  BY <1>1, <1>2, BoundsAssumption DEF E!OtherWrites, E!Fault, E!TypeOK
<1>4. keychain' \in 1..MaxGen /\ lost' \subseteq 1..MaxGen /\ faults' \in 0..MaxFaults
      /\ keychain <= keychain' /\ lost \subseteq lost'
  <2>1. faults \in 0..MaxFaults /\ lost \subseteq 1..MaxGen
    BY <1>1 DEF E!TypeOK
  <2>2. faults' \in 0..MaxFaults
    BY <1>3, <2>1
  <2>3. keychain' \in 1..MaxGen /\ keychain <= keychain'
    BY <1>1, <1>2, <1>3
  <2> QED
    BY <1>1, <1>3, <2>1, <2>2, <2>3
<1>5. E!TypeOK'
  BY <1>1, <1>4 DEF E!TypeOK, E!clock
<1>6. Chain'
  <2>1. \A g \in lost' : g <= valid
    BY <1>1, <1>3 DEF Chain
  <2>2. keychain' <= valid /\ valid <= keychain' + 1
    BY <1>1, <1>2, <1>3
  <2>3. (valid \in lost' <=> keychain' # valid) /\ (valid \in lost' => keychain' + 1 = valid)
    BY <1>1, <1>2, <1>3
  <2> QED
    BY <1>1, <2>1, <2>2, <2>3 DEF Chain
<1>7. E!CacheBehindKeychain'
  BY <1>1, <1>4 DEF TokenInv, E!CacheBehindKeychain, E!TypeOK
<1>8. ASSUME NEW d \in Calls PROVE CallOf(d)'
  <2>1. CallOf(d) /\ LockOf(d)'
    BY <1>1 DEF TokenInv, CallOf, LockOf, E!At
  <2>2. ecall[d].held \in Nat
    BY <1>1 DEF E!TypeOK, E!CallStates
  <2> QED
    BY <1>1, <1>2, <1>4, <2>1, <2>2, Bystander
<1> QED
  BY <1>5, <1>6, <1>7, <1>8 DEF TokenInv

\* The clock, which no part of the invariant but the types looks at.
LEMMA TokenClockInv ==
  ASSUME TokenInv, E!Lapse \/ E!Revoke \/ UNCHANGED E!vars
  PROVE  TokenInv'
<1>1. UNCHANGED <<E!tokens, cached, refreshLock, elock, initialized, ecall, faults>>
  BY DEF E!Lapse, E!Revoke, E!vars, E!tokens
<1>2. E!TypeOK'
  <2>1. E!TypeOK /\ valid \in 1..MaxGen /\ lapsed \in 0..MaxGen /\ refused \in 0..MaxGen
        /\ MaxGen \in Nat
    BY BoundsAssumption DEF TokenInv, E!TypeOK
  <2>2. lapsed' \in 0..MaxGen /\ refused' \in 0..MaxGen
    BY <2>1 DEF E!Lapse, E!Revoke, E!vars, E!clock
  <2> QED
    BY <1>1, <2>1, <2>2 DEF E!TypeOK, E!tokens
<1>3. Chain' /\ E!CacheBehindKeychain'
  BY <1>1 DEF TokenInv, Chain, E!CacheBehindKeychain, E!At, E!tokens
<1>4. \A c \in Calls : CallOf(c)'
  BY <1>1 DEF TokenInv, CallOf, WriteOf, HeldOf, LockOf, GrantOf, E!At, E!tokens
<1> QED
  BY <1>2, <1>3, <1>4 DEF TokenInv

LEMMA TokenCrashInv ==
  ASSUME NEW r \in Runtimes, TokenInv, E!Crash(r)
  PROVE  TokenInv'
<1> DEFINE lostHere == {ecall[c].held : c \in {d \in Calls : Home[d] = r /\ E!At(d, "write")}}
<1>1. /\ E!TypeOK /\ Chain /\ valid \in 1..MaxGen /\ keychain \in 1..MaxGen /\ MaxGen \in Nat
      /\ UNCHANGED <<valid, keychain, other, consumer, E!clock>>
      /\ lost' = lost \cup lostHere
  BY BoundsAssumption DEF TokenInv, E!TypeOK, E!Crash
<1>2. \A c \in Calls : E!At(c, "write") =>
        ecall[c].held = valid /\ keychain + 1 = valid /\ other = 0 /\ valid \notin lost
  BY DEF TokenInv, CallOf, WriteOf
<1>3. lostHere \subseteq {valid}
  BY <1>2 DEF E!At
<1>4. lost' \subseteq 1..MaxGen /\ lost \subseteq lost'
  BY <1>1, <1>3 DEF E!TypeOK
<1>5. ASSUME NEW c \in Calls
      PROVE  /\ ecall'[c] \in E!CallStates
             /\ \/ ecall'[c] = ecall[c] /\ (Home[c] = r => ~Asking(c))
                \/ Home[c] = r /\ ecall'[c].pc = "error" /\ ecall'[c].held = 0
  <2> DEFINE x == [E!Idle EXCEPT !.pc = "error"]
  <2>1. x \in E!CallStates /\ x.pc = "error" /\ x.held = 0
    BY IdleEntry DEF E!CallStates, E!Ended
  <2>2. ecall[c] \in E!CallStates
    BY <1>1 DEF E!TypeOK
  <2>3. ecall'[c] = IF Home[c] = r /\ ecall[c].pc \notin E!Ended \cup {"idle"} THEN x ELSE ecall[c]
    BY DEF E!Crash
  <2> HIDE DEF x
  <2> QED
    BY <2>1, <2>2, <2>3 DEF Asking, E!At, E!Ended
<1>6. ecall' \in [Calls -> E!CallStates]
  <2>1. \E f : ecall' = [c \in Calls |-> f[c]]
    BY DEF E!Crash
  <2> QED
    BY <1>5 DEF E!Crash
<1>7. E!TypeOK'
  <2>1. faults' \in 0..MaxFaults
    BY <1>1, BoundsAssumption DEF E!Crash, E!Fault, E!TypeOK
  <2>2. /\ cached' \in [Runtimes -> 0..MaxGen]
        /\ refreshLock' \in [Runtimes -> Calls \cup {Nobody}]
        /\ elock' \in [Runtimes -> Calls \cup {Nobody}]
        /\ initialized' \in [Runtimes -> BOOLEAN]
    BY <1>1 DEF E!Crash, E!TypeOK
  <2> QED
    BY <1>1, <1>4, <1>6, <2>1, <2>2 DEF E!TypeOK, E!clock
<1>8. E!CacheBehindKeychain'
  BY <1>1 DEF TokenInv, E!TypeOK, E!Crash, E!CacheBehindKeychain
<1>9. \A c \in Calls : E!At(c, "write")' => E!At(c, "write") /\ Home[c] # r
  BY <1>5 DEF E!At, Asking
<1>10. \A c \in Calls : E!At(c, "write") /\ Home[c] = r => valid \in lostHere
  BY <1>2
<1>11. \A c \in Calls : E!At(c, "write") /\ Home[c] # r => E!At(c, "write")'
  BY <1>5 DEF E!At
<1>12. valid \in lostHere => /\ keychain + 1 = valid /\ other = 0
                             /\ \E c \in Calls : E!At(c, "write") /\ Home[c] = r
  BY <1>2
<1> HIDE DEF lostHere
<1>13. Chain'
  BY <1>1, <1>3, <1>10, <1>11, <1>12 DEF Chain, E!TypeOK
<1>14. ASSUME NEW d \in Calls PROVE CallOf(d)'
  <2>1. CASE ecall'[d] = ecall[d] /\ (Home[d] = r => ~Asking(d))
    <3>1. CallOf(d) /\ ecall[d].held \in Nat
      BY <1>1 DEF TokenInv, E!TypeOK, E!CallStates
    <3>2. LockOf(d)'
      <4>1. Home[d] # r => refreshLock'[Home[d]] = refreshLock[Home[d]]
        BY <1>1, HomeAssumption DEF E!Crash, E!TypeOK
      <4> QED
        BY <2>1, <3>1, <4>1 DEF CallOf, LockOf, Asking, E!At
    <3>3. E!At(d, "write") => lost' = lost
      <4>1. ASSUME E!At(d, "write"), NEW e \in Calls, E!At(e, "write") PROVE Home[e] # r
        BY <2>1, <3>1, <4>1 DEF CallOf, WriteOf, Asking
      <4> QED
        BY <1>1, <1>3, <1>12, <4>1
    <3> QED
      BY <1>1, <1>4, <1>9, <2>1, <3>1, <3>2, <3>3, Bystander
  <2>2. CASE ecall'[d].pc = "error" /\ ecall'[d].held = 0
    BY <1>1, <2>2 DEF CallOf, WriteOf, HeldOf, LockOf, GrantOf, E!At
  <2> QED
    BY <1>5, <2>1, <2>2
<1> QED
  BY <1>7, <1>8, <1>13, <1>14 DEF TokenInv

----------------------------------------------------------------------------
(* The specification. *)

LEMMA TokenInit == E!Init => TokenInv
<1> SUFFICES ASSUME E!Init PROVE TokenInv
  OBVIOUS
<1>1. \A c \in Calls : ecall[c] = E!Idle
  BY DEF E!Init
<1>2. E!TypeOK
  BY IdleEntry, BoundsAssumption DEF E!Init, E!TypeOK
<1>3. Chain /\ E!CacheBehindKeychain
  BY DEF E!Init, Chain, E!CacheBehindKeychain
<1>4. \A c \in Calls : CallOf(c)
  BY <1>1, IdleEntry DEF E!Init, CallOf, WriteOf, HeldOf, LockOf, GrantOf, E!At
<1> QED
  BY <1>2, <1>3, <1>4 DEF TokenInv

LEMMA TokenNext == TokenInv /\ [E!Next]_E!vars => TokenInv'
<1> SUFFICES ASSUME TokenInv, [E!Next]_E!vars PROVE TokenInv'
  OBVIOUS
<1>1. ASSUME NEW c \in Calls, E!Begin(c) \/ E!Handshake(c) \/ E!Call(c) PROVE TokenInv'
  BY <1>1, TokenBeginInv, TokenHandshakeInv, TokenCallInv
<1>2. ASSUME NEW c \in Calls, E!UseCached(c) \/ E!LoadBundle(c) \/ E!ReadFails(c) \/ E!Adopt(c)
      PROVE  TokenInv'
  BY <1>2, TokenUseCachedInv, TokenLoadBundleInv, TokenReadFailsInv, TokenAdoptInv
<1>3. ASSUME NEW c \in Calls, E!Refresh(c) \/ E!Granted(c) \/ E!Rejected(c) \/ E!GrantFails(c)
      PROVE  TokenInv'
  BY <1>3, TokenRefreshInv, TokenGrantedInv, TokenRejectedInv, TokenGrantFailsInv
<1>4. ASSUME NEW c \in Calls, E!Write(c) \/ E!WriteFails(c) PROVE TokenInv'
  BY <1>4, TokenWriteInv, TokenWriteFailsInv
<1>5. ASSUME NEW c \in Calls,
             \/ E!Succeeds(c) \/ E!Unauthorised(c) \/ E!Transient(c) \/ E!Fails(c)
             \/ E!Breaks(c)
      PROVE  TokenInv'
  BY <1>5, TokenSentInv
<1>6. CASE E!OtherGranted \/ E!OtherWrites \/ E!Lapse \/ E!Revoke \/ UNCHANGED E!vars
  BY <1>6, TokenOtherGrantedInv, TokenOtherWritesInv, TokenClockInv
<1>7. ASSUME NEW r \in Runtimes, E!Crash(r) PROVE TokenInv'
  BY <1>7, TokenCrashInv
<1> QED
  BY <1>1, <1>2, <1>3, <1>4, <1>5, <1>6, <1>7 DEF E!Next, E!Step

\* The chain from the identity provider over the keychain to the runtimes holds always.
THEOREM TokenInductive == E!Spec => []TokenInv
<1> QED
  BY TokenInit, TokenNext, PTL DEF E!Spec

----------------------------------------------------------------------------
(* The child process (CodexProxy): what its invariant says. *)

\* The calls that have passed Ask, with or without an id.
Past == {c \in Calls : ccall[c].pc \in {"waiting"} \cup C!Ended}

Counted == seq <= Cardinality(Past) + 1

IdOf(c) ==
  /\ ccall[c].id < seq
  /\ ccall[c].pc = "waiting" => ccall[c].id # 0
  /\ ccall[c].pc \in {"idle", "begun", "greet", "ask"} => ccall[c].id = 0
  /\ \A d \in Calls : ccall[d].id = ccall[c].id /\ ccall[c].id # 0 => d = c

Mine(r) == r.id # 0 /\ r.caller # Codex => r.caller \in Calls /\ ccall[r.caller].id = r.id

Filed == \A i \in C!Ids : responses[i] # Nobody => responses[i].id = i /\ Mine(responses[i])

Addressed ==
  /\ \A r \in asked \cup printed : Mine(r)
  /\ Filed

ProxyInv == C!TypeOK /\ Counted /\ (\A c \in Calls : IdOf(c)) /\ Addressed /\ C!OwnAnswer

----------------------------------------------------------------------------
LEMMA SameCardinality == \A S : C!Cardinality(S) = Cardinality(S)
BY DEF C!Cardinality, Cardinality

LEMMA Bounds == Cardinality(Calls) \in Nat /\ MaxProcs \in Nat /\ 0 \in C!Ids
BY CallsAssumption, BoundsAssumption, FS_CardinalityType, SameCardinality DEF C!Ids

LEMMA PastFinite == IsFiniteSet(Past) /\ Cardinality(Past) \in Nat
<1>1. IsFiniteSet(Past)
  BY CallsAssumption, FS_Subset DEF Past
<1> QED
  BY <1>1, FS_CardinalityType

\* What a call has is kept when it moves on.
Moves(c) ==
  /\ ccall' \in [Calls -> C!CallStates]
  /\ \A d \in Calls : ccall'[d].id = ccall[d].id /\ (d # c => ccall'[d] = ccall[d])
  /\ Past \subseteq Past'

LEMMA Numbered ==
  ASSUME NEW c \in Calls, ProxyInv, Moves(c), UNCHANGED seq,
         ccall'[c].pc = "waiting" => ccall[c].pc = "waiting",
         ccall'[c].pc \in {"idle", "begun", "greet", "ask"}
           => ccall[c].pc \in {"idle", "begun", "greet", "ask"}
  PROVE  /\ Counted' /\ \A d \in Calls : IdOf(d)'
         /\ \A r : Mine(r) => Mine(r)'
<1>1. IsFiniteSet(Past')
  BY CallsAssumption, FS_Subset DEF Past
<1>2. Cardinality(Past) <= Cardinality(Past')
  BY <1>1, FS_Subset DEF Moves
<1>3. Cardinality(Past) \in Nat /\ Cardinality(Past') \in Nat /\ seq \in Nat
  BY <1>1, PastFinite, FS_CardinalityType, Bounds DEF ProxyInv, C!TypeOK
<1>4. Counted'
  BY <1>2, <1>3 DEF ProxyInv, Counted
<1>5. \A d \in Calls : IdOf(d)'
  BY DEF ProxyInv, IdOf, Moves
<1>6. \A r : Mine(r) => Mine(r)'
  BY DEF Mine, Moves
<1> QED
  BY <1>4, <1>5, <1>6

\* A call that only changes where it is.
LEMMA Turned ==
  ASSUME NEW c \in Calls, C!TypeOK, NEW pc \in {"begun", "greet", "ask", "failed"}, C!To(c, pc),
         ccall[c].pc \in {"idle", "begun", "greet", "ask"} \/ pc = "failed"
  PROVE  Moves(c) /\ ccall'[c].pc = pc /\ \A d \in Calls : ccall'[d].got = ccall[d].got
<1> DEFINE x == [ccall[c] EXCEPT !.pc = pc]
<1>1. x \in C!CallStates /\ x.pc = pc /\ x.id = ccall[c].id /\ x.got = ccall[c].got
  BY DEF C!TypeOK, C!CallStates, C!Ended
<1>2. ccall' = [ccall EXCEPT ![c] = x]
  BY DEF C!To
<1> HIDE DEF x
<1>3. /\ ccall' \in [Calls -> C!CallStates] /\ ccall'[c] = x
      /\ \A d \in Calls : d # c => ccall'[d] = ccall[d]
  BY <1>1, <1>2 DEF C!TypeOK
<1>4. Past \subseteq Past'
  BY <1>1, <1>3 DEF Past, C!Ended
<1> QED
  BY <1>1, <1>3, <1>4 DEF Moves

LEMMA ProxyBeginInv ==
  ASSUME NEW c \in Calls, ProxyInv, C!Begin(c)
  PROVE  ProxyInv'
<1>1. /\ C!TypeOK /\ C!To(c, "begun") /\ ccall[c].pc = "idle"
      /\ UNCHANGED <<proc, alive, reader, initDone, seq, thread, clock, C!pipes, responses>>
  BY DEF ProxyInv, C!Begin, C!At
<1>2. Moves(c) /\ ccall'[c].pc = "begun" /\ \A d \in Calls : ccall'[d].got = ccall[d].got
  BY <1>1, Turned
<1>3. Counted' /\ (\A d \in Calls : IdOf(d)') /\ \A r : Mine(r) => Mine(r)'
  BY <1>1, <1>2, Numbered
<1>4. C!TypeOK'
  BY <1>1, <1>2 DEF C!TypeOK, Moves, C!pipes
<1>5. C!OwnAnswer'
  BY <1>2 DEF ProxyInv, C!OwnAnswer
<1>6. Addressed'
  BY <1>1, <1>3 DEF ProxyInv, Addressed, Filed, C!pipes
<1> QED
  BY <1>3, <1>4, <1>5, <1>6 DEF ProxyInv

LEMMA ProxyStartInv ==
  ASSUME NEW c \in Calls, ProxyInv, C!Start(c)
  PROVE  ProxyInv'
<1>1. /\ C!TypeOK /\ ccall[c].pc = "begun" /\ C!Process
      /\ reader' = (IF reader = 0 THEN proc' ELSE reader) /\ clock' = c
      /\ UNCHANGED <<seq, thread, printed, responses>>
      /\ MaxProcs \in Nat
  BY Bounds DEF ProxyInv, C!Start, C!At
<1>2. /\ proc' \in C!Procs /\ alive' \subseteq C!Procs /\ initDone' \in BOOLEAN
      /\ reader' \in 0..MaxProcs
  <2>1. CASE proc \in alive
    BY <1>1, <2>1 DEF C!TypeOK, C!Process, C!Procs
  <2>2. CASE proc \notin alive
    <3>1. proc < MaxProcs /\ proc' = proc + 1 /\ alive' = alive \cup {proc + 1}
          /\ initDone' = FALSE
      BY <1>1, <2>2 DEF C!Process, C!Spawn
    <3>2. proc + 1 \in C!Procs
      BY <1>1, <3>1 DEF C!TypeOK, C!Procs
    <3>3. proc' \in C!Procs /\ alive' \subseteq C!Procs /\ initDone' \in BOOLEAN
      BY <1>1, <3>1, <3>2 DEF C!TypeOK
    <3>4. reader' \in 0..MaxProcs
      BY <1>1, <3>3 DEF C!TypeOK, C!Procs
    <3> QED
      BY <3>3, <3>4
  <2> QED
    BY <2>1, <2>2
<1>3. /\ C!Request(proc', 0, Greeting, 0) \in C!Requests
      /\ C!Request(proc', 0, Greeting, 0).id = 0
  BY <1>1, <1>2, Bounds DEF C!Request, C!Requests
<1>4. /\ C!To(c, "ask") \/ C!To(c, "greet")
      /\ \/ asked' = asked
         \/ asked' = asked \cup {C!Request(proc', 0, Greeting, 0)}
  BY DEF C!Start
<1>5. /\ Moves(c) /\ ccall'[c].pc \in {"ask", "greet"}
      /\ \A d \in Calls : ccall'[d].got = ccall[d].got
  BY <1>1, <1>4, Turned
<1>6. Counted' /\ (\A d \in Calls : IdOf(d)') /\ \A r : Mine(r) => Mine(r)'
  BY <1>1, <1>5, Numbered
<1>7. asked' \subseteq C!Requests /\ \A r \in asked' : r \in asked \/ r.id = 0
  BY <1>1, <1>3, <1>4 DEF C!TypeOK
<1>8. C!TypeOK'
  BY <1>1, <1>2, <1>5, <1>7 DEF C!TypeOK, Moves, C!Procs
<1>9. Addressed'
  BY <1>1, <1>6, <1>7 DEF ProxyInv, Addressed, Filed, Mine
<1>10. C!OwnAnswer'
  BY <1>5 DEF ProxyInv, C!OwnAnswer
<1> QED
  BY <1>6, <1>8, <1>9, <1>10 DEF ProxyInv

\* A call that waited for something and goes on, or gives up.
LEMMA ProxyLeavesInv ==
  ASSUME NEW c \in Calls, ProxyInv, C!Greeted(c) \/ C!NotGreeted(c) \/ C!GiveUp(c)
  PROVE  ProxyInv'
<1>1. /\ C!TypeOK /\ UNCHANGED <<proc, alive, reader, seq, thread, C!pipes>>
      /\ (C!To(c, "ask") /\ ccall[c].pc = "greet") \/ C!To(c, "failed")
      /\ ccall[c].pc \in {"greet", "waiting"}
      /\ initDone' \in BOOLEAN /\ clock' \in Calls \cup {Nobody}
      /\ 0 \in C!Ids
  <2>1. C!TypeOK /\ 0 \in C!Ids
    BY Bounds DEF ProxyInv
  <2>2. CASE C!Greeted(c)
    BY <2>1, <2>2 DEF C!Greeted, C!At, C!TypeOK
  <2>3. CASE C!NotGreeted(c)
    BY <2>1, <2>3 DEF C!NotGreeted, C!At, C!TypeOK
  <2>4. CASE C!GiveUp(c)
    BY <2>1, <2>4 DEF C!GiveUp, C!At, C!TypeOK
  <2> QED
    BY <2>2, <2>3, <2>4
<1>2. responses' = responses \/ responses' = [responses EXCEPT ![0] = Nobody]
  BY DEF C!Greeted, C!NotGreeted, C!GiveUp
<1>3. /\ Moves(c) /\ ccall'[c].pc \in {"ask", "failed"}
      /\ (ccall'[c].pc = "ask" => ccall[c].pc = "greet")
      /\ \A d \in Calls : ccall'[d].got = ccall[d].got
  BY <1>1, Turned
<1>4. Counted' /\ (\A d \in Calls : IdOf(d)') /\ \A r : Mine(r) => Mine(r)'
  BY <1>1, <1>3, Numbered
<1>5. C!TypeOK'
  BY <1>1, <1>2, <1>3 DEF C!TypeOK, Moves, C!pipes
<1>6. Filed'
  BY <1>1, <1>2, <1>4 DEF ProxyInv, Addressed, Filed, C!TypeOK
<1>7. Addressed'
  BY <1>1, <1>4, <1>6 DEF ProxyInv, Addressed, C!pipes
<1>8. C!OwnAnswer'
  BY <1>3 DEF ProxyInv, C!OwnAnswer
<1> QED
  BY <1>4, <1>5, <1>7, <1>8 DEF ProxyInv

\* A call that passes Ask uses up a number.
LEMMA OneMore ==
  ASSUME NEW c \in Calls, ProxyInv, ccall[c].pc = "ask",
         ccall' \in [Calls -> C!CallStates], \A d \in Calls : d # c => ccall'[d] = ccall[d],
         ccall'[c].pc \in {"waiting", "failed"}, seq' = seq + 1
  PROVE  Counted' /\ seq \in C!Ids /\ seq # 0 /\ seq' \in 1..Cardinality(Calls) + 1
<1>1. Past' = Past \cup {c} /\ c \notin Past
  BY DEF Past, C!Ended
<1>2. IsFiniteSet(Past) /\ Cardinality(Past) \in Nat
  BY PastFinite
<1>3. Cardinality(Past') = Cardinality(Past) + 1
  BY <1>1, <1>2, FS_AddElement
<1>4. Cardinality(Past') <= Cardinality(Calls)
  BY <1>1, CallsAssumption, FS_Subset DEF Past
<1>5. seq \in Nat /\ seq >= 1 /\ seq <= Cardinality(Past) + 1
  BY Bounds DEF ProxyInv, C!TypeOK, Counted
<1> QED
  BY <1>2, <1>3, <1>4, <1>5, Bounds, SameCardinality DEF Counted, C!Ids

LEMMA ProxyAskInv ==
  ASSUME NEW c \in Calls, ProxyInv, C!Ask(c)
  PROVE  ProxyInv'
<1>1. /\ C!TypeOK /\ ccall[c].pc = "ask" /\ ccall[c] \in C!CallStates /\ IdOf(c)
      /\ seq' = seq + 1 /\ clock' = Nobody
      /\ UNCHANGED <<proc, alive, reader, initDone, thread, printed, responses>>
  BY DEF ProxyInv, C!Ask, C!At, C!TypeOK
<1>2. ccall[c].id = 0
  BY <1>1 DEF IdOf
<1>3. CASE proc \notin alive
  <2>1. C!To(c, "failed") /\ UNCHANGED asked
    BY <1>3 DEF C!Ask
  <2>2. /\ Moves(c) /\ ccall'[c].pc = "failed"
        /\ \A d \in Calls : ccall'[d].got = ccall[d].got
    BY <1>1, <2>1, Turned
  <2>3. Counted' /\ seq' \in 1..Cardinality(Calls) + 1 /\ seq \in Nat
    BY <1>1, <2>2, OneMore, Bounds DEF Moves, C!TypeOK
  <2>4. \A d \in Calls : IdOf(d)'
    <3>1. ASSUME NEW d \in Calls PROVE ccall[d].id < seq' /\ ccall[d].id \in Nat
      BY <1>1, <2>3, Bounds DEF ProxyInv, IdOf, C!TypeOK, C!CallStates, C!Ids
    <3> QED
      BY <2>2, <3>1 DEF ProxyInv, IdOf, Moves
  <2>5. C!TypeOK'
    BY <1>1, <2>1, <2>2, <2>3, SameCardinality DEF C!TypeOK, Moves
  <2>6. Addressed'
    BY <1>1, <2>1, <2>2 DEF ProxyInv, Addressed, Filed, Mine, Moves
  <2>7. C!OwnAnswer'
    BY <2>2 DEF ProxyInv, C!OwnAnswer
  <2> QED
    BY <2>3, <2>4, <2>5, <2>6, <2>7 DEF ProxyInv
<1>4. CASE proc \in alive
  <2> DEFINE x == [ccall[c] EXCEPT !.pc = "waiting", !.id = seq]
             q == C!Request(proc, seq, c, thread)
  <2>1. ccall' = [ccall EXCEPT ![c] = x] /\ asked' = asked \cup {q}
    BY <1>4 DEF C!Ask
  <2>2. x.pc = "waiting" /\ x.id = seq /\ x.got = ccall[c].got
    BY <1>1 DEF C!CallStates
  <2>3. seq \in Nat /\ seq # 0 /\ seq \in C!Ids
    <3>1. Past \cup {c} \subseteq Calls /\ c \notin Past
      BY <1>1 DEF Past, C!Ended
    <3>2. /\ Cardinality(Past \cup {c}) = Cardinality(Past) + 1
          /\ Cardinality(Past \cup {c}) <= Cardinality(Calls)
      BY <3>1, CallsAssumption, PastFinite, FS_AddElement, FS_Subset
    <3> QED
      BY <1>1, <3>2, PastFinite, Bounds, SameCardinality DEF ProxyInv, C!TypeOK, Counted, C!Ids
  <2>4. x \in C!CallStates
    <3>1. ccall[c] \in C!CallStates
      BY <1>1
    <3> QED
      BY <3>1, <2>3 DEF C!CallStates
  <2>5. q \in C!Requests /\ q.id = seq /\ q.caller = c
    <3>1. proc \in C!Procs /\ thread \in 0..MaxProcs
      BY <1>1, <1>4 DEF C!TypeOK
    <3> QED
      BY <2>3, <3>1 DEF C!Request, C!Requests
  <2> HIDE DEF x, q
  <2>6. /\ ccall' \in [Calls -> C!CallStates] /\ ccall'[c] = x
        /\ \A d \in Calls : d # c => ccall'[d] = ccall[d]
    BY <1>1, <2>1, <2>4 DEF C!TypeOK
  <2>7. Counted' /\ seq' \in 1..Cardinality(Calls) + 1
    BY <1>1, <2>2, <2>6, OneMore
  <2>8. C!TypeOK'
    BY <1>1, <2>1, <2>5, <2>6, <2>7, SameCardinality DEF C!TypeOK
  <2>9. ASSUME NEW d \in Calls PROVE ccall[d].id < seq /\ ccall[d].id \in Nat
    BY <1>1, Bounds DEF ProxyInv, IdOf, C!TypeOK, C!CallStates, C!Ids
  <2>10. \A d \in Calls : IdOf(d)'
    <3>1. IdOf(c)'
      BY <1>1, <2>2, <2>3, <2>6, <2>9 DEF IdOf
    <3>2. ASSUME NEW d \in Calls, d # c PROVE IdOf(d)'
      BY <1>1, <2>2, <2>3, <2>6, <2>9, <3>2 DEF ProxyInv, IdOf
    <3> QED
      BY <3>1, <3>2
  <2>11. ASSUME NEW r, Mine(r) PROVE Mine(r)'
    <3>1. r.id # 0 /\ r.caller # Codex =>
            r.caller \in Calls /\ ccall[r.caller].id = r.id /\ r.caller # c
      BY <1>2, <2>11 DEF Mine
    <3> QED
      BY <2>6, <3>1 DEF Mine
  <2>12. ASSUME NEW r, r = q PROVE Mine(r)'
    BY <2>2, <2>5, <2>6, <2>12 DEF Mine
  <2>13. Addressed'
    BY <1>1, <2>1, <2>11, <2>12 DEF ProxyInv, Addressed, Filed
  <2>14. C!OwnAnswer'
    BY <2>2, <2>6 DEF ProxyInv, C!OwnAnswer
  <2> QED
    BY <2>7, <2>8, <2>10, <2>13, <2>14 DEF ProxyInv
<1> QED
  BY <1>3, <1>4

\* What is filed under the id of a call was asked by it, or by codex.
LEMMA ProxyReceiveInv ==
  ASSUME NEW c \in Calls, ProxyInv, C!Receive(c)
  PROVE  ProxyInv'
<1> DEFINE i == ccall[c].id
           r == responses[i]
           x == [ccall[c] EXCEPT !.pc = "done", !.got = r.caller]
<1>1. /\ C!TypeOK /\ ccall[c].pc = "waiting" /\ ccall[c] \in C!CallStates /\ i \in C!Ids /\ i # 0
      /\ r # Nobody /\ responses' = [responses EXCEPT ![i] = Nobody]
      /\ UNCHANGED <<proc, alive, reader, initDone, seq, clock, C!pipes>>
  BY DEF ProxyInv, C!Receive, C!At, C!TypeOK, C!CallStates, IdOf
<1>2. r \in C!Requests /\ r.id = i /\ Mine(r)
  BY <1>1 DEF ProxyInv, C!TypeOK, Addressed, Filed
<1>3. r.caller # Codex => r.caller = c
  BY <1>1, <1>2 DEF ProxyInv, IdOf, Mine
<1>4. /\ Moves(c) /\ ccall'[c].pc \in {"done", "failed"} /\ ccall'[c].got \in {c, ccall[c].got}
      /\ thread' \in 0..MaxProcs
  <2>1. CASE C!To(c, "failed") /\ UNCHANGED thread
    BY <1>1, <2>1, Turned DEF C!TypeOK
  <2>2. CASE /\ r.caller # Codex /\ thread' = r.proc
             /\ ccall' = [ccall EXCEPT ![c].pc = "done", ![c].got = r.caller]
    <3>1. x \in C!CallStates /\ x.pc = "done" /\ x.id = ccall[c].id /\ x.got = c
      BY <1>1, <1>3, <2>2 DEF C!CallStates, C!Ended
    <3>2. ccall' = [ccall EXCEPT ![c] = x]
      BY <2>2
    <3> HIDE DEF x
    <3>3. /\ ccall' \in [Calls -> C!CallStates] /\ ccall'[c] = x
          /\ \A d \in Calls : d # c => ccall'[d] = ccall[d]
      BY <1>1, <3>1, <3>2 DEF C!TypeOK
    <3>4. Past \subseteq Past'
      BY <3>1, <3>3 DEF Past, C!Ended
    <3>5. thread' \in 0..MaxProcs
      BY <1>2, <2>2, Bounds DEF C!Requests, C!Procs
    <3> QED
      BY <3>1, <3>3, <3>4, <3>5 DEF Moves
  <2> QED
    BY <2>1, <2>2 DEF C!Receive
<1>5. Counted' /\ (\A d \in Calls : IdOf(d)') /\ \A q : Mine(q) => Mine(q)'
  BY <1>1, <1>4, Numbered
<1>6. responses' \in [C!Ids -> C!Requests \cup {Nobody}]
  BY <1>1 DEF C!TypeOK
<1>7. C!TypeOK'
  BY <1>1, <1>4, <1>6 DEF C!TypeOK, Moves, C!pipes
<1>8. \A j \in C!Ids : responses'[j] # Nobody => responses'[j] = responses[j]
  BY <1>1 DEF C!TypeOK
<1>9. Addressed'
  BY <1>1, <1>5, <1>8 DEF ProxyInv, Addressed, Filed, C!pipes
<1>10. C!OwnAnswer'
  BY <1>4 DEF ProxyInv, C!OwnAnswer, Moves
<1> QED
  BY <1>5, <1>7, <1>9, <1>10 DEF ProxyInv

----------------------------------------------------------------------------
(* The reader and the processes, which no call's state depends on. *)

LEMMA Apart ==
  ASSUME ProxyInv, UNCHANGED <<seq, ccall>>
  PROVE  /\ Counted' /\ (\A c \in Calls : IdOf(c)') /\ C!OwnAnswer'
         /\ \A r : Mine(r) => Mine(r)'
<1>1. Past' = Past
  BY DEF Past
<1> QED
  BY <1>1 DEF ProxyInv, Counted, IdOf, C!OwnAnswer, Mine

LEMMA ProxyReadInv ==
  ASSUME ProxyInv, C!Read
  PROVE  ProxyInv'
<1>1. PICK r \in printed : printed' = printed \ {r} /\ responses' = [responses EXCEPT ![r.id] = r]
  BY DEF C!Read
<1>2. UNCHANGED <<proc, alive, reader, initDone, seq, thread, clock, asked, ccall>>
  BY DEF C!Read
<1>3. r \in C!Requests /\ r.id \in C!Ids /\ Mine(r)
  BY DEF ProxyInv, C!TypeOK, C!Requests, Addressed
<1>4. C!TypeOK'
  BY <1>1, <1>2, <1>3 DEF ProxyInv, C!TypeOK
<1>5. \A j \in C!Ids : responses'[j] = IF j = r.id THEN r ELSE responses[j]
  BY <1>1, <1>3 DEF ProxyInv, C!TypeOK
<1>6. \A q : Mine(q) => Mine(q)'
  BY <1>2, Apart
<1>7. Addressed'
  BY <1>1, <1>2, <1>3, <1>5, <1>6 DEF ProxyInv, Addressed, Filed
<1> QED
  BY <1>2, <1>4, <1>7, Apart DEF ProxyInv

LEMMA ProxyProcessesInv ==
  ASSUME ProxyInv, C!ReaderEnds \/ C!Answer \/ (\E p \in C!Procs : C!Die(p)) \/ UNCHANGED C!vars
  PROVE  ProxyInv'
<1>1. /\ UNCHANGED <<proc, initDone, seq, thread, clock, responses, ccall>>
      /\ alive' \subseteq alive /\ reader' \in {reader, 0}
      /\ asked' \subseteq asked /\ printed' \subseteq printed \cup asked
  BY DEF C!ReaderEnds, C!Answer, C!Die, C!vars, C!pipes
<1>2. C!TypeOK'
  BY <1>1, Bounds DEF ProxyInv, C!TypeOK
<1>3. \A q : Mine(q) => Mine(q)'
  BY <1>1, Apart
<1>4. Addressed'
  BY <1>1, <1>3 DEF ProxyInv, Addressed, Filed
<1> QED
  BY <1>1, <1>2, <1>4, Apart DEF ProxyInv

LEMMA ProxyInterjectInv ==
  ASSUME ProxyInv, C!Interject
  PROVE  ProxyInv'
<1>1. PICK r \in asked, i \in C!Ids : printed' = printed \cup {C!Request(r.proc, i, Codex, 0)}
  BY DEF C!Interject
<1>2. UNCHANGED <<proc, alive, reader, initDone, seq, thread, clock, asked, responses, ccall>>
  BY DEF C!Interject
<1> DEFINE q == C!Request(r.proc, i, Codex, 0)
<1>3. q \in C!Requests /\ q.caller = Codex
  BY Bounds DEF ProxyInv, C!TypeOK, C!Requests, C!Request
<1> HIDE DEF q
<1>4. C!TypeOK'
  BY <1>1, <1>2, <1>3 DEF ProxyInv, C!TypeOK, q
<1>5. \A x : Mine(x) => Mine(x)'
  BY <1>2, Apart
<1>6. \A x \in printed' : x \in printed \/ x.caller = Codex
  BY <1>1, <1>3 DEF q
<1>7. Addressed'
  BY <1>2, <1>5, <1>6 DEF ProxyInv, Addressed, Filed, Mine
<1> QED
  BY <1>2, <1>4, <1>7, Apart DEF ProxyInv

----------------------------------------------------------------------------
(* The specification. *)

LEMMA ProxyInit == C!Init => ProxyInv
<1> SUFFICES ASSUME C!Init PROVE ProxyInv
  OBVIOUS
<1>1. \A c \in Calls : ccall[c].pc = "idle" /\ ccall[c].id = 0 /\ ccall[c].got = Nobody
  BY DEF C!Init
<1>2. C!TypeOK
  <2>1. ccall \in [Calls -> C!CallStates] /\ responses \in [C!Ids -> C!Requests \cup {Nobody}]
    BY Bounds DEF C!Init, C!CallStates
  <2>2. 0 \in 0..MaxProcs /\ 1 \in 1..Cardinality(Calls) + 1
    BY Bounds
  <2> QED
    BY <2>1, <2>2, SameCardinality DEF C!Init, C!TypeOK
<1>3. Counted
  BY PastFinite DEF C!Init, Counted
<1>4. Addressed
  BY DEF C!Init, Addressed, Filed
<1> QED
  BY <1>1, <1>2, <1>3, <1>4 DEF ProxyInv, IdOf, C!OwnAnswer, C!Init

LEMMA ProxyNext == ProxyInv /\ [C!Next]_C!vars => ProxyInv'
<1> SUFFICES ASSUME ProxyInv, [C!Next]_C!vars PROVE ProxyInv'
  OBVIOUS
<1>1. ASSUME NEW c \in Calls, C!Begin(c) \/ C!Start(c) \/ C!Ask(c) \/ C!Receive(c) PROVE ProxyInv'
  BY <1>1, ProxyBeginInv, ProxyStartInv, ProxyAskInv, ProxyReceiveInv
<1>2. ASSUME NEW c \in Calls, C!Greeted(c) \/ C!NotGreeted(c) \/ C!GiveUp(c) PROVE ProxyInv'
  BY <1>2, ProxyLeavesInv
<1>3. CASE C!Read \/ C!Interject
  BY <1>3, ProxyReadInv, ProxyInterjectInv
<1>4. CASE C!ReaderEnds \/ C!Answer \/ (\E p \in C!Procs : C!Die(p)) \/ UNCHANGED C!vars
  BY <1>4, ProxyProcessesInv
<1> QED
  BY <1>1, <1>2, <1>3, <1>4 DEF C!Next, C!Step

\* Ids, requests and responses belong together always.
THEOREM ProxyInductive == C!Spec => []ProxyInv
<1> QED
  BY ProxyInit, ProxyNext, PTL DEF C!Spec

----------------------------------------------------------------------------
(* The steps of the adapter. *)

IndInv == TokenInv /\ ProxyInv

LEMMA InitInv == Init => IndInv
BY TokenInit, ProxyInit DEF Init, IndInv

\* A step of one runtime while nothing is done with the other.
LEMMA TokenStep ==
  ASSUME IndInv, [E!Next]_E!vars, UNCHANGED cvars
  PROVE  IndInv'
<1>1. UNCHANGED C!vars
  BY DEF cvars, C!vars
<1> QED
  BY <1>1, TokenNext, ProxyNext DEF IndInv

LEMMA ProxyStep ==
  ASSUME IndInv, [C!Next]_C!vars, UNCHANGED evars
  PROVE  IndInv'
<1>1. UNCHANGED E!vars
  BY DEF evars, tokens, E!vars
<1> QED
  BY <1>1, TokenNext, ProxyNext DEF IndInv

LEMMA FallbackInv ==
  ASSUME NEW c \in Calls, IndInv, Fallback(c)
  PROVE  IndInv'
<1>1. ecall[c].pc \in E!Ended /\ E!Becomes(c, [E!Idle EXCEPT !.pc = "begun"])
  BY DEF Fallback, EmcpEnded, E!Becomes
<1>2. UNCHANGED <<E!tokens, cached, E!clock, refreshLock, elock, initialized, faults>>
  BY DEF Fallback, tokens, E!tokens, E!clock
<1>3. TokenInv'
  BY <1>1, <1>2, TokenAgainInv DEF IndInv
<1>4. UNCHANGED C!vars
  BY DEF Fallback, cvars, C!vars
<1> QED
  BY <1>3, <1>4, ProxyNext DEF IndInv

LEMMA NextInv == IndInv /\ [Next]_vars => IndInv'
<1> SUFFICES ASSUME IndInv, [Next]_vars PROVE IndInv'
  OBVIOUS
<1>1. ASSUME NEW c \in Calls, E!Begin(c) \/ E!Step(c), UNCHANGED cvars PROVE IndInv'
  BY <1>1, TokenStep DEF E!Next
<1>2. ASSUME NEW c \in Calls, C!Begin(c) \/ C!Step(c), UNCHANGED evars PROVE IndInv'
  BY <1>2, ProxyStep DEF C!Next
<1>3. CASE UNCHANGED <<evars, cvars>>
  BY <1>3, TokenStep DEF evars, tokens, E!vars
<1>4. ASSUME NEW c \in Calls, Operation(c) PROVE IndInv'
  BY <1>3, <1>4, FallbackInv
     DEF Operation, Unavailable, EmcpList, EmcpFetch, EmcpResolve, EmcpHealth,
         ProxyResult, ProxyHealth
<1>5. ASSUME NEW c \in Calls, Begin(c) \/ FastPath(c) \/ Runtime(c) PROVE IndInv'
  BY <1>1, <1>2, <1>3, <1>5 DEF Begin, FastPath, Runtime, Emcp, Proxy
<1>6. CASE Surroundings
  <2>1. CASE Emcp /\ (E!OtherGranted \/ E!OtherWrites \/ E!Lapse \/ E!Revoke)
    BY <2>1, TokenStep DEF Emcp, E!Next
  <2>2. CASE Proxy /\ (C!Read \/ C!ReaderEnds \/ C!Answer \/ C!Interject
                         \/ \E p \in C!Procs : C!Die(p))
    BY <2>2, ProxyStep DEF Proxy, C!Next
  <2> QED
    BY <1>6, <2>1, <2>2 DEF Surroundings
<1>7. CASE UNCHANGED vars
  BY <1>3, <1>7 DEF vars
<1>8. ASSUME NEW r \in Runtimes, Crash(r) PROVE IndInv'
  BY <1>8, TokenStep DEF Crash, Emcp, E!Next
<1>9. ASSUME NEW c \in Calls, Hang(c) PROVE IndInv'
  <2>1. /\ faults \in Nat /\ faults' = faults + 1 /\ faults < MaxFaults
        /\ UNCHANGED <<tokens, cached, lapsed, refused, refreshLock, elock, initialized, ecall,
                       cvars>>
    BY <1>9, BoundsAssumption DEF Hang, E!Fault, IndInv, TokenInv, E!TypeOK
  <2>2. TokenInv'
    <3>1. E!TypeOK'
      BY <2>1, BoundsAssumption DEF IndInv, TokenInv, E!TypeOK, tokens
    <3>2. Chain' /\ E!CacheBehindKeychain'
      BY <2>1 DEF IndInv, TokenInv, Chain, E!CacheBehindKeychain, E!At, tokens
    <3>3. \A d \in Calls : CallOf(d)'
      BY <2>1 DEF IndInv, TokenInv, CallOf, WriteOf, HeldOf, LockOf, GrantOf, E!At, tokens
    <3> QED
      BY <3>1, <3>2, <3>3 DEF TokenInv
  <2>3. UNCHANGED C!vars
    BY <2>1 DEF cvars, C!vars
  <2> QED
    BY <2>2, <2>3, ProxyNext DEF IndInv
<1> QED
  BY <1>4, <1>5, <1>6, <1>7, <1>8, <1>9 DEF Next

----------------------------------------------------------------------------
(* The specification. *)

\* Whichever runtime it is built over, the adapter keeps what both promise.
THEOREM Inductive == Spec => []IndInv
<1> QED
  BY InitInv, NextInv, PTL DEF Spec

\* Tokens, locks, processes, pipes, responses and the calls of both runtimes have their
\* types under the adapter; the ids suffice.
THEOREM TypeCorrect == Spec => [](E!TypeOK /\ C!TypeOK)
<1>1. IndInv => E!TypeOK /\ C!TypeOK
  BY DEF IndInv, TokenInv, ProxyInv
<1> QED
  BY <1>1, Inductive, PTL

\* No runtime under the adapter remembers a token that the keychain does not have, also
\* when listings start over with the second tool (_refresh_access_token).
THEOREM CacheBehind == Spec => []CacheBehindKeychain
<1>1. IndInv => CacheBehindKeychain
  BY DEF IndInv, TokenInv, CacheBehindKeychain
<1> QED
  BY <1>1, Inductive, PTL

\* A refresh token that is rejected was used by codex, by another runtime, or in a grant
\* whose answer was lost; never by another thread of the adapter (_refresh_lock).
THEOREM Rejections == Spec => []RejectedOnlyByOthers
<1>1. IndInv => RejectedOnlyByOthers
  BY DEF IndInv, TokenInv, CallOf, GrantOf, RejectedOnlyByOthers, E!RejectedOnlyByOthers
<1> QED
  BY <1>1, Inductive, PTL

\* The credential is in the keychain, about to be written by exactly one party, or
\* known to be lost (_write_credential_bundle).
THEOREM Kept == Spec => []E!CredentialKept
<1>1. IndInv => E!CredentialKept
  BY DEF IndInv, TokenInv, Chain, CallOf, WriteOf, E!CredentialKept
<1> QED
  BY <1>1, Inductive, PTL

\* However many callers give up and processes die, an operation over the child process
\* gets the answer to its own prompt or none (call_codex_tool).
THEOREM Answers == Spec => []OwnAnswer
<1>1. IndInv => OwnAnswer
  BY DEF IndInv, ProxyInv, OwnAnswer
<1> QED
  BY <1>1, Inductive, PTL
=============================================================================
