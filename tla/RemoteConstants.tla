-------------------------- MODULE RemoteConstants --------------------------
(***************************************************************************)
(* Who calls the Confluence MCP server, and the bounds of the two runtimes *)
(* (EmcpToken, CodexProxy) and of the adapter over them.                   *)
(***************************************************************************)
EXTENDS Naturals, FiniteSets

CONSTANTS
  Calls,        \* threads that call the server
  Nobody,
  Runtimes,     \* EmcpRuntime instances
  Home,         \* the runtime of each call
  Codex,        \* who else refreshes the token bundle, and what the child process runs
  MaxAttempts,  \* max_attempts
  MaxGen,       \* bound on the generations of tokens
  MaxFaults,    \* bound on what the network, the keychain and the processes do wrong
  Greeting,     \* the request with id 0, initialize
  MaxProcs      \* bound on the child processes that are started

ASSUME CallsAssumption == IsFiniteSet(Calls)
ASSUME HomeAssumption ==
  /\ Home \in [Calls -> Runtimes] /\ Codex \notin Runtimes
  /\ {Nobody, Codex} \cap Calls = {}
ASSUME GreetingAssumption == Greeting \notin Calls /\ Nobody # Greeting
ASSUME BoundsAssumption ==
  /\ MaxAttempts \in Nat \ {0} /\ MaxGen \in Nat \ {0}
  /\ {MaxFaults, MaxProcs} \subseteq Nat
=============================================================================
