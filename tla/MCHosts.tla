------------------------------ MODULE MCHosts ------------------------------
(***************************************************************************)
(* The tasks of a language binding, the session cache of the MCP server,   *)
(* or its requests on one session: each on its own, chosen by the initial  *)
(* state.                                                                  *)
(***************************************************************************)
EXTENDS BindingTasks, SessionCache

CONSTANTS r1, r2, c1, c2

VARIABLES
  host,                                          \* which of the three
  served, tokens, requests, withdrawn, holder    \* the requests on one session

requestVars == <<served, tokens, requests, withdrawn, holder>>

Mcp == INSTANCE McpRequests
  WITH session <- served, cancelled <- tokens, ops <- requests,
       withdrawn <- withdrawn, holder <- holder

HostsInit == Init /\ CacheInit /\ Mcp!Init /\ host \in {"bindings", "cache", "requests"}

HostsNext ==
  /\ \/ host = "bindings" /\ Next /\ UNCHANGED <<cacheVars, requestVars>>
     \/ host = "cache" /\ CacheNext /\ UNCHANGED <<vars, requestVars>>
     \/ host = "requests" /\ Mcp!Next /\ UNCHANGED <<vars, cacheVars>>
  /\ UNCHANGED host

HostsSpec ==
  /\ HostsInit /\ [][HostsNext]_<<vars, cacheVars, requestVars, host>>
  /\ Fairness /\ CacheFairness /\ Mcp!Fairness

(***************************************************************************)
(* The state of each host has its type and keeps its bound: the cache      *)
(* holds at most --max-sessions sessions, whatever expires, is closed or   *)
(* is in use when new ones are created (prepare_insert, commit).           *)
(***************************************************************************)
HostsTypeOK == TypeOK /\ CacheTypeOK /\ CapacityHolds /\ Mcp!TypeOK

(***************************************************************************)
(* Every request of the MCP server is answered, whatever its client and    *)
(* the other requests cancel: nobody waits for a lock that is never        *)
(* returned (the workers of tools.rs hand the lock they took to handlers). *)
(***************************************************************************)
ServerRequestsAreAnswered == Mcp!RequestsAreAnswered
=============================================================================
