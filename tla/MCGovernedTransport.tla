------------------------ MODULE MCGovernedTransport ------------------------
(* GovernedTransport and McpProxy on small instances: the two programs of   *)
(* keyhole between a caller and a server. They share no state, and a        *)
(* behaviour moves one of them.                                             *)
EXTENDS GovernedTransport, McpProxy

VARIABLE part   \* which of the two moves

MCVars == <<vars, proxyVars, part>>

\* Nothing tells the payloads apart, so one call may be given one of them.
\* (A SYMMETRY set would do the same, but not for liveness.)  What does not move
\* starts anyhow.
MCInit ==
  /\ Init /\ ProxyInit /\ part \in {"transport", "proxy"}
  /\ payload[CHOOSE c \in Calls : TRUE] = CHOOSE p \in Payloads : TRUE
  /\ part = "proxy" => payload = [c \in Calls |-> CHOOSE p \in Payloads : TRUE]

MCNext ==
  \/ part = "transport" /\ Next /\ UNCHANGED <<proxyVars, part>>
  \/ part = "proxy" /\ ProxyNext /\ UNCHANGED <<vars, part>>

\* In the part that does not move nothing that is fair can be taken.
MCSpec == MCInit /\ [][MCNext]_MCVars /\ Fairness /\ ProxyFairness
=============================================================================
