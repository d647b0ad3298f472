---------------------------- MODULE MCProofChain ----------------------------
(* ProofChain and Login on small instances: processes over the files of a      *)
(* repository, and over those of the keyhole home. They share no state, and a  *)
(* behaviour moves one of them.                                                *)
EXTENDS ProofChain, MCLogin, TLC
CONSTANTS p1, p2, p3, i1, i2, c1, c10, v1, v2, alice, bob, carol

VARIABLE part   \* which of the two moves

MCVars == <<chainVars, vars, part>>

MCCaps == {c1, c10}
MCInside == {<<c1, c1>>, <<c10, c10>>, <<c1, c10>>}
MCScene(a, b, c) == [p \in {p1, p2, p3} |->
  IF p = p1 THEN a ELSE IF p = p2 THEN b ELSE c]
MCPinned == MCScene("resolve", "resolve", "create")
MCScenes ==
  {MCScene("submit", "register", "verify"), MCScene("submit", "submit", "verify"),
   MCPinned}
MCSymmetry == Permutations({i1, i2}) \cup Permutations({alice, bob})

\* Beside two submissions all receipts are verified, beside one also that of its
\* invariant alone; where nobody adds to a list the lists are empty. What does not
\* move starts anyhow.
MCInit ==
  /\ Init /\ ChainInit /\ part \in {"chain", "login"}
  /\ cmd[p2].op = "submit" => cmd[p3].inv = Unnamed
  /\ cmd[p2].op = "register" => {cmd[p2].inv, cmd[p3].inv} \subseteq {cmd[p1].inv, Unnamed}
  /\ cmd[p1].op = "submit" => offered = {}
  /\ part = "login" => /\ offered = {}
                       /\ \A p \in Procs : cmd[p] = Fresh(MCPinned[p], Unnamed, c1)

\* The gate runs where somebody submits.
MCChainNext == ChainNext /\ (cmd[p1].op = "submit" \/ written' = written)

MCNext ==
  \/ part = "chain" /\ MCChainNext /\ UNCHANGED <<vars, part>>
  \/ part = "login" /\ Next /\ InOrder' /\ UNCHANGED <<chainVars, part>>

MCSpec == MCInit /\ [][MCNext]_MCVars
=============================================================================
