----------------------------- MODULE MCFirstApp -----------------------------
(* TestRuntime and FirstApp on small instances. A realization of FirstApp may go
   to a runtime, of which it takes any answer; so a behaviour moves one of them. *)
EXTENDS MCTestRuntime, FirstApp
CONSTANTS p1, p2, p3

VARIABLE part   \* which of the two moves

MCVars == <<vars, appVars, part>>

MCAppScenes ==
  {[p \in AppProcs |-> IF p = p1 THEN "register" ELSE IF p = p2 THEN "compile" ELSE c] :
     c \in AppCommands}

\* What does not move starts anyhow.
MCInit ==
  /\ Init /\ AppInit
  /\ part \in {"app", "runtime"}
  /\ part = "app" => mode = "governed"
  /\ part = "runtime" => needsClaim /\ app[p3].cmd = "run"

MCNext ==
  \/ part = "runtime" /\ Next /\ UNCHANGED <<appVars, part>>
  \/ part = "app" /\ AppNext /\ UNCHANGED <<vars, part>>

MCSpec == MCInit /\ [][MCNext]_MCVars /\ Fairness
=============================================================================
