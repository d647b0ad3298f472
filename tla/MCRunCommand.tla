---------------------------- MODULE MCRunCommand ----------------------------
(***************************************************************************)
(* Three programs that share no state, as the sum of their behaviours: a    *)
(* behaviour is one of the commands of RunCommand, one of a runner of the   *)
(* SDK, or one of the local runtime commands, and what the others own stays *)
(* where it began.                                                          *)
(***************************************************************************)
EXTENDS RunCommand, ProofRunners, LocalRuntime, TLC
CONSTANTS p1, p2, known, added, alias, plain, grown, moved, twofold, ann, bob

VARIABLE part

MCTypes == {known, added}
MCNames == {known, added, alias}
MCContracts == {plain, grown, moved, twofold}
Ops(a, b, c) == [n \in MCNames |-> IF n = known THEN a ELSE IF n = added THEN b ELSE c]
MCAdvertised == [k \in MCContracts |->
  IF k = plain THEN Ops({known}, {}, {})
  ELSE IF k = grown THEN Ops({known}, {added}, {added})
  ELSE IF k = moved THEN Ops({known}, {}, {known})
  ELSE Ops({known}, {added}, {known, added})]
MCSurfaces == [k \in MCContracts |-> IF k = moved THEN {added} ELSE {}]
MCSymmetry == Permutations({ann, bob})

Cmd(op, n, x) == [op |-> op, name |-> n, ctx |-> x]
MCScene(a, b) == [p \in {p1, p2} |-> IF p = p1 THEN a ELSE b]
MCPinned == MCScene(Cmd("compile", known, NoDigest), Cmd("inspect", known, NoDigest))
MCScenes ==
  {MCScene(Cmd("run", alias, p1), Cmd("run", added, Malformed)),
   MCScene(Cmd("run", added, AutoContext), Cmd("compile", known, NoDigest)),
   MCScene(Cmd("run", alias, NoDigest), Cmd("inspect", known, p1)),
   MCPinned}

MCShellPinned == <<"start", "stop", "smoke">>
MCShellScenes ==
  {MCShellPinned, <<"start", "start", "stop">>, <<"stop", "stop", "status">>,
   <<"start", "smoke", "status">>}

MCCommandInit ==
  /\ CommandInit
  /\ part # "command" =>
       /\ contract = plain /\ cache = NoFile
       /\ cmd = [p \in Procs |-> Fresh(MCPinned[p])]
MCRunnerInit == RunnerInit /\ (part # "runner" => kind = "smoke")
MCLocalInit ==
  /\ LocalInit
  /\ part # "local" => services = "down" /\ ~foreign /\ does = MCShellPinned
MCInit ==
  /\ part \in {"command", "runner", "local"}
  /\ MCCommandInit /\ MCRunnerInit /\ MCLocalInit

MCNext ==
  \/ part = "command" /\ CommandNext /\ UNCHANGED <<part, runnerVars, localVars>>
  \/ part = "runner" /\ RunnerNext /\ UNCHANGED <<part, commandVars, localVars>>
  \/ part = "local" /\ LocalNext /\ UNCHANGED <<part, commandVars, runnerVars>>

MCVars == <<part, commandVars, runnerVars, localVars>>
MCSpec == MCInit /\ [][MCNext]_MCVars
=============================================================================
