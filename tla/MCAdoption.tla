----------------------------- MODULE MCAdoption -----------------------------
(* RunRecords, Declarations and Adoption on small instances. The run records
   share no state with the others, and a behaviour moves either them or the
   others. *)
EXTENDS MCRunRecords, Adoption
CONSTANTS d1, d2, a1, a2

VARIABLE part   \* what moves: "records", "declarations", "register", "ingest"

MCVars == <<vars, declVars, adoptVars, part>>

MCInitial ==
  LET Tree(c) == [f \in DeclFiles |-> c] IN
  {Tree("none"), Tree("good"), Tree("loose"), [Tree("good") EXCEPT !["keyhole"] = "none"],
   [Tree("none") EXCEPT !["keyhole"] = "good"], [Tree("none") EXCEPT !["dependencies"] = "bad"]}

MCEdits == {<<"keyhole", "bad">>, <<"contract", "loose">>, <<"passport", "good">>}

MCDeclScenes ==
  LET Validate(mode, strict) == [op |-> "validate", mode |-> mode, strict |-> strict]
      Scaffold(name, force) == [op |-> "init", name |-> name, force |-> force]
      Scene(c, e) == [p \in DeclProcs |-> IF p = d1 THEN c ELSE e]
  IN {Scene(Scaffold("alpha", FALSE), Scaffold("beta", TRUE)),
      Scene(Validate("auto", TRUE), [op |-> "passport"]),
      Scene(Validate("advisory", FALSE), [op |-> "passport"]),
      Scene(Validate("native", FALSE), Scaffold("alpha", FALSE)),
      Scene(Validate("auto", FALSE), Scaffold("alpha", FALSE))}

MCAdoptScenes ==
  {[p \in AdoptProcs |-> IF p = a1 THEN [op |-> "ingest", summaryOnly |-> b] ELSE c] :
     b \in BOOLEAN, c \in [op : {"register"}, fromIngest : BOOLEAN]
                          \cup [op : {"align"}, localOnly : BOOLEAN]}

\* What does not move starts anyhow.
MCInit ==
  /\ Init /\ DeclInit /\ AdoptInit
  /\ part \in {"records", "declarations", "register", "ingest"}
  /\ part # "ingest" => /\ adopt[a1].cmd.summaryOnly
                        /\ adopt[a2].cmd = [op |-> "register", fromIngest |-> FALSE]
  /\ part # "declarations" =>
       decl[d1].cmd = [op |-> "validate", mode |-> "native", strict |-> FALSE]
  /\ part = "register" => \A f \in DeclFiles : tree[f] = IF f = "keyhole" THEN "none" ELSE "good"
  /\ part = "ingest" => adopt[a2].cmd # [op |-> "register", fromIngest |-> FALSE]
  /\ part \in {"records", "ingest"} =>
       \A f \in DeclFiles : tree[f] = IF f = "keyhole" THEN "good" ELSE "none"

MCNext ==
  \/ part = "records" /\ Next /\ UNCHANGED <<declVars, adoptVars, part>>
  \/ part \in {"declarations", "register"} /\ DeclNext /\ UNCHANGED <<vars, adoptVars, part>>
  \/ part = "register" /\ AdoptStep(a2) /\ UNCHANGED <<vars, declVars, part>>
  \/ part = "ingest" /\ \E p \in AdoptProcs : AdoptStep(p) /\ UNCHANGED <<vars, declVars, part>>

MCSpec == MCInit /\ [][MCNext]_MCVars
=============================================================================
