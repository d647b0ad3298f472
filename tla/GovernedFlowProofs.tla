------------------------- MODULE GovernedFlowProofs -------------------------
(***************************************************************************)
(* Proofs about GovernedFlow for any gaps, commands, outcomes, number of   *)
(* runs and number of interruptions.                                       *)
(*                                                                         *)
(* That each id in the checkpoint is backed by the server is not inductive *)
(* by itself: recovery stores the saved run under the name of the saved    *)
(* step, so the two must belong together in every checkpoint that can be   *)
(* left behind.  The order of the steps at the server follows from the     *)
(* backed ids once a process is known to stand at a stage only when the    *)
(* checkpoint holds what the stage builds on.                              *)
(***************************************************************************)
EXTENDS GovernedFlow, FiniteSetTheorems, TLAPS

USE GapsAssumption, CommandsAssumption, OutcomesAssumption, FlagsAssumption,
    BoundsAssumption, NoneAssumption

\* A checkpoint that recovery can rely on.
Sound(c) ==
  /\ c \in Checkpoint
  /\ Backed(c.claim, {"gap_claim"})
  /\ Backed(c.registration, {"context_create"})
  /\ Backed(c.context, {"context_compile", "preclaim_context"})
  /\ Backed(c.receipt, {"governed_realize"})
  /\ c.run # None => c.run \in DOMAIN runs
  /\ c.run # None /\ c.step \in Ops => runs[c.run].op = c.step

ProcessType ==
  /\ cmd \in Commands \cup {None} /\ operator_gap \in OperatorGaps \cup {None}
  /\ pc \in Places
  /\ capGap \in CapabilityGaps \cup {None}
  /\ verified \in BOOLEAN /\ fallback \in BOOLEAN
  /\ got \in RunIds \cup {None} /\ sync \in BOOLEAN

\* What a process has when it stands where it stands.
ProcessShape ==
  /\ pc \in {"reply", "poll"} => got \in DOMAIN runs
  /\ pc = "register" => cp.claim # None
  /\ pc = "compile" => cp.registration # None
  /\ pc = "realize" => cp.registration # None /\ cp.context # None

FileType == file \in {"missing", "written", "torn"} /\ ends \in 0..MaxEnds

ServerType ==
  runs \in Seq(Run) /\ Len(runs) <= MaxRuns /\ forgotten \in RunIds \cup {None}

IInv ==
  /\ Sound(cp) /\ ProcessType /\ ProcessShape /\ FileType /\ ServerType /\ StepsInOrder

LEMMA InvariantsHold == IInv => TypeOK /\ CheckpointIsBacked /\ SavedRunIsOfStep /\ StepsInOrder
  BY DEF IInv, Sound, ProcessType, FileType, ServerType, TypeOK, CheckpointIsBacked,
         SavedRunIsOfStep

LEMMA RunFacts ==
  ASSUME ServerType
  PROVE  /\ DOMAIN runs = 1..Len(runs) /\ Len(runs) \in Nat
         /\ \A i \in DOMAIN runs : runs[i] \in Run /\ i \in RunIds /\ i # None
  BY DEF ServerType, RunIds

LEMMA EmptySound == ASSUME ServerType PROVE Sound(NoCheckpoint)
  BY DEF Sound, NoCheckpoint, Checkpoint, Backed, Steps, Ops

LEMMA InitIInv == Init => IInv
<1> SUFFICES ASSUME Init PROVE IInv
  OBVIOUS
<1>1. ServerType
  BY DEF Init, ServerType, RunIds
<1>2. Sound(cp)
  BY <1>1, EmptySound DEF Init
<1>3. ProcessType
  BY DEF Init, ProcessType, Places
<1>6. ProcessShape /\ FileType
  BY DEF Init, ProcessShape, FileType
<1>4. Len(runs) = 0 /\ DOMAIN runs = 1..Len(runs)
  BY <1>1, RunFacts DEF Init
<1>5. StepsInOrder
  BY <1>4 DEF StepsInOrder
<1> QED BY <1>1, <1>2, <1>3, <1>5, <1>6 DEF IInv

-----------------------------------------------------------------------------
(* The checkpoints that the steps write are sound.                         *)

LEMMA TerminalSound ==
  ASSUME IInv, NEW b \in BOOLEAN
  PROVE  Sound([cp EXCEPT !.terminal = b])
  BY DEF IInv, Sound, Checkpoint

LEMMA WithGapSound ==
  ASSUME IInv, NEW g \in Gaps \cup {None}
  PROVE  Sound(WithGap(g))
<1>1. cp \in Checkpoint /\ "gap_resolved" \in Steps /\ "gap_resolved" \notin Ops
  BY DEF IInv, Sound, Steps, Ops
<1>2. WithGap(g) \in Checkpoint
  BY <1>1 DEF Checkpoint, WithGap
<1>3. /\ WithGap(g).step = "gap_resolved" /\ WithGap(g).run = cp.run
      /\ WithGap(g).claim = cp.claim /\ WithGap(g).registration = cp.registration
      /\ WithGap(g).context = cp.context /\ WithGap(g).receipt = cp.receipt
  BY <1>1 DEF Checkpoint, WithGap
<1> QED BY <1>1, <1>2, <1>3 DEF IInv, Sound

LEMMA WithRunSound ==
  ASSUME IInv, NEW i \in DOMAIN runs
  PROVE  Sound(WithRun(runs[i].op, i)) /\ Sound(WithRun(runs[i].op, None))
<1>1. runs[i] \in Run /\ i \in RunIds
  BY RunFacts DEF IInv
<1>2. runs[i].op \in Ops
  BY <1>1 DEF Run
<1>3. Sound(NoCheckpoint) /\ Sound(cp)
  BY EmptySound DEF IInv
<1>4. ASSUME NEW c, Sound(c), NEW r \in {i, None}
      PROVE  Sound([c EXCEPT !.step = runs[i].op, !.run = r, !.terminal = FALSE])
  BY <1>1, <1>2, <1>4 DEF Sound, Checkpoint, Steps
<1> QED BY <1>3, <1>4 DEF WithRun

\* A result stored under a step that is no operation.
StoredClaim(c, x, step) == [c EXCEPT !.claim = x, !.step = step]
StoredRegistration(c, x, step) == [c EXCEPT !.registration = x, !.step = step]
StoredContext(c, x, step) == [c EXCEPT !.context = x, !.step = step]
StoredReceipt(c, x, step) == [c EXCEPT !.receipt = x, !.terminal = TRUE, !.step = step]

LEMMA StoreSound ==
  ASSUME ServerType, NEW c, Sound(c), NEW x \in RunIds \cup {None}, NEW step \in Steps \ Ops
  PROVE  /\ Backed(x, {"gap_claim"}) => Sound(StoredClaim(c, x, step))
         /\ Backed(x, {"context_create"}) => Sound(StoredRegistration(c, x, step))
         /\ Backed(x, {"context_compile", "preclaim_context"}) =>
              Sound(StoredContext(c, x, step))
         /\ Backed(x, {"governed_realize"}) => Sound(StoredReceipt(c, x, step))
<1>1. /\ StoredClaim(c, x, step) \in Checkpoint
      /\ StoredRegistration(c, x, step) \in Checkpoint
      /\ StoredContext(c, x, step) \in Checkpoint
      /\ StoredReceipt(c, x, step) \in Checkpoint
  BY DEF Sound, Checkpoint, StoredClaim, StoredRegistration, StoredContext, StoredReceipt
<1>2. c \in Checkpoint
  BY DEF Sound
<1>3. Backed(x, {"gap_claim"}) => Sound(StoredClaim(c, x, step))
  BY <1>1, <1>2 DEF Sound, Checkpoint, StoredClaim
<1>4. Backed(x, {"context_create"}) => Sound(StoredRegistration(c, x, step))
  BY <1>1, <1>2 DEF Sound, Checkpoint, StoredRegistration
<1>5. Backed(x, {"context_compile", "preclaim_context"}) => Sound(StoredContext(c, x, step))
  BY <1>1, <1>2 DEF Sound, Checkpoint, StoredContext
<1>6. Backed(x, {"governed_realize"}) => Sound(StoredReceipt(c, x, step))
  BY <1>1, <1>2 DEF Sound, Checkpoint, StoredReceipt
<1> QED BY <1>3, <1>4, <1>5, <1>6

LEMMA StepNames ==
  {"gap_resolved", "claim_succeeded", "context_created", "context_compiled",
   "preclaim_context_ready", "receipt_ready", "gap_resolution"} \subseteq Steps \ Ops
  BY DEF Steps, Ops

LEMMA RecoveredSound ==
  ASSUME IInv, cp.run # None, cp.step = "governed_realize" => Succeeded(cp.run)
  PROVE  Sound(UpdatedFromResult(cp.run))
<1> DEFINE i == cp.run
           c == [cp EXCEPT !.run = None, !.terminal = FALSE]
           found == IF Succeeded(i) THEN i ELSE None
<1>1. i \in DOMAIN runs /\ runs[i] \in Run /\ i \in RunIds /\ i # None
  BY RunFacts DEF IInv, Sound
<1>2. cp.step \in Ops => runs[i].op = cp.step
  BY DEF IInv, Sound
<1>3. Sound(c)
  BY DEF IInv, Sound, Checkpoint
<1>a. ServerType /\ found \in RunIds \cup {None} /\ i \in RunIds \cup {None}
  BY <1>1 DEF IInv
<1>b. ASSUME NEW o \in Ops, cp.step = o
      PROVE  Backed(found, {o}) /\ (Succeeded(i) => Backed(i, {o}))
  BY <1>1, <1>2, <1>b DEF Backed
<1>c. Succeeded(i) <=> runs[i].st \in {"flat", "nested"}
  BY DEF Succeeded
<1> HIDE DEF i, c, found
<1>4. CASE cp.step = "gap_discovery" /\ Succeeded(i)
  <2>1. UpdatedFromResult(i) = [c EXCEPT !.gap = runs[i].gap, !.step = "gap_resolved"]
    BY <1>4 DEF UpdatedFromResult, c
  <2>2. runs[i].gap \in Gaps \cup {None}
    BY <1>1 DEF Run
  <2>3. Sound([c EXCEPT !.gap = runs[i].gap, !.step = "gap_resolved"])
    BY <1>3, <2>2, StepNames DEF Sound, Checkpoint
  <2> QED BY <2>1, <2>3 DEF i
<1>5. CASE cp.step = "gap_claim"
  <2>1. UpdatedFromResult(i) = StoredClaim(c, found, "claim_succeeded")
    BY <1>5 DEF UpdatedFromResult, StoredClaim, c, found
  <2>2. Backed(found, {"gap_claim"})
    BY <1>5, <1>b DEF Ops
  <2> QED BY <1>3, <1>a, <2>1, <2>2, StoreSound, StepNames DEF i
<1>6. CASE cp.step = "context_create"
  <2> DEFINE x == IF runs[i].st = "flat" THEN i ELSE None
  <2>1. UpdatedFromResult(i) = StoredRegistration(c, x, "context_created")
    BY <1>6 DEF UpdatedFromResult, StoredRegistration, c
  <2>2. Backed(x, {"context_create"}) /\ x \in RunIds \cup {None}
    BY <1>6, <1>a, <1>b, <1>c DEF Ops, Backed
  <2> HIDE DEF x
  <2> QED BY <1>3, <1>a, <2>1, <2>2, StoreSound, StepNames DEF i
<1>7. CASE cp.step = "preclaim_context"
  <2>1. UpdatedFromResult(i) = StoredContext(c, found, "preclaim_context_ready")
    BY <1>7 DEF UpdatedFromResult, StoredContext, c, found
  <2>2. Backed(found, {"context_compile", "preclaim_context"})
    BY <1>7, <1>b DEF Ops, Backed
  <2> QED BY <1>3, <1>a, <2>1, <2>2, StoreSound, StepNames DEF i
<1>8. CASE cp.step = "context_compile"
  <2>1. UpdatedFromResult(i) = StoredContext(c, found, "context_compiled")
    BY <1>8 DEF UpdatedFromResult, StoredContext, c, found
  <2>2. Backed(found, {"context_compile", "preclaim_context"})
    BY <1>8, <1>b DEF Ops, Backed
  <2> QED BY <1>3, <1>a, <2>1, <2>2, StoreSound, StepNames DEF i
<1>9. CASE cp.step = "governed_realize"
  <2>1. UpdatedFromResult(i)
          = StoredReceipt(c, i, "receipt_ready")
    BY <1>9 DEF UpdatedFromResult, StoredReceipt, c
  <2>2. Backed(i, {"governed_realize"})
    BY <1>9, <1>b DEF Ops, i
  <2> QED BY <1>3, <1>a, <2>1, <2>2, StoreSound, StepNames DEF i
<1>10. CASE /\ ~(cp.step = "gap_discovery" /\ Succeeded(i))
            /\ cp.step \notin {"gap_claim", "context_create", "preclaim_context",
                               "context_compile", "governed_realize"}
  BY <1>3, <1>10 DEF UpdatedFromResult, i, c
<1> QED BY <1>4, <1>5, <1>6, <1>7, <1>8, <1>9, <1>10

LEMMA WithResultSound ==
  ASSUME IInv, got \in DOMAIN runs, Succeeded(got), runs[got].op \in StepOps
  PROVE  Sound(WithResult(runs[got].op))
<1>1. runs[got] \in Run /\ got \in RunIds /\ got # None
  BY RunFacts DEF IInv
<1>2. Sound(cp) /\ ServerType
  BY DEF IInv
<1>3. CASE runs[got].op = "gap_claim"
  <2> DEFINE c == [cp EXCEPT !.gap = runs[got].gap, !.terminal = FALSE]
  <2>1. runs[got].gap \in Gaps \cup {None}
    BY <1>1 DEF Run
  <2>2. Sound(c)
    BY <1>2, <2>1 DEF Sound, Checkpoint
  <2>3. WithResult("gap_claim") = StoredClaim(c, got, "claim_succeeded")
    BY <1>2 DEF WithResult, StoredClaim, Sound, Checkpoint
  <2>4. Backed(got, {"gap_claim"})
    BY <1>3 DEF Backed
  <2> HIDE DEF c
  <2> QED BY <1>1, <1>2, <1>3, <2>2, <2>3, <2>4, StoreSound, StepNames
<1>4. CASE runs[got].op = "context_create"
  <2> DEFINE c == [cp EXCEPT !.terminal = FALSE]
  <2>1. Sound(c)
    BY TerminalSound
  <2>2. WithResult("context_create")
          = StoredRegistration(c, got, "context_created")
    BY <1>2 DEF WithResult, StoredRegistration, Sound, Checkpoint
  <2>3. Backed(got, {"context_create"})
    BY <1>4 DEF Backed
  <2> HIDE DEF c
  <2> QED BY <1>1, <1>2, <1>4, <2>1, <2>2, <2>3, StoreSound, StepNames
<1>5. CASE runs[got].op = "context_compile"
  <2> DEFINE c == [cp EXCEPT !.terminal = FALSE]
  <2>1. Sound(c)
    BY TerminalSound
  <2>2. WithResult("context_compile")
          = StoredContext(c, got, "context_compiled")
    BY <1>2 DEF WithResult, StoredContext, Sound, Checkpoint
  <2>3. Backed(got, {"context_compile", "preclaim_context"})
    BY <1>5 DEF Backed
  <2> HIDE DEF c
  <2> QED BY <1>1, <1>2, <1>5, <2>1, <2>2, <2>3, StoreSound, StepNames
<1>6. CASE runs[got].op = "governed_realize"
  <2> DEFINE c == [cp EXCEPT !.run = None]
  <2>1. Sound(c)
    BY <1>2 DEF Sound, Checkpoint
  <2>2. WithResult("governed_realize")
          = StoredReceipt(c, got, "receipt_ready")
    BY <1>2 DEF WithResult, StoredReceipt, Sound, Checkpoint
  <2>3. Backed(got, {"governed_realize"})
    BY <1>6 DEF Backed
  <2> HIDE DEF c
  <2> QED BY <1>1, <1>2, <1>6, <2>1, <2>2, <2>3, StoreSound, StepNames
<1> QED BY <1>3, <1>4, <1>5, <1>6 DEF StepOps
-----------------------------------------------------------------------------
(* The process after a step.                                               *)

ProcessGood == ProcessType /\ ProcessShape

LEMMA OverGood == ASSUME Over PROVE ProcessGood'
  BY DEF Over, ProcessGood, ProcessType, ProcessShape, Places

LEMMA StagesHaveInputs ==
  ASSUME NEW c
  PROVE  /\ NextStage(c) \in {"gap", "refresh", "register", "compile", "realize", "idle"}
         /\ NextStage(c) = "register" => c.claim # None
         /\ NextStage(c) = "compile" => c.registration # None
         /\ NextStage(c) = "realize" => c.registration # None /\ c.context # None
<1>1. CASE c.gap = None \/ c.claim = None \/ c.registration = None \/ c.context = None
  BY <1>1 DEF NextStage
<1>2. CASE /\ ~(c.gap = None \/ c.claim = None \/ c.registration = None \/ c.context = None)
           /\ Finished(c)
  BY <1>2 DEF NextStage
<1>3. CASE /\ ~(c.gap = None \/ c.claim = None \/ c.registration = None \/ c.context = None)
           /\ ~Finished(c)
  BY <1>3 DEF NextStage
<1> QED BY <1>1, <1>2, <1>3

LEMMA ContinueGood ==
  ASSUME IInv, Continue(cp'), UNCHANGED server
  PROVE  ProcessGood' /\ ends' = ends
<1>1. CASE NextStage(cp') = "idle"
  BY <1>1, OverGood DEF Continue, Completes
<1>2. CASE NextStage(cp') # "idle"
  <2>1. /\ pc' = NextStage(cp') /\ got' = None /\ sync' = FALSE /\ fallback' = FALSE
        /\ UNCHANGED <<cmd, operator_gap, capGap, verified, ends>>
    BY <1>2 DEF Continue
  <2>2. ProcessShape'
    BY <2>1, StagesHaveInputs DEF ProcessShape
  <2>3. ProcessType'
    BY <2>1, StagesHaveInputs DEF IInv, ProcessType, Places, Stages
  <2> QED BY <2>1, <2>2, <2>3 DEF ProcessGood
<1> QED BY <1>1, <1>2

LEMMA RaisesGood == ASSUME IInv, Raises PROVE ProcessGood' /\ ends' \in 0..MaxEnds
<1>1. ProcessGood'
  BY OverGood DEF Raises
<1>2. ends' \in 0..MaxEnds
  BY DEF IInv, FileType, Raises
<1> QED BY <1>1, <1>2

\* A step that leaves the server alone and writes a sound checkpoint.
LEMMA CheckpointStep ==
  ASSUME IInv, UNCHANGED server, Sound(cp'), ProcessGood',
         file' \in {"missing", "written", "torn"}, ends' \in 0..MaxEnds
  PROVE  IInv'
<1>1. Sound(cp)'
  BY DEF server, Sound, Backed, Succeeded
<1>2. StepsInOrder' /\ ServerType'
  BY DEF IInv, server, StepsInOrder, Before, Succeeded, ServerType
<1> QED BY <1>1, <1>2 DEF IInv, ProcessGood, FileType

LEMMA NoWriteStep ==
  ASSUME IInv, UNCHANGED <<file, cp, server>>, ProcessGood', ends' \in 0..MaxEnds
  PROVE  IInv'
<1>1. Sound(cp')
  BY DEF IInv
<1> QED BY <1>1, CheckpointStep DEF IInv, FileType

LEMMA PersistStep ==
  ASSUME IInv, UNCHANGED server, NEW c, Persist(c), Sound(c), ProcessGood',
         ends' \in 0..MaxEnds
  PROVE  IInv'
  BY CheckpointStep DEF Persist

-----------------------------------------------------------------------------
(* One lemma per action.                                                   *)

LEMMA InvokeStep ==
  ASSUME IInv, NEW c \in Commands, NEW g \in OperatorGaps \cup {None}, Invoke(c, g)
  PROVE  IInv'
<1>1. Sound(cp') /\ UNCHANGED server /\ ends' \in 0..MaxEnds
  BY DEF IInv, FileType, Invoke
<1>2. file' \in {"missing", "written", "torn"}
  BY DEF IInv, FileType, Invoke
<1>3. ProcessType'
  BY DEF IInv, ProcessType, Invoke, Places
<1>4. ProcessShape'
  BY DEF ProcessShape, Invoke
<1> QED BY <1>1, <1>2, <1>3, <1>4, CheckpointStep DEF ProcessGood

LEMMA DiscoverStep == ASSUME IInv, Discover PROVE IInv'
<1>1. ProcessType' /\ ends' \in 0..MaxEnds
  BY DEF IInv, ProcessType, FileType, Discover, Places, Stages
<1>2. ProcessShape'
  BY DEF ProcessShape, Discover
<1> QED BY <1>1, <1>2, NoWriteStep DEF ProcessGood, Discover

LEMMA AfterRecoveryGood ==
  ASSUME IInv, AfterRecovery(cp'), UNCHANGED server
  PROVE  ProcessGood' /\ ends' \in 0..MaxEnds
<1>1. CASE cmd = "status"
  BY <1>1, OverGood DEF IInv, FileType, AfterRecovery, Completes
<1>2. CASE cmd # "status"
  BY <1>2, ContinueGood DEF IInv, FileType, AfterRecovery
<1> QED BY <1>1, <1>2

LEMMA RecoverStep == ASSUME IInv, Recover PROVE IInv'
<1>1. CASE RecoverNothing
  <2>1. cp' = cp /\ UNCHANGED <<file, cp, server>>
    BY <1>1 DEF RecoverNothing
  <2>2. AfterRecovery(cp')
    BY <1>1, <2>1 DEF RecoverNothing
  <2> QED BY <2>1, <2>2, AfterRecoveryGood, NoWriteStep
<1>2. CASE RecoverMissing
  BY <1>2, TerminalSound, RaisesGood, PersistStep DEF RecoverMissing
<1>3. CASE RecoverFailed
  BY <1>3, TerminalSound, RaisesGood, PersistStep DEF RecoverFailed
<1>4. CASE RecoverPending
  BY <1>4, TerminalSound, AfterRecoveryGood, PersistStep DEF RecoverPending
<1>5. CASE RecoverUnusable
  BY <1>5, RaisesGood, NoWriteStep DEF RecoverUnusable
<1>6. CASE RecoverResult
  <2>1. Sound(UpdatedFromResult(cp.run))
    BY <1>6, RecoveredSound DEF RecoverResult, PendingSaved
  <2>2. ProcessGood' /\ ends' \in 0..MaxEnds
    BY <1>6, AfterRecoveryGood DEF RecoverResult
  <2> QED BY <1>6, <2>1, <2>2, PersistStep DEF RecoverResult
<1> QED BY <1>1, <1>2, <1>3, <1>4, <1>5, <1>6 DEF Recover

LEMMA GapResolvedStep ==
  ASSUME IInv, NEW g \in Gaps \cup {None}, NEW live \in BOOLEAN, GapResolved(g, live), UNCHANGED server
  PROVE  IInv'
<1>1. CASE cmd = "dryRun"
  BY <1>1, OverGood, NoWriteStep DEF IInv, FileType, GapResolved, Completes, NoWrite
<1>2. CASE cmd # "dryRun"
  <2>1. /\ pc' = IF cp.gap = None THEN NextStage(cp') ELSE "digest"
        /\ verified' = live /\ got' = None /\ sync' = FALSE /\ fallback' = FALSE
        /\ UNCHANGED <<cmd, operator_gap, capGap, ends>>
    BY <1>2 DEF GapResolved
  <2>2. ProcessShape'
    BY <2>1, StagesHaveInputs DEF ProcessShape
  <2>3. ProcessType'
    BY <2>1, StagesHaveInputs DEF IInv, ProcessType, Places, Stages
  <2>4. CASE g = cp.gap
    BY <1>2, <2>1, <2>2, <2>3, <2>4, NoWriteStep DEF IInv, FileType, GapResolved, NoWrite, ProcessGood
  <2>5. CASE g # cp.gap
    <3>1. Persist(WithGap(g)) /\ Sound(WithGap(g))
      BY <1>2, <2>5, WithGapSound DEF GapResolved
    <3> QED BY <2>1, <2>2, <2>3, <3>1, PersistStep DEF IInv, FileType, ProcessGood
  <2> QED BY <2>4, <2>5
<1> QED BY <1>1, <1>2

LEMMA GapKnownStep == ASSUME IInv, GapKnown \/ RefreshKnown PROVE IInv'
<1>1. operator_gap # None => operator_gap \in Gaps
  BY DEF IInv, ProcessType
<1>2. capGap # None => capGap \in Gaps
  BY DEF IInv, ProcessType
<1> QED BY <1>1, <1>2, GapResolvedStep DEF GapKnown, RefreshKnown

LEMMA GoToStep ==
  ASSUME IInv, RefreshSkipped \/ DigestKnown
  PROVE  IInv'
<1>1. pc' \in {"digest", "claim"} /\ UNCHANGED <<file, cp, server, ends>>
      /\ UNCHANGED <<cmd, operator_gap, capGap, verified, fallback, got, sync>>
  BY DEF RefreshSkipped, DigestKnown, GoTo
<1>2. ProcessGood'
  BY <1>1 DEF IInv, ProcessGood, ProcessType, ProcessShape, Places, Stages
<1> QED BY <1>1, <1>2, NoWriteStep DEF IInv, FileType

\* What the server has accepted and completed stays so.
LEMMA RunsGrow ==
  ASSUME IInv, UNCHANGED <<file, cp, ends>>, ProcessGood', ServerType', StepsInOrder',
         \A i \in DOMAIN runs :
           i \in DOMAIN runs' /\ runs'[i].op = runs[i].op
           /\ (runs[i].st # "active" => runs'[i].st = runs[i].st)
  PROVE  IInv'
<1>1. \A i \in DOMAIN runs : Succeeded(i) => Succeeded(i)'
  BY DEF Succeeded
<1>2. Sound(cp)'
  BY <1>1 DEF IInv, Sound, Backed
<1> QED BY <1>2 DEF IInv, ProcessGood, FileType

LEMMA AcceptedStep ==
  ASSUME IInv, NEW o \in Ops, NEW g \in Gaps \cup {None}, Accepted(o, g),
         o = "context_create" => cp.claim # None,
         o = "context_compile" => cp.registration # None,
         o = "governed_realize" => cp.registration # None /\ cp.context # None
  PROVE  IInv'
<1> PICK st \in (Outcomes \ {"failed"}) \cup {"active"} :
      runs' = Append(runs, [op |-> o, gap |-> g, st |-> st]) /\ sync' = (st # "active")
  BY DEF Accepted
<1> PICK n \in Nat : n = Len(runs) + 1
  BY RunFacts DEF IInv
<1> DEFINE new == [op |-> o, gap |-> g, st |-> st]
<1>1. new \in Run
  BY DEF Run, Shapes
<1>2. /\ runs' \in Seq(Run) /\ Len(runs') = n /\ n \in RunIds /\ n # None
      /\ DOMAIN runs = 1..Len(runs) /\ DOMAIN runs' = 1..n
      /\ \A i \in DOMAIN runs : runs'[i] = runs[i]
      /\ runs'[n] = new
  BY <1>1 DEF IInv, ServerType, Accepted, RunIds
<1>3. ServerType'
  BY <1>2 DEF IInv, ServerType, Accepted, RunIds
<1>4. ProcessGood'
  BY <1>2 DEF IInv, ProcessGood, ProcessType, ProcessShape, Accepted, Places
<1>5. \A i \in DOMAIN runs : Succeeded(i) => Succeeded(i)'
  BY <1>2 DEF Succeeded
<1>6. ASSUME NEW i \in DOMAIN runs, NEW ops, Before(i, ops)
      PROVE  Before(i, ops)'
  BY <1>2, <1>5, <1>6 DEF Before, IInv, ServerType
<1>7. ASSUME NEW j, NEW ops, Backed(j, ops), j # None
      PROVE  Before(n, ops)'
  BY <1>2, <1>5, <1>7 DEF Before, Backed, IInv, ServerType
<1>8. StepsInOrder'
  <2> SUFFICES ASSUME NEW i \in DOMAIN runs'
               PROVE /\ runs'[i].op = "context_create" => Before(i, {"gap_claim"})'
                     /\ runs'[i].op = "context_compile" => Before(i, {"context_create"})'
                     /\ runs'[i].op = "governed_realize" =>
                          /\ Before(i, {"context_create"})'
                          /\ Before(i, {"context_compile", "preclaim_context"})'
    BY DEF StepsInOrder
  <2>1. CASE i \in DOMAIN runs
    BY <1>2, <1>6, <2>1 DEF IInv, StepsInOrder
  <2>2. CASE i = n
    <3>1. runs'[i].op = o
      BY <1>2, <2>2
    <3>2. cp.claim # None => Before(n, {"gap_claim"})'
      BY <1>7 DEF IInv, Sound
    <3>3. cp.registration # None => Before(n, {"context_create"})'
      BY <1>7 DEF IInv, Sound
    <3>4. cp.context # None => Before(n, {"context_compile", "preclaim_context"})'
      BY <1>7 DEF IInv, Sound
    <3> QED BY <2>2, <3>1, <3>2, <3>3, <3>4
  <2> QED BY <1>2, <2>1, <2>2 DEF IInv, ServerType
<1> QED BY <1>2, <1>3, <1>4, <1>8, RunsGrow DEF Accepted

LEMMA SubmitStep == ASSUME IInv, Submit PROVE IInv'
<1>1. CASE SubmitDiscovery
  BY <1>1, AcceptedStep DEF SubmitDiscovery, Ops
<1>2. CASE SubmitPreclaim
  BY <1>2, AcceptedStep DEF SubmitPreclaim, Ops
<1>3. CASE SubmitClaim
  <2>a. cp.gap \in Gaps \cup {None}
    BY DEF IInv, Sound, Checkpoint
  <2>b. operator_gap # None => operator_gap \in Gaps
    BY DEF IInv, ProcessType
  <2>1. ClaimTarget \in Gaps \cup {None}
    BY <2>a, <2>b DEF ClaimTarget
  <2> QED BY <1>3, <2>1, AcceptedStep DEF SubmitClaim, Ops
<1>4. CASE SubmitRegistration
  BY <1>4, AcceptedStep DEF SubmitRegistration, Ops, IInv, ProcessShape
<1>5. CASE SubmitCompile
  BY <1>5, AcceptedStep DEF SubmitCompile, Ops, IInv, ProcessShape
<1>6. CASE SubmitRealization
  BY <1>6, AcceptedStep DEF SubmitRealization, Ops, IInv, ProcessShape
<1> QED BY <1>1, <1>2, <1>3, <1>4, <1>5, <1>6 DEF Submit

LEMMA AsyncStep == ASSUME IInv, AcceptedAsync \/ AcceptedWithoutId PROVE IInv'
<1>1. got \in DOMAIN runs /\ pc = "reply"
  BY DEF IInv, ProcessShape, AcceptedAsync, AcceptedWithoutId
<1>2. CASE AcceptedAsync
  <2>1. ProcessGood' /\ ends' \in 0..MaxEnds
    BY <1>1, <1>2 DEF IInv, FileType, ProcessGood, ProcessType, ProcessShape, Places,
                      AcceptedAsync, GoTo, server
  <2> QED BY <1>1, <1>2, <2>1, WithRunSound, PersistStep DEF AcceptedAsync
<1>3. CASE AcceptedWithoutId
  BY <1>1, <1>3, WithRunSound, RaisesGood, PersistStep DEF AcceptedWithoutId
<1> QED BY <1>2, <1>3

LEMMA ResultFacts ==
  ASSUME IInv, ResultReady
  PROVE  got \in DOMAIN runs /\ runs[got] \in Run
  BY RunFacts DEF IInv, ProcessShape, ResultReady

LEMMA GapDiscoveredStep == ASSUME IInv, GapDiscovered PROVE IInv'
<1>1. runs[got].gap \in Gaps \cup {None}
  BY ResultFacts DEF GapDiscovered, Run
<1> QED BY <1>1, GapResolvedStep DEF GapDiscovered

LEMMA DiscoveryFailsStep == ASSUME IInv, DiscoveryFails PROVE IInv'
<1>1. CASE HasStoryId /\ ~fallback
  <2>1. /\ fallback' = TRUE /\ got' = None /\ sync' = FALSE
        /\ pc' \in {"gap", "refresh"}
        /\ UNCHANGED <<file, cp, cmd, operator_gap, capGap, verified, ends, server>>
    BY <1>1 DEF DiscoveryFails
  <2>2. ProcessGood' /\ ends' \in 0..MaxEnds
    BY <2>1 DEF IInv, FileType, ProcessGood, ProcessType, ProcessShape, Places, Stages
  <2> QED BY <2>1, <2>2, NoWriteStep
<1>2. CASE ~(HasStoryId /\ ~fallback)
  <2>1. DiscoveryError /\ Raises /\ UNCHANGED server
    BY <1>2 DEF DiscoveryFails
  <2>2. CASE cmd = "dryRun"
    BY <2>1, <2>2, RaisesGood, NoWriteStep DEF DiscoveryError, NoWrite
  <2>3. CASE cmd # "dryRun"
    <3> DEFINE step == IF cp.gap = None THEN "gap_resolution" ELSE "gap_resolved"
               c == [cp EXCEPT !.step = step, !.terminal = FALSE]
    <3>1. step \in Steps \ Ops
      BY StepNames
    <3>2. Persist(c)
      BY <2>1, <2>3 DEF DiscoveryError
    <3> HIDE DEF step
    <3>3. Sound(c)
      BY <3>1 DEF IInv, Sound, Checkpoint
    <3> QED BY <2>1, <3>2, <3>3, RaisesGood, PersistStep
  <2> QED BY <2>2, <2>3
<1> QED BY <1>1, <1>2

LEMMA PreclaimStep == ASSUME IInv, PreclaimReady PROVE IInv'
<1>1. ProcessGood' /\ ends' \in 0..MaxEnds
  BY DEF IInv, FileType, ProcessGood, ProcessType, ProcessShape, Places, Stages, PreclaimReady
<1> QED BY <1>1, NoWriteStep DEF PreclaimReady

LEMMA StepSucceedsStep == ASSUME IInv, StepSucceeds PROVE IInv'
<1>1. Sound(WithResult(runs[got].op)) /\ Persist(WithResult(runs[got].op)) /\ UNCHANGED server
  BY ResultFacts, WithResultSound DEF StepSucceeds
<1>2. ProcessGood' /\ ends' \in 0..MaxEnds
  <2>1. CASE runs[got].op = "governed_realize"
    BY <2>1, OverGood DEF IInv, FileType, StepSucceeds, Completes
  <2>2. CASE runs[got].op # "governed_realize"
    BY <1>1, <2>2, ContinueGood DEF IInv, FileType, StepSucceeds
  <2> QED BY <2>1, <2>2
<1> QED BY <1>1, <1>2, PersistStep

LEMMA RaisingStep == ASSUME IInv, StepFails \/ Interrupted PROVE IInv'
  BY RaisesGood, NoWriteStep DEF StepFails, Interrupted

LEMMA TornStep == ASSUME IInv, TornWrite PROVE IInv'
<1>1. Sound(cp')
  BY EmptySound DEF IInv, TornWrite
<1> QED BY <1>1, RaisesGood, CheckpointStep DEF TornWrite

LEMMA ServerStep == ASSUME IInv, NEW i \in RunIds, RunEnds(i) \/ RunExpires(i) PROVE IInv'
<1>1. ProcessGood'
  BY DEF IInv, ProcessGood, ProcessType, ProcessShape, process, RunEnds, RunExpires, ServerType
<1>2. CASE RunEnds(i)
  <2> PICK st \in Outcomes : runs' = [runs EXCEPT ![i].st = st]
    BY <1>2 DEF RunEnds
  <2>1. i \in DOMAIN runs /\ runs[i].st = "active"
    BY <1>2 DEF RunEnds, Awaited
  <2>2. runs \in Seq(Run) /\ st \in Shapes \cup {"active", "failed"} /\ runs[i] \in Run
    BY <2>1, RunFacts DEF IInv, ServerType
  <2>3. [runs[i] EXCEPT !.st = st] \in Run /\ runs' = [runs EXCEPT ![i] = [runs[i] EXCEPT !.st = st]]
    BY <2>2 DEF Run
  <2>4. runs' \in Seq(Run) /\ Len(runs') = Len(runs) /\ DOMAIN runs' = DOMAIN runs
    BY <2>1, <2>2, <2>3
  <2>5. \A j \in DOMAIN runs : /\ runs'[j].op = runs[j].op
                               /\ runs[j].st # "active" => runs'[j].st = runs[j].st
    BY <2>1, <2>2, <2>3 DEF Run
  <2>6. ServerType'
    BY <1>2, <2>4 DEF IInv, ServerType, RunEnds
  <2>7. \A j \in DOMAIN runs : Succeeded(j) => Succeeded(j)'
    BY <2>5 DEF Succeeded
  <2>8. StepsInOrder'
    <3>1. ASSUME NEW j \in DOMAIN runs, NEW ops, Before(j, ops)
          PROVE  Before(j, ops)'
      BY <2>5, <2>7, <3>1, RunFacts DEF Before, IInv
    <3> QED BY <2>4, <2>5, <3>1 DEF IInv, StepsInOrder
  <2> QED BY <1>1, <1>2, <2>4, <2>5, <2>6, <2>8, RunsGrow DEF RunEnds
<1>3. CASE RunExpires(i)
  <2>1. runs' = runs /\ ServerType' /\ UNCHANGED <<file, cp, ends>>
    BY <1>3 DEF IInv, ServerType, RunExpires
  <2>2. StepsInOrder'
    BY <2>1 DEF IInv, StepsInOrder, Before, Succeeded
  <2> QED BY <1>1, <2>1, <2>2, RunsGrow
<1> QED BY <1>2, <1>3

LEMMA StepIInv == IInv /\ [Next]_vars => IInv'
<1> SUFFICES ASSUME IInv, [Next]_vars PROVE IInv'
  OBVIOUS
<1>1. CASE UNCHANGED vars
  <2>1. ProcessGood' /\ UNCHANGED <<file, cp, server, ends>>
    BY <1>1 DEF IInv, ProcessGood, ProcessType, ProcessShape, vars, process, server
  <2> QED BY <2>1, NoWriteStep DEF IInv, FileType
<1>2. ASSUME NEW c \in Commands, NEW g \in OperatorGaps \cup {None}, Invoke(c, g)
      PROVE  IInv'
  BY <1>2, InvokeStep
<1>3. CASE ClientStep
  BY <1>3, DiscoverStep, RecoverStep, GapKnownStep, GoToStep, SubmitStep, AsyncStep,
     GapDiscoveredStep, DiscoveryFailsStep, PreclaimStep, StepSucceedsStep, RaisingStep
     DEF ClientStep
<1>4. CASE AcceptedWithoutId \/ Interrupted \/ TornWrite
  BY <1>4, AsyncStep, RaisingStep, TornStep
<1>5. ASSUME NEW i \in RunIds, RunEnds(i) \/ RunExpires(i) PROVE IInv'
  BY <1>5, ServerStep
<1> QED BY <1>1, <1>2, <1>3, <1>4, <1>5 DEF Next

LEMMA InvariantIInv == Spec => []IInv
  BY InitIInv, StepIInv, PTL DEF Spec

-----------------------------------------------------------------------------
\* The checkpoint, the process and the server's runs keep their types.
THEOREM TypeCorrect == Spec => []TypeOK
  BY InvariantIInv, InvariantsHold, PTL

\* Through any number of interruptions every id of the checkpoint comes from
\* a completed run of its operation, and its receipt has valid evidence.
THEOREM CheckpointsAreBacked == Spec => []CheckpointIsBacked
  BY InvariantIInv, InvariantsHold, PTL

\* Recovery never takes the result of one operation for that of another.
THEOREM RecoveryMatchesStep == Spec => []SavedRunIsOfStep
  BY InvariantIInv, InvariantsHold, PTL

\* However often the flow is resumed, the server sees registration after a
\* granted claim, compilation after registration, realization after a context.
THEOREM ServerSeesStepsInOrder == Spec => []StepsInOrder
  BY InvariantIInv, InvariantsHold, PTL

-----------------------------------------------------------------------------
(* One submission of a step for each process, where no dry run replaces    *)
(* the checkpoint.  What was submitted last is in the checkpoint, or the   *)
(* process is at it, or a process has ended without completing.  A step is *)
(* submitted only while its field is empty, and no recovered result comes  *)
(* to a field that is filled.                                              *)

Counted == {"gap_claim", "context_create", "context_compile"}

\* A checkpoint is filled in order, and the step of a claim, a registration or
\* a compilation is left when its field is filled.
FilledInOrder(c) ==
  /\ c.claim # None => c.gap # None
  /\ c.registration # None => c.claim # None
  /\ c.step \in {"preclaim_context", "gap_claim"} => c.gap # None /\ c.claim = None
  /\ c.step = "context_create" => c.claim # None /\ c.registration = None
  /\ c.step = "context_compile" => c.context = None

\* The submission of o was for what the checkpoint c lacks.
Lacks(c, o) ==
  /\ o \in {"gap_discovery", "preclaim_context", "gap_claim"} => c.claim = None
  /\ o \in {"preclaim_context", "gap_claim"} => c.gap # None
  /\ o = "context_create" => c.claim # None /\ c.registration = None
  /\ o = "context_compile" => c.registration # None /\ c.context = None

\* A stage is for what the checkpoint c lacks.
Fits(c, stage) ==
  /\ stage = "gap" => c.gap = None
  /\ stage \in {"refresh", "digest", "claim"} => c.gap # None /\ c.claim = None
  /\ stage = "register" => c.claim # None /\ c.registration = None
  /\ stage = "compile" => c.registration # None /\ c.context = None

AtWhatIsLacking ==
  /\ pc # "idle" => cmd \in Commands
  /\ Fits(cp, pc)
  /\ pc \in {"reply", "poll"} => got \in DOMAIN runs /\ Lacks(cp, runs[got].op)

TargetsKnown ==
  \A i \in DOMAIN runs : runs[i].op \in {"gap_discovery", "gap_claim"} => runs[i].gap # None

\* What c has of the steps that are counted.
Filled(c, o) ==
  \/ o = "gap_claim" /\ c.claim # None
  \/ o = "context_create" /\ c.registration # None
  \/ o = "context_compile" /\ c.registration # None /\ c.context # None

AtWork(o) == pc \in {"reply", "poll"} /\ runs[got].op = o

CountsHold ==
  ends < MaxEnds =>
    \A o \in Counted :
      /\ Cardinality(Submissions(o)) <= 1 + ends
      /\ ~Filled(cp, o) /\ ~AtWork(o) => Cardinality(Submissions(o)) <= ends

Once == FilledInOrder(cp) /\ AtWhatIsLacking /\ TargetsKnown /\ CountsHold

-----------------------------------------------------------------------------
(* What keeps it, whatever the action.                                     *)

LEMMA SubmissionsCounted ==
  ASSUME ServerType, NEW o
  PROVE  IsFiniteSet(Submissions(o)) /\ Cardinality(Submissions(o)) \in Nat
<1>1. IsFiniteSet(1..Len(runs)) /\ DOMAIN runs = 1..Len(runs)
  BY RunFacts, FS_Interval
<1>2. Submissions(o) \subseteq 1..Len(runs)
  BY <1>1 DEF Submissions
<1> QED BY <1>1, <1>2, FS_Subset, FS_CardinalityType

\* A process that goes on without a submission keeps what it has submitted.
LEMMA GoingOnKeeps ==
  ASSUME Once, UNCHANGED <<runs, ends>>, FilledInOrder(cp'), AtWhatIsLacking',
         \A o \in Counted : Filled(cp, o) => Filled(cp', o),
         pc \in {"reply", "poll"} =>
           \/ runs[got].op \notin Counted
           \/ Filled(cp', runs[got].op)
           \/ pc' \in {"reply", "poll"} /\ got' = got
  PROVE  Once'
<1>1. TargetsKnown'
  BY DEF Once, TargetsKnown
<1>2. FilledInOrder(cp)'
  BY DEF FilledInOrder
<1>3. \A o : Submissions(o)' = Submissions(o)
  BY DEF Submissions
<1>4. \A o \in Counted : Filled(cp, o)' <=> Filled(cp', o)
  BY DEF Filled
<1>5. \A o \in Counted : AtWork(o) => AtWork(o)' \/ Filled(cp', o)
  BY DEF AtWork
<1>6. CountsHold'
  BY <1>3, <1>4, <1>5 DEF Once, CountsHold
<1> QED BY <1>1, <1>2, <1>6 DEF Once

LEMMA OverFits == ASSUME Over PROVE AtWhatIsLacking'
  BY DEF Over, AtWhatIsLacking, Fits

\* A process that ends by an exception is counted itself.
LEMMA RaisingKeeps ==
  ASSUME IInv, Once, UNCHANGED runs, Raises, FilledInOrder(cp')
  PROVE  Once'
<1>1. TargetsKnown' /\ FilledInOrder(cp)'
  BY DEF Once, TargetsKnown, FilledInOrder
<1>2. AtWhatIsLacking'
  BY OverFits DEF Raises
<1>3. \A o : Submissions(o)' = Submissions(o)
  BY DEF Submissions
<1>4. ends \in Nat /\ MaxEnds \in Nat /\ (ends < MaxEnds => ends' = ends + 1)
      /\ (~(ends < MaxEnds) => ends' = ends)
  BY DEF IInv, FileType, Raises
<1>5. \A o \in Counted : Cardinality(Submissions(o)) \in Nat
  BY SubmissionsCounted DEF IInv
<1>6. CountsHold'
  <2> SUFFICES ASSUME ends' < MaxEnds, NEW o \in Counted
               PROVE  /\ Cardinality(Submissions(o)) <= 1 + ends'
                      /\ Cardinality(Submissions(o)) <= ends'
    BY <1>3 DEF CountsHold
  <2>1. ends < MaxEnds /\ ends' = ends + 1
    BY <1>4
  <2>2. Cardinality(Submissions(o)) <= 1 + ends
    BY <2>1 DEF Once, CountsHold
  <2> QED BY <1>4, <1>5, <2>1, <2>2
<1> QED BY <1>1, <1>2, <1>6 DEF Once

LEMMA NextStageFits ==
  ASSUME NEW c PROVE Fits(c, NextStage(c)) /\ NextStage(c) \notin {"reply", "poll"}
<1>1. CASE c.gap = None \/ c.claim = None \/ c.registration = None \/ c.context = None
  BY <1>1 DEF NextStage, Fits
<1>2. CASE ~(c.gap = None \/ c.claim = None \/ c.registration = None \/ c.context = None)
  BY <1>2 DEF NextStage, Fits
<1> QED BY <1>1, <1>2

LEMMA ContinueFits ==
  ASSUME Once, pc # "idle", Continue(cp')
  PROVE  AtWhatIsLacking' /\ ends' = ends
<1>1. CASE NextStage(cp') = "idle"
  BY <1>1, OverFits DEF Continue, Completes
<1>2. CASE NextStage(cp') # "idle"
  <2>1. pc' = NextStage(cp') /\ cmd' = cmd /\ ends' = ends
    BY <1>2 DEF Continue
  <2>2. Fits(cp', pc') /\ pc' \notin {"reply", "poll"}
    BY <2>1, NextStageFits
  <2>3. Fits(cp, pc)'
    BY <2>2 DEF Fits
  <2> QED BY <2>1, <2>2, <2>3 DEF Once, AtWhatIsLacking
<1> QED BY <1>1, <1>2

\* Fields that are kept are filled as before.
LEMMA SameFields ==
  ASSUME Once, NEW c, c.gap = cp.gap, c.claim = cp.claim, c.registration = cp.registration,
         c.context = cp.context
  PROVE  /\ \A o \in Counted : Filled(cp, o) => Filled(c, o)
         /\ c.step = cp.step \/ c.step \notin Ops => FilledInOrder(c)
  BY DEF Once, Filled, FilledInOrder, Ops

LEMMA TerminalKept ==
  ASSUME IInv, Once, NEW b \in BOOLEAN
  PROVE  /\ FilledInOrder([cp EXCEPT !.terminal = b])
         /\ \A o \in Counted : Filled(cp, o) => Filled([cp EXCEPT !.terminal = b], o)
<1> PICK c : c = [cp EXCEPT !.terminal = b]
  OBVIOUS
<1>1. /\ c.gap = cp.gap /\ c.claim = cp.claim /\ c.registration = cp.registration
      /\ c.context = cp.context /\ c.step = cp.step
  BY DEF IInv, Sound, Checkpoint
<1> QED BY <1>1, SameFields

-----------------------------------------------------------------------------
(* The actions again.                                                      *)

LEMMA InvokeOnce ==
  ASSUME Once, NEW c \in Commands, NEW g \in OperatorGaps \cup {None}, Invoke(c, g)
  PROVE  Once'
<1>1. /\ pc = "idle" /\ pc' = "discover" /\ cmd' \in Commands
      /\ UNCHANGED <<cp, runs, ends>>
  BY DEF Invoke, server
<1>2. AtWhatIsLacking'
  BY <1>1 DEF AtWhatIsLacking, Fits
<1> QED BY <1>1, <1>2, GoingOnKeeps DEF Once

LEMMA DiscoverOnce == ASSUME "dryRun" \notin Commands, Once, Discover PROVE Once'
<1>1. pc = "discover" /\ cmd' = cmd /\ UNCHANGED <<cp, runs, ends>>
  BY DEF Discover, server
<1>2. cmd \in Commands
  BY <1>1 DEF Once, AtWhatIsLacking
<1>3. pc' = "recover"
  BY <1>2 DEF Discover
<1>4. AtWhatIsLacking'
  BY <1>1, <1>2, <1>3 DEF AtWhatIsLacking, Fits
<1> QED BY <1>1, <1>4, GoingOnKeeps DEF Once

LEMMA AfterRecoveryOnce ==
  ASSUME Once, pc = "recover", AfterRecovery(cp'), UNCHANGED server, FilledInOrder(cp'),
         \A o \in Counted : Filled(cp, o) => Filled(cp', o)
  PROVE  Once'
<1>1. AtWhatIsLacking' /\ ends' = ends
  <2>1. CASE cmd = "status"
    BY <2>1, OverFits DEF AfterRecovery, Completes
  <2>2. CASE cmd # "status"
    BY <2>2, ContinueFits DEF AfterRecovery
  <2> QED BY <2>1, <2>2
<1> QED BY <1>1, GoingOnKeeps DEF server

\* No recovered result comes to a field that is filled.
LEMMA RecoveredKept ==
  ASSUME IInv, Once, cp.run # None
  PROVE  /\ FilledInOrder(UpdatedFromResult(cp.run))
         /\ \A o \in Counted : Filled(cp, o) => Filled(UpdatedFromResult(cp.run), o)
<1> PICK i : i = cp.run
  OBVIOUS
<1>1. PICK c : c = [cp EXCEPT !.run = None, !.terminal = FALSE]
  OBVIOUS
<1>2. PICK found : found = IF Succeeded(i) THEN i ELSE None
  OBVIOUS
<1>3. i \in DOMAIN runs /\ (cp.step \in Ops => runs[i].op = cp.step)
  BY DEF IInv, Sound
<1>4. c \in Checkpoint /\ cp \in Checkpoint
  BY <1>1 DEF IInv, Sound, Checkpoint
<1>5. /\ c.gap = cp.gap /\ c.claim = cp.claim /\ c.registration = cp.registration
      /\ c.context = cp.context /\ c.step = cp.step
  BY <1>1 DEF IInv, Sound, Checkpoint
<1>6. FilledInOrder(cp)
  BY DEF Once
<1> PICK u : u = UpdatedFromResult(i)
  OBVIOUS
<1>7. CASE cp.step = "gap_discovery" /\ Succeeded(i)
  <2>1. u = [c EXCEPT !.gap = runs[i].gap, !.step = "gap_resolved"]
    BY <1>1, <1>7 DEF UpdatedFromResult
  <2>2. runs[i].gap # None
    BY <1>3, <1>7 DEF Once, TargetsKnown, Ops
  <2>3. /\ u.gap # None /\ u.claim = cp.claim /\ u.registration = cp.registration
        /\ u.context = cp.context /\ u.step = "gap_resolved"
    BY <1>4, <1>5, <2>1, <2>2 DEF Checkpoint
  <2> QED BY <1>6, <2>3 DEF FilledInOrder, Filled
<1>8. CASE cp.step = "gap_claim"
  <2>1. u = [c EXCEPT !.claim = found, !.step = "claim_succeeded"]
    BY <1>1, <1>2, <1>8 DEF UpdatedFromResult
  <2>2. /\ u.gap = cp.gap /\ u.registration = cp.registration
        /\ u.context = cp.context /\ u.step = "claim_succeeded"
    BY <1>4, <1>5, <2>1 DEF Checkpoint
  <2>3. cp.gap # None /\ cp.claim = None /\ cp.registration = None
    BY <1>6, <1>8 DEF FilledInOrder
  <2> QED BY <2>2, <2>3 DEF FilledInOrder, Filled
<1>9. CASE cp.step = "context_create"
  <2>1. PICK x : u = [c EXCEPT !.registration = x, !.step = "context_created"]
    BY <1>1, <1>9 DEF UpdatedFromResult
  <2>2. /\ u.gap = cp.gap /\ u.claim = cp.claim
        /\ u.context = cp.context /\ u.step = "context_created"
    BY <1>4, <1>5, <2>1 DEF Checkpoint
  <2>3. cp.claim # None /\ cp.registration = None
    BY <1>6, <1>9 DEF FilledInOrder
  <2> QED BY <1>6, <2>2, <2>3 DEF FilledInOrder, Filled
<1>10. CASE cp.step = "preclaim_context"
  <2>1. u = [c EXCEPT !.context = found, !.step = "preclaim_context_ready"]
    BY <1>1, <1>2, <1>10 DEF UpdatedFromResult
  <2>2. /\ u.gap = cp.gap /\ u.claim = cp.claim /\ u.registration = cp.registration
        /\ u.step = "preclaim_context_ready"
    BY <1>4, <1>5, <2>1 DEF Checkpoint
  <2>3. cp.registration = None
    BY <1>6, <1>10 DEF FilledInOrder
  <2> QED BY <1>6, <2>2, <2>3 DEF FilledInOrder, Filled
<1>11. CASE cp.step = "context_compile"
  <2>1. u = [c EXCEPT !.context = found, !.step = "context_compiled"]
    BY <1>1, <1>2, <1>11 DEF UpdatedFromResult
  <2>2. /\ u.gap = cp.gap /\ u.claim = cp.claim /\ u.registration = cp.registration
        /\ u.step = "context_compiled"
    BY <1>4, <1>5, <2>1 DEF Checkpoint
  <2>3. cp.context = None
    BY <1>6, <1>11 DEF FilledInOrder
  <2> QED BY <1>6, <2>2, <2>3 DEF FilledInOrder, Filled
<1>12. CASE cp.step = "governed_realize"
  <2>1. u = [c EXCEPT !.receipt = i, !.terminal = TRUE, !.step = "receipt_ready"]
    BY <1>1, <1>12 DEF UpdatedFromResult
  <2>2. /\ u.gap = cp.gap /\ u.claim = cp.claim /\ u.registration = cp.registration
        /\ u.context = cp.context /\ u.step = "receipt_ready"
    BY <1>4, <1>5, <2>1 DEF Checkpoint
  <2> QED BY <2>2, SameFields DEF Ops
<1>13. CASE /\ ~(cp.step = "gap_discovery" /\ Succeeded(i))
            /\ cp.step \notin {"gap_claim", "context_create", "preclaim_context",
                               "context_compile", "governed_realize"}
  <2>1. u = c
    BY <1>1, <1>13 DEF UpdatedFromResult
  <2> QED BY <1>5, <2>1, SameFields
<1> QED BY <1>7, <1>8, <1>9, <1>10, <1>11, <1>12, <1>13

LEMMA RecoverOnce == ASSUME IInv, Once, Recover PROVE Once'
<1>1. CASE RecoverNothing
  <2>1. cp' = cp /\ UNCHANGED server /\ pc = "recover" /\ AfterRecovery(cp')
    BY <1>1 DEF RecoverNothing
  <2> QED BY <2>1, AfterRecoveryOnce DEF Once
<1>2. CASE RecoverMissing \/ RecoverFailed
  <2>1. PICK b \in BOOLEAN : cp' = [cp EXCEPT !.terminal = b]
    BY <1>2 DEF RecoverMissing, RecoverFailed, Persist
  <2>2. Raises /\ UNCHANGED runs
    BY <1>2 DEF RecoverMissing, RecoverFailed, server
  <2> QED BY <2>1, <2>2, TerminalKept, RaisingKeeps
<1>3. CASE RecoverPending
  <2>1. cp' = [cp EXCEPT !.terminal = FALSE]
    BY <1>3 DEF RecoverPending, Persist
  <2>2. pc = "recover" /\ AfterRecovery(cp') /\ UNCHANGED server
    BY <1>3 DEF RecoverPending
  <2> QED BY <2>1, <2>2, TerminalKept, AfterRecoveryOnce
<1>4. CASE RecoverUnusable
  <2>1. Raises /\ UNCHANGED <<cp, runs>>
    BY <1>4 DEF RecoverUnusable, server
  <2> QED BY <2>1, RaisingKeeps DEF Once
<1>5. CASE RecoverResult
  <2>1. cp' = UpdatedFromResult(cp.run) /\ cp.run # None
    BY <1>5 DEF RecoverResult, PendingSaved, Persist
  <2>2. pc = "recover" /\ AfterRecovery(cp') /\ UNCHANGED server
    BY <1>5 DEF RecoverResult
  <2> QED BY <2>1, <2>2, RecoveredKept, AfterRecoveryOnce
<1> QED BY <1>1, <1>2, <1>3, <1>4, <1>5 DEF Recover

LEMMA GapResolvedOnce ==
  ASSUME "dryRun" \notin Commands, IInv, Once, NEW g \in Gaps, NEW live \in BOOLEAN,
         GapResolved(g, live), UNCHANGED server, pc # "idle",
         cp.gap = None \/ cp.claim = None,
         pc \in {"reply", "poll"} => runs[got].op \notin Counted
  PROVE  Once'
<1>1. cmd \in Commands /\ cmd # "dryRun"
  BY DEF Once, AtWhatIsLacking
<1>2. g # None
  OBVIOUS
<1>3. /\ pc' = IF cp.gap = None THEN NextStage(cp') ELSE "digest"
      /\ cmd' = cmd /\ UNCHANGED <<runs, ends>>
  BY <1>1 DEF GapResolved, server
<1>4. /\ cp'.claim = cp.claim /\ cp'.registration = cp.registration /\ cp'.context = cp.context
      /\ cp'.gap = g
      /\ cp'.step \in {cp.step, "gap_resolved"}
  <2>1. CASE g = cp.gap
    BY <1>1, <2>1 DEF GapResolved, NoWrite
  <2>2. CASE g # cp.gap
    <3>1. cp' = WithGap(g) /\ cp \in Checkpoint
      BY <1>1, <2>2 DEF GapResolved, Persist, IInv, Sound
    <3> QED BY <3>1 DEF WithGap, Checkpoint
  <2> QED BY <2>1, <2>2
<1>5. FilledInOrder(cp')
  BY <1>2, <1>4 DEF Once, FilledInOrder
<1>6. \A o \in Counted : Filled(cp, o) => Filled(cp', o)
  BY <1>4 DEF Filled
<1>7. Fits(cp', pc') /\ pc' \notin {"reply", "poll"}
  <2>1. CASE cp.gap = None
    BY <1>3, <2>1, NextStageFits
  <2>2. CASE cp.gap # None
    BY <1>2, <1>3, <1>4, <2>2 DEF Fits
  <2> QED BY <2>1, <2>2
<1>8. AtWhatIsLacking'
  <2>1. Fits(cp, pc)'
    BY <1>7 DEF Fits
  <2> QED BY <1>1, <1>3, <1>7, <2>1 DEF AtWhatIsLacking
<1> QED BY <1>3, <1>5, <1>6, <1>8, GoingOnKeeps

LEMMA GapKnownOnce ==
  ASSUME "dryRun" \notin Commands, IInv, Once, GapKnown \/ RefreshKnown PROVE Once'
<1>1. /\ operator_gap # None => operator_gap \in Gaps
      /\ capGap # None => capGap \in Gaps
  BY DEF IInv, ProcessType
<1>2. pc \in {"gap", "refresh"} /\ UNCHANGED server
  BY DEF GapKnown, RefreshKnown
<1>3. cp.gap = None \/ cp.claim = None
  BY <1>2 DEF Once, AtWhatIsLacking, Fits
<1>4. PICK g \in Gaps, live \in BOOLEAN : GapResolved(g, live)
  BY <1>1 DEF GapKnown, RefreshKnown
<1> QED BY <1>2, <1>3, <1>4, GapResolvedOnce

LEMMA GoToOnce == ASSUME Once, RefreshSkipped \/ DigestKnown PROVE Once'
<1>1. /\ pc \in {"refresh", "digest"} /\ pc' \in {"digest", "claim"}
      /\ UNCHANGED <<cp, cmd, runs, ends>>
  BY DEF RefreshSkipped, DigestKnown, GoTo, server
<1>2. AtWhatIsLacking'
  BY <1>1 DEF Once, AtWhatIsLacking, Fits
<1> QED BY <1>1, <1>2, GoingOnKeeps DEF Once

LEMMA AcceptedOnce ==
  ASSUME IInv, Once, NEW o \in Ops, NEW g \in Gaps \cup {None}, Accepted(o, g),
         pc \notin {"idle", "reply", "poll"}, Lacks(cp, o),
         o \in {"gap_discovery", "gap_claim"} => g # None
  PROVE  Once'
<1>1. PICK st : runs' = Append(runs, [op |-> o, gap |-> g, st |-> st])
  BY DEF Accepted
<1>2. PICK new : new = [op |-> o, gap |-> g, st |-> st]
  OBVIOUS
<1>3. PICK n : n = Len(runs) + 1
  OBVIOUS
<1>4. /\ runs \in Seq(Run) /\ n \in Nat /\ n \notin DOMAIN runs
      /\ DOMAIN runs = 1..Len(runs) /\ DOMAIN runs' = DOMAIN runs \cup {n}
      /\ (\A i \in DOMAIN runs : runs'[i] = runs[i])
      /\ runs'[n] = new /\ new.op = o /\ new.gap = g
  <2>1. runs \in Seq(Run) /\ Len(runs) \in Nat /\ DOMAIN runs = 1..Len(runs)
    BY RunFacts DEF IInv, ServerType
  <2>2. runs' = Append(runs, new) /\ new.op = o /\ new.gap = g
    BY <1>1, <1>2
  <2>3. Len(runs') = n
    BY <1>3, <2>1, <2>2
  <2> QED BY <1>3, <2>1, <2>2, <2>3
<1>5. pc' = "reply" /\ got' = n /\ UNCHANGED <<cp, cmd, ends>>
  BY <1>1, <1>3, <1>4 DEF Accepted
<1>6. FilledInOrder(cp)'
  BY <1>5 DEF Once
<1>7. TargetsKnown'
  BY <1>4 DEF Once, TargetsKnown
<1>8. AtWhatIsLacking'
  <2>1. Lacks(cp', o) /\ runs'[got'].op = o /\ got' \in DOMAIN runs'
    BY <1>4, <1>5
  <2>2. cmd' \in Commands
    BY <1>5 DEF Once, AtWhatIsLacking
  <2>3. Lacks(cp, runs[got].op)'
    BY <2>1 DEF Lacks
  <2>4. Fits(cp, pc)'
    BY <1>5 DEF Fits
  <2> QED BY <2>1, <2>2, <2>3, <2>4 DEF AtWhatIsLacking
<1>9. ASSUME NEW x \in Counted
      PROVE  /\ IsFiniteSet(Submissions(x)) /\ Cardinality(Submissions(x)) \in Nat
             /\ x # o => Submissions(x)' = Submissions(x)
             /\ x = o => Cardinality(Submissions(x)') = Cardinality(Submissions(x)) + 1
  <2>1. IsFiniteSet(Submissions(x)) /\ Cardinality(Submissions(x)) \in Nat
    BY SubmissionsCounted DEF IInv
  <2>2. x # o => Submissions(x)' = Submissions(x)
    BY <1>4 DEF Submissions
  <2>3. x = o => Submissions(x)' = Submissions(x) \cup {n} /\ n \notin Submissions(x)
    BY <1>4 DEF Submissions
  <2> QED BY <2>1, <2>2, <2>3, FS_AddElement
<1>10. CountsHold'
  <2> SUFFICES ASSUME ends < MaxEnds, NEW x \in Counted
               PROVE  /\ Cardinality(Submissions(x)') <= 1 + ends
                      /\ ~Filled(cp, x)' /\ ~AtWork(x)' => Cardinality(Submissions(x)') <= ends
    BY <1>5 DEF CountsHold
  <2>1. ends \in Nat
    BY DEF IInv, FileType
  <2>2. ~AtWork(x) /\ (Filled(cp, x)' <=> Filled(cp, x))
    BY <1>5 DEF AtWork, Filled
  <2>3. /\ Cardinality(Submissions(x)) <= 1 + ends
        /\ ~Filled(cp, x) => Cardinality(Submissions(x)) <= ends
    BY <2>2 DEF Once, CountsHold
  <2>4. CASE x = o
    <3>1. ~Filled(cp, x)
      BY <2>4 DEF Lacks, Filled, Counted
    <3>2. AtWork(x)'
      BY <1>4, <1>5, <2>4 DEF AtWork
    <3> QED BY <1>9, <2>1, <2>3, <2>4, <3>1, <3>2
  <2>5. CASE x # o
    BY <1>9, <2>2, <2>3, <2>5
  <2> QED BY <2>4, <2>5
<1> QED BY <1>6, <1>7, <1>8, <1>10 DEF Once

LEMMA SubmitOnce == ASSUME IInv, Once, Submit PROVE Once'
<1>1. Fits(cp, pc) /\ FilledInOrder(cp)
  BY DEF Once, AtWhatIsLacking
<1>2. CASE SubmitDiscovery
  <2>1. PICK g \in Gaps : Accepted("gap_discovery", g)
    BY <1>2 DEF SubmitDiscovery
  <2>2. pc \in {"gap", "refresh"}
    BY <1>2 DEF SubmitDiscovery, NeedsDiscovery
  <2>3. Lacks(cp, "gap_discovery")
    BY <1>1, <2>2 DEF Lacks, Fits, FilledInOrder
  <2> QED BY <2>1, <2>2, <2>3, AcceptedOnce DEF Ops
<1>3. CASE SubmitPreclaim
  <2>1. Lacks(cp, "preclaim_context") /\ pc = "digest" /\ Accepted("preclaim_context", None)
    BY <1>1, <1>3 DEF SubmitPreclaim, Lacks, Fits
  <2> QED BY <2>1, AcceptedOnce DEF Ops
<1>4. CASE SubmitClaim
  <2>1. Lacks(cp, "gap_claim") /\ pc = "claim" /\ Accepted("gap_claim", ClaimTarget)
    BY <1>1, <1>4 DEF SubmitClaim, Lacks, Fits
  <2>2. cp.gap \in Gaps \cup {None} /\ operator_gap \in Gaps \cup {None}
    BY DEF IInv, Sound, Checkpoint, ProcessType
  <2>3. ClaimTarget \in Gaps \cup {None} /\ ClaimTarget # None
    BY <2>1, <2>2 DEF ClaimTarget, Lacks
  <2> QED BY <2>1, <2>3, AcceptedOnce DEF Ops
<1>5. CASE SubmitRegistration
  <2>1. Lacks(cp, "context_create") /\ pc = "register" /\ Accepted("context_create", None)
    BY <1>1, <1>5 DEF SubmitRegistration, Lacks, Fits
  <2> QED BY <2>1, AcceptedOnce DEF Ops
<1>6. CASE SubmitCompile
  <2>1. Lacks(cp, "context_compile") /\ pc = "compile" /\ Accepted("context_compile", None)
    BY <1>1, <1>6 DEF SubmitCompile, Lacks, Fits
  <2> QED BY <2>1, AcceptedOnce DEF Ops
<1>7. CASE SubmitRealization
  <2>1. Lacks(cp, "governed_realize") /\ pc = "realize" /\ Accepted("governed_realize", None)
    BY <1>7 DEF SubmitRealization, Lacks
  <2> QED BY <2>1, AcceptedOnce DEF Ops
<1> QED BY <1>2, <1>3, <1>4, <1>5, <1>6, <1>7 DEF Submit

LEMMA AsyncOnce ==
  ASSUME "dryRun" \notin Commands, IInv, Once, AcceptedAsync \/ AcceptedWithoutId
  PROVE  Once'
<1>1. pc = "reply" /\ cmd \in Commands /\ cmd # "dryRun" /\ UNCHANGED runs
      /\ got \in DOMAIN runs
  BY DEF Once, AtWhatIsLacking, AcceptedAsync, AcceptedWithoutId, server
<1>2. PICK o : o = runs[got].op
  OBVIOUS
<1>3. Lacks(cp, o)
  BY <1>1, <1>2 DEF Once, AtWhatIsLacking
<1>4. PICK i : cp' = WithRun(o, i)
  BY <1>2 DEF AcceptedAsync, AcceptedWithoutId, Persist
<1>5. /\ cp'.gap = cp.gap /\ cp'.claim = cp.claim /\ cp'.registration = cp.registration
      /\ cp'.context = cp.context /\ cp'.step = o
  BY <1>1, <1>4 DEF WithRun, IInv, Sound, Checkpoint
<1>6. FilledInOrder(cp')
  BY <1>3, <1>5 DEF Once, FilledInOrder, Lacks
<1>7. \A x \in Counted : Filled(cp, x) => Filled(cp', x)
  BY <1>5 DEF Filled
<1>8. CASE AcceptedAsync
  <2>1. pc' = "poll" /\ got' = got /\ cmd' = cmd /\ ends' = ends
    BY <1>8 DEF AcceptedAsync, GoTo
  <2>2. Lacks(cp', runs'[got'].op)
    BY <1>1, <1>2, <1>3, <1>5, <2>1 DEF Lacks
  <2>3. AtWhatIsLacking'
    <3>1. Lacks(cp, runs[got].op)'
      BY <2>2 DEF Lacks
    <3>2. Fits(cp, pc)'
      BY <2>1 DEF Fits
    <3> QED BY <1>1, <2>1, <3>1, <3>2 DEF AtWhatIsLacking
  <2> QED BY <1>1, <1>6, <1>7, <2>1, <2>3, GoingOnKeeps
<1>9. CASE AcceptedWithoutId
  BY <1>1, <1>6, <1>9, RaisingKeeps DEF AcceptedWithoutId
<1> QED BY <1>8, <1>9

LEMMA GapDiscoveredOnce ==
  ASSUME "dryRun" \notin Commands, IInv, Once, GapDiscovered PROVE Once'
<1>1. pc \in {"reply", "poll"} /\ runs[got].op = "gap_discovery" /\ UNCHANGED server
      /\ GapResolved(runs[got].gap, TRUE)
  BY DEF GapDiscovered, ResultReady
<1>2. got \in DOMAIN runs /\ cp.claim = None
  BY <1>1 DEF Once, AtWhatIsLacking, Lacks
<1>3. runs[got].gap \in Gaps
  BY <1>1, <1>2, RunFacts DEF Once, TargetsKnown, IInv, Run
<1>4. runs[got].op \notin Counted
  BY <1>1 DEF Counted
<1> QED BY <1>1, <1>2, <1>3, <1>4, GapResolvedOnce

LEMMA DiscoveryFailsOnce ==
  ASSUME "dryRun" \notin Commands, IInv, Once, DiscoveryFails PROVE Once'
<1>1. /\ \/ pc \in {"gap", "refresh"}
         \/ pc \in {"reply", "poll"} /\ runs[got].op = "gap_discovery"
      /\ UNCHANGED runs
  BY DEF DiscoveryFails, ResultReady, PollRaises, NeedsDiscovery, server
<1>2. cmd \in Commands /\ cmd # "dryRun"
  BY <1>1 DEF Once, AtWhatIsLacking
<1>3. cp.gap # None => cp.claim = None
  BY <1>1 DEF Once, AtWhatIsLacking, Fits, Lacks
<1>4. CASE HasStoryId /\ ~fallback
  <2>1. /\ pc' = IF cp.gap = None THEN "gap" ELSE "refresh"
        /\ UNCHANGED <<cp, cmd, ends>>
    BY <1>2, <1>4 DEF DiscoveryFails
  <2>2. AtWhatIsLacking'
    BY <1>2, <1>3, <2>1 DEF AtWhatIsLacking, Fits
  <2>3. pc \in {"reply", "poll"} => runs[got].op \notin Counted
    BY <1>1 DEF Counted
  <2> QED BY <1>1, <2>1, <2>2, <2>3, GoingOnKeeps DEF Once
<1>5. CASE ~(HasStoryId /\ ~fallback)
  <2>1. DiscoveryError /\ Raises
    BY <1>5 DEF DiscoveryFails
  <2>2. PICK step \in {"gap_resolution", "gap_resolved"} :
          cp' = [cp EXCEPT !.step = step, !.terminal = FALSE]
    BY <1>2, <2>1 DEF DiscoveryError, Persist
  <2>3. /\ cp'.gap = cp.gap /\ cp'.claim = cp.claim /\ cp'.registration = cp.registration
        /\ cp'.context = cp.context /\ cp'.step \notin Ops
    BY <2>2 DEF IInv, Sound, Checkpoint, Ops
  <2>4. FilledInOrder(cp')
    BY <2>3, SameFields
  <2> QED BY <1>1, <2>1, <2>4, RaisingKeeps
<1> QED BY <1>4, <1>5

LEMMA PreclaimOnce == ASSUME Once, PreclaimReady PROVE Once'
<1>1. /\ pc \in {"reply", "poll"} /\ runs[got].op = "preclaim_context" /\ pc' = "claim"
      /\ UNCHANGED <<cp, cmd, runs, ends>>
  BY DEF PreclaimReady, ResultReady, server
<1>2. AtWhatIsLacking'
  BY <1>1 DEF Once, AtWhatIsLacking, Fits, Lacks
<1>3. runs[got].op \notin Counted
  BY <1>1 DEF Counted
<1> QED BY <1>1, <1>2, <1>3, GoingOnKeeps DEF Once

LEMMA StepSucceedsOnce == ASSUME IInv, Once, StepSucceeds PROVE Once'
<1>1. PICK o \in StepOps : o = runs[got].op
  BY DEF StepSucceeds
<1>2. /\ pc \in {"reply", "poll"} /\ cp' = WithResult(o) /\ UNCHANGED runs
      /\ IF o = "governed_realize" THEN Completes ELSE Continue(cp')
  BY <1>1 DEF StepSucceeds, ResultReady, Persist, server
<1>3. got \in DOMAIN runs /\ Lacks(cp, o) /\ FilledInOrder(cp)
  BY <1>1, <1>2 DEF Once, AtWhatIsLacking
<1>4. got # None /\ cp \in Checkpoint
  BY <1>3, RunFacts DEF IInv, Sound
<1>5. AtWhatIsLacking' /\ ends' = ends
  BY <1>2, ContinueFits, OverFits DEF Completes
<1>6. /\ FilledInOrder(cp') /\ (o \in Counted => Filled(cp', o))
      /\ \A x \in Counted : Filled(cp, x) => Filled(cp', x)
  <2>1. CASE o = "gap_claim"
    <3>1. runs[got].gap # None
      BY <1>1, <1>3, <2>1 DEF Once, TargetsKnown
    <3>2. /\ cp'.gap # None /\ cp'.claim = got /\ cp'.registration = cp.registration
          /\ cp'.context = cp.context /\ cp'.step = "claim_succeeded"
      BY <1>2, <1>4, <2>1, <3>1 DEF WithResult, Checkpoint
    <3> QED BY <1>3, <1>4, <2>1, <3>2 DEF FilledInOrder, Filled
  <2>2. CASE o = "context_create"
    <3>1. /\ cp'.gap = cp.gap /\ cp'.claim = cp.claim /\ cp'.registration = got
          /\ cp'.context = cp.context /\ cp'.step = "context_created"
      BY <1>2, <1>4, <2>2 DEF WithResult, Checkpoint
    <3> QED BY <1>3, <1>4, <2>2, <3>1 DEF FilledInOrder, Filled, Lacks
  <2>3. CASE o = "context_compile"
    <3>1. /\ cp'.gap = cp.gap /\ cp'.claim = cp.claim /\ cp'.registration = cp.registration
          /\ cp'.context = got /\ cp'.step = "context_compiled"
      BY <1>2, <1>4, <2>3 DEF WithResult, Checkpoint
    <3> QED BY <1>3, <1>4, <2>3, <3>1 DEF FilledInOrder, Filled, Lacks
  <2>4. CASE o = "governed_realize"
    <3>1. /\ cp'.gap = cp.gap /\ cp'.claim = cp.claim /\ cp'.registration = cp.registration
          /\ cp'.context = cp.context /\ cp'.step = "receipt_ready"
      BY <1>2, <1>4, <2>4 DEF WithResult, Checkpoint
    <3> QED BY <2>4, <3>1, SameFields DEF Ops, Counted
  <2> QED BY <2>1, <2>2, <2>3, <2>4 DEF StepOps
<1> QED BY <1>1, <1>2, <1>5, <1>6, GoingOnKeeps

LEMMA RaisingOnce == ASSUME IInv, Once, StepFails \/ Interrupted \/ TornWrite PROVE Once'
<1>1. Raises /\ UNCHANGED runs /\ cp' \in {cp, NoCheckpoint}
  BY DEF StepFails, Interrupted, TornWrite, server
<1>2. FilledInOrder(cp) /\ FilledInOrder(NoCheckpoint)
  BY DEF Once, FilledInOrder, NoCheckpoint
<1>3. FilledInOrder(cp')
  BY <1>1, <1>2
<1> QED BY <1>1, <1>3, RaisingKeeps

LEMMA ServerOnce == ASSUME IInv, Once, NEW i \in RunIds, RunEnds(i) \/ RunExpires(i) PROVE Once'
<1>1. /\ DOMAIN runs' = DOMAIN runs
      /\ \A j \in DOMAIN runs : runs'[j].op = runs[j].op /\ runs'[j].gap = runs[j].gap
  <2>1. CASE RunEnds(i)
    <3>1. PICK st : runs' = [runs EXCEPT ![i].st = st]
      BY <2>1 DEF RunEnds
    <3>2. i \in DOMAIN runs /\ runs[i] \in Run
      BY <2>1, RunFacts DEF RunEnds, Awaited, IInv
    <3>3. PICK r : r = [runs[i] EXCEPT !.st = st]
      OBVIOUS
    <3>4. r.op = runs[i].op /\ r.gap = runs[i].gap /\ runs' = [runs EXCEPT ![i] = r]
      BY <3>1, <3>2, <3>3 DEF Run
    <3> QED BY <3>2, <3>4
  <2>2. CASE RunExpires(i)
    BY <2>2 DEF RunExpires
  <2> QED BY <2>1, <2>2
<1>2. UNCHANGED <<cp, cmd, pc, got, ends>>
  BY DEF RunEnds, RunExpires, process
<1>3. \A o : Submissions(o)' = Submissions(o)
  BY <1>1 DEF Submissions
<1>4. FilledInOrder(cp)' /\ TargetsKnown'
  BY <1>1, <1>2 DEF Once, TargetsKnown
<1>5. AtWhatIsLacking'
  BY <1>1, <1>2 DEF Once, AtWhatIsLacking, Fits, Lacks
<1>6. \A o \in Counted : (Filled(cp, o)' <=> Filled(cp, o)) /\ (AtWork(o) => AtWork(o)')
  BY <1>1, <1>2 DEF Once, AtWhatIsLacking, Filled, AtWork
<1>7. CountsHold'
  BY <1>2, <1>3, <1>6 DEF Once, CountsHold
<1> QED BY <1>4, <1>5, <1>7 DEF Once

LEMMA InitOnce == ASSUME Init PROVE Once
<1>1. /\ cp = NoCheckpoint /\ pc = "idle" /\ runs = <<>> /\ ends = 0
  BY DEF Init
<1>2. DOMAIN runs = {}
  BY <1>1
<1>3. \A o : Submissions(o) = {}
  BY <1>2 DEF Submissions
<1>4. FilledInOrder(cp)
  BY <1>1 DEF FilledInOrder, NoCheckpoint
<1>5. AtWhatIsLacking /\ TargetsKnown
  BY <1>1, <1>2 DEF AtWhatIsLacking, Fits, TargetsKnown
<1>6. Cardinality({}) = 0
  BY FS_EmptySet
<1>7. CountsHold
  <2>1. 0 <= 1 + ends /\ 0 <= ends
    BY <1>1
  <2> QED BY <1>3, <1>6, <2>1, Zenon DEF CountsHold
<1> QED BY <1>4, <1>5, <1>7 DEF Once

LEMMA StepOnce ==
  ASSUME "dryRun" \notin Commands, IInv, Once, [Next]_vars
  PROVE  Once'
<1>1. CASE UNCHANGED vars
  <2>1. UNCHANGED <<cp, cmd, pc, got, runs, ends>>
    BY <1>1 DEF vars, process, server
  <2>2. AtWhatIsLacking'
    BY <2>1 DEF Once, AtWhatIsLacking, Fits, Lacks
  <2> QED BY <2>1, <2>2, GoingOnKeeps DEF Once
<1>2. ASSUME NEW c \in Commands, NEW g \in OperatorGaps \cup {None}, Invoke(c, g)
      PROVE  Once'
  BY <1>2, InvokeOnce
<1>3. CASE ClientStep
  BY <1>3, DiscoverOnce, RecoverOnce, GapKnownOnce, GoToOnce, SubmitOnce, AsyncOnce,
     GapDiscoveredOnce, DiscoveryFailsOnce, PreclaimOnce, StepSucceedsOnce, RaisingOnce
     DEF ClientStep
<1>4. CASE AcceptedWithoutId \/ Interrupted \/ TornWrite
  BY <1>4, AsyncOnce, RaisingOnce
<1>5. ASSUME NEW i \in RunIds, RunEnds(i) \/ RunExpires(i) PROVE Once'
  BY <1>5, ServerOnce
<1> QED BY <1>1, <1>2, <1>3, <1>4, <1>5 DEF Next

\* Across all resumptions of a flow that no dry run interferes with, a claim,
\* a registration or a compilation is submitted again only after a process has
\* ended without completing.
THEOREM StepsAreNotRepeated ==
  ASSUME "dryRun" \notin Commands
  PROVE  Spec => []OneSubmissionPerProcess
<1>1. Init => IInv /\ Once
  BY InitIInv, InitOnce
<1>2. IInv /\ Once /\ [Next]_vars => (IInv /\ Once)'
  BY StepIInv, StepOnce
<1>3. IInv /\ Once => OneSubmissionPerProcess
  BY DEF Once, CountsHold, OneSubmissionPerProcess, Counted
<1> QED BY <1>1, <1>2, <1>3, PTL DEF Spec
=============================================================================
