---------------------------- MODULE ProofRunners ----------------------------
(***************************************************************************)
(* The three runners of the SDK that a participant scripts against the MCP  *)
(* boundary: ReadOnlySmokeRunner, DemoFlowRunner and GovernanceProofRunner, *)
(* with the VerificationRunner inside the last two.  One runner object goes *)
(* through its phases, possibly twice, while the developer works on in the  *)
(* repository, the server changes what it offers, and the token runs out.  *)
(*                                                                         *)
(* A tree is a state of the checkout and its HEAD; trees are numbered as    *)
(* they come, 0 is no commit known.  Contract versions are numbered alike.  *)
(***************************************************************************)
EXTENDS Naturals, Sequences, FiniteSets

CONSTANTS
  Kinds,        \* which of the runners may be made
  Collectors,   \* how many collectors are registered
  MaxRuns,      \* run() on one runner object
  MaxMoves      \* changes of the tree, the contract and the token together

ASSUME RunnersAssumption ==
  /\ Kinds \subseteq {"smoke", "demo", "governance", "local"}
  /\ Collectors \in Nat /\ MaxRuns \in Nat /\ MaxMoves \in Nat

VARIABLES
  kind,         \* the runner; "local" is governance without a base_url
  tree,         \* the checkout
  offer,        \* version of the capabilities the server serves
  token,        \* whether the server still accepts the token
  moves,        \* how often these three changed
  runs,         \* runs begun
  at,           \* the phase the runner is in, "idle", "done" or "raised"
  steps,        \* phase -> its result, of this run
  caps,         \* version in _capabilities_data
  job,          \* the verification pass under way
  kept,         \* the bundle the runner or the result holds
  reported,     \* verification_outputs of the result
  answered,     \* phases the server answered in this run, whatever it said
  submitted     \* bundles given to the submission adapter since run() was called

world  == <<tree, offer, token, moves>>
runner == <<runs, at, steps, caps, job, kept, reported, answered, submitted>>
runnerVars == <<kind, world, runner>>

Phases(k) ==
  CASE k = "smoke" -> <<"discovery", "identity", "context", "readonly">>
    [] k = "demo"  -> <<"discovery", "identity", "context", "posture",
                        "verification", "bundle", "handoff">>
    [] OTHER       -> <<"registration", "context", "implementation",
                        "verification", "submission", "evaluation", "promotion">>

Governed == kind \in {"governance", "local"}

NoResult   == [success |-> FALSE, scaffolded |-> FALSE, commit |-> 0]
Passed     == [NoResult EXCEPT !.success = TRUE]
Scaffolded == [NoResult EXCEPT !.scaffolded = TRUE]
NoJob      == [for |-> "none", commit |-> 0, outs |-> <<>>, left |-> 0]
NoBundle   == [run |-> 0, commit |-> 0, outs |-> <<>>, version |-> 0]

RunnerInit ==
  /\ kind \in Kinds
  /\ tree = 1 /\ offer = 1 /\ token = TRUE /\ moves = 0
  /\ runs = 0 /\ at = "idle" /\ steps = <<>> /\ caps = 0
  /\ job = NoJob /\ kept = NoBundle /\ reported = <<>>
  /\ answered = {} /\ submitted = <<>>

-----------------------------------------------------------------------------
(* The world.                                                              *)

Moves(dt, dc, dk) ==
  /\ moves < MaxMoves /\ at \notin {"done", "raised"}
  /\ moves' = moves + 1
  /\ tree' = tree + dt /\ offer' = offer + dc /\ token' = (token /\ ~dk)
  /\ UNCHANGED <<kind, runner>>

Commits        == kind # "smoke" /\ Moves(1, 0, FALSE)
OfferChanges == kind = "demo" /\ Moves(0, 1, FALSE)
TokenRunsOut   == kind # "local" /\ token /\ Moves(0, 0, TRUE)

-----------------------------------------------------------------------------
(* One run.                                                                *)

(* A governance runner keeps the bundle of the run before, a demo runner    *)
(* the capabilities.                                                       *)
Begin ==
  /\ at \in {"idle", "done"} /\ runs < MaxRuns
  /\ runs' = runs + 1 /\ at' = Phases(kind)[1]
  /\ steps' = <<>> /\ answered' = {} /\ reported' = <<>> /\ submitted' = <<>>
  /\ kept' = IF kind = "demo" THEN NoBundle ELSE kept
  /\ UNCHANGED <<kind, world, caps, job>>

Following(ph) ==
  LET q == Phases(kind)
      i == CHOOSE j \in 1 .. Len(q) : q[j] = ph
  IN  IF i = Len(q) THEN "done" ELSE q[i + 1]

(* The result of the phase is appended and the next one begins.            *)
Phase(res) ==
  /\ steps' = Append(steps, res)
  /\ at' = Following(at)

(* Without an identity smoke and demo skip what is left; a governance run   *)
(* goes on whatever a phase said.                                          *)
SkipRest ==
  /\ steps' = [i \in 1 .. Len(Phases(kind)) |->
                 IF i <= Len(steps) THEN steps[i] ELSE NoResult]
  /\ at' = "done"

(* GET /mcp/v1/capabilities needs no token.  TransportError and SchemaError *)
(* are results; _capabilities_data stays what it was.                      *)
Discovery ==
  /\ at = "discovery"
  /\ \/ /\ Phase(Passed) /\ caps' = offer /\ answered' = answered \cup {at}
     \/ /\ Phase(NoResult) /\ UNCHANGED <<caps, answered>>
  /\ UNCHANGED <<kind, world, runs, job, kept, reported, submitted>>

(* A body that is JSON but no object is a success of smoke and an uncaught  *)
(* validation error of demo.                                               *)
Identity ==
  /\ at = "identity"
  /\ \/ /\ token /\ Phase(Passed) /\ answered' = answered \cup {at}
     \/ /\ SkipRest /\ UNCHANGED answered
     \/ /\ token /\ kind = "demo" /\ at' = "raised" /\ UNCHANGED <<steps, answered>>
  /\ UNCHANGED <<kind, world, runs, caps, job, kept, reported, submitted>>

(* POST /mcp/v1/runs/start passes on any object that comes with 200, 201 or *)
(* 202, also one that says ok false, rejected or deferred: neither           *)
(* ContextClient nor a phase looks at it. All else is a result of the phase.*)
Invoke ==
  \/ token /\ Phase(Passed) /\ answered' = answered \cup {at}
  \/ Phase(NoResult) /\ UNCHANGED answered

(* context.compile and gaps.list; the run goes on whatever comes of them.   *)
AskContext ==
  /\ at \in {"context", "readonly"} /\ ~Governed
  /\ Invoke
  /\ UNCHANGED <<kind, world, runs, caps, job, kept, reported, submitted>>

(* Without a base_url nothing is asked, and the phase succeeds.             *)
InheritContext ==
  /\ at = "context" /\ Governed
  /\ IF kind = "local" THEN Phase(Passed) /\ UNCHANGED answered ELSE Invoke
  /\ UNCHANGED <<kind, world, runs, caps, job, kept, reported, submitted>>

Posture ==
  /\ at = "posture" /\ Phase(Passed)
  /\ UNCHANGED <<kind, world, runs, caps, job, kept, reported, answered, submitted>>

-----------------------------------------------------------------------------
(* Verification.                                                           *)

(* git rev-parse HEAD: unknown where git or the repository is missing or    *)
(* slow.                                                                   *)
SourceInfo == {tree, 0}

(* An OSError of the subprocess other than a missing git is not caught in   *)
(* phase 3 of the governance run.                                          *)
Implementation ==
  /\ at = "implementation"
  /\ \/ \E c \in SourceInfo : Phase([Passed EXCEPT !.commit = c])
     \/ at' = "raised" /\ UNCHANGED steps
  /\ UNCHANGED <<kind, world, runs, caps, job, kept, reported, answered, submitted>>

(* VerificationRunner.run, for a phase or for submit_proof without a        *)
(* bundle: the source is captured before the collectors run.                *)
CaptureSource ==
  /\ at \in {"verification", "bundle", "direct"} /\ job = NoJob
  /\ \E c \in SourceInfo :
       job' = [for |-> at, commit |-> c, outs |-> <<>>, left |-> Collectors]
  /\ UNCHANGED <<kind, world, runs, at, steps, caps, kept, reported, answered, submitted>>

(* A collector runs on the checkout as it is now.  One that raises has      *)
(* failed; what is no VerificationOutput is left out.                      *)
Collect ==
  /\ job # NoJob /\ job.left > 0
  /\ \E outs \in {<<[passed |-> b, tree |-> tree]>> : b \in BOOLEAN} \cup {<<>>} :
       job' = [job EXCEPT !.outs = @ \o outs, !.left = @ - 1]
  /\ UNCHANGED <<kind, world, runs, at, steps, caps, kept, reported, answered, submitted>>

(* Mutant: the source is captured when the bundle is put together.          *)
AssembledLate ==
  [run |-> runs, commit |-> tree, outs |-> job.outs,
   version |-> IF kind = "demo" THEN caps ELSE 0]

Assembled ==
  [run |-> runs, commit |-> job.commit, outs |-> job.outs,
   version |-> IF kind = "demo" THEN caps ELSE 0]

OutsPassed(outs) == \A i \in 1 .. Len(outs) : outs[i].passed

(* Mutant: no verification at all has passed.                               *)
BundlePassedEmpty(b) == OutsPassed(b.outs)

BundlePassed(b) == b.outs # <<>> /\ OutsPassed(b.outs)

(* With no output a governance run passes.                                  *)
Verified(b) == BundlePassed(b) \/ (Governed /\ b.outs = <<>>)

Result(ok) == IF ok THEN Passed ELSE NoResult

(* demo: the outputs of a pass that failed are not reported.                *)
VerificationEnds ==
  /\ at = "verification" /\ job.for = at /\ job.left = 0
  /\ LET b == Assembled IN
       /\ Phase(Result(Verified(b)))
       /\ kept' = IF Governed THEN b ELSE kept
       /\ reported' = IF kind = "demo" /\ Verified(b) THEN b.outs ELSE reported
  /\ job' = NoJob
  /\ UNCHANGED <<kind, world, runs, caps, answered, submitted>>

(* demo: the collectors have run once more for the bundle.                  *)
BundleEnds ==
  /\ at = "bundle" /\ job.for = at /\ job.left = 0
  /\ Phase([Passed EXCEPT !.scaffolded = TRUE])
  /\ kept' = Assembled /\ job' = NoJob
  /\ UNCHANGED <<kind, world, runs, caps, reported, answered, submitted>>

(* An exception of the pass is a result of the phase: the governance runner *)
(* still holds the bundle of the run before.                                *)
PassRaises ==
  /\ at \in {"verification", "bundle"} /\ job = NoJob
  /\ Phase(NoResult)
  /\ UNCHANGED <<kind, world, runs, caps, job, kept, reported, answered, submitted>>

-----------------------------------------------------------------------------
(* Adapters: the local ones answer that they are not supported, others are  *)
(* given by the caller.                                                    *)

Answers == {[supported |-> FALSE, success |-> FALSE],
            [supported |-> TRUE, success |-> FALSE],
            [supported |-> TRUE, success |-> TRUE]}

Scaffold(a) == IF a.supported /\ a.success THEN Passed ELSE Scaffolded

RegisterContract ==
  /\ at = "registration"
  /\ \E a \in Answers : Phase(Scaffold(a))
  /\ UNCHANGED <<kind, world, runs, caps, job, kept, reported, answered, submitted>>

Handoff ==
  /\ at \in {"handoff", "submission"}
  /\ IF kept = NoBundle
     THEN Phase(Scaffolded) /\ UNCHANGED submitted
     ELSE /\ \E a \in Answers :
               Phase(IF Governed THEN Scaffold(a)
                     ELSE [Result(a.success) EXCEPT !.scaffolded = ~a.supported])
          /\ submitted' = Append(submitted, kept)
  /\ UNCHANGED <<kind, world, runs, caps, job, kept, reported, answered>>

(* The verdict is asked for whether or not anything was submitted.         *)
Evaluation ==
  /\ at = "evaluation"
  /\ \E a \in Answers : Phase(Scaffold(a))
  /\ UNCHANGED <<kind, world, runs, caps, job, kept, reported, answered, submitted>>

Promotion ==
  /\ at = "promotion" /\ Phase(Scaffolded)
  /\ UNCHANGED <<kind, world, runs, caps, job, kept, reported, answered, submitted>>

(* submit_proof() of a demo runner, outside a run: a bundle of its own.     *)
SubmitProof ==
  /\ kind = "demo" /\ at = "idle" /\ submitted = <<>> /\ at' = "direct"
  /\ UNCHANGED <<kind, world, runs, steps, caps, job, kept, reported, answered, submitted>>

SubmitProofEnds ==
  /\ at = "direct" /\ job.for = at /\ job.left = 0
  /\ submitted' = Append(submitted, Assembled)
  /\ job' = NoJob /\ at' = "idle"
  /\ UNCHANGED <<kind, world, runs, steps, caps, kept, reported, answered>>

RunnerNext ==
  \/ Commits \/ OfferChanges \/ TokenRunsOut
  \/ Begin \/ Discovery \/ Identity \/ AskContext \/ InheritContext \/ Posture \/ Implementation
  \/ CaptureSource \/ Collect \/ VerificationEnds \/ BundleEnds \/ PassRaises
  \/ RegisterContract \/ Handoff \/ Evaluation \/ Promotion
  \/ SubmitProof \/ SubmitProofEnds

RunnerSpec == RunnerInit /\ [][RunnerNext]_runnerVars

-----------------------------------------------------------------------------
(* Verdicts.                                                               *)

Succeeded(results) == \A r \in results : r.success
Results  == {steps[i] : i \in 1 .. Len(steps)}
Executed == {r \in Results : ~r.scaffolded}

(* SmokeResult.all_passed, DemoResult.all_passed, and "LAUNCH-READY".       *)
AllPassed ==
  CASE kind = "smoke" -> Results # {} /\ Succeeded(Results)
    [] kind = "demo"  -> Executed # {} /\ Succeeded(Executed)
    [] OTHER          -> Succeeded(Executed)

-----------------------------------------------------------------------------
(* Properties.                                                             *)

(* A verdict of success is about this run, although the runner keeps         *)
(* capabilities and bundles from the run before: in this run the server      *)
(* answered every phase of smoke, and discovery, identity and context of     *)
(* demo, which reports outputs that all passed and handed over a bundle of   *)
(* this run; a governance run had an answer to its context, unless it is     *)
(* local, and made a bundle of its own in which nothing failed (run,         *)
(* all_passed, all_supported_passed).  That the server answered does not say *)
(* that it granted: a refusal with status 200 passes a phase (_invoke).      *)
PassIsOfThisRun ==
  at = "done" /\ AllPassed =>
    CASE kind = "smoke" -> answered = {"discovery", "identity", "context", "readonly"}
      [] kind = "demo"  ->
           /\ answered = {"discovery", "identity", "context"}
           /\ reported # <<>> /\ OutsPassed(reported)
           /\ kept.run = runs /\ \E i \in 1 .. Len(submitted) : submitted[i] = kept
      [] OTHER ->
           /\ kind = "governance" => "context" \in answered
           /\ kept.run = runs /\ OutsPassed(kept.outs)

(* A bundle given to the adapter never claims a commit that is newer than   *)
(* what one of its collectors ran on, nor a contract the runner has not     *)
(* seen; and the implementation event of a run is not newer than the bundle *)
(* of that run (VerificationRunner.run, _phase_implementation).             *)
ProvenanceIsTrue ==
  /\ \A i \in 1 .. Len(submitted) :
       LET b == submitted[i] IN
         /\ \A j \in 1 .. Len(b.outs) : b.commit <= b.outs[j].tree
         /\ b.version <= caps
  /\ Governed /\ kept.run = runs /\ kept.commit # 0 =>
       \A i \in 1 .. Len(steps) : steps[i].commit <= kept.commit
=============================================================================
