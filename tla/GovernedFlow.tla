---------------------------- MODULE GovernedFlow ----------------------------
(***************************************************************************)
(* The resumable governed flow of one repository (keyhole_sdk:             *)
(* governed_flow.py over governed_demo.py): resolve a gap, claim it,       *)
(* register the repository, compile a context, realize.  Every step is a   *)
(* call of the MCP server that is answered at once or by an asynchronous   *)
(* run, and its result is checkpointed in .keyhole/governed-runs/          *)
(* latest.json, from which a later process resumes.                        *)
(*                                                                         *)
(* Processes run one at a time and can end at any point: killed, or by an  *)
(* exception of HTTP or of the server's answer.  The server is external:   *)
(* it accepts a submission, executes it now or later and may forget a run. *)
(***************************************************************************)
EXTENDS Naturals, Sequences, FiniteSets

CONSTANTS
  Gaps,            \* canonical gap ids
  OperatorGaps,    \* those an operator passes with --gap-id
  CapabilityGaps,  \* those the capabilities document may name
  None,            \* no gap, no run, an empty checkpoint field
  Commands,        \* of {"run", "resume", "dryRun", "status"}
  Outcomes,        \* what the result of a run may be
  RunsExpire,      \* may the server forget a run?
  WritesTear,      \* may a crash tear latest.json?
  HasStoryId,      \* does the repository declare a story id?
  MaxRuns,         \* bound on submissions
  MaxEnds          \* bound on interruptions, and cap of their count

\* Gap discovery, the context compiled for the digest of a claim, and the
\* four steps that change the server, named as _state_step names them.
Ops == {"gap_discovery", "preclaim_context", "gap_claim", "context_create",
        "context_compile", "governed_realize"}

\* A result carries what the step wants ("flat"), carries it only inside its
\* data envelope ("nested"), or lacks it ("bare").
Shapes == {"flat", "nested", "bare"}

ASSUME GapsAssumption == OperatorGaps \subseteq Gaps /\ CapabilityGaps \subseteq Gaps
ASSUME CommandsAssumption == Commands \subseteq {"run", "resume", "dryRun", "status"}
ASSUME OutcomesAssumption == Outcomes \subseteq Shapes \cup {"failed"}
ASSUME FlagsAssumption == RunsExpire \in BOOLEAN /\ WritesTear \in BOOLEAN /\ HasStoryId \in BOOLEAN
ASSUME BoundsAssumption == MaxRuns \in Nat /\ MaxEnds \in Nat
ASSUME NoneAssumption == None \notin Nat \cup Gaps

\* The "step" of a checkpoint.
Steps == Ops \cup {"", "gap_resolution", "gap_resolved", "claim_succeeded", "context_created",
                   "context_compiled", "preclaim_context_ready", "receipt_ready"}

RunIds == 1..MaxRuns

\* An accepted submission.  gap is the answer of a discovery, the target of a
\* claim.
Run == [op : Ops, gap : Gaps \cup {None}, st : Shapes \cup {"active", "failed"}]

Checkpoint == [gap : Gaps \cup {None}, step : Steps, terminal : BOOLEAN,
               claim : RunIds \cup {None}, registration : RunIds \cup {None},
               context : RunIds \cup {None}, receipt : RunIds \cup {None},
               run : RunIds \cup {None}]

VARIABLES
  file,          \* latest.json: "missing", "written", or "torn" by a crash
  cp,            \* its content, and current_state of the process at work
  cmd,           \* the command at work, or None
  operator_gap,  \* its --gap-id, or None
  pc,            \* where it stands
  capGap,        \* the gap named by the capabilities it discovered, or None
  verified,      \* gap_id_claimable_verified
  fallback,      \* gap discovery is in its second query
  got,           \* the run whose result it waits for, or None
  sync,          \* its result came with the answer to its submission
  runs,          \* the server's accepted submissions
  forgotten,     \* the run of the checkpoint if the server has forgotten it
  ends           \* how many processes ended without completing, up to MaxEnds

process == <<cmd, operator_gap, pc, capGap, verified, fallback, got, sync>>
server == <<runs, forgotten>>
vars == <<file, cp, process, server, ends>>

NoCheckpoint ==
  [gap |-> None, step |-> "", terminal |-> FALSE, claim |-> None, registration |-> None,
   context |-> None, receipt |-> None, run |-> None]

Stages == {"gap", "refresh", "digest", "claim", "register", "compile", "realize"}
Places == {"idle", "discover", "recover", "reply", "poll"} \cup Stages

Init ==
  /\ file = "missing" /\ cp = NoCheckpoint
  /\ cmd = None /\ operator_gap = None /\ pc = "idle" /\ capGap = None
  /\ verified = FALSE /\ fallback = FALSE /\ got = None /\ sync = FALSE
  /\ runs = <<>> /\ forgotten = None /\ ends = 0

-----------------------------------------------------------------------------
(* Helpers.                                                                *)

Succeeded(i) == runs[i].st \in {"flat", "nested"}

\* The receipt of realization i carries a receipt_id: _normalize_governance_receipt
\* does not look for it inside the data envelope.
HasReceiptId(i) == runs[i].st = "flat"

Finished(c) == c.terminal /\ c.receipt # None /\ HasReceiptId(c.receipt)

\* Mutant: the checkpoint of the claim is not consulted.
NextStageIgnoresClaim(c) ==
  IF c.gap = None THEN "gap"
  ELSE IF c.registration = None THEN "refresh"
  ELSE IF c.context = None THEN "compile"
  ELSE "realize"

\* The first step of resume_governed_repo_flow that the checkpoint lacks.
NextStage(c) ==
  IF c.gap = None THEN "gap"
  ELSE IF c.claim = None THEN "refresh"
  ELSE IF c.registration = None THEN "register"
  ELSE IF c.context = None THEN "compile"
  ELSE IF Finished(c) THEN "idle"
  ELSE "realize"

\* _persist_state: merge, write, keep.
Persist(c) == cp' = c /\ file' = "written"

GoTo(place) ==
  /\ pc' = place
  /\ UNCHANGED <<cmd, operator_gap, capGap, verified, fallback, got, sync>>

\* The process ends and its memory with it.
Over ==
  /\ cmd' = None /\ operator_gap' = None /\ pc' = "idle" /\ capGap' = None
  /\ verified' = FALSE /\ fallback' = FALSE /\ got' = None /\ sync' = FALSE

\* ... having completed.
Completes == Over /\ UNCHANGED ends

\* ... by an exception.
Raises == Over /\ ends' = IF ends < MaxEnds THEN ends + 1 ELSE ends

\* After a step with checkpoint c the next stage, or the end of the process.
Continue(c) ==
  IF NextStage(c) = "idle" THEN Completes
  ELSE /\ pc' = NextStage(c) /\ got' = None /\ sync' = FALSE /\ fallback' = FALSE
       /\ UNCHANGED <<cmd, operator_gap, capGap, verified, ends>>

-----------------------------------------------------------------------------
(* A process starts.                                                       *)

\* load_last_state, or inspect_repo when there is no state.  A dry run
\* inspects without loading or writing; a status of a terminal state is
\* answered from the file, one without state is an error.
Invoke(c, g) ==
  /\ pc = "idle"
  /\ c # "dryRun" => file # "torn"
  /\ c = "status" => file = "written" /\ ~cp.terminal
  /\ g # None => c \in {"run", "dryRun"}
  /\ cmd' = c /\ operator_gap' = g /\ pc' = "discover"
  /\ file' = IF c \in {"run", "resume"} THEN "written" ELSE file
  /\ UNCHANGED <<cp, capGap, verified, fallback, got, sync, server, ends>>

\* discover: the capabilities may name the gap.
Discover ==
  /\ pc = "discover"
  /\ capGap' \in CapabilityGaps \cup {None}
  /\ pc' = IF cmd = "dryRun" THEN "gap" ELSE "recover"
  /\ UNCHANGED <<file, cp, cmd, operator_gap, verified, fallback, got, sync, server, ends>>

-----------------------------------------------------------------------------
(* _recover_pending_run.                                                   *)

\* Mutant: resume returns what it has recovered.
AfterRecoveryReturns(c) == Completes

\* The next step after recovery with checkpoint c.
AfterRecovery(c) == IF cmd = "status" THEN Completes ELSE Continue(c)

PendingSaved == ~cp.terminal /\ cp.run # None

RecoverNothing ==
  /\ pc = "recover"
  /\ ~PendingSaved
  /\ AfterRecovery(cp)
  /\ UNCHANGED <<file, cp, server>>

\* 404: RUN_NOT_FOUND is saved and raised; the run stays in the checkpoint.
RecoverMissing ==
  /\ pc = "recover"
  /\ PendingSaved
  /\ forgotten = cp.run
  /\ Persist([cp EXCEPT !.terminal = FALSE])
  /\ Raises
  /\ UNCHANGED server

\* A failed run makes the checkpoint terminal, which the next resume takes as
\* "nothing to recover".
RecoverFailed ==
  /\ pc = "recover"
  /\ PendingSaved
  /\ forgotten # cp.run /\ runs[cp.run].st = "failed"
  /\ Persist([cp EXCEPT !.terminal = TRUE])
  /\ Raises
  /\ UNCHANGED server

\* Still active: the status is saved, and resume goes on to the next stage.
RecoverPending ==
  /\ pc = "recover"
  /\ PendingSaved
  /\ forgotten # cp.run /\ runs[cp.run].st = "active"
  /\ Persist([cp EXCEPT !.terminal = FALSE])
  /\ AfterRecovery(cp')
  /\ UNCHANGED server

\* Mutant: the result goes to the first field that is still empty.
UpdatedFromResultByGuess(i) ==
  LET c == [cp EXCEPT !.run = None, !.terminal = FALSE]
  IN  IF c.gap = None THEN [c EXCEPT !.gap = runs[i].gap, !.step = "gap_resolved"]
      ELSE IF c.claim = None THEN [c EXCEPT !.claim = i, !.step = "claim_succeeded"]
      ELSE IF c.registration = None
        THEN [c EXCEPT !.registration = i, !.step = "context_created"]
      ELSE IF c.context = None THEN [c EXCEPT !.context = i, !.step = "context_compiled"]
      ELSE [c EXCEPT !.receipt = i, !.terminal = TRUE, !.step = "receipt_ready"]

\* _update_state_from_result for the finished run i: cp.step says whose result
\* it is.  A claim and a context are stored even when the result lacks their
\* id, as an empty field; a registration id is not looked for in the envelope.
UpdatedFromResult(i) ==
  LET c == [cp EXCEPT !.run = None, !.terminal = FALSE]
      found == IF Succeeded(i) THEN i ELSE None
  IN  CASE cp.step = "gap_discovery" /\ Succeeded(i) ->
             [c EXCEPT !.gap = runs[i].gap, !.step = "gap_resolved"]
        [] cp.step = "gap_claim" ->
             [c EXCEPT !.claim = found, !.step = "claim_succeeded"]
        [] cp.step = "context_create" ->
             [c EXCEPT !.registration = IF runs[i].st = "flat" THEN i ELSE None,
                       !.step = "context_created"]
        [] cp.step = "preclaim_context" ->
             [c EXCEPT !.context = found, !.step = "preclaim_context_ready"]
        [] cp.step = "context_compile" ->
             [c EXCEPT !.context = found, !.step = "context_compiled"]
        [] cp.step = "governed_realize" ->
             [c EXCEPT !.receipt = i, !.terminal = TRUE, !.step = "receipt_ready"]
        [] OTHER -> c

\* A receipt that does not validate, and a list without a claimable gap, raise
\* before anything is saved.
RecoverUnusable ==
  /\ pc = "recover"
  /\ PendingSaved
  /\ forgotten # cp.run /\ runs[cp.run].st = "bare"
  /\ cp.step \in {"gap_discovery", "governed_realize"}
  /\ Raises
  /\ UNCHANGED <<file, cp, server>>

RecoverResult ==
  /\ pc = "recover"
  /\ PendingSaved
  /\ forgotten # cp.run /\ runs[cp.run].st \in Shapes
  /\ cp.step = "governed_realize" => Succeeded(cp.run)
  /\ Persist(UpdatedFromResult(cp.run))
  /\ AfterRecovery(cp')
  /\ UNCHANGED server

Recover ==
  \/ RecoverNothing \/ RecoverMissing \/ RecoverFailed \/ RecoverPending
  \/ RecoverUnusable \/ RecoverResult

-----------------------------------------------------------------------------
(* Resolving the gap, and resolving it again before a claim.               *)

\* Without a write of the file.
NoWrite == UNCHANGED <<file, cp>>

\* The checkpoint after gap resolution.
WithGap(g) == [cp EXCEPT !.gap = g, !.step = "gap_resolved", !.terminal = FALSE]

\* The process has resolved g, from a live list if live.
GapResolved(g, live) ==
  IF cmd = "dryRun" THEN Completes /\ NoWrite
  ELSE /\ IF g = cp.gap THEN NoWrite ELSE Persist(WithGap(g))
       /\ pc' = IF cp.gap = None THEN NextStage(cp') ELSE "digest"
       /\ verified' = live /\ got' = None /\ sync' = FALSE /\ fallback' = FALSE
       /\ UNCHANGED <<cmd, operator_gap, capGap, ends>>

\* --gap-id, else the gap that the capabilities (or the diagnostic override)
\* name.  A dry run has no checkpoint in memory; others come here without gap.
GapKnown ==
  /\ pc = "gap"
  /\ \/ operator_gap # None /\ GapResolved(operator_gap, TRUE)
     \/ operator_gap = None /\ capGap # None /\ GapResolved(capGap, FALSE)
  /\ UNCHANGED server

\* _refresh_cached_gap_claimability has nothing to do.
RefreshSkipped ==
  /\ pc = "refresh"
  /\ verified \/ operator_gap # None
  /\ GoTo("digest")
  /\ UNCHANGED <<file, cp, server, ends>>

RefreshKnown ==
  /\ pc = "refresh"
  /\ ~verified /\ operator_gap = None /\ capGap # None
  /\ GapResolved(capGap, FALSE)
  /\ UNCHANGED server

NeedsDiscovery ==
  /\ pc \in {"gap", "refresh"}
  /\ operator_gap = None /\ capGap = None /\ (pc = "refresh" => ~verified)

\* What discovery leaves when it raises: dryRun nothing, the first resolution
\* and the refresh before a claim a step that is no operation.
DiscoveryError ==
  IF cmd = "dryRun" THEN NoWrite
  ELSE Persist([cp EXCEPT !.step = IF cp.gap = None THEN "gap_resolution" ELSE "gap_resolved",
                          !.terminal = FALSE])

-----------------------------------------------------------------------------
(* Submissions and their results.                                          *)

\* The server accepts a submission of operation o: it answers at once, or
\* with an asynchronous run.
Accepted(o, g) ==
  /\ Len(runs) < MaxRuns
  /\ \E st \in (Outcomes \ {"failed"}) \cup {"active"} :
       /\ runs' = Append(runs, [op |-> o, gap |-> g, st |-> st])
       /\ sync' = (st # "active")
  /\ got' = Len(runs')
  /\ pc' = "reply"
  /\ UNCHANGED <<file, cp, cmd, operator_gap, capGap, verified, fallback, forgotten, ends>>

SubmitDiscovery == NeedsDiscovery /\ \E g \in Gaps : Accepted("gap_discovery", g)

\* _claim_context_digest: the server's current digest, or a context compiled
\* for the claim.
DigestKnown == pc = "digest" /\ GoTo("claim") /\ UNCHANGED <<file, cp, server, ends>>
SubmitPreclaim == pc = "digest" /\ Accepted("preclaim_context", None)

\* _resolve_gap_id within claim_gap.
ClaimTarget == IF operator_gap # None THEN operator_gap ELSE cp.gap

SubmitClaim == pc = "claim" /\ Accepted("gap_claim", ClaimTarget)
SubmitRegistration == pc = "register" /\ Accepted("context_create", None)
SubmitCompile == pc = "compile" /\ Accepted("context_compile", None)

\* The local invariant gate runs and the candidate digest is saved before.
SubmitRealization == pc = "realize" /\ Accepted("governed_realize", None)

Submit ==
  \/ SubmitDiscovery \/ SubmitPreclaim \/ SubmitClaim \/ SubmitRegistration
  \/ SubmitCompile \/ SubmitRealization

\* Mutant: the step is saved, the run only if none is saved yet.
WithRunKeepingRun(o, i) ==
  LET c == IF cmd = "dryRun" THEN NoCheckpoint ELSE cp
  IN  [c EXCEPT !.step = o, !.run = IF c.run = None THEN i ELSE c.run, !.terminal = FALSE]

\* _resolve_async_result saves what it waits for before it polls.  In a dry
\* run the process holds no checkpoint, so a fresh one replaces the saved.
WithRun(o, i) ==
  LET c == IF cmd = "dryRun" THEN NoCheckpoint ELSE cp
  IN  [c EXCEPT !.step = o, !.run = i, !.terminal = FALSE]

AcceptedAsync ==
  /\ pc = "reply" /\ ~sync
  /\ Persist(WithRun(runs[got].op, got))
  /\ GoTo("poll")
  /\ UNCHANGED <<server, ends>>

\* The acceptance names no run: saved as such, then raised.
AcceptedWithoutId ==
  /\ pc = "reply" /\ ~sync /\ runs[got].op # "gap_discovery"
  /\ ends < MaxEnds
  /\ Persist(WithRun(runs[got].op, None))
  /\ Raises
  /\ UNCHANGED server

\* The result of got is in: the answer itself, or a poll that found it.
ResultReady ==
  \/ pc = "reply" /\ sync
  \/ pc = "poll" /\ forgotten # got /\ runs[got].st \in Shapes

\* Polling found a failed or forgotten run.
PollRaises ==
  /\ pc = "poll"
  /\ forgotten = got \/ runs[got].st = "failed"

GapDiscovered ==
  /\ ResultReady /\ runs[got].op = "gap_discovery" /\ Succeeded(got)
  /\ GapResolved(runs[got].gap, TRUE)
  /\ UNCHANGED server

\* No gap, an error, or no answer before the deadline: once more without
\* the story id, then the error is saved and raised.
DiscoveryFails ==
  /\ \/ ResultReady /\ runs[got].op = "gap_discovery" /\ ~Succeeded(got)
     \/ PollRaises /\ runs[got].op = "gap_discovery"
     \/ ends < MaxEnds /\ (NeedsDiscovery \/ (pc = "poll" /\ runs[got].op = "gap_discovery"))
  /\ IF HasStoryId /\ ~fallback
     THEN /\ fallback' = TRUE /\ got' = None /\ sync' = FALSE
          /\ pc' = IF cmd = "dryRun" \/ cp.gap = None THEN "gap" ELSE "refresh"
          /\ UNCHANGED <<file, cp, cmd, operator_gap, capGap, verified, ends>>
     ELSE DiscoveryError /\ Raises
  /\ UNCHANGED server

PreclaimReady ==
  /\ ResultReady /\ runs[got].op = "preclaim_context" /\ Succeeded(got)
  /\ pc' = "claim" /\ got' = None /\ sync' = FALSE
  /\ UNCHANGED <<file, cp, cmd, operator_gap, capGap, verified, fallback, server, ends>>

\* The checkpoint with the result of a claim, a registration, a context or a
\* realization.
WithResult(o) ==
  CASE o = "gap_claim" ->
         [cp EXCEPT !.claim = got, !.gap = runs[got].gap, !.step = "claim_succeeded",
                    !.terminal = FALSE]
    [] o = "context_create" ->
         [cp EXCEPT !.registration = got, !.step = "context_created", !.terminal = FALSE]
    [] o = "context_compile" ->
         [cp EXCEPT !.context = got, !.step = "context_compiled", !.terminal = FALSE]
    [] o = "governed_realize" ->
         [cp EXCEPT !.receipt = got, !.run = None, !.step = "receipt_ready", !.terminal = TRUE]

StepOps == {"gap_claim", "context_create", "context_compile", "governed_realize"}

StepSucceeds ==
  /\ ResultReady /\ runs[got].op \in StepOps /\ Succeeded(got)
  /\ Persist(WithResult(runs[got].op))
  /\ IF runs[got].op = "governed_realize" THEN Completes ELSE Continue(cp')
  /\ UNCHANGED server

\* An id or a valid receipt is missing, or the run failed or is unknown:
\* raised, and nothing is saved.
StepFails ==
  /\ \/ ResultReady /\ ~Succeeded(got)
     \/ PollRaises
  /\ runs[got].op # "gap_discovery"
  /\ Raises
  /\ UNCHANGED <<file, cp, server>>

\* The process is killed, or an exception of HTTP or the server's refusal of
\* a request ends it.  The poll deadline ends it this way too.
Interrupted ==
  /\ pc # "idle" /\ ends < MaxEnds
  /\ Raises
  /\ UNCHANGED <<file, cp, server>>

\* ... while write_text is at latest.json: no later process can read it.
TornWrite ==
  /\ WritesTear /\ ends < MaxEnds
  /\ pc \notin {"idle", "discover"} /\ cmd # "dryRun"
  /\ file' = "torn" /\ cp' = NoCheckpoint
  /\ Raises
  /\ UNCHANGED server

-----------------------------------------------------------------------------
(* The server.                                                             *)

\* Only runs that somebody may still poll are of interest.
Awaited(i) == i \in DOMAIN runs /\ i \in {cp.run, got}

\* An active run ends.
RunEnds(i) ==
  /\ Awaited(i) /\ runs[i].st = "active"
  /\ \E st \in Outcomes : runs' = [runs EXCEPT ![i].st = st]
  /\ UNCHANGED <<file, cp, process, forgotten, ends>>

\* The server forgets a run, or never materialized its record.
RunExpires(i) ==
  /\ RunsExpire
  /\ i = cp.run /\ forgotten' = i
  /\ UNCHANGED <<file, cp, process, runs, ends>>

-----------------------------------------------------------------------------
ClientStep ==
  \/ Discover \/ Recover \/ GapKnown \/ RefreshSkipped \/ RefreshKnown
  \/ DigestKnown \/ Submit
  \/ AcceptedAsync \/ GapDiscovered \/ DiscoveryFails \/ PreclaimReady
  \/ StepSucceeds \/ StepFails

Resumption == \E c \in Commands \cap {"run", "resume"} : Invoke(c, None)

Next ==
  \/ \E c \in Commands, g \in OperatorGaps \cup {None} : Invoke(c, g)
  \/ ClientStep
  \/ AcceptedWithoutId \/ Interrupted \/ TornWrite
  \/ \E i \in RunIds : RunEnds(i) \/ RunExpires(i)

Spec == Init /\ [][Next]_vars

\* A process keeps going, an operator keeps resuming ("Common Recovery Path"),
\* and an accepted run ends.
Fairness ==
  /\ WF_vars(ClientStep)
  /\ WF_vars(Resumption)
  /\ \A i \in RunIds : WF_vars(RunEnds(i))

FairSpec == Spec /\ Fairness

-----------------------------------------------------------------------------
(* Properties.                                                             *)

\* The type invariant of the flow: the checkpoint, the process at work and
\* the server's runs.
TypeOK ==
  /\ file \in {"missing", "written", "torn"}
  /\ cp \in Checkpoint
  /\ cmd \in Commands \cup {None} /\ operator_gap \in OperatorGaps \cup {None}
  /\ pc \in Places
  /\ capGap \in CapabilityGaps \cup {None}
  /\ verified \in BOOLEAN /\ fallback \in BOOLEAN
  /\ got \in RunIds \cup {None} /\ sync \in BOOLEAN
  /\ runs \in Seq(Run) /\ Len(runs) <= MaxRuns /\ forgotten \in RunIds \cup {None}
  /\ ends \in 0..MaxEnds

Backed(i, ops) == i # None => i \in DOMAIN runs /\ runs[i].op \in ops /\ Succeeded(i)

\* Whatever interruptions a checkpoint has been through, each id in it comes
\* from a run of the right operation that the server completed, and a receipt
\* from one whose evidence is valid (_update_state_from_result, and the
\* persist calls of resume_governed_repo_flow).
CheckpointIsBacked ==
  /\ Backed(cp.claim, {"gap_claim"})
  /\ Backed(cp.registration, {"context_create"})
  /\ Backed(cp.context, {"context_compile", "preclaim_context"})
  /\ Backed(cp.receipt, {"governed_realize"})

\* The run saved in the checkpoint belongs to the operation that its step
\* names, so recovery takes a result for what it is, although the step moves
\* on without clearing the run (_persist_state, _resolve_async_result).
SavedRunIsOfStep ==
  cp.run # None /\ cp.step \in Ops => runs[cp.run].op = cp.step

Before(i, ops) == \E j \in 1..(i - 1) : runs[j].op \in ops /\ Succeeded(j)

\* At the server no step runs ahead of the one it builds on: nothing is
\* registered without a granted claim, compiled without a registration or
\* realized without a context (the order of resume_governed_repo_flow across
\* all its resumptions).
StepsInOrder ==
  \A i \in DOMAIN runs :
    /\ runs[i].op = "context_create" => Before(i, {"gap_claim"})
    /\ runs[i].op = "context_compile" => Before(i, {"context_create"})
    /\ runs[i].op = "governed_realize" =>
         /\ Before(i, {"context_create"})
         /\ Before(i, {"context_compile", "preclaim_context"})

Submissions(o) == {i \in DOMAIN runs : runs[i].op = o}

\* A process submits each step at most once and takes over what an earlier one
\* completed: a second submission of a claim, registration or compilation
\* needs a process that ended without completing.  (Or a dry run that has
\* replaced the checkpoint by its own.)
OneSubmissionPerProcess ==
  ends < MaxEnds =>
    \A o \in {"gap_claim", "context_create", "context_compile"} :
      Cardinality(Submissions(o)) <= 1 + ends

\* Resumed as often as it takes, the flow of a healthy server ends with a
\* receipt in the checkpoint.
FlowEndsWithReceipt == <>(cp.receipt # None)
=============================================================================
