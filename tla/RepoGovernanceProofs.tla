------------------------ MODULE RepoGovernanceProofs ------------------------
(***************************************************************************)
(* Proofs about RepoGovernance for any processes, gaps, remotes and polls. *)
(*                                                                         *)
(* What a command may report or write at a place was so at the server when *)
(* it came there, and the server takes nothing back: bindings and contexts *)
(* stay, a claim is not moved, a closed gap is not opened (Grows).  The    *)
(* inductive invariant says for each place of a command what it knows      *)
(* there, and for a queued run what it will be done for.                   *)
(***************************************************************************)
EXTENDS RepoGovernance, TLAPS

USE RemotesAssumption, BoundsAssumption

ServerType ==
  /\ granted \subseteq Remotes
  /\ gap \in [Gaps -> Statuses]
  /\ claim \in [Gaps -> Remote]
  /\ contexts \subseteq Gaps \X Remote

Command == [op : Ops, gap : Gaps, at : Places, remote : Remote, binding : Remote,
            canonical : BOOLEAN, polls : 0..MaxPolls, refused : BOOLEAN, result : Results]

\* A place before the answer.
Before(c) == c.at \in {"idle", "detect", "digest", "health", "getgap", "send"}

\* What a command is asked for and what it knows where it stands.
Knows(p) ==
  LET c == cmd[p] IN
  /\ c.binding \in granted \cup {NoRemote}
  /\ Before(c) => run[p] = "none"
  /\ c.at # "over" => c.result = "none"
  /\ c.op = "attach" /\ (c.at = "send" \/ run[p] = "running") => c.remote \in Remotes
  /\ c.at \in {"digest", "health", "getgap"} => c.op # "attach"
  /\ c.at = "poll" => c.op = "context"
  /\ c.op = "context" /\ run[p] = "succeeded" => <<c.gap, c.remote>> \in contexts

\* What it will write, and what it has reported.
Writes(p) ==
  LET c == cmd[p] IN
  /\ c.at \in {"truncate", "save"} =>
       c.op = "attach" /\ c.remote \in granted /\ c.remote \notin PlatformClass
  /\ c.at \in {"request", "preflight", "response"} =>
       c.op = "close" /\ gap[c.gap] = "closed"
  /\ c.at \in {"preflight", "response"} => "request" \in records[c.gap]
  /\ c.at = "response" => "preflight" \in records[c.gap]
  /\ c.result = "success" /\ ~c.refused =>
       Held(c) /\ (c.op = "claim" => c.remote # NoRemote)

IInv ==
  /\ TypeOK
  /\ \A p \in Procs : Knows(p) /\ Writes(p)
  /\ BindingFileIsGranted
  /\ ClosureRecordIsEvidence

LEMMA InitIInv == Init => IInv
<1>. SUFFICES ASSUME Init PROVE IInv
  OBVIOUS
<1>1. PICK op \in [Procs -> Ops], about \in [Procs -> Gaps] :
        cmd = [p \in Procs |-> Fresh(op[p], about[p])]
  BY DEF Init
<1>2. \A p \in Procs : /\ cmd[p] = Fresh(op[p], about[p])
                       /\ run[p] = "none" /\ cmd[p].binding = NoRemote
                       /\ cmd[p].at = "idle" /\ cmd[p].result = "none"
  BY <1>1 DEF Init, Fresh
<1>3. \A p \in Procs : cmd[p] \in Command
  <2>. SUFFICES ASSUME NEW p \in Procs
                PROVE  Fresh(op[p], about[p]) \in Command
    BY <1>2
  <2>1. op[p] \in Ops /\ about[p] \in Gaps /\ 0 \in 0..MaxPolls
    OBVIOUS
  <2>. QED BY <2>1 DEF Fresh, Command, Places, Remote, Results
<1>4. TypeOK
  BY <1>1, <1>3 DEF Init, TypeOK, Command, NoFile, CutFile, FileOf, FileStates, Remote, Statuses, RunStates
<1>5. \A p \in Procs : Knows(p) /\ Writes(p)
  BY <1>2 DEF Knows, Writes, Before
<1>6. BindingFileIsGranted
  BY <1>2 DEF Init, BindingFileIsGranted, NoFile, CutFile, FileOf
<1>7. ClosureRecordIsEvidence
  BY DEF Init, ClosureRecordIsEvidence
<1>. QED BY <1>4, <1>5, <1>6, <1>7 DEF IInv

-----------------------------------------------------------------------------
(* The server takes nothing back.                                          *)

Grows ==
  /\ granted \subseteq granted' /\ contexts \subseteq contexts'
  /\ \A g \in Gaps :
       /\ gap[g] = "closed" => gap'[g] = "closed"
       /\ gap[g] # "absent" => gap'[g] # "absent"
       /\ gap[g] # "stale" => gap'[g] # "stale"
       /\ claim[g] # NoRemote => claim'[g] = claim[g]

\* What the server does of a request holds from then on.
LEMMA EffectGrows ==
  ASSUME ServerType, NEW c \in Command, CanDo(c), Effect(c),
         c.op = "attach" => c.remote \in Remotes
  PROVE  /\ Grows /\ ServerType'
         /\ Held(c)'
         /\ c.op = "claim" => c.remote # NoRemote
         /\ c.op = "attach" => c.remote \in granted' /\ c.remote \notin PlatformClass
<1>. USE DEF ServerType, Command, CanDo, Effect
<1>1. ServerType'
  BY DEF Statuses
<1>2. Grows
  BY DEF Grows
<1>3. Held(c)'
  BY DEF Held
<1>. QED BY <1>1, <1>2, <1>3

-----------------------------------------------------------------------------
(* Steps of one command.                                                   *)

LEMMA OthersKeep ==
  ASSUME IInv, Grows, NEW q \in Procs, cmd'[q] = cmd[q], run'[q] = run[q],
         \A g \in Gaps : records[g] \subseteq records'[g]
  PROVE  Knows(q)' /\ Writes(q)'
<1>1. Knows(q) /\ Writes(q) /\ cmd[q] \in Command
  BY DEF IInv, TypeOK, Command
<1>2. cmd[q].gap \in Gaps
  BY <1>1 DEF Command
<1>3. Knows(q)'
  BY <1>1, <1>2 DEF Knows, Before, Grows
<1>4. Held(cmd[q]) /\ (cmd[q].op = "claim" => cmd[q].remote # NoRemote) => Held(cmd[q])'
  BY <1>2 DEF Held, Grows
<1>5. Writes(q)'
  BY <1>1, <1>2, <1>4 DEF Writes, Grows, Held
<1>. QED BY <1>3, <1>5

\* A step of p, of which the file and the records stay true.
LEMMA StepOf ==
  ASSUME IInv, NEW p \in Procs,
         cmd' = [cmd EXCEPT ![p] = cmd'[p]], cmd'[p] \in Command,
         run' = [run EXCEPT ![p] = run'[p]], run'[p] \in RunStates,
         Knows(p)', Writes(p)', Grows, ServerType',
         origin' \in Remote, moves' \in 0..MaxMoves,
         file' \in [state : FileStates, binding : Remote, remote : Remote],
         file'.state = "whole" => /\ file'.binding = file'.remote
                                  /\ file'.binding \in granted'
                                  /\ file'.remote \notin PlatformClass,
         records' \in [Gaps -> SUBSET RecordNames],
         \A g \in Gaps :
           /\ records[g] \subseteq records'[g]
           /\ "response" \in records'[g] /\ "response" \notin records[g] =>
                gap[g] = "closed" /\ {"request", "preflight"} \subseteq records[g]
  PROVE  IInv'
<1>1. \A q \in Procs : q # p => cmd'[q] = cmd[q] /\ run'[q] = run[q]
  BY DEF IInv, TypeOK
<1>2. \A q \in Procs : Knows(q)' /\ Writes(q)'
  BY <1>1, OthersKeep
<1>3. TypeOK'
  BY DEF IInv, TypeOK, Command, ServerType
<1>4. BindingFileIsGranted'
  BY <1>2 DEF BindingFileIsGranted, Knows
<1>5. ClosureRecordIsEvidence'
  BY DEF IInv, ClosureRecordIsEvidence, Grows
<1>. QED BY <1>2, <1>3, <1>4, <1>5 DEF IInv

LEMMA QuietStepOf ==
  ASSUME IInv, NEW p \in Procs,
         cmd' = [cmd EXCEPT ![p] = cmd'[p]], cmd'[p] \in Command,
         run' = [run EXCEPT ![p] = run'[p]], run'[p] \in RunStates,
         Knows(p)', Writes(p)', Grows, ServerType', UNCHANGED local
  PROVE  IInv'
<1>1. /\ origin' \in Remote /\ moves' \in 0..MaxMoves
      /\ file' \in [state : FileStates, binding : Remote, remote : Remote]
      /\ records' \in [Gaps -> SUBSET RecordNames]
      /\ \A g \in Gaps : records'[g] = records[g]
  BY DEF IInv, TypeOK, local
<1>2. file'.state = "whole" => /\ file'.binding = file'.remote
                               /\ file'.binding \in granted'
                               /\ file'.remote \notin PlatformClass
  BY DEF IInv, BindingFileIsGranted, local, Grows
<1>. QED BY <1>1, <1>2, StepOf

LEMMA ServerSame ==
  ASSUME IInv, UNCHANGED server
  PROVE  Grows /\ ServerType'
  BY DEF IInv, TypeOK, server, Grows, ServerType

LEMMA CommandFacts ==
  ASSUME IInv, NEW p \in Procs
  PROVE  /\ cmd \in [Procs -> Command] /\ cmd[p] \in Command /\ cmd[p].gap \in Gaps
         /\ run \in [Procs -> RunStates] /\ run[p] \in RunStates
         /\ Knows(p) /\ Writes(p) /\ ServerType
         /\ run = [run EXCEPT ![p] = run[p]]
  BY DEF IInv, TypeOK, Command, ServerType

LEMMA GoFacts ==
  ASSUME IInv, NEW p \in Procs, NEW place \in Places, Go(p, place)
  PROVE  /\ cmd' = [cmd EXCEPT ![p] = cmd'[p]] /\ cmd'[p] \in Command
         /\ cmd'[p] = [cmd[p] EXCEPT !.at = place]
  BY CommandFacts DEF Go, Command

LEMMA EndFacts ==
  ASSUME IInv, NEW p \in Procs, NEW refused \in BOOLEAN, NEW result \in Results,
         EndGiven(p, refused, result)
  PROVE  /\ cmd' = [cmd EXCEPT ![p] = cmd'[p]] /\ cmd'[p] \in Command
         /\ cmd'[p].op = cmd[p].op /\ cmd'[p].gap = cmd[p].gap /\ cmd'[p].at = "over"
         /\ cmd'[p].remote = cmd[p].remote /\ cmd'[p].binding = NoRemote
         /\ cmd'[p].refused = refused /\ cmd'[p].result = result
<1>1. cmd \in [Procs -> Command] /\ cmd[p] \in Command
  BY CommandFacts
<1>2. cmd'[p] = [Fresh(cmd[p].op, cmd[p].gap) EXCEPT
            !.at = "over", !.remote = cmd[p].remote, !.canonical = cmd[p].canonical,
            !.refused = refused, !.result = result]
  BY <1>1 DEF EndGiven
<1>3. cmd'[p] = [op |-> cmd[p].op, gap |-> cmd[p].gap, at |-> "over", remote |-> cmd[p].remote,
                 binding |-> NoRemote, canonical |-> cmd[p].canonical, polls |-> 0,
                 refused |-> refused, result |-> result]
  BY <1>2 DEF Fresh
<1>4. 0 \in 0..MaxPolls /\ NoRemote \in Remote /\ "over" \in Places
  BY DEF Remote, Places
<1>5. cmd'[p] \in Command
  BY <1>1, <1>3, <1>4 DEF Command
<1>. QED BY <1>1, <1>3, <1>5 DEF EndGiven

\* A command that ends keeps the invariant if a success is what it held.
LEMMA EndStep ==
  ASSUME IInv, NEW p \in Procs, NEW refused \in BOOLEAN, NEW result \in Results,
         EndGiven(p, refused, result), UNCHANGED local, Grows, ServerType',
         run' = [run EXCEPT ![p] = run'[p]], run'[p] \in RunStates,
         run'[p] = "succeeded" => run[p] = "succeeded",
         run'[p] = "running" => run[p] = "running" \/ cmd[p].at = "send",
         result = "success" /\ ~refused =>
           /\ \A c \in Command : c = cmd[p] => Held(c)'
           /\ cmd[p].op = "claim" => cmd[p].remote # NoRemote
  PROVE  IInv'
<1>1. Knows(p) /\ Writes(p) /\ cmd[p] \in Command
  BY CommandFacts
<1>2. Knows(p)'
  BY <1>1, EndFacts DEF Knows, Before, Grows
<1>3. \A c \in Command :
        Held(c)' /\ c.op = cmd'[p].op /\ c.gap = cmd'[p].gap /\ c.remote = cmd'[p].remote
          => Held(cmd[p])'
  BY DEF Held
<1>4. Writes(p)'
  BY <1>1, <1>3, EndFacts DEF Writes
<1>. QED BY <1>2, <1>4, EndFacts, QuietStepOf

\* A command that goes on keeps it if the place is one for what it knows.
LEMMA GoOn ==
  ASSUME IInv, NEW p \in Procs, NEW place \in Places \ {"over"}, Go(p, place),
         cmd[p].at # "over", Grows,
         place \in {"idle", "detect", "digest", "health", "getgap", "send"} => run'[p] = "none",
         cmd[p].op = "attach" /\ (place = "send" \/ run'[p] = "running") =>
           cmd[p].remote \in Remotes,
         run'[p] = "succeeded" => run[p] = "succeeded",
         place \in {"digest", "health", "getgap"} => cmd[p].op # "attach",
         place = "poll" => cmd[p].op = "context",
         place \in {"truncate", "save"} =>
           /\ cmd[p].op = "attach" /\ cmd[p].remote \in granted'
           /\ cmd[p].remote \notin PlatformClass,
         place \in {"request", "preflight", "response"} =>
           cmd[p].op = "close" /\ gap'[cmd[p].gap] = "closed",
         place \in {"preflight", "response"} => "request" \in records'[cmd[p].gap],
         place = "response" => "preflight" \in records'[cmd[p].gap]
  PROVE  Knows(p)' /\ Writes(p)'
<1>1. cmd[p] \in Command /\ Knows(p)
  BY CommandFacts
<1>2. /\ cmd'[p].op = cmd[p].op /\ cmd'[p].gap = cmd[p].gap /\ cmd'[p].at = place
      /\ cmd'[p].remote = cmd[p].remote /\ cmd'[p].binding = cmd[p].binding
      /\ cmd'[p].result = cmd[p].result
  <2>1. cmd'[p] = [cmd[p] EXCEPT !.at = place]
    BY GoFacts
  <2>. QED BY <1>1, <2>1 DEF Command
<1>3. cmd[p].result = "none"
  BY <1>1 DEF Knows
<1>4. Knows(p)'
  BY <1>1, <1>2, <1>3 DEF Knows, Before, Grows
<1>5. Writes(p)'
  BY <1>2, <1>3 DEF Writes
<1>. QED BY <1>4, <1>5

LEMMA GoOnStep ==
  ASSUME IInv, NEW p \in Procs, NEW place \in Places \ {"over"}, Go(p, place),
         Knows(p)', Writes(p)', Grows, ServerType', UNCHANGED local,
         run' = [run EXCEPT ![p] = run'[p]], run'[p] \in RunStates
  PROVE  IInv'
  BY GoFacts, QuietStepOf

\* Mostly it fails, or reports that it was accepted.
LEMMA FailStep ==
  ASSUME IInv, NEW p \in Procs, NEW result \in Results \ {"success"}, End(p, result),
         UNCHANGED <<local, server, run>>
  PROVE  IInv'
  BY EndStep, ServerSame, CommandFacts DEF End

-----------------------------------------------------------------------------
(* The answer.                                                             *)

\* What the dispatcher makes of the answers there are.
LEMMA AnswerFacts ==
  /\ dispatch_run(NoReply) = "TRANSPORT_ERROR" /\ Raises(NoReply) /\ NoReply.body = "none"
  /\ NoReply.ok = FALSE
  /\ \A body : LET r == Done(body) IN
       dispatch_run(r) = "SUCCESS" /\ ~Raises(r) /\ r.body = body /\ r.ok = TRUE
  /\ \A r \in Queued : dispatch_run(r) = "ACCEPTED" /\ r.body = "none" /\ r.ok = TRUE
  /\ \A r \in Refusals : /\ r.body = "none" /\ dispatch_run(r) # "ACCEPTED"
                         /\ r.ok = TRUE \/ r.ok = FALSE
                         /\ (dispatch_run(r) = "SUCCESS" => r.ok = FALSE)
<1>. USE DEF Answer
<1>1. /\ dispatch_run(NoReply) = "TRANSPORT_ERROR" /\ Raises(NoReply) /\ NoReply.body = "none"
      /\ NoReply.ok = FALSE
  BY DEF dispatch_run, Raises, handle_transport_exception, NoReply
<1>2. ASSUME NEW body
      PROVE  LET r == Done(body) IN
             dispatch_run(r) = "SUCCESS" /\ ~Raises(r) /\ r.body = body /\ r.ok = TRUE
  BY DEF dispatch_run, Raises, classify_outcome, Done
<1>3. ASSUME NEW r \in Queued
      PROVE  dispatch_run(r) = "ACCEPTED" /\ r.body = "none" /\ r.ok = TRUE
  BY DEF dispatch_run, Raises, classify_outcome, Queued
<1>4. ASSUME NEW r \in Refusals
      PROVE  /\ r.body = "none" /\ dispatch_run(r) # "ACCEPTED"
             /\ r.ok = TRUE \/ r.ok = FALSE
             /\ (dispatch_run(r) = "SUCCESS" => r.ok = FALSE)
  BY DEF dispatch_run, Raises, handle_transport_exception, classify_outcome, Refusals
<1>. QED BY <1>1, <1>2, <1>3, <1>4

\* An answer that makes a command report a success it must hold.
Confirms(op, r) ==
  /\ op \in {"create", "revalidate", "claim", "context"} /\ r.ok
  /\ IF op = "context" THEN r.body = "context" ELSE dispatch_run(r) = "SUCCESS"

\* How a command goes on.
LEMMA Conclusions ==
  ASSUME IInv, NEW p \in Procs, NEW r, Conclude(p, r), r.ok \in BOOLEAN
  PROVE  \/ \E refused \in BOOLEAN, result \in Results :
              /\ EndGiven(p, refused, result)
              /\ result = "success" /\ ~refused =>
                   cmd[p].op \in {"list", "attach"} \/ Confirms(cmd[p].op, r)
         \/ Go(p, "truncate") /\ cmd[p].op = "attach" /\ r.body = "binding"
         \/ Go(p, "poll") /\ cmd[p].op = "context"
         \/ Go(p, "request") /\ cmd[p].op = "close" /\ r.body = "lineage" /\ ~Raises(r)
<1>. USE DEF Results
<1>0. cmd[p].op \in Ops
  BY CommandFacts DEF Command
<1>1. CASE cmd[p].op \in GapRuns
  BY <1>1 DEF Conclude, GapsConclude, Confirms, GapRuns
<1>2. CASE cmd[p].op = "attach"
  BY <1>2 DEF Conclude, AttachConclude, GapRuns, End
<1>3. CASE cmd[p].op = "context"
  <2>1. ContextConclude(p, r)
    BY <1>3 DEF Conclude, GapRuns
  <2>2. ContextResult(r.ok, r.body) \in Results
    BY DEF ContextResult
  <2>3. ContextResult(r.ok, r.body) = "success" => r.ok /\ r.body = "context"
    BY DEF ContextResult, check_server_compat
  <2>4. ~Confirms("context", r) => ContextResult(r.ok, r.body) # "success"
    BY <2>3 DEF Confirms
  <2>. QED BY <1>3, <2>1, <2>2, <2>3, <2>4 DEF ContextConclude, Confirms, End
<1>4. CASE cmd[p].op = "close"
  BY <1>4 DEF Conclude, CloseConclude, GapRuns, End, assert_closure_response_governed
<1>. QED BY <1>0, <1>1, <1>2, <1>3, <1>4 DEF Ops, GapRuns

\* The server does what it is asked, and the answer says so or is lost.
LEMMA ServerDoesStep ==
  ASSUME IInv, NEW p \in Procs, ServerDoes(p)
  PROVE  IInv'
<1>1. PICK c \in Command : c = cmd[p]
  BY CommandFacts
<1>2. /\ c.at = "send" /\ CanDo(c) /\ Effect(c) /\ UNCHANGED <<local, run>>
      /\ Answered(p, {Done(BodyOf(c.op))})
  BY <1>1 DEF ServerDoes, At
<1>3. /\ Knows(p) /\ Writes(p) /\ ServerType /\ run \in [Procs -> RunStates]
      /\ c.op = "attach" => c.remote \in Remotes
  BY <1>1, <1>2, CommandFacts DEF Knows
<1>4. /\ Grows /\ ServerType' /\ Held(c)' /\ (c.op = "claim" => c.remote # NoRemote)
      /\ c.op = "attach" => c.remote \in granted' /\ c.remote \notin PlatformClass
  BY <1>2, <1>3, EffectGrows
<1>5. PICK r \in {Done(BodyOf(c.op)), NoReply} : Conclude(p, r)
  BY <1>2 DEF Answered
<1>6. r.ok \in BOOLEAN
  BY <1>5, AnswerFacts
<1>7. CASE \E refused \in BOOLEAN, result \in Results : EndGiven(p, refused, result)
  BY <1>1, <1>2, <1>3, <1>4, <1>7, EndStep, CommandFacts
<1>8. CASE Go(p, "truncate") /\ cmd[p].op = "attach"
  <2>1. Knows(p)' /\ Writes(p)'
    BY <1>1, <1>2, <1>3, <1>4, <1>8, GoOn DEF Places
  <2>. QED BY <1>2, <1>3, <1>4, <1>8, <2>1, GoOnStep, CommandFacts DEF Places
<1>9. CASE Go(p, "poll") /\ cmd[p].op = "context"
  <2>1. Knows(p)' /\ Writes(p)'
    BY <1>1, <1>2, <1>3, <1>4, <1>9, GoOn DEF Places, Knows, Before
  <2>. QED BY <1>2, <1>3, <1>4, <1>9, <2>1, GoOnStep, CommandFacts DEF Places
<1>10. CASE Go(p, "request") /\ cmd[p].op = "close"
  <2>1. gap'[c.gap] = "closed"
    BY <1>1, <1>4, <1>10 DEF Held
  <2>2. Knows(p)' /\ Writes(p)'
    BY <1>1, <1>2, <1>3, <1>4, <1>10, <2>1, GoOn DEF Places, Knows, Before
  <2>. QED BY <1>2, <1>3, <1>4, <1>10, <2>2, GoOnStep, CommandFacts DEF Places
<1>. QED BY <1>5, <1>6, <1>7, <1>8, <1>9, <1>10, Conclusions

\* A queued request is not yet done, and nothing but its acceptance is known.
LEMMA ServerQueuesStep ==
  ASSUME IInv, NEW p \in Procs, ServerQueues(p)
  PROVE  IInv'
<1>1. /\ cmd[p].at = "send" /\ run' = [run EXCEPT ![p] = "running"]
      /\ UNCHANGED <<local, server>> /\ Answered(p, Queued)
  BY DEF ServerQueues, At
<1>2. /\ Grows /\ ServerType' /\ Knows(p) /\ Writes(p) /\ run \in [Procs -> RunStates]
      /\ run'[p] = "running" /\ run' = [run EXCEPT ![p] = run'[p]] /\ "running" \in RunStates
  BY <1>1, ServerSame, CommandFacts DEF RunStates
<1>3. PICK r \in Queued \cup {NoReply} : Conclude(p, r)
  BY <1>1 DEF Answered
<1>4. r.ok \in BOOLEAN /\ r.body = "none" /\ dispatch_run(r) # "SUCCESS"
  BY <1>3, AnswerFacts
<1>5. ASSUME NEW refused \in BOOLEAN, NEW result \in Results, EndGiven(p, refused, result),
             result = "success" /\ ~refused =>
               cmd[p].op \in {"list", "attach"} \/ Confirms(cmd[p].op, r)
      PROVE  IInv'
  <2>1. result = "success" /\ ~refused => cmd[p].op \in {"list", "attach"}
    BY <1>4, <1>5 DEF Confirms
  <2>2. \A c \in Command : c = cmd[p] /\ c.op \in {"list", "attach"} => Held(c)'
    BY DEF Held
  <2>. QED BY <1>1, <1>2, <1>5, <2>1, <2>2, EndStep
<1>6. CASE Go(p, "poll") /\ cmd[p].op = "context"
  <2>1. Knows(p)' /\ Writes(p)'
    BY <1>1, <1>2, <1>6, GoOn DEF Places
  <2>. QED BY <1>1, <1>2, <1>6, <2>1, GoOnStep DEF Places
<1>. QED BY <1>3, <1>4, <1>5, <1>6, Conclusions

\* A refusal confirms nothing, but a closed gap is answered with its lineage.
LEMMA ServerRefusesStep ==
  ASSUME IInv, NEW p \in Procs, ServerRefuses(p)
  PROVE  IInv'
<1>. DEFINE odd == {Done(body) : body \in OddBodies(cmd[p].op)}
            again == IF cmd[p].op = "close" /\ gap[cmd[p].gap] = "closed"
                     THEN {Done("lineage")} ELSE {}
<1>1. /\ cmd[p].at = "send" /\ UNCHANGED <<local, server, run>>
      /\ Answered(p, Refusals \cup odd \cup again)
  BY DEF ServerRefuses, At
<1>2. /\ Grows /\ ServerType' /\ Knows(p) /\ Writes(p) /\ run[p] \in RunStates
      /\ run'[p] = run[p] /\ run' = [run EXCEPT ![p] = run'[p]]
  BY <1>1, ServerSame, CommandFacts
<1>3. PICK r \in Refusals \cup odd \cup again \cup {NoReply} : Conclude(p, r)
  BY <1>1 DEF Answered
<1>4. /\ r.ok \in BOOLEAN
      /\ r.body # "binding" /\ ~Confirms(cmd[p].op, r)
      /\ r.body = "lineage" => gap[cmd[p].gap] = "closed"
  <2>1. CASE r \in Refusals \cup {NoReply}
    BY <2>1, AnswerFacts DEF Confirms
  <2>2. CASE r \in odd
    <3>1. PICK body \in OddBodies(cmd[p].op) : r = Done(body)
      BY <2>2
    <3>2. body \notin {"binding", "lineage", "context"} /\ cmd[p].op \in {"attach", "context"}
      BY <3>1 DEF OddBodies
    <3>. QED BY <3>1, <3>2, AnswerFacts DEF Confirms
  <2>3. CASE r \in again
    BY <2>3, AnswerFacts DEF Confirms
  <2>. QED BY <1>3, <2>1, <2>2, <2>3
<1>. HIDE DEF odd, again
<1>5. ASSUME NEW refused \in BOOLEAN, NEW result \in Results, EndGiven(p, refused, result),
             result = "success" /\ ~refused =>
               cmd[p].op \in {"list", "attach"} \/ Confirms(cmd[p].op, r)
      PROVE  IInv'
  <2>1. \A c \in Command : c = cmd[p] /\ c.op \in {"list", "attach"} => Held(c)'
    BY DEF Held
  <2>. QED BY <1>1, <1>2, <1>4, <1>5, <2>1, EndStep
<1>6. CASE Go(p, "poll") /\ cmd[p].op = "context"
  <2>1. Knows(p)' /\ Writes(p)'
    BY <1>1, <1>2, <1>6, GoOn DEF Places
  <2>. QED BY <1>1, <1>2, <1>6, <2>1, GoOnStep DEF Places
<1>7. CASE Go(p, "request") /\ cmd[p].op = "close" /\ r.body = "lineage"
  <2>1. Knows(p)' /\ Writes(p)'
    <3>1. gap'[cmd[p].gap] = "closed"
      BY <1>2, <1>4, <1>7, CommandFacts DEF Grows
    <3>. QED BY <1>1, <1>2, <1>7, <3>1, GoOn DEF Places
  <2>. QED BY <1>1, <1>2, <1>7, <2>1, GoOnStep DEF Places
<1>. QED BY <1>3, <1>4, <1>5, <1>6, <1>7, Conclusions

-----------------------------------------------------------------------------
(* The command before and after the answer.                                *)

LEMMA StartStep ==
  ASSUME IInv, NEW p \in Procs, Start(p)
  PROVE  IInv'
<1>1. cmd[p].at = "idle" /\ UNCHANGED <<local, server, run>>
  BY DEF Start, At
<1>2. Grows /\ ServerType' /\ Knows(p) /\ run[p] = "none" /\ run'[p] = run[p]
      /\ run' = [run EXCEPT ![p] = run'[p]] /\ run'[p] \in RunStates
  BY <1>1, ServerSame, CommandFacts DEF Knows, Before
<1>3. CASE Go(p, FirstPlace(cmd[p].op))
  <2>. PICK place \in {"detect", "send", "digest"} :
         /\ place = FirstPlace(cmd[p].op)
         /\ place \in {"send", "digest"} => cmd[p].op # "attach"
    BY DEF FirstPlace
  <2>1. Knows(p)' /\ Writes(p)'
    BY <1>1, <1>2, <1>3, GoOn DEF Places
  <2>. QED BY <1>1, <1>2, <1>3, <2>1, GoOnStep DEF Places
<1>4. CASE End(p, "failed")
  BY <1>1, <1>4, FailStep DEF Results
<1>. QED BY <1>3, <1>4 DEF Start

LEMMA DetectStep ==
  ASSUME IInv, NEW p \in Procs, Detect(p)
  PROVE  IInv'
<1>1. cmd[p].at = "detect" /\ UNCHANGED <<local, server, run>>
  BY DEF Detect, At
<1>2. Grows /\ ServerType' /\ Knows(p) /\ Writes(p) /\ run[p] = "none" /\ run'[p] = run[p]
      /\ run' = [run EXCEPT ![p] = run'[p]] /\ run'[p] \in RunStates
  BY <1>1, ServerSame, CommandFacts DEF Knows, Before
<1>3. CASE End(p, "failed")
  BY <1>1, <1>3, FailStep DEF Results
<1>4. CASE Go(p, "digest") /\ cmd[p].op = "claim"
  <2>1. Knows(p)' /\ Writes(p)'
    BY <1>1, <1>2, <1>4, GoOn DEF Places
  <2>. QED BY <1>1, <1>2, <1>4, <2>1, GoOnStep DEF Places
<1>5. ASSUME ~Unusable(origin),
             NEW binding \in {load_repo_binding_id(file)}
                             \cup (IF cmd[p].op = "context" THEN granted ELSE {}),
             NEW place \in {"digest", "health", "send"},
             place \in {"digest", "health"} => cmd[p].op # "attach",
             cmd' = [cmd EXCEPT ![p].remote = origin, ![p].binding = binding, ![p].at = place]
      PROVE  IInv'
  <2>1. cmd[p] \in Command /\ cmd \in [Procs -> Command] /\ origin \in Remotes
    BY <1>5, CommandFacts DEF IInv, TypeOK, Remote, Unusable
  <2>2. binding \in granted \cup {NoRemote} /\ granted \subseteq Remotes
    BY DEF IInv, TypeOK, BindingFileIsGranted, load_repo_binding_id
  <2>3. /\ cmd'[p] = [cmd[p] EXCEPT !.remote = origin, !.binding = binding, !.at = place]
        /\ cmd' = [cmd EXCEPT ![p] = cmd'[p]]
    BY <1>5, <2>1
  <2>4. /\ cmd'[p] \in Command
        /\ cmd'[p].op = cmd[p].op /\ cmd'[p].remote = origin /\ cmd'[p].binding = binding
        /\ cmd'[p].at = place /\ cmd'[p].result = cmd[p].result
    BY <2>1, <2>2, <2>3 DEF Command, Places, Remote
  <2>5. Knows(p)' /\ Writes(p)'
    BY <1>1, <1>2, <1>5, <2>1, <2>2, <2>4 DEF Knows, Writes, Grows
  <2>. QED BY <1>1, <1>2, <2>3, <2>4, <2>5, QuietStepOf
<1>. QED BY <1>3, <1>4, <1>5 DEF Detect

LEMMA ResolveDigestStep ==
  ASSUME IInv, NEW p \in Procs, ResolveDigest(p)
  PROVE  IInv'
<1>1. cmd[p].at = "digest" /\ UNCHANGED <<local, server, run>>
  BY DEF ResolveDigest, At
<1>2. Grows /\ ServerType' /\ Knows(p) /\ run[p] = "none" /\ run'[p] = run[p]
      /\ run' = [run EXCEPT ![p] = run'[p]] /\ run'[p] \in RunStates
      /\ cmd[p] \in Command /\ cmd \in [Procs -> Command]
  BY <1>1, ServerSame, CommandFacts DEF Knows, Before
<1>. PICK canonical \in BOOLEAN :
       cmd' = [cmd EXCEPT ![p].canonical = canonical, ![p].at = "send"]
  BY DEF ResolveDigest
<1>3. /\ cmd'[p] = [cmd[p] EXCEPT !.canonical = canonical, !.at = "send"]
      /\ cmd' = [cmd EXCEPT ![p] = cmd'[p]]
  BY <1>2
<1>4. /\ cmd'[p] \in Command /\ cmd'[p].op = cmd[p].op /\ cmd'[p].at = "send"
      /\ cmd'[p].remote = cmd[p].remote /\ cmd'[p].binding = cmd[p].binding
      /\ cmd'[p].result = cmd[p].result
  BY <1>2, <1>3 DEF Command, Places
<1>5. Knows(p)' /\ Writes(p)'
  BY <1>1, <1>2, <1>4 DEF Knows, Writes, Grows
<1>. QED BY <1>1, <1>2, <1>3, <1>4, <1>5, QuietStepOf

\* The polls of a context, which report what the run has done.
LEMMA PollStep ==
  ASSUME IInv, NEW p \in Procs, PollAgain(p) \/ PollAnswers(p) \/ PollBudgetSpent(p)
  PROVE  IInv'
<1>1. cmd[p].at = "poll" /\ UNCHANGED <<local, server, run>>
  BY DEF PollAgain, PollAnswers, PollBudgetSpent, At
<1>2. Grows /\ ServerType' /\ Knows(p) /\ run'[p] = run[p]
      /\ run' = [run EXCEPT ![p] = run'[p]] /\ run'[p] \in RunStates
      /\ cmd[p] \in Command /\ cmd \in [Procs -> Command] /\ cmd[p].op = "context"
  BY <1>1, ServerSame, CommandFacts DEF Knows
<1>3. CASE PollAgain(p)
  <2>1. /\ cmd' = [cmd EXCEPT ![p].polls = cmd[p].polls + 1] /\ cmd[p].polls < MaxPolls
        /\ cmd[p].polls \in 0..MaxPolls
    BY <1>2, <1>3 DEF PollAgain, Command
  <2>2. /\ cmd'[p] = [cmd[p] EXCEPT !.polls = cmd[p].polls + 1]
        /\ cmd' = [cmd EXCEPT ![p] = cmd'[p]]
    BY <1>2, <2>1
  <2>3. cmd[p].polls + 1 \in 0..MaxPolls
    BY <2>1
  <2>4. /\ cmd'[p] \in Command /\ cmd'[p].op = "context" /\ cmd'[p].at = "poll"
        /\ cmd'[p].gap = cmd[p].gap
        /\ cmd'[p].remote = cmd[p].remote /\ cmd'[p].binding = cmd[p].binding
        /\ cmd'[p].result = cmd[p].result
    BY <1>1, <1>2, <2>2, <2>3 DEF Command
  <2>5. Knows(p)' /\ Writes(p)'
    BY <1>1, <1>2, <2>4 DEF Knows, Writes, Before, Grows
  <2>. QED BY <1>1, <1>2, <2>2, <2>4, <2>5, QuietStepOf
<1>4. ASSUME run[p] = "succeeded", NEW body \in {"context", "none"},
             End(p, ContextResult(TRUE, body))
      PROVE  IInv'
  <2>1. \A c \in Command : c = cmd[p] => Held(c)'
    BY <1>1, <1>2, <1>4 DEF Knows, Held, server
  <2>2. ContextResult(TRUE, body) \in Results
    BY DEF ContextResult, Results
  <2>. QED BY <1>1, <1>2, <1>4, <2>1, <2>2, EndStep DEF End
<1>5. CASE End(p, "accepted")
  BY <1>1, <1>5, FailStep DEF Results
<1>. QED BY <1>3, <1>4, <1>5 DEF PollAnswers, PollBudgetSpent

LEMMA ReadStep ==
  ASSUME IInv, NEW p \in Procs, HealthRead(p) \/ GapRead(p)
  PROVE  IInv'
<1>1. cmd[p].at \in {"health", "getgap"} /\ UNCHANGED <<local, server, run>>
  BY DEF HealthRead, GapRead, At
<1>2. Grows /\ ServerType' /\ Knows(p) /\ run[p] = "none" /\ run'[p] = run[p]
      /\ run' = [run EXCEPT ![p] = run'[p]] /\ run'[p] \in RunStates
  BY <1>1, ServerSame, CommandFacts DEF Knows, Before
<1>3. ASSUME NEW place \in {"getgap", "send"}, Go(p, place)
      PROVE  IInv'
  <2>0. cmd[p].op # "attach"
    BY <1>1, <1>2 DEF Knows
  <2>1. Knows(p)' /\ Writes(p)'
    BY <1>1, <1>2, <1>3, <2>0, GoOn DEF Places
  <2>. QED BY <1>1, <1>2, <1>3, <2>1, GoOnStep DEF Places
<1>4. CASE End(p, "failed")
  BY <1>1, <1>4, FailStep DEF Results
<1>. QED BY <1>3, <1>4 DEF HealthRead, GapRead

LEMMA KilledStep ==
  ASSUME IInv, NEW p \in Procs, Killed(p)
  PROVE  IInv'
  BY FailStep DEF Killed, Results

\* A queued run is done when the server can do it, or ends otherwise.
LEMMA RunEndsStep ==
  ASSUME IInv, NEW p \in Procs, RunEnds(p)
  PROVE  IInv'
<1>1. run[p] = "running" /\ UNCHANGED <<local, cmd>>
  BY DEF RunEnds
<1>2. PICK c \in Command : c = cmd[p]
  BY CommandFacts
<1>3. Knows(p) /\ Writes(p) /\ ServerType /\ run \in [Procs -> RunStates] /\ cmd' = cmd
  BY <1>1, CommandFacts
<1>4. PICK end \in {"succeeded", "failed", "gone"} :
        /\ run' = [run EXCEPT ![p] = end]
        /\ end = "succeeded" => CanDo(c) /\ Effect(c)
        /\ end # "succeeded" => UNCHANGED server
  BY <1>2 DEF RunEnds
<1>5. run'[p] = end /\ run' = [run EXCEPT ![p] = run'[p]] /\ end \in RunStates
  BY <1>3, <1>4 DEF RunStates
<1>6. /\ Grows /\ ServerType'
      /\ end = "succeeded" /\ c.op = "context" => <<c.gap, c.remote>> \in contexts'
  <2>1. CASE end = "succeeded"
    <3>1. c.op = "attach" => c.remote \in Remotes
      BY <1>1, <1>2, <1>3 DEF Knows
    <3>. QED BY <1>3, <1>4, <2>1, <3>1, EffectGrows DEF Held
  <2>2. CASE end # "succeeded"
    BY <1>4, <2>2, ServerSame
  <2>. QED BY <2>1, <2>2
<1>7. ~Before(c)
  BY <1>1, <1>2, <1>3 DEF Knows
<1>8. Knows(p)'
  BY <1>2, <1>3, <1>5, <1>6, <1>7 DEF Knows, Before, Grows
<1>9. Writes(p)'
  <2>1. c.gap \in Gaps
    BY DEF Command
  <2>. QED BY <1>1, <1>2, <1>3, <1>6, <2>1 DEF Writes, Held, Grows, local
<1>. QED BY <1>1, <1>3, <1>5, <1>6, <1>8, <1>9, CommandFacts, QuietStepOf

-----------------------------------------------------------------------------
(* The files, and the working copy.                                        *)

LEMMA BindingStep ==
  ASSUME IInv, NEW p \in Procs, TruncateBinding(p) \/ SaveBinding(p)
  PROVE  IInv'
<1>1. /\ cmd[p].at \in {"truncate", "save"}
      /\ UNCHANGED <<origin, moves, records, server, run>>
  BY DEF TruncateBinding, SaveBinding, At
<1>2. Grows /\ ServerType' /\ Knows(p) /\ Writes(p) /\ run'[p] = run[p]
      /\ run' = [run EXCEPT ![p] = run'[p]] /\ run'[p] \in RunStates /\ cmd[p] \in Command
  BY <1>1, ServerSame, CommandFacts
<1>3. /\ origin' \in Remote /\ moves' \in 0..MaxMoves
      /\ records' \in [Gaps -> SUBSET RecordNames] /\ records' = records
  BY <1>1 DEF IInv, TypeOK
<1>4. /\ cmd[p].op = "attach" /\ cmd[p].remote \in granted' /\ cmd[p].remote \notin PlatformClass
      /\ cmd[p].remote \in Remote
  BY <1>1, <1>2 DEF Writes, Grows, Command
<1>5. /\ file' \in [state : FileStates, binding : Remote, remote : Remote]
      /\ file'.state = "whole" => /\ file'.binding = file'.remote
                                  /\ file'.binding \in granted'
                                  /\ file'.remote \notin PlatformClass
  <2>1. file' \in {file, CutFile, FileOf(cmd[p].remote, cmd[p].remote)}
    BY DEF TruncateBinding, SaveBinding
  <2>2. CASE file' = file
    BY <1>2, <2>2 DEF IInv, TypeOK, BindingFileIsGranted, Grows
  <2>3. CASE file' = CutFile
    BY <2>3 DEF CutFile, NoFile, FileStates, Remote
  <2>4. CASE file' = FileOf(cmd[p].remote, cmd[p].remote)
    BY <1>4, <2>4 DEF FileOf, FileStates
  <2>. QED BY <2>1, <2>2, <2>3, <2>4
<1>6. CASE Go(p, "save")
  <2>0. cmd[p].remote \in Remotes
    BY <1>2, <1>4 DEF ServerType
  <2>1. Knows(p)' /\ Writes(p)'
    BY <1>1, <1>2, <1>4, <1>6, <2>0, GoOn DEF Places
  <2>2. cmd' = [cmd EXCEPT ![p] = cmd'[p]] /\ cmd'[p] \in Command
    BY <1>6, GoFacts DEF Places
  <2>. QED BY <1>2, <1>3, <1>5, <2>1, <2>2, StepOf
<1>7. CASE End(p, "success")
  <2>1. /\ cmd' = [cmd EXCEPT ![p] = cmd'[p]] /\ cmd'[p] \in Command
        /\ cmd'[p].op = "attach" /\ cmd'[p].at = "over" /\ cmd'[p].binding = NoRemote
        /\ cmd'[p].remote = cmd[p].remote
    BY <1>4, <1>7, EndFacts DEF End, Results
  <2>2. Knows(p)' /\ Writes(p)'
    BY <1>2, <1>4, <2>1 DEF Knows, Writes, Before, Held, Grows, Remote
  <2>. QED BY <1>2, <1>3, <1>5, <2>1, <2>2, StepOf
<1>. QED BY <1>6, <1>7 DEF TruncateBinding, SaveBinding

\* Each record of a closure is written after the one it answers.
LEMMA RecordStep ==
  ASSUME IInv, NEW p \in Procs, WriteRecords(p)
  PROVE  IInv'
<1>1. PICK name \in RecordNames, next \in {"preflight", "response", "over"} :
        /\ WriteRecord(p, name, next)
        /\ <<name, next>> \in {<<"request", "preflight">>, <<"preflight", "response">>,
                               <<"response", "over">>}
  BY DEF WriteRecords, RecordNames
<1>2. /\ cmd[p].at = name /\ UNCHANGED <<origin, moves, file, server, run>>
  BY <1>1 DEF WriteRecord, At
<1>3. Grows /\ ServerType' /\ Knows(p) /\ Writes(p) /\ run'[p] = run[p]
      /\ run' = [run EXCEPT ![p] = run'[p]] /\ run'[p] \in RunStates
      /\ cmd[p] \in Command /\ cmd[p].gap \in Gaps
  BY <1>2, ServerSame, CommandFacts
<1>4. /\ cmd[p].op = "close" /\ gap[cmd[p].gap] = "closed" /\ gap'[cmd[p].gap] = "closed"
      /\ name \in {"preflight", "response"} => "request" \in records[cmd[p].gap]
      /\ name = "response" => "preflight" \in records[cmd[p].gap]
  BY <1>2, <1>3 DEF Writes, RecordNames, Grows
<1>5. CASE UNCHANGED records /\ End(p, "failed")
  BY <1>2, <1>5, FailStep DEF Results, local
<1>6. CASE /\ records' = [records EXCEPT ![cmd[p].gap] = @ \cup {name}]
           /\ \/ next = "over" /\ End(p, "success")
              \/ next # "over" /\ Go(p, next)
  <2>1. /\ records' \in [Gaps -> SUBSET RecordNames]
        /\ \A g \in Gaps :
             /\ records[g] \subseteq records'[g]
             /\ "response" \in records'[g] /\ "response" \notin records[g] =>
                  gap[g] = "closed" /\ {"request", "preflight"} \subseteq records[g]
        /\ name \in records'[cmd[p].gap]
    BY <1>3, <1>4, <1>6 DEF IInv, TypeOK
  <2>2. /\ origin' \in Remote /\ moves' \in 0..MaxMoves
        /\ file' \in [state : FileStates, binding : Remote, remote : Remote]
        /\ file'.state = "whole" => /\ file'.binding = file'.remote
                                    /\ file'.binding \in granted'
                                    /\ file'.remote \notin PlatformClass
    BY <1>2, <1>3 DEF IInv, TypeOK, BindingFileIsGranted, Grows
  <2>3. /\ cmd' = [cmd EXCEPT ![p] = cmd'[p]] /\ cmd'[p] \in Command
        /\ Knows(p)' /\ Writes(p)'
    <3>1. CASE next = "over" /\ End(p, "success")
      <4>1. /\ cmd' = [cmd EXCEPT ![p] = cmd'[p]] /\ cmd'[p] \in Command
            /\ cmd'[p].op = "close" /\ cmd'[p].at = "over" /\ cmd'[p].binding = NoRemote
            /\ cmd'[p].gap = cmd[p].gap
        BY <1>4, <3>1, EndFacts DEF End, Results
      <4>. QED BY <1>4, <4>1 DEF Knows, Writes, Before, Held
    <3>2. CASE next # "over" /\ Go(p, next)
      <4>1. name \in {"request", "preflight"} /\ next \in {"preflight", "response"}
            /\ (next = "preflight" <=> name = "request")
        BY <1>1, <3>2
      <4>2. /\ "request" \in records'[cmd[p].gap]
            /\ next = "response" => "preflight" \in records'[cmd[p].gap]
        BY <1>3, <1>4, <2>1, <4>1
      <4>3. Knows(p)' /\ Writes(p)'
        BY <1>2, <1>3, <1>4, <3>2, <4>1, <4>2, GoOn DEF Places
      <4>. QED BY <3>2, <4>1, <4>3, GoFacts DEF Places
    <3>. QED BY <1>6, <3>1, <3>2
  <2>. QED BY <1>3, <2>1, <2>2, <2>3, StepOf
<1>. QED BY <1>1, <1>5, <1>6 DEF WriteRecord

LEMMA MoveStep ==
  ASSUME IInv, MoveOrigin
  PROVE  IInv'
<1>1. /\ moves < MaxMoves /\ moves' = moves + 1 /\ origin' \in Remote
      /\ UNCHANGED <<file, records, cmd, server, run>>
  BY DEF MoveOrigin
<1>2. TypeOK'
  BY <1>1 DEF IInv, TypeOK, server
<1>3. \A p \in Procs : Knows(p)' /\ Writes(p)'
  BY <1>1, ServerSame, OthersKeep
<1>4. BindingFileIsGranted' /\ ClosureRecordIsEvidence'
  BY <1>1 DEF IInv, BindingFileIsGranted, ClosureRecordIsEvidence, server
<1>. QED BY <1>2, <1>3, <1>4 DEF IInv

LEMMA StepIInv == IInv /\ [Next]_vars => IInv'
<1>. SUFFICES ASSUME IInv, [Next]_vars PROVE IInv'
  OBVIOUS
<1>1. CASE UNCHANGED vars
  <2>1. UNCHANGED <<origin, moves, file, records, cmd, server, run>>
    BY <1>1 DEF vars, local
  <2>2. \A p \in Procs : Knows(p)' /\ Writes(p)'
    BY <2>1, ServerSame, OthersKeep
  <2>. QED BY <2>1, <2>2 DEF IInv, TypeOK, BindingFileIsGranted, ClosureRecordIsEvidence, server
<1>2. ASSUME NEW p \in Procs, Step(p)
      PROVE  IInv'
  BY <1>2, DetectStep, ResolveDigestStep, ServerDoesStep, ServerQueuesStep, ServerRefusesStep,
     BindingStep, PollStep, ReadStep, RecordStep DEF Step
<1>. QED BY <1>1, <1>2, StartStep, KilledStep, RunEndsStep, MoveStep DEF Next

LEMMA InvariantIInv == Spec => []IInv
  BY InitIInv, StepIInv, PTL DEF Spec

-----------------------------------------------------------------------------
\* The working copy, the commands and the boundary keep their types.
THEOREM TypeCorrect == Spec => []TypeOK
<1>1. IInv => TypeOK
  BY DEF IInv
<1>. QED BY <1>1, InvariantIInv, PTL

\* However often the origin is changed and whoever is killed while it writes,
\* a binding that can be read was granted for the remote beside it, and no
\* command sends one that was not granted.
THEOREM BindingsAreGranted == Spec => []BindingFileIsGranted
<1>1. IInv => BindingFileIsGranted
  BY DEF IInv
<1>. QED BY <1>1, InvariantIInv, PTL

\* For any number of commands at once, and any answers lost or late, a command
\* that reports success was done at the server, and not undone since.
THEOREM SuccessesAreBacked == Spec => []SuccessIsBacked
<1>1. IInv => SuccessIsBacked
  BY DEF IInv, Writes, SuccessIsBacked
<1>. QED BY <1>1, InvariantIInv, PTL

\* A closure record lies beside its request and preflight, of a closed gap.
THEOREM ClosureRecordsAreEvidence == Spec => []ClosureRecordIsEvidence
<1>1. IInv => ClosureRecordIsEvidence
  BY DEF IInv
<1>. QED BY <1>1, InvariantIInv, PTL
=============================================================================
