--------------------------- MODULE RepoGovernance ---------------------------
(***************************************************************************)
(* The commands that take a repository through a governed gap: repo attach, *)
(* gaps list, create, revalidate, claim and close, and governance-context   *)
(* create.  They run as separate processes over one working copy, whose     *)
(* origin the user may change, and one boundary, which does, queues or      *)
(* refuses what it is asked and may lose the answer.  The dispatcher's      *)
(* classification of the answer is what every command decides upon          *)
(* (Dispatch).                                                              *)
(*                                                                          *)
(* A binding is identified with the remote it is granted for.  Branch,      *)
(* commit and claim token are left out, and so is the identity of the       *)
(* caller.                                                                  *)
(***************************************************************************)
EXTENDS Integers, FiniteSets, Dispatch

CONSTANTS
  Procs,            \* processes, each of which runs one command
  Gaps,             \* gap ids
  Remotes,          \* origin urls a working copy may have
  Platform,         \* urls this client recognises as the platform repository
  PlatformClass,    \* urls the server classes as PLATFORM_CONTROL
  NoRemote,         \* no origin, no binding, no claim
  Plays,            \* Plays[p]: the commands process p may run
  MaxPolls,         \* max_polls of _poll_run_output
  MaxMoves          \* how often the user changes the origin

ASSUME RemotesAssumption ==
  /\ Platform \subseteq PlatformClass
  /\ PlatformClass \subseteq Remotes
  /\ NoRemote \notin Remotes
ASSUME BoundsAssumption == MaxPolls \in Nat /\ MaxMoves \in Nat

VARIABLES
  origin,     \* git remote get-url origin, NoRemote when there is none
  moves,      \* how often it was changed
  file,       \* .keyhole/repo-binding.json
  records,    \* records[g]: files of .keyhole/gap-closures/<g>
  cmd,        \* cmd[p]: the command p runs
  granted,    \* server: remotes with a binding
  gap,        \* server: status of each gap
  claim,      \* server: the remote a gap is claimed for
  contexts,   \* server: <<gap, remote>> with a governance context
  run         \* server: run[p] is the queued run of p's command

local  == <<origin, moves, file, records>>
server == <<granted, gap, claim, contexts>>
vars   == <<local, cmd, server, run>>

Ops == {"attach", "list", "create", "revalidate", "claim", "context", "close"}
GapRuns == {"list", "create", "revalidate", "claim"}
Places == {"idle", "detect", "digest", "send", "poll",
           "truncate", "save", "health", "getgap",
           "request", "preflight", "response", "over"}
Results == {"none", "success", "pending", "accepted", "failed"}
Statuses == {"absent", "stale", "open", "closed"}
RunStates == {"none", "running", "succeeded", "failed", "gone"}
RecordNames == {"request", "preflight", "response"}

Remote == Remotes \cup {NoRemote}

(* What a server that does not keep to the contract may answer without      *)
(* doing what was asked: the forms attach and context create look for.      *)
OddBodies(op) ==
  IF op = "attach" THEN {"platform"}
  ELSE IF op = "context"
       THEN {"pending", "workspace", "persistent", "platform", "unbound"}
       ELSE {}

BodyOf(op) ==
  IF op = "attach" THEN "binding"
  ELSE IF op = "context" THEN "context"
  ELSE IF op = "close" THEN "lineage" ELSE "none"

(***************************************************************************)
(* The working copy                                                         *)
(***************************************************************************)
FileStates == {"none", "cut", "whole"}
NoFile == [state |-> "none", binding |-> NoRemote, remote |-> NoRemote]
CutFile == [NoFile EXCEPT !.state = "cut"]
FileOf(binding, remote) ==
  [state |-> "whole", binding |-> binding, remote |-> remote]

(* A missing or unreadable file is no binding, and the remote the file      *)
(* records is not compared with the origin.                                 *)
load_repo_binding_id(f) == IF f.state = "whole" THEN f.binding ELSE NoRemote

(* RepoIdentityError: no origin, or the platform repository.                *)
Unusable(remote) == remote = NoRemote \/ remote \in Platform

Fresh(op, g) ==
  [op |-> op, gap |-> g, at |-> "idle", remote |-> NoRemote,
   binding |-> NoRemote, canonical |-> FALSE, polls |-> 0,
   refused |-> FALSE, result |-> "none"]

(* A working copy as earlier commands may have left it: never attached, or  *)
(* attached once, and the gap claimed for that repository or not.           *)
Init ==
  /\ origin \in Remote /\ moves = 0
  /\ \/ granted = {} /\ file = NoFile
     \/ \E r \in Remotes \ PlatformClass :
          granted = {r} /\ file \in {CutFile, FileOf(r, r)}
  /\ records = [g \in Gaps |-> {}]
  /\ \E op \in [Procs -> Ops], about \in [Procs -> Gaps] :
       /\ \A p \in Procs : op[p] \in Plays[p]
       /\ cmd = [p \in Procs |-> Fresh(op[p], about[p])]
  /\ gap \in [Gaps -> {"absent", "stale", "open"}]
  /\ claim \in [Gaps -> granted \cup {NoRemote}]
  /\ \A g \in Gaps : claim[g] # NoRemote => gap[g] = "open"
  /\ contexts = {}
  /\ run = [p \in Procs |-> "none"]

(***************************************************************************)
(* Steps of a command.  Go moves p on, End gives its result and forgets     *)
(* all but the request; refused remembers an answer whose ok was false.     *)
(***************************************************************************)
Go(p, place) == cmd' = [cmd EXCEPT ![p].at = place]
EndGiven(p, refused, result) ==
  cmd' = [cmd EXCEPT ![p] = [Fresh(@.op, @.gap) EXCEPT
            !.at = "over", !.remote = cmd[p].remote, !.canonical = cmd[p].canonical,
            !.refused = refused, !.result = result]]
End(p, result) == EndGiven(p, FALSE, result)

At(p, place) == cmd[p].at = place

(* What a command does first once it has a session.                         *)
FirstPlace(op) ==
  IF op \in {"attach", "claim", "context", "close"} THEN "detect"
  ELSE IF op = "list" THEN "send" ELSE "digest"

(* No session, or an argument missing, ends the command before it begins.   *)
Start(p) ==
  /\ At(p, "idle")
  /\ \/ Go(p, FirstPlace(cmd[p].op))
     \/ End(p, "failed")
  /\ UNCHANGED <<local, server, run>>

(* detect_repo_identity: the origin, and the stored binding whatever remote *)
(* it was saved for.  --repo-binding-id overrides it for a context.  A      *)
(* claim goes on without the repository, the other commands fail.           *)
Detect(p) ==
  /\ At(p, "detect")
  /\ \/ /\ ~Unusable(origin)
        /\ \E binding \in {load_repo_binding_id(file)}
                           \cup (IF cmd[p].op = "context" THEN granted ELSE {}) :
             cmd' = [cmd EXCEPT
               ![p].remote = origin, ![p].binding = binding,
               ![p].at = IF cmd[p].op = "claim" THEN "digest"
                         ELSE IF cmd[p].op = "close" THEN "health" ELSE "send"]
     \/ /\ Unusable(origin)
        /\ IF cmd[p].op = "claim" THEN Go(p, "digest") ELSE End(p, "failed")
  /\ UNCHANGED <<local, server, run>>

(* The canonical digest of gaps.status, or else that of context.compile,    *)
(* which the server does not take, or none.                                 *)
ResolveDigest(p) ==
  /\ At(p, "digest")
  /\ \E canonical \in BOOLEAN :
       cmd' = [cmd EXCEPT ![p].canonical = canonical, ![p].at = "send"]
  /\ UNCHANGED <<local, server, run>>

(***************************************************************************)
(* What each command makes of the answer                                    *)
(***************************************************************************)

(* The commands of gaps that are one run report its outcome.                *)
GapsConclude(p, r) ==
  EndGiven(p, ~r.ok,
           IF dispatch_run(r) = "SUCCESS" THEN "success"
            ELSE IF dispatch_run(r) = "ACCEPTED" THEN "accepted"
            ELSE "failed")

(* attach keeps the binding of the answer; an answer without one is a       *)
(* success all the same.                                                    *)
AttachConclude(p, r) ==
  IF dispatch_run(r) \notin {"SUCCESS", "ACCEPTED"} \/ r.body = "platform"
  THEN End(p, "failed")
  ELSE IF r.body = "binding" THEN Go(p, "truncate") ELSE End(p, "success")

(* _check_server_compat: ok, no persistent workspace, not the platform      *)
(* repository, not a workspace alone, and the subject repository named.     *)
check_server_compat(ok, body) ==
  /\ ok
  /\ body # "persistent"
  /\ body # "platform"
  /\ body # "workspace"
  /\ body \notin {"unbound", "none"}

(* The exit of a context: the guards, and an answer without the id of a     *)
(* context is printed as pending.                                           *)
ContextResult(ok, body) ==
  IF ~check_server_compat(ok, body) THEN "failed"
  ELSE IF body = "context" THEN "success" ELSE "pending"

(* An accepted context that names its run is polled for.                    *)
ContextConclude(p, r) ==
  IF dispatch_run(r) \notin {"SUCCESS", "ACCEPTED"} THEN End(p, "failed")
  ELSE IF dispatch_run(r) = "ACCEPTED" /\ r.named THEN Go(p, "poll")
  ELSE End(p, ContextResult(r.ok, r.body))

(* Mutant: the answer is not looked at.                                     *)
AnyResponse(r) == TRUE

(* gaps close takes any answer with the lineage of the closure.             *)
assert_closure_response_governed(r) == r.body = "lineage"

CloseConclude(p, r) ==
  IF Raises(r) \/ ~assert_closure_response_governed(r)
  THEN End(p, "failed") ELSE Go(p, "request")

Conclude(p, r) ==
  IF cmd[p].op \in GapRuns THEN GapsConclude(p, r)
  ELSE IF cmd[p].op = "attach" THEN AttachConclude(p, r)
  ELSE IF cmd[p].op = "context" THEN ContextConclude(p, r)
  ELSE CloseConclude(p, r)

(***************************************************************************)
(* The boundary: what it needs to do a request, and what doing it changes.  *)
(***************************************************************************)
CanDo(c) ==
  /\ c.op \in {"create", "revalidate", "claim"} => c.canonical
  /\ c.op = "create" => gap[c.gap] = "absent"
  /\ c.op = "revalidate" => gap[c.gap] = "stale"
  /\ c.op \in {"claim", "context", "close"} => gap[c.gap] = "open"
  /\ c.op \in {"attach", "claim", "context"} => c.remote \notin PlatformClass
  /\ c.op = "claim" => claim[c.gap] = NoRemote /\ c.remote # NoRemote
  /\ c.op = "context" => claim[c.gap] # NoRemote

Effect(c) ==
  /\ granted' = IF c.op = "attach" THEN granted \cup {c.remote} ELSE granted
  /\ gap' = IF c.op \in {"create", "revalidate"} THEN [gap EXCEPT ![c.gap] = "open"]
            ELSE IF c.op = "close" THEN [gap EXCEPT ![c.gap] = "closed"] ELSE gap
  /\ claim' = IF c.op = "claim" THEN [claim EXCEPT ![c.gap] = c.remote] ELSE claim
  /\ contexts' = IF c.op = "context" THEN contexts \cup {<<c.gap, c.remote>>}
                 ELSE contexts

(* The answer, or its loss, and what the command makes of it.               *)
Answered(p, replies) == \E r \in replies \cup {NoReply} : Conclude(p, r)

ServerDoes(p) ==
  /\ At(p, "send")
  /\ CanDo(cmd[p])
  /\ Effect(cmd[p])
  /\ Answered(p, {Done(BodyOf(cmd[p].op))})
  /\ UNCHANGED <<local, run>>

ServerQueues(p) ==
  /\ At(p, "send")
  /\ run' = [run EXCEPT ![p] = "running"]
  /\ Answered(p, Queued)
  /\ UNCHANGED <<local, server>>

(* A gap that is closed may be answered with the lineage it has.            *)
ServerRefuses(p) ==
  /\ At(p, "send")
  /\ Answered(p, Refusals
       \cup {Done(body) : body \in OddBodies(cmd[p].op)}
       \cup (IF cmd[p].op = "close" /\ gap[cmd[p].gap] = "closed"
             THEN {Done("lineage")} ELSE {}))
  /\ UNCHANGED <<local, server, run>>

(* A queued run is done later, fails, or is forgotten by the server.        *)
RunEnds(p) ==
  /\ run[p] = "running"
  /\ \/ CanDo(cmd[p]) /\ Effect(cmd[p]) /\ run' = [run EXCEPT ![p] = "succeeded"]
     \/ /\ \E end \in {"failed", "gone"} : run' = [run EXCEPT ![p] = end]
        /\ UNCHANGED server
  /\ UNCHANGED <<local, cmd>>

(***************************************************************************)
(* What follows the answer                                                  *)
(***************************************************************************)

(* write_text truncates the file and then writes it.  What a second writer  *)
(* leaves of a file the first has written in between need not parse.  An    *)
(* OSError is a warning.                                                    *)
TruncateBinding(p) ==
  /\ At(p, "truncate")
  /\ \/ file' = CutFile /\ Go(p, "save")
     \/ file' = file /\ End(p, "success")
  /\ UNCHANGED <<origin, moves, records, server, run>>

(* Mutant: the remote is read again when the file is written.               *)
SaveRereading(p) ==
  /\ At(p, "save")
  /\ file' = FileOf(cmd[p].remote, origin)
  /\ End(p, "success")
  /\ UNCHANGED <<origin, moves, records, server, run>>

SaveBinding(p) ==
  /\ At(p, "save")
  /\ file' \in {FileOf(cmd[p].remote, cmd[p].remote), CutFile}
  /\ file' = CutFile => file.state = "whole"
  /\ End(p, "success")
  /\ UNCHANGED <<origin, moves, records, server, run>>

(* _poll_run_output: an unreadable answer and a run that goes on cost one   *)
(* poll; a run that is gone or has failed, and a spent budget, all give     *)
(* None, which is reported as accepted.                                     *)
(* Mutant: a poll that fails is not counted.                                *)
PollUncounted(p) ==
  /\ At(p, "poll")
  /\ cmd' = [cmd EXCEPT ![p].canonical = ~@]
  /\ UNCHANGED <<local, server, run>>

PollAgain(p) ==
  /\ At(p, "poll") /\ cmd[p].polls < MaxPolls
  /\ cmd' = [cmd EXCEPT ![p].polls = @ + 1]
  /\ UNCHANGED <<local, server, run>>

PollAnswers(p) ==
  /\ At(p, "poll") /\ cmd[p].polls < MaxPolls
  /\ \/ run[p] = "succeeded" /\ \E body \in {"context", "none"} :
          End(p, ContextResult(TRUE, body))
     \/ run[p] \in {"failed", "gone"} /\ End(p, "accepted")
  /\ UNCHANGED <<local, server, run>>

PollBudgetSpent(p) ==
  /\ At(p, "poll") /\ cmd[p].polls = MaxPolls
  /\ End(p, "accepted")
  /\ UNCHANGED <<local, server, run>>

(***************************************************************************)
(* gaps close: two reads before the closure, and three files after it.      *)
(* A GapClosureError is reported, any other exception leaves the command:   *)
(* both are a failure here.                                                 *)
(***************************************************************************)
HealthRead(p) ==
  /\ At(p, "health")
  /\ \/ Go(p, "getgap")
     \/ End(p, "failed")
  /\ UNCHANGED <<local, server, run>>

GapRead(p) ==
  /\ At(p, "getgap")
  /\ \/ gap[cmd[p].gap] = "open" /\ Go(p, "send")
     \/ End(p, "failed")
  /\ UNCHANGED <<local, server, run>>

WriteRecord(p, name, next) ==
  /\ At(p, name)
  /\ \/ /\ records' = [records EXCEPT ![cmd[p].gap] = @ \cup {name}]
        /\ IF next = "over" THEN End(p, "success") ELSE Go(p, next)
     \/ UNCHANGED records /\ End(p, "failed")
  /\ UNCHANGED <<origin, moves, file, server, run>>

WriteRecords(p) ==
  \/ WriteRecord(p, "request", "preflight")
  \/ WriteRecord(p, "preflight", "response")
  \/ WriteRecord(p, "response", "over")

(***************************************************************************)
Killed(p) ==
  /\ cmd[p].at \notin {"idle", "over"}
  /\ End(p, "failed")
  /\ UNCHANGED <<local, server, run>>

MoveOrigin ==
  /\ moves < MaxMoves
  /\ moves' = moves + 1
  /\ origin' \in Remote \ {origin}
  /\ UNCHANGED <<file, records, cmd, server, run>>

(* What a started command does next, and the boundary's answer to it.       *)
Step(p) ==
  \/ Detect(p) \/ ResolveDigest(p)
  \/ ServerDoes(p) \/ ServerQueues(p) \/ ServerRefuses(p)
  \/ TruncateBinding(p) \/ SaveBinding(p)
  \/ PollAgain(p) \/ PollAnswers(p) \/ PollBudgetSpent(p)
  \/ HealthRead(p) \/ GapRead(p) \/ WriteRecords(p)

Next == \/ \E p \in Procs : Start(p) \/ Step(p) \/ Killed(p) \/ RunEnds(p)
        \/ MoveOrigin

Spec == Init /\ [][Next]_vars

(* Every call has a timeout and every sleep ends, so a started command goes *)
(* on; nothing is assumed of the user, of runs or of the start of commands. *)
Fairness == \A p \in Procs : WF_vars(Step(p))
FairSpec == Spec /\ Fairness

(***************************************************************************)
(* Properties                                                               *)
(***************************************************************************)
TypeOK ==
  /\ origin \in Remote /\ moves \in 0..MaxMoves
  /\ file \in [state : FileStates, binding : Remote, remote : Remote]
  /\ records \in [Gaps -> SUBSET RecordNames]
  /\ cmd \in [Procs -> [op : Ops, gap : Gaps, at : Places, remote : Remote,
                        binding : Remote, canonical : BOOLEAN,
                        polls : 0..MaxPolls,
                        refused : BOOLEAN, result : Results]]
  /\ granted \subseteq Remotes
  /\ gap \in [Gaps -> Statuses]
  /\ claim \in [Gaps -> Remote]
  /\ contexts \subseteq Gaps \X Remote
  /\ run \in [Procs -> RunStates]

(* .keyhole/repo-binding.json, whenever it can be read, names a binding the *)
(* server granted for the very remote the file records, and never one of a  *)
(* repository the server classes as the platform: whatever the origin has   *)
(* become since, and whoever else attached or died meanwhile.  So a binding *)
(* a command sends was granted, if perhaps not for the origin it sends too. *)
BindingFileIsGranted ==
  /\ file.state = "whole" =>
       /\ file.binding = file.remote
       /\ file.binding \in granted
       /\ file.remote \notin PlatformClass
  /\ \A p \in Procs : cmd[p].binding \in granted \cup {NoRemote}

(* A command that reports plain success was done at the server: the gap is  *)
(* created, revalidated, claimed for the repository named, closed, or has   *)
(* the context.  Not so for attach, which takes acceptance for success, and *)
(* for a gap run answered 200 with ok false, which the dispatcher misses.   *)
Held(c) ==
  /\ c.op = "create" => gap[c.gap] # "absent"
  /\ c.op = "revalidate" => gap[c.gap] # "stale"
  /\ c.op = "claim" => claim[c.gap] = c.remote
  /\ c.op = "context" => <<c.gap, c.remote>> \in contexts
  /\ c.op = "close" => gap[c.gap] = "closed"

SuccessIsBacked ==
  \A p \in Procs :
    cmd[p].result = "success" /\ ~cmd[p].refused => Held(cmd[p])

(* The record of a closure is evidence: closure_response.json exists only   *)
(* when the gap is closed at the server and the request and the preflight   *)
(* it answers are beside it, wherever the command was killed.               *)
ClosureRecordIsEvidence ==
  \A g \in Gaps :
    "response" \in records[g] =>
      gap[g] = "closed" /\ {"request", "preflight"} \subseteq records[g]

(* Every command that was started ends, also a context whose run never      *)
(* does: the poll budget.                                                   *)
CommandsEnd ==
  \A p \in Procs : cmd[p].at \notin {"idle", "over"} ~> cmd[p].at = "over"
=============================================================================
