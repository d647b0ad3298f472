------------------------------ MODULE FirstApp ------------------------------
(***************************************************************************)
(* The governed first app (keyhole_sdk/governed_demo.py): repo register,    *)
(* context compile and run --context auto in a working copy named           *)
(* my-first-app.  Each is a process of its own; what one passes on to the   *)
(* next are three files under .keyhole/governed-demo, written in place.     *)
(*                                                                          *)
(* The MCP server is external.  It executes a request at once or as a run   *)
(* that is polled, it may refuse it, and any answer may be lost.  An object *)
(* it creates is identified with the place of its request in served.        *)
(***************************************************************************)
EXTENDS Naturals, Sequences

CONSTANTS
  AppProcs,       \* processes, each of which runs one command
  AppGaps,        \* canonical gap ids
  NoGap,          \* no gap
  AppScenes,      \* functions that give every process its command
  MaxServed,      \* bound on the requests the server executes
  MaxDigests      \* bound on the context digests it mints

AppCommands == {"register", "compile", "run"}

ASSUME AppAssumption ==
  /\ NoGap \notin AppGaps
  /\ AppScenes \subseteq [AppProcs -> AppCommands]
  /\ MaxServed \in Nat /\ MaxDigests \in Nat

VARIABLES
  saved,          \* saved[c]: the file that command c writes
  app,            \* app[p]: the process p
  served,         \* server: the requests it has executed
  digests,        \* server: how many context digests it has minted
  canonical,      \* server: the current canonical digest, 0 if it names none
  needsClaim      \* server: requires_active_claim

appServer == <<served, digests, canonical, needsClaim>>
appVars == <<saved, app, appServer>>

\* registration.json holds its registration (of), claim, gap and digest,
\* context.json its context (of) and registration, receipt.json its realization.
NoFile == [state |-> "none", of |-> 0, cites |-> 0, gap |-> NoGap, digest |-> 0]
CutFile == [NoFile EXCEPT !.state = "cut"]      \* truncated
MixedFile == [NoFile EXCEPT !.state = "mixed"]  \* of two writers, no JSON

Blank(c) == [cmd |-> c, at |-> "idle", result |-> "none", gap |-> NoGap, digest |-> 0,
             cites |-> 0, got |-> 0]

AppInit ==
  /\ saved = [c \in AppCommands |-> NoFile]
  /\ \E scene \in AppScenes : app = [p \in AppProcs |-> Blank(scene[p])]
  /\ served = <<>> /\ digests = 0 /\ canonical = 0 /\ needsClaim \in BOOLEAN

-----------------------------------------------------------------------------
AppAt(p, c, place) == app[p].cmd = c /\ app[p].at = place
AppGo(p, place) == app' = [app EXCEPT ![p].at = place]
Ended(p, outcome) == [Blank(app[p].cmd) EXCEPT !.at = "over", !.result = outcome]

\* A GovernedDemoError or another exception: reported, nothing saved.
Fails(p) == app' = [app EXCEPT ![p] = Ended(p, "failed")]

AppStart(p) ==
  /\ app[p].at = "idle"
  /\ AppGo(p, "discover")
  /\ UNCHANGED <<saved, appServer>>

\* discover requires the operations; what is missing fails like AppKilled.
AppDiscover(p) ==
  /\ app[p].at = "discover"
  /\ AppGo(p, IF app[p].cmd # "register" THEN "read"
              ELSE IF needsClaim THEN "digest" ELSE "send")
  /\ UNCHANGED <<saved, appServer>>

-----------------------------------------------------------------------------
(* Requests and their answers.                                             *)

\* What a request of operation o by p says.
RequestOf(p, o, st) ==
  [op |-> o, cites |-> app[p].cites, gap |-> app[p].gap, digest |-> app[p].digest, st |-> st]

\* The server executes it at once, in which case its answer is lost or read,
\* or accepts it; or it refuses it.  An answer that lacks the id, or for a
\* realization its evidence, is "bare".
Request(p, o) ==
  \/ /\ Len(served) < MaxServed
     /\ \E st \in {"done", "bare", "active"} : served' = Append(served, RequestOf(p, o, st))
     /\ \/ app' = [app EXCEPT ![p].got = Len(served'), ![p].at = "answer"]
        \/ Fails(p)
  \/ Fails(p) /\ UNCHANGED served

\* Mutant: an accepted request is as good as a finished one.
AnsweredOrAccepted(p) == app[p].at = "answer" /\ served[app[p].got].st \in {"done", "active"}

\* _resolve_async_result and what the caller wants of its result.
Answered(p) == app[p].at = "answer" /\ served[app[p].got].st = "done"

\* The run failed or its result is of no use; that 120 seconds are over is
\* AppKilled.
AnswerFails(p) ==
  /\ app[p].at = "answer" /\ served[app[p].got].st \in {"bare", "failed"}
  /\ Fails(p)
  /\ UNCHANGED <<saved, appServer>>

AppRunEnds(i) ==
  /\ served[i].st = "active"
  /\ \E st \in {"done", "bare", "failed"} : served' = [served EXCEPT ![i].st = st]
  /\ UNCHANGED <<saved, app, digests, canonical, needsClaim>>

CanonicalMoves ==
  /\ digests < MaxDigests
  /\ digests' = digests + 1 /\ canonical' = digests'
  /\ UNCHANGED <<saved, app, served, needsClaim>>

-----------------------------------------------------------------------------
(* repo register                                                           *)

\* _claim_context_digest: the current canonical digest, if it can be had, or
\* that of a context compiled for the claim.
ClaimDigest(p) ==
  /\ AppAt(p, "register", "digest")
  /\ \/ /\ canonical # 0
        /\ app' = [app EXCEPT ![p].digest = canonical, ![p].at = "gap"]
        /\ UNCHANGED digests
     \/ /\ digests < MaxDigests
        /\ digests' = digests + 1
        /\ app' = [app EXCEPT ![p].digest = digests', ![p].at = "gap"]
  /\ UNCHANGED <<saved, served, canonical, needsClaim>>

\* The override, the capabilities, or gaps.list, with no memory of an earlier
\* registration.
ResolveGap(p) ==
  /\ AppAt(p, "register", "gap")
  /\ \E g \in AppGaps : app' = [app EXCEPT ![p].gap = g, ![p].at = "claim"]
  /\ UNCHANGED <<saved, appServer>>

AppClaim(p) ==
  /\ AppAt(p, "register", "claim")
  /\ Request(p, "claim")
  /\ UNCHANGED <<saved, digests, canonical, needsClaim>>

Claimed(p) ==
  /\ Answered(p) /\ served[app[p].got].op = "claim"
  /\ app' = [app EXCEPT ![p].cites = app[p].got, ![p].got = 0, ![p].at = "send"]
  /\ UNCHANGED <<saved, appServer>>

-----------------------------------------------------------------------------
(* context compile, and the run                                            *)

SourceOf(c) == IF c = "compile" THEN "register" ELSE "compile"

\* Mutant: a file that cannot be read is taken for an empty one.
ReadsLeniently(p) == TRUE

\* _read_state raises where the file is missing, json.loads where it is no JSON.
Reads(p) == saved[SourceOf(app[p].cmd)].state = "whole"

\* Mutant: the current canonical digest is preferred.
ContextRefOfNow(f) == IF canonical # 0 THEN canonical ELSE f.digest

\* The digest of the claim, or the current canonical one if there is none.
ContextRef(f) == IF f.digest # 0 THEN f.digest ELSE canonical

ReadSource(p) ==
  LET f == saved[SourceOf(app[p].cmd)] IN
  /\ app[p].at = "read"
  /\ IF ~Reads(p) THEN Fails(p)
     ELSE \E digest \in IF app[p].cmd = "compile" THEN {ContextRef(f), f.digest} ELSE {f.digest} :
            app' = [app EXCEPT ![p].cites = f.of, ![p].gap = f.gap, ![p].digest = digest,
                               ![p].at = IF app[p].cmd = "run" THEN "gate" ELSE "send"]
  /\ UNCHANGED <<saved, appServer>>

\* _run_local_invariant: anything but ACCEPT raises.
LocalGate(p) ==
  /\ AppAt(p, "run", "gate")
  /\ AppGo(p, "send") \/ Fails(p)
  /\ UNCHANGED <<saved, appServer>>

-----------------------------------------------------------------------------
(* The request of each command, and its file.                              *)

Send(p) ==
  /\ app[p].at = "send"
  /\ Request(p, app[p].cmd)
  /\ UNCHANGED <<saved, digests, canonical, needsClaim>>

\* write_text truncates and then writes; an OSError in between is AppKilled.
TruncateSaved(p) ==
  /\ Answered(p) /\ served[app[p].got].op = app[p].cmd
  /\ saved' = [saved EXCEPT ![app[p].cmd] = CutFile]
  /\ AppGo(p, "write")
  /\ UNCHANGED appServer

FileOf(p) ==
  LET f == [NoFile EXCEPT !.state = "whole", !.of = app[p].got, !.cites = app[p].cites]
  IN  IF app[p].cmd = "register"
      THEN [f EXCEPT !.gap = app[p].gap, !.digest = app[p].digest]
      ELSE f

\* Over what another one wrote since the truncation: the end of the longer one
\* may remain, and what follows the first document is not JSON.
WriteSaved(p) ==
  /\ app[p].at = "write"
  /\ \E f \in {FileOf(p)} \cup
            (IF saved[app[p].cmd].state \in {"whole", "mixed"} THEN {MixedFile} ELSE {}) :
       saved' = [saved EXCEPT ![app[p].cmd] = f]
  /\ app' = [app EXCEPT ![p] = Ended(p, "success")]
  /\ UNCHANGED appServer

AppKilled(p) ==
  /\ app[p].at \notin {"idle", "over"}
  /\ Fails(p)
  /\ UNCHANGED <<saved, appServer>>

AppNext ==
  \/ \E p \in AppProcs :
       \/ AppStart(p) \/ AppDiscover(p) \/ AnswerFails(p)
       \/ ClaimDigest(p) \/ ResolveGap(p) \/ AppClaim(p) \/ Claimed(p)
       \/ ReadSource(p) \/ LocalGate(p) \/ Send(p)
       \/ TruncateSaved(p) \/ WriteSaved(p) \/ AppKilled(p)
  \/ \E i \in DOMAIN served : AppRunEnds(i)
  \/ CanonicalMoves

AppSpec == AppInit /\ [][AppNext]_appVars

-----------------------------------------------------------------------------
(* Properties                                                              *)

\* Files, commands and the server's requests keep their types.
AppPlaces == {"idle", "discover", "digest", "gap", "claim", "read", "gate", "send",
              "answer", "write", "over"}
AppTypeOK ==
  /\ saved \in [AppCommands -> [state : {"none", "cut", "mixed", "whole"}, of : Nat,
                               cites : Nat, gap : AppGaps \cup {NoGap}, digest : Nat]]
  /\ app \in [AppProcs -> [cmd : AppCommands, at : AppPlaces, gap : AppGaps \cup {NoGap},
                           result : {"none", "success", "failed"},
                           digest : Nat, cites : Nat, got : Nat]]
  /\ served \in Seq([op : AppCommands \cup {"claim"}, cites : Nat, digest : Nat,
                     gap : AppGaps \cup {NoGap}, st : {"done", "bare", "active", "failed"}])
  /\ digests \in 0..MaxDigests /\ canonical \in 0..digests
  /\ needsClaim \in BOOLEAN

\* Request i cites request j, which is a finished one of operation o.
CitesDone(i, o) ==
  LET j == served[i].cites
  IN  j \in 1 .. i - 1 /\ served[j].op = o /\ served[j].st = "done"

\* What reaches the server is a chain, whatever was rerun, overwritten, cut or
\* moved in between: a registration is of a granted claim on the same gap in
\* the same context, a context is compiled for a registration, its gap and its
\* claim's context and for no newer one, a realization names a compiled context
\* (register_repo, compile_context, run_governed_realization).
Chained(i) ==
  LET r == served[i]
      c == served[r.cites]
  IN  /\ r.op = "register" /\ needsClaim =>
           CitesDone(i, "claim") /\ r.digest # 0 /\ <<r.gap, r.digest>> = <<c.gap, c.digest>>
      /\ r.op = "compile" =>
           CitesDone(i, "register") /\ r.gap = c.gap /\ (needsClaim => r.digest = c.digest)
      /\ r.op = "run" => CitesDone(i, "compile")

RequestsAreChained == \A i \in DOMAIN served : Chained(i)

\* A state file that parses is the finished outcome of one request, with what
\* that request said; it is never that of a run still queued, never half of
\* one registration and half of another (_write_state, _resolve_async_result).
FilesAreAnswers ==
  \A c \in AppCommands :
    LET f == saved[c]
        r == served[f.of]
    IN  f.state = "whole" =>
          /\ f.of \in DOMAIN served /\ r.op = c /\ r.st = "done" /\ f.cites = r.cites
          /\ c = "register" => f.gap = r.gap /\ f.digest = r.digest
=============================================================================
