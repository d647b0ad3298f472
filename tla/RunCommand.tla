----------------------------- MODULE RunCommand -----------------------------
(***************************************************************************)
(* keyhole run up to the request it sends, and keyhole context compile and  *)
(* inspect.  The run type is resolved against the capabilities of the       *)
(* server, from a cache file in the repository or asked for anew; the       *)
(* context is given or compiled for the run; the context compiled last is   *)
(* noted in another file.  Both files are written in place, without a lock, *)
(* by commands that may overlap.  What follows a sent run is RunRecords.    *)
(*                                                                          *)
(* The server and its capabilities, the clock and signing in and out are    *)
(* external.  Each process runs one command; a compiled context is named    *)
(* after the process that had it compiled.                                  *)
(***************************************************************************)
EXTENDS Naturals, FiniteSets, Dispatch

CONSTANTS
  Procs,        \* processes
  Types,        \* canonical run types
  Names,        \* what a user may give as run type: types and aliases
  Static,       \* run types the client knows by itself
  Contracts,    \* capabilities the server may have
  Advertised,   \* Advertised[k][n]: run types of operations identified by n
  Surfaces,     \* Surfaces[k]: context surfaces it says are implemented
  NoContract,   \* no capabilities
  Identities,   \* principals
  Nobody,       \* no principal
  AutoContext,  \* --context auto
  Malformed,    \* a --context that has not the shape of a digest
  Scenes,       \* functions that give every process its command
  TTL,          \* how long a cached snapshot is valid
  MaxTime, MaxChanges, MaxSessions  \* bounds on ticks, contracts, sign-ins and -outs

NoDigest == "none"
Commands == [op : {"run", "compile", "inspect"}, name : Names,
             ctx : Procs \cup {AutoContext, Malformed, NoDigest}]

ASSUME NamesAssumption ==
  /\ Types \subseteq Names /\ Static \subseteq Types
  /\ Advertised \in [Contracts -> [Names -> SUBSET Types]]
  /\ Surfaces \in [Contracts -> SUBSET Types]
  /\ NoContract \notin Contracts /\ Nobody \notin Identities
  /\ {AutoContext, Malformed, NoDigest} \cap Procs = {} /\ AutoContext # Malformed
  /\ NoDigest \notin {AutoContext, Malformed}
ASSUME BoundAssumption ==
  /\ TTL \in Nat \ {0} /\ MaxTime \in Nat /\ MaxChanges \in Nat /\ MaxSessions \in Nat
  /\ Scenes \subseteq [Procs -> Commands]

VARIABLES
  now,        \* the clock
  contract,   \* server: its capabilities
  context,    \* server: context[p], the principal it compiled p's context for
  run,        \* server: run[p], the run it got from p
  cache,      \* .keyhole/capabilities_cache_<url>.json
  recent,     \* .keyhole/state/recent-context.json
  session,    \* the principal of the credential file
  cmd,        \* cmd[p]: the command of p
  changes, sessions,
  served,     \* history: served[t], the contracts the server had at time t
  during,     \* history: during[p], those it had while p's command ran
  late        \* history: a snapshot was stored after the tick it was fetched in

server  == <<contract, context, run>>
files   == <<cache, recent>>
bounds  == <<changes, sessions>>
notes   == <<served, during, late>>
commandVars == <<now, server, files, session, cmd, bounds, notes>>

NoRun   == [sent |-> FALSE]
NoFile  == [state |-> "none"]
CutFile == [state |-> "cut"]

(* cached, live: snapshots from the file and from the server; looked: when  *)
(* the one or the other was asked; asked: whether the server was; lost: its *)
(* answer could not be cached.                                              *)
Fresh(c) ==
  [op |-> c.op, name |-> c.name, given |-> c.ctx, ctx |-> c.ctx, at |-> "idle",
   cached |-> NoContract, live |-> NoContract, looked |-> 0, asked |-> FALSE,
   lost |-> FALSE, type |-> c.name, who |-> Nobody, end |-> "none"]

CommandInit ==
  /\ now = 0 /\ changes = 0 /\ sessions = 0
  /\ contract \in Contracts
  /\ context = [p \in Procs |-> Nobody] /\ run = [p \in Procs |-> NoRun]
  /\ cache \in {NoFile, [state |-> "whole", of |-> contract, expires |-> TTL]}
  /\ recent = NoFile
  /\ session \in Identities
  /\ \E scene \in Scenes : cmd = [p \in Procs |-> Fresh(scene[p])]
  /\ served = [t \in 0 .. MaxTime |-> IF t = 0 THEN {contract} ELSE {}]
  /\ during = [p \in Procs |-> {}]
  /\ late = FALSE

-----------------------------------------------------------------------------
(* Run types.                                                               *)

(* An identifier of two operations leaves the whole registry unused.        *)
Ambiguous(k) == \E n \in Names : Cardinality(Advertised[k][n]) > 1
Registry(k) ==
  IF k = NoContract \/ Ambiguous(k) THEN [n \in Names |-> {}] ELSE Advertised[k]

CanonicalTypes(k) == Static \cup (IF k = NoContract THEN {} ELSE Surfaces[k])

(* The type a name is taken for, in a set that is empty if there is none.   *)
Resolved(k, n) ==
  IF Registry(k)[n] # {} THEN Registry(k)[n] ELSE {n} \cap CanonicalTypes(k)

(* Mistakes, unknown and ambiguous names are refused, and differ in what is *)
(* advised.  Without parameters the schema only warns.                      *)
Proceeds(k, n) == Resolved(k, n) # {}

-----------------------------------------------------------------------------
(* Steps of a command.  What ends early for a missing scaffold or input file*)
(* ends like Killed.                                                        *)

At(p, place) == cmd[p].at = place
Go(p, place) == cmd' = [cmd EXCEPT ![p].at = place]

(* Of an ended command counts what it was asked, found out and said.        *)
End(p, said) ==
  LET c == cmd[p]
      new == [Fresh([op |-> c.op, name |-> c.name, ctx |-> c.given])
                EXCEPT !.at = "over", !.end = said, !.ctx = c.ctx]
  IN cmd' = [cmd EXCEPT ![p] =
       IF said # "unrecognized" THEN new
       ELSE [new EXCEPT !.asked = c.asked, !.live = c.live, !.lost = c.lost]]

StartCommand(p) ==
  /\ At(p, "idle")
  /\ Go(p, CASE cmd[p].op = "run" -> "load"
             [] cmd[p].op = "compile" -> "check"
             [] cmd[p].op = "inspect" -> "recent")
  /\ during' = [during EXCEPT ![p] = {contract}]
  /\ UNCHANGED <<now, server, files, session, bounds, served, late>>

-----------------------------------------------------------------------------
(* keyhole run: the dispatch preflight.                                     *)

(* Mutant: a snapshot never expires.                                        *)
IsWhole(f) == f.state = "whole"

IsValid(f) == f.state = "whole" /\ now < f.expires

(* load_valid reads the file once for its date, *)
LoadEnvelope(p) ==
  /\ At(p, "load")
  /\ cmd' = [cmd EXCEPT ![p].looked = now,
               ![p].at = IF IsValid(cache) THEN "reload" ELSE "fetch"]
  /\ UNCHANGED <<now, server, files, session, bounds, notes>>

(* and again for the result, which decides if it knows the name.            *)
LoadResult(p) ==
  /\ At(p, "reload")
  /\ LET k == IF IsWhole(cache) THEN cache.of ELSE NoContract IN
       cmd' = [cmd EXCEPT ![p].cached = k,
                 ![p].at = IF k # NoContract /\ Proceeds(k, cmd[p].name)
                           THEN "check" ELSE "fetch"]
  /\ UNCHANGED <<now, server, files, session, bounds, notes>>

Fetch(p) ==
  /\ At(p, "fetch")
  /\ \/ cmd' = [cmd EXCEPT ![p].asked = TRUE, ![p].live = contract,
                           ![p].looked = now, ![p].at = "store"]
     \/ cmd' = [cmd EXCEPT ![p].asked = TRUE, ![p].at = "check"]
  /\ UNCHANGED <<now, server, files, session, bounds, notes>>

(* An OSError here loses the answer too: the caller catches it as if the    *)
(* server had not been reached.                                             *)
OpenCache(p) ==
  /\ At(p, "store")
  /\ \/ cache' = CutFile /\ Go(p, "storing")
     \/ UNCHANGED cache /\ cmd' = [cmd EXCEPT ![p].lost = TRUE, ![p].at = "check"]
  /\ UNCHANGED <<now, server, recent, session, bounds, notes>>

(* The date is that of the writing.  Over what another has written in       *)
(* between the text need not parse.                                         *)
WriteCache(p) ==
  /\ At(p, "storing")
  /\ \/ /\ \E f \in {[state |-> "whole", of |-> cmd[p].live, expires |-> now + TTL]}
                     \cup (IF cache.state = "whole" THEN {CutFile} ELSE {}) :
             cache' = f
        /\ Go(p, "check")
     \/ UNCHANGED cache /\ cmd' = [cmd EXCEPT ![p].lost = TRUE, ![p].at = "check"]
  /\ late' = (late \/ cmd[p].looked < now)
  /\ UNCHANGED <<now, server, recent, session, bounds, served, during>>

(* Mutant: the snapshot from the file comes first.                          *)
PreferCached(c) == IF c.cached # NoContract THEN c.cached ELSE c.live

(* What the preflight is built from.                                        *)
Snapshot(c) == IF c.live # NoContract /\ ~c.lost THEN c.live ELSE c.cached

-----------------------------------------------------------------------------
(* Preflight and session, which is read a second time.                      *)

CheckRun(p) ==
  /\ At(p, "check") /\ cmd[p].op = "run"
  /\ LET types == Resolved(Snapshot(cmd[p]), cmd[p].name) IN
       IF session = Nobody THEN End(p, "refused")
       ELSE IF ~Proceeds(Snapshot(cmd[p]), cmd[p].name) THEN End(p, "unrecognized")
       ELSE IF cmd[p].ctx = NoDigest THEN End(p, "refused")
       ELSE \E t \in types :
              cmd' = [cmd EXCEPT ![p].type = t, ![p].at = "session"]
  /\ UNCHANGED <<now, server, files, session, bounds, notes>>

(* context inspect without a digest takes the context noted last, if any.   *)
FindRecent(p) ==
  /\ At(p, "recent")
  /\ cmd' = [cmd EXCEPT ![p].at = "check",
               ![p].ctx = IF @ = NoDigest /\ recent.state = "whole" THEN recent.of ELSE @]
  /\ UNCHANGED <<now, server, files, session, bounds, notes>>

CheckContext(p) ==
  /\ At(p, "check") /\ cmd[p].op \in {"compile", "inspect"}
  /\ IF \/ session = Nobody
        \/ cmd[p].op = "inspect" /\ cmd[p].ctx \in {NoDigest, Malformed}
     THEN End(p, "refused") ELSE Go(p, "session")
  /\ UNCHANGED <<now, server, files, session, bounds, notes>>

ReadSession(p) ==
  /\ At(p, "session")
  /\ IF cmd[p].op = "run" /\ cmd[p].ctx = Malformed THEN End(p, "refused")
     ELSE cmd' = [cmd EXCEPT ![p].who = session,
            ![p].at = IF cmd[p].op = "inspect" THEN "inspect"
                      ELSE IF cmd[p].op = "compile" \/ cmd[p].ctx = AutoContext THEN "compile"
                      ELSE "dispatch"]
  /\ UNCHANGED <<now, server, files, session, bounds, notes>>

-----------------------------------------------------------------------------
(* Compiling, noting and using a context.                                   *)

(* Mutant: a success is enough.                                             *)
CompiledAnyway(r) == ~Raises(r)

(* An answer that is not a failure counts as a success, and is one to go on *)
(* with if it names a context.                                              *)
Succeeds(r) == ~Raises(r) /\ r.word \notin {"rejected", "error", "failed"}
IsCompiled(r) == Succeeds(r) /\ r.body # NoDigest

(* The server compiles the context, and the answer may be lost; or it queues*)
(* the request or refuses it, always if nobody is signed in.                *)
CompileAnswers(p) ==
  {<<Nobody, r>> : r \in {NoReply} \cup Refusals \cup (IF cmd[p].who = Nobody THEN {} ELSE Queued)}
    \cup {<<cmd[p].who, r>> :
            r \in IF cmd[p].who = Nobody THEN {} ELSE {Done(p), NoReply}}

Compile(p) ==
  /\ At(p, "compile")
  /\ \E a \in CompileAnswers(p) :
       /\ context' = [context EXCEPT ![p] = a[1]]
       /\ IF IsCompiled(a[2])
          THEN cmd' = [cmd EXCEPT ![p].ctx = a[2].body, ![p].at = "note"]
          ELSE End(p, IF cmd[p].op = "compile" /\ Succeeds(a[2]) THEN "compiled" ELSE "failed")
  /\ UNCHANGED <<now, contract, run, files, session, bounds, notes>>

AfterNote(p) ==
  IF cmd[p].op = "run" THEN Go(p, "dispatch") ELSE End(p, "compiled")

(* An OSError is passed over.                                               *)
OpenRecent(p) ==
  /\ At(p, "note")
  /\ \/ recent' = CutFile /\ Go(p, "noting")
     \/ UNCHANGED recent /\ AfterNote(p)
  /\ UNCHANGED <<now, server, cache, session, bounds, notes>>

WriteRecent(p) ==
  /\ At(p, "noting")
  /\ recent' \in {[state |-> "whole", of |-> cmd[p].ctx], recent}
  /\ AfterNote(p)
  /\ UNCHANGED <<now, server, cache, session, bounds, notes>>

(* The server may know the context, compile it anew or refuse.              *)
Inspect(p) ==
  /\ At(p, "inspect")
  /\ \E said \in {"shown", "failed"} : End(p, said)
  /\ UNCHANGED <<now, server, files, session, bounds, notes>>

(* The request that arrives.                                                *)
Dispatch(p) ==
  /\ At(p, "dispatch")
  /\ run' = [run EXCEPT ![p] =
       [sent |-> TRUE, name |-> cmd[p].name, type |-> cmd[p].type, looked |-> cmd[p].looked,
        who |-> cmd[p].who, auto |-> cmd[p].given = AutoContext, ctx |-> cmd[p].ctx]]
  /\ End(p, "sent")
  /\ UNCHANGED <<now, contract, context, files, session, bounds, notes>>

(* A kill, an exception or a request that is lost.                          *)
Killed(p) ==
  /\ cmd[p].at \notin {"idle", "over"}
  /\ End(p, "failed")
  /\ UNCHANGED <<now, server, files, session, bounds, notes>>

-----------------------------------------------------------------------------
(* The environment.                                                         *)

Tick ==
  /\ now < MaxTime /\ now' = now + 1
  /\ served' = [served EXCEPT ![now'] = {contract}]
  /\ UNCHANGED <<server, files, session, cmd, bounds, during, late>>

ContractChanges ==
  /\ changes < MaxChanges /\ changes' = changes + 1
  /\ contract' \in Contracts \ {contract}
  /\ served' = [served EXCEPT ![now] = @ \cup {contract'}]
  /\ during' = [p \in Procs |->
       IF cmd[p].at \in {"idle", "over"} THEN during[p] ELSE during[p] \cup {contract'}]
  /\ UNCHANGED <<now, context, run, files, session, cmd, sessions, late>>

SessionChanges ==
  /\ sessions < MaxSessions /\ sessions' = sessions + 1
  /\ session' \in (Identities \cup {Nobody}) \ {session}
  /\ UNCHANGED <<now, server, files, cmd, changes, notes>>

CommandNext ==
  \/ \E p \in Procs :
       \/ StartCommand(p) \/ Killed(p)
       \/ LoadEnvelope(p) \/ LoadResult(p) \/ Fetch(p) \/ OpenCache(p) \/ WriteCache(p)
       \/ CheckRun(p) \/ FindRecent(p) \/ CheckContext(p) \/ ReadSession(p)
       \/ Compile(p) \/ OpenRecent(p) \/ WriteRecent(p) \/ Inspect(p) \/ Dispatch(p)
  \/ Tick \/ ContractChanges \/ SessionChanges

CommandSpec == CommandInit /\ [][CommandNext]_commandVars

-----------------------------------------------------------------------------
(* Properties                                                               *)

(* A run whose type the client does not know by itself has been resolved by *)
(* a contract the server had less than TTL before the command looked, unless*)
(* a snapshot was stored, and so dated, later than it was fetched: whatever *)
(* other commands have made of the cache between its two reads.             *)
TypeWasServed ==
  \A p \in Procs :
    LET r == run[p] IN
    r.sent /\ ~late =>
      \/ r.type = r.name /\ r.type \in Static
      \/ \E t \in 0 .. MaxTime :
           /\ r.looked < t + TTL
           /\ \E k \in served[t] : r.type \in Resolved(k, r.name)

(* "Live discovery is authoritative", the cache a convenience: a name is    *)
(* refused only after the server was asked, and if its answer arrived and   *)
(* could be stored, only if the server did not know the name at some moment *)
(* of the command.                                                          *)
RefusalIsLive ==
  \A p \in Procs :
    cmd[p].end = "unrecognized" =>
      /\ cmd[p].asked
      /\ cmd[p].live # NoContract /\ ~cmd[p].lost =>
           \E k \in during[p] : ~Proceeds(k, cmd[p].name)

(* "Governed runs must not proceed without explicit context": a run that    *)
(* reaches the server has one, and with --context auto it is the one that   *)
(* the server compiled for this command and for the principal of the run,   *)
(* whoever signs in or out or compiles meanwhile.                           *)
RunIsBound ==
  \A p \in Procs :
    run[p].sent =>
      /\ run[p].ctx \in Procs
      /\ run[p].auto => /\ run[p].ctx = p /\ run[p].who # Nobody
                        /\ context[p] = run[p].who
=============================================================================
