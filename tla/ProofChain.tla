----------------------------- MODULE ProofChain -----------------------------
(***************************************************************************)
(* From a proof result to a registered capability, and the two lists of a   *)
(* repository: proof submit, receipt verify, capability register,           *)
(* capability create --write and dependency resolve --write, as separate    *)
(* processes over one bundle and one repository.  The invariant gate, which *)
(* writes the results, is run whenever the user likes.                      *)
(*                                                                          *)
(* A result is identified with its hash, a submission with the process that *)
(* sent it.  Of two capability names one may occur in the text of the other.*)
(***************************************************************************)
EXTENDS Integers, FiniteSets, Dispatch

CONSTANTS
  Procs,          \* processes, each of which runs one command
  Nobody,         \* no process
  Invs,           \* invariant ids
  Unnamed,        \* no --invariant
  Caps,           \* capability names
  Inside,         \* <<a, b>>: the name a occurs in the text of b
  Providers,      \* providers of capabilities
  NoProvider,     \* the provider "" of an answer that names none
  Scenes,         \* functions that give every process its command
  MaxResults      \* how many results the gate writes

Ops == {"submit", "verify", "register", "create", "resolve"}

ASSUME NamesAssumption ==
  /\ Inside \subseteq Caps \X Caps
  /\ \A c \in Caps : <<c, c>> \in Inside
  /\ NoProvider \notin Providers
  /\ Unnamed \notin Invs
  /\ Nobody \notin Procs
ASSUME BoundAssumption == MaxResults \in Nat /\ Scenes \subseteq [Procs -> Ops]

VARIABLES
  written,        \* how many results the gate has written
  result,         \* result[i]: proof_bundle/core/<i>/<i>-result.json
  receipt,        \* receipt[i]: proof_bundle/receipts/<i>-receipt.json
  list,           \* list[f]: entries of dependencies.yaml, capability_passport.yaml
  cmd,            \* cmd[p]: the command p runs
  sub,            \* server: sub[p] is the submission of p
  registered,     \* server: registrations it was asked for
  offered,        \* server: <<capability, provider>> it has resolved
  added,          \* history: added[f] are the entries reported as added
  mixed           \* history: files two writers overlapped in, or one died in

bundle == <<written, result, receipt>>
lists  == <<list, added, mixed>>
server == <<sub, registered, offered>>
chainVars == <<bundle, lists, server, cmd>>

Files == {"dependencies", "passport"}
TargetOf(op) == IF op = "create" THEN "passport" ELSE "dependencies"

(* Loading gives nothing, hash 0, of a result that is not there, and no more *)
(* of one that is cut and cannot be decoded.                                *)
NoResult == [hash |-> 0, valid |-> TRUE]
CutResult == [hash |-> 0, valid |-> FALSE]
Loaded(r) == r.hash # 0

NoReceipt == [state |-> "none", inv |-> Unnamed, verdict |-> "none",
              run |-> Nobody, hash |-> 0]
CutReceipt == [NoReceipt EXCEPT !.state = "cut"]
ReceiptOf(i, verdict, p, hash) ==
  [state |-> "whole", inv |-> i, verdict |-> verdict, run |-> p, hash |-> hash]

(* The verdicts that verify and register take for acceptance.               *)
IsAccepted(r) == r.state = "whole" /\ r.verdict \in {"ACCEPT", "ACCEPTED"}

Fresh(op, i, c) ==
  [op |-> op, inv |-> i, cap |-> c, at |-> "idle", hash |-> 0,
   receipt |-> NoReceipt, todo |-> {}, passes |-> TRUE, checked |-> {},
   provider |-> NoProvider, existing |-> {}, result |-> "none"]

ChainInit ==
  /\ written = 0 /\ result = [i \in Invs |-> NoResult]
  /\ receipt = [i \in Invs |-> NoReceipt]
  /\ \E e \in SUBSET (Caps \X Providers) :
       /\ Cardinality(e) <= 1
       /\ list = [f \in Files |-> IF f = "passport" THEN {} ELSE e]
       /\ offered = e
  /\ \E op \in Scenes, i \in [Procs -> Invs \cup {Unnamed}],
        c \in [Procs -> Caps] :
       /\ \A p \in Procs : op[p] = "submit" => i[p] # Unnamed
       /\ cmd = [p \in Procs |-> Fresh(op[p],
                   IF op[p] \in {"create", "resolve"} THEN Unnamed ELSE i[p],
                   IF op[p] \in {"create", "resolve"} THEN c[p]
                   ELSE CHOOSE x \in Caps : TRUE)]
  /\ sub = [p \in Procs |-> [inv |-> Unnamed, hash |-> 0, verdict |-> "none"]]
  /\ registered = {}
  /\ added = [f \in Files |-> {}] /\ mixed = {}

(***************************************************************************)
(* Steps of a command.  End gives its result and forgets all but the request*)
(* and, of a verification, what it has compared.                            *)
(***************************************************************************)
At(p, op, place) == cmd[p].op = op /\ cmd[p].at = place
Go(p, place) == cmd' = [cmd EXCEPT ![p].at = place]
End(p, outcome) ==
  cmd' = [cmd EXCEPT ![p] = [Fresh(@.op, @.inv, @.cap) EXCEPT
            !.at = "over", !.checked = cmd[p].checked, !.result = outcome]]

FirstPlace(op) ==
  IF op = "submit" THEN "read" ELSE IF op = "verify" THEN "glob"
  ELSE IF op = "register" THEN "lookup" ELSE IF op = "create" THEN "list" ELSE "send"

(* What is missing at once, an argument, the bundle or the session, ends the*)
(* command like Killed.                                                     *)
Start(p) ==
  /\ cmd[p].at = "idle"
  /\ Go(p, FirstPlace(cmd[p].op))
  /\ UNCHANGED <<bundle, lists, server>>

(* The gate, which is the user's test: the next result of an invariant, or  *)
(* what is left of it when the gate is killed.                              *)
RunGate(i) ==
  /\ written < MaxResults
  /\ written' = written + 1
  /\ \E r \in {CutResult} \cup {[hash |-> written', valid |-> v] : v \in BOOLEAN} :
       result' = [result EXCEPT ![i] = r]
  /\ UNCHANGED <<receipt, lists, server, cmd>>

(***************************************************************************)
(* proof submit                                                             *)
(***************************************************************************)

(* _load_result and _validate_result.                                       *)
ReadResult(p) ==
  /\ At(p, "submit", "read")
  /\ LET r == result[cmd[p].inv] IN
       IF ~Loaded(r) \/ ~r.valid THEN End(p, "failed")
       ELSE cmd' = [cmd EXCEPT ![p].hash = r.hash, ![p].at = "send"]
  /\ UNCHANGED <<bundle, lists, server>>

(* Mutant: what the answer says of the proof is not looked at.              *)
VerdictOfOutcome(r) == "ACCEPTED"

(* The verdict of the answer, or acceptance when it gives none.             *)
GovernedVerdict(r) ==
  IF dispatch_run(r) = "SUCCESS" /\ r.body # "none" THEN r.body ELSE "ACCEPTED"

(* A success and an acceptance get a receipt, with the hash when the answer *)
(* repeats it.                                                              *)
SubmitConclude(p, r) ==
  IF dispatch_run(r) \in {"SUCCESS", "ACCEPTED"}
  THEN \E hash \in {0, cmd[p].hash} :
         cmd' = [cmd EXCEPT ![p].at = "truncate",
           ![p].receipt = ReceiptOf(cmd[p].inv, GovernedVerdict(r), p, hash)]
  ELSE End(p, "failed")

(* The server accepts or rejects a proof and says so, queues it, or refuses *)
(* the request; the answer may be lost.                                     *)
Judgements ==
  {<<"ACCEPT", Done("ACCEPT")>>, <<"ACCEPT", Done("none")>>,
   <<"REJECT", Done("REJECT")>>,
   <<"REJECT", Answer(200, "rejected", TRUE, FALSE, "REJECT")>>}
    \cup {<<"queued", r>> : r \in Queued}
    \cup {<<"refused", r>> : r \in Refusals}
    \cup {<<v, NoReply>> : v \in {"ACCEPT", "REJECT", "queued", "none"}}

Submit(p) ==
  /\ At(p, "submit", "send")
  /\ \E j \in Judgements :
       /\ sub' = [sub EXCEPT ![p] = [inv |-> cmd[p].inv, hash |-> cmd[p].hash,
                                     verdict |-> j[1]]]
       /\ SubmitConclude(p, j[2])
  /\ UNCHANGED <<bundle, lists, registered, offered>>

(* A queued proof is rejected later, when its receipt may be long written;  *)
(* one that is accepted later is no other than one still queued.            *)
RejectLater(p) ==
  /\ sub[p].verdict = "queued"
  /\ sub' = [sub EXCEPT ![p].verdict = "rejected later"]
  /\ UNCHANGED <<bundle, lists, registered, offered, cmd>>

(* write_text truncates and then writes.  What is left when another has     *)
(* written in between need not parse.  An OSError ends the command.         *)
TruncateReceipt(p) ==
  /\ At(p, "submit", "truncate")
  /\ \/ /\ receipt' = [receipt EXCEPT ![cmd[p].inv] = CutReceipt]
        /\ Go(p, "write")
     \/ UNCHANGED receipt /\ End(p, "failed")
  /\ UNCHANGED <<written, result, lists, server>>

WriteReceipt(p) ==
  /\ At(p, "submit", "write")
  /\ \E r \in {cmd[p].receipt} \cup
              (IF receipt[cmd[p].inv].state = "whole" THEN {CutReceipt} ELSE {}) :
       receipt' = [receipt EXCEPT ![cmd[p].inv] = r]
  /\ End(p, "success")
  /\ UNCHANGED <<written, result, lists, server>>

(***************************************************************************)
(* receipt verify                                                           *)
(***************************************************************************)
Receipts == {i \in Invs : receipt[i].state # "none"}

Discover(p) ==
  /\ At(p, "verify", "glob")
  /\ LET todo == IF cmd[p].inv = Unnamed THEN Receipts ELSE Receipts \cap {cmd[p].inv}
     IN IF todo = {} THEN End(p, "failed")
        ELSE cmd' = [cmd EXCEPT ![p].todo = todo, ![p].at = "receipt"]
  /\ UNCHANGED <<bundle, lists, server>>

(* The checks passed so far end the command with its last receipt.          *)
Checked(p, i, passes, checked) ==
  IF cmd[p].todo = {i}
  THEN cmd' = [cmd EXCEPT ![p] = [Fresh(@.op, @.inv, @.cap) EXCEPT
                 !.at = "over", !.checked = checked,
                 !.result = IF passes THEN "success" ELSE "failed"]]
  ELSE cmd' = [cmd EXCEPT ![p].todo = @ \ {i}, ![p].at = "receipt",
                 ![p].passes = passes, ![p].checked = checked]

VerifyReceipt(p) ==
  /\ At(p, "verify", "receipt")
  /\ \E i \in cmd[p].todo :
       IF receipt[i].state = "whole"
       THEN cmd' = [cmd EXCEPT ![p].receipt = receipt[i], ![p].at = "result"]
       ELSE Checked(p, i, FALSE, cmd[p].checked)
  /\ UNCHANGED <<bundle, lists, server>>

(* Mutant: a hash in the receipt is not compared.                           *)
IgnoresHash(r, hash) == TRUE

(* Without a result, or a hash in the receipt, the comparison is skipped.   *)
HashMatches(r, hash) == hash = 0 \/ r.hash = 0 \/ hash = r.hash

(* The other invariant a result may be of is one way not to be valid; a     *)
(* result that was not loaded is passed over.                               *)
VerifyResult(p) ==
  /\ At(p, "verify", "result")
  /\ LET r == cmd[p].receipt
         l == result[r.inv] IN
       \E same \in IF Loaded(l) /\ ~l.valid THEN BOOLEAN ELSE {TRUE} :
         Checked(p, r.inv,
           cmd[p].passes /\ IsAccepted(r) /\ HashMatches(r, l.hash) /\ same,
           cmd[p].checked \cup {[run |-> r.run, echoed |-> r.hash, hash |-> l.hash]})
  /\ UNCHANGED <<bundle, lists, server>>

(***************************************************************************)
(* capability register                                                      *)
(***************************************************************************)

(* The receipt of the invariant, or the first accepted one: any, as far as  *)
(* the capability goes.                                                     *)
Citable(i) == {j \in Invs : IsAccepted(receipt[j]) /\ i \in {j, Unnamed}}

Lookup(p) ==
  /\ At(p, "register", "lookup")
  /\ IF Citable(cmd[p].inv) = {} THEN End(p, "failed")
     ELSE \E j \in Citable(cmd[p].inv) :
            cmd' = [cmd EXCEPT ![p].receipt = receipt[j], ![p].at = "send"]
  /\ UNCHANGED <<bundle, lists, server>>

Register(p) ==
  /\ At(p, "register", "send")
  /\ registered' = registered \cup {[cap |-> cmd[p].cap, inv |-> cmd[p].receipt.inv,
                                     run |-> cmd[p].receipt.run]}
  /\ \E r \in {Done("none"), NoReply} \cup Queued \cup Refusals :
       End(p, IF dispatch_run(r) \in {"SUCCESS", "ACCEPTED"} THEN "success" ELSE "failed")
  /\ UNCHANGED <<bundle, lists, sub, offered>>

(***************************************************************************)
(* dependency resolve, and the entry both it and capability create append   *)
(***************************************************************************)

(* An answer whose status is none of these is taken for a resolution, which *)
(* has no provider if it does not say one.                                  *)
classify_resolution(word) ==
  IF word \in {"accepted", "pending", "deferred", "ambiguous", "incompatible",
               "not_found", "rejected code", "lost"} THEN "unresolved" ELSE "resolved"

(* Only a native repository with --write is written to.                     *)
Resolved(p, provider) ==
  \/ cmd' = [cmd EXCEPT ![p].provider = provider, ![p].at = "list"]
  \/ \E outcome \in {"advisory", "failed"} : End(p, outcome)

Resolve(p) ==
  /\ At(p, "resolve", "send")
  /\ \/ \E v \in Providers :
          /\ offered' = offered \cup {<<cmd[p].cap, v>>}
          /\ Resolved(p, v) \/ End(p, "failed")
     \/ \E word \in {"ambiguous", "pending", "lost", "none"} :
          /\ IF classify_resolution(word) = "resolved" THEN Resolved(p, NoProvider)
             ELSE End(p, "failed")
          /\ UNCHANGED offered
  /\ UNCHANGED <<bundle, lists, sub, registered>>

EntryOf(p) == <<cmd[p].cap, cmd[p].provider>>

(* Capability and provider are each looked for anywhere in the text.        *)
AlreadyThere(p, entries) ==
  /\ \E e \in entries : <<cmd[p].cap, e[1]>> \in Inside
  /\ cmd[p].provider = NoProvider \/ \E e \in entries : cmd[p].provider = e[2]

AtList(p, f, places) == TargetOf(cmd[p].op) = f /\ cmd[p].at \in places

ReadList(p) ==
  LET f == TargetOf(cmd[p].op) IN
  /\ cmd[p].at = "list"
  /\ IF AlreadyThere(p, list[f]) THEN End(p, "present")
     ELSE cmd' = [cmd EXCEPT ![p].existing = list[f], ![p].at = "empty"]
  /\ mixed' = IF \E q \in Procs : AtList(q, f, {"empty", "append"})
              THEN mixed \cup {f} ELSE mixed
  /\ UNCHANGED <<bundle, server, list, added>>

EmptyList(p) ==
  /\ cmd[p].at = "empty"
  /\ \/ list' = [list EXCEPT ![TargetOf(cmd[p].op)] = {}] /\ Go(p, "append")
     \/ UNCHANGED list /\ End(p, "failed")
  /\ UNCHANGED <<bundle, server, added, mixed>>

(* Mutant: the entry replaces the text.                                     *)
AppendEntryAlone(p) ==
  LET f == TargetOf(cmd[p].op) IN
  /\ cmd[p].at = "append"
  /\ list' = [list EXCEPT ![f] = {EntryOf(p)}]
  /\ added' = [added EXCEPT ![f] = @ \cup {EntryOf(p)}]
  /\ End(p, "added")
  /\ UNCHANGED <<bundle, server, mixed>>

(* The text that was read and the entry, and maybe the end of what another  *)
(* has written meanwhile.                                                   *)
AppendEntry(p) ==
  LET f == TargetOf(cmd[p].op) IN
  /\ cmd[p].at = "append"
  /\ \E tail \in SUBSET list[f] :
       list' = [list EXCEPT ![f] = cmd[p].existing \cup {EntryOf(p)} \cup tail]
  /\ added' = [added EXCEPT ![f] = @ \cup {EntryOf(p)}]
  /\ End(p, "added")
  /\ UNCHANGED <<bundle, server, mixed>>

(***************************************************************************)
Killed(p) ==
  /\ cmd[p].at \notin {"idle", "over"}
  /\ End(p, "failed")
  /\ mixed' = IF cmd[p].at = "append" THEN mixed \cup {TargetOf(cmd[p].op)} ELSE mixed
  /\ UNCHANGED <<bundle, server, list, added>>

ChainNext ==
  \/ \E p \in Procs :
       \/ Start(p) \/ Killed(p)
       \/ ReadResult(p) \/ Submit(p) \/ RejectLater(p)
       \/ TruncateReceipt(p) \/ WriteReceipt(p)
       \/ Discover(p) \/ VerifyReceipt(p) \/ VerifyResult(p)
       \/ Lookup(p) \/ Register(p)
       \/ Resolve(p) \/ ReadList(p) \/ EmptyList(p) \/ AppendEntry(p)
  \/ \E i \in Invs : RunGate(i)

ChainSpec == ChainInit /\ [][ChainNext]_chainVars

(***************************************************************************)
(* Properties                                                               *)
(***************************************************************************)

(* A receipt that can be read is of a submission of its own invariant that  *)
(* the server got, with the hash it was sent, if any; and it says accepted  *)
(* of none that the server rejected when it answered: whichever submit      *)
(* wrote the file last, and whatever the gate has written since.  So "no    *)
(* verified governed receipt, no registration", as far as the client can    *)
(* know: a registration that reaches the server cites such a submission.    *)
ReceiptIsOfSubmission ==
  /\ \A i \in Invs :
       LET r == receipt[i] IN
       r.state = "whole" =>
         /\ r.inv = i /\ sub[r.run].inv = i
         /\ r.hash \in {0, sub[r.run].hash}
         /\ sub[r.run].verdict # "none"
         /\ IsAccepted(r) => sub[r.run].verdict # "REJECT"
  /\ \A r \in registered :
       /\ r.run # Nobody /\ sub[r.run].inv = r.inv
       /\ sub[r.run].verdict \notin {"none", "REJECT"}

(* When receipt verify passes, every receipt it looked at is of a submission*)
(* that the server got and did not reject as it answered; and every result  *)
(* it could load, for a receipt with a hash, is the one submitted.  It also *)
(* passes over a result that is cut, as over one that is missing: of that   *)
(* nothing is said.                                                         *)
VerifiedIsSubmitted ==
  \A p \in Procs :
    cmd[p].op = "verify" /\ cmd[p].result = "success" =>
      \A c \in cmd[p].checked :
        /\ sub[c.run].verdict \notin {"none", "REJECT"}
        /\ c.echoed # 0 /\ c.hash # 0 => c.hash = sub[c.run].hash

(* An entry reported as added stays in its file, unless two commands        *)
(* overlapped in the file or one died in it; and a provider in              *)
(* dependencies.yaml is one the server chose for that capability.           *)
AddedIsKept ==
  /\ \A f \in Files \ mixed :
       (\A p \in Procs : ~AtList(p, f, {"append"})) => added[f] \subseteq list[f]
  /\ \A e \in list["dependencies"] : e[2] # NoProvider => e \in offered
=============================================================================
