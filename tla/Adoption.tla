------------------------------ MODULE Adoption ------------------------------
(***************************************************************************)
(* How a repository is brought to the platform: keyhole ingest scans it,    *)
(* submits the package and files a proof of the answer; keyhole repo        *)
(* register submits its declarations, or a reference to an ingestion; and   *)
(* keyhole align makes guidance of an ingestion's answer, without asking    *)
(* the boundary if there is no token.                                       *)
(*                                                                          *)
(* Every command is a process; a submission is one send, whose retries are  *)
(* GovernedTransport's.  An ingestion is identified with its process, and   *)
(* is known by the correlation id of the client or by the id the boundary   *)
(* gives it.  Any id may be passed to the commands, also one of nothing.    *)
(***************************************************************************)
EXTENDS Declarations

CONSTANTS
  AdoptProcs,   \* processes, each of which runs one command
  AdoptScenes,  \* functions that give every process its command
  NoId          \* no ingestion id is passed

AdoptCommands ==
  [op : {"ingest"}, summaryOnly : BOOLEAN] \cup [op : {"register"}, fromIngest : BOOLEAN]
    \cup [op : {"align"}, localOnly : BOOLEAN]

IngestIds == [of : AdoptProcs, by : {"correlation", "ingestion"}]

ASSUME AdoptAssumption ==
  /\ AdoptScenes \subseteq [AdoptProcs -> AdoptCommands]
  /\ NoId \notin IngestIds

VARIABLES
  adopt,     \* adopt[p]: the process p
  proofs,    \* proofs[p]: the files under state/ingest of the ingestion p
  boundary   \* history: what became of the ingestion p at the boundary

adoptVars == <<adopt, proofs, boundary>>

\* What response.json says: the status, whether an ingestion id was given, the
\* compatibility posture, whether there are warnings and suggested actions.
Outcomes ==
  [status : {"success", "accepted", "deferred", "rejected", "failed"}, named : BOOLEAN,
   posture : {"foreign", "aligned"}, warned : BOOLEAN, suggests : BOOLEAN]

NoOutcome ==
  [status |-> "failed", named |-> FALSE, posture |-> "foreign", warned |-> FALSE,
   suggests |-> FALSE]

NoReference == [id |-> NoId, posture |-> "foreign", scaffold |-> FALSE]

\* artifacts: what a registration has loaded of every declaration; checked:
\* history, the validations that it follows.
NewAdopt(cmd) ==
  [cmd |-> cmd, at |-> "idle", id |-> NoId, left |-> <<>>, scaffold |-> FALSE,
   outcome |-> NoOutcome, artifacts |-> [f \in DeclFiles |-> "absent"],
   reference |-> NoReference, authed |-> FALSE, checked |-> {}, result |-> "none"]

AdoptInit ==
  /\ \E scene \in AdoptScenes : adopt = [p \in AdoptProcs |-> NewAdopt(scene[p])]
  /\ proofs = [p \in AdoptProcs |-> [request |-> "none", response |-> "none"]]
  /\ boundary = [p \in AdoptProcs |-> "unasked"]

-----------------------------------------------------------------------------
AdoptAt(p, op, place) == adopt[p].cmd.op = op /\ adopt[p].at = place
AdoptGo(p, new) == adopt' = [adopt EXCEPT ![p] = new]
AdoptOver(p, result) == [adopt[p] EXCEPT !.at = "over", !.result = result]

AdoptKilled(p) ==
  /\ adopt[p].at \notin {"idle", "over"}
  /\ AdoptGo(p, AdoptOver(p, "killed"))
  /\ UNCHANGED <<proofs, boundary>>

-----------------------------------------------------------------------------
(* keyhole ingest                                                          *)

\* _KEYHOLE_MARKERS
Markers == {"keyhole", "contract", "passport"}

HasScaffold(seen) == seen \cap Markers # {}

\* What the filter and the size limit may leave of the declarations.
Included == SUBSET {f \in DeclFiles : tree[f] # "none"}

\* scan_repo; a package of nothing is refused.
StartIngest(p) ==
  /\ AdoptAt(p, "ingest", "idle")
  /\ \E seen \in Included, others \in BOOLEAN :
       AdoptGo(p, IF seen = {} /\ ~others THEN AdoptOver(p, "failed")
                  ELSE [adopt[p] EXCEPT !.at = "session", !.scaffold = HasScaffold(seen)])
  /\ UNCHANGED <<proofs, boundary>>

\* --summary-only ends before the credentials are asked for, which may be
\* missing or without a token.
IngestSession(p) ==
  /\ AdoptAt(p, "ingest", "session")
  /\ IF adopt[p].cmd.summaryOnly THEN AdoptGo(p, AdoptOver(p, "summary"))
     ELSE \/ AdoptGo(p, [adopt[p] EXCEPT !.at = "send"])
          \/ AdoptGo(p, AdoptOver(p, "failed"))
  /\ UNCHANGED <<proofs, boundary>>

\* Mutant: a rejected outcome keeps the warnings of the answer.
RejectedInFull == {o \in Outcomes : o.status = "rejected"}

\* _classify_outcome: a rejected outcome has neither warnings nor suggestions.
Rejected == {o \in Outcomes : o.status = "rejected" /\ ~o.warned /\ ~o.suggests}

Taken == {o \in Outcomes : o.status \in {"success", "accepted", "deferred"}}

\* An exception of the transport leaves open what the boundary did.
SendIngestion(p) ==
  /\ AdoptAt(p, "ingest", "send")
  /\ \E fate \in {"unasked", "taken", "refused"},
        outcome \in {NoOutcome} \cup Taken \cup Rejected :
       /\ outcome.status = "rejected" => fate = "refused"
       /\ outcome \in Taken => fate = "taken"
       /\ boundary' = [boundary EXCEPT ![p] = fate]
       /\ AdoptGo(p, [adopt[p] EXCEPT !.at = "open", !.outcome = outcome,
                                      !.left = <<"request", "response">>])
  /\ UNCHANGED proofs

\* emit_ingestion_proof writes the files in place, the response after the
\* request, and nothing else that is ever read.
OpenProof(p) ==
  /\ AdoptAt(p, "ingest", "open") /\ adopt[p].left # <<>>
  /\ proofs' = [proofs EXCEPT ![p][Head(adopt[p].left)] = "cut"]
  /\ AdoptGo(p, [adopt[p] EXCEPT !.at = "fill"])
  /\ UNCHANGED boundary

FillProof(p) ==
  /\ AdoptAt(p, "ingest", "fill")
  /\ proofs' = [proofs EXCEPT ![p][Head(adopt[p].left)] = "whole"]
  /\ AdoptGo(p, [adopt[p] EXCEPT !.at = "open", !.left = Tail(adopt[p].left)])
  /\ UNCHANGED boundary

\* The result does not depend on the proof: an OSError ends it early.
EndIngest(p) ==
  /\ adopt[p].cmd.op = "ingest" /\ adopt[p].at \in {"open", "fill"}
  /\ AdoptGo(p, AdoptOver(p, IF adopt[p].outcome.status \in {"success", "accepted"}
                             THEN "success" ELSE "failed"))
  /\ UNCHANGED <<proofs, boundary>>

-----------------------------------------------------------------------------
(* keyhole repo register                                                   *)

\* The validations that have passed the declarations as they are now.
Passed == {v \in fresh : Op(v) = "validate" /\ decl[v].result = "native_ready"}

StartRegister(p) ==
  /\ AdoptAt(p, "register", "idle")
  /\ \E id \in IF adopt[p].cmd.fromIngest THEN IngestIds ELSE {NoId} :
       AdoptGo(p, [adopt[p] EXCEPT !.at = "read", !.left = ReadOrder, !.id = id,
                                   !.checked = Passed])
  /\ UNCHANGED <<proofs, boundary>>

\* _load_yaml_safe: malformed YAML counts as absent, and an empty file is an
\* empty mapping; a value that is no mapping ends the command.
Loads(c) ==
  CASE c = "none" -> {"absent"}
    [] c = "cut" -> {"empty"}
    [] c = "mixed" -> {"absent", "declared", "no_mapping"}
    [] c = "bad" -> {"absent", "declared", "no_mapping"}
    [] OTHER -> {"declared"}

ReadArtifact(p) ==
  /\ AdoptAt(p, "register", "read") /\ adopt[p].left # <<>>
  /\ LET f == Head(adopt[p].left)
         more == [adopt[p] EXCEPT !.left = Tail(@)]
     IN \E got \in Loads(tree[f]) :
          \/ got # "no_mapping" /\ AdoptGo(p, [more EXCEPT !.artifacts[f] = got])
          \* NativeArtifacts is made when all are loaded
          \/ got = "no_mapping" /\ AdoptGo(p, AdoptOver(p, "crashed"))
  /\ UNCHANGED <<proofs, boundary>>

\* load_ingestion_reference finds the proof by the correlation id only; what is
\* cut of it counts as empty.
ReferenceOf(id) ==
  IF id = NoId \/ id.by = "ingestion" \/ proofs[id.of].request = "none" THEN NoReference
  ELSE LET answer == IF proofs[id.of].response = "whole" THEN adopt[id.of].outcome ELSE NoOutcome
       IN [id |-> IF answer.named THEN [id EXCEPT !.by = "ingestion"] ELSE id,
           posture |-> answer.posture,
           scaffold |-> proofs[id.of].request = "whole" /\ adopt[id.of].scaffold]

LoadReference(p) ==
  /\ AdoptAt(p, "register", "read") /\ adopt[p].left = <<>>
  /\ AdoptGo(p, [adopt[p] EXCEPT !.at = "assess", !.reference = ReferenceOf(adopt[p].id)])
  /\ UNCHANGED <<proofs, boundary>>

ArtifactCount(p) ==
  Len(SelectSeq(ReadOrder, LAMBDA f : adopt[p].artifacts[f] # "absent"))

\* assess_readiness: an id is enough, whether or not there is a proof of it.
RegistrationReadiness(p, authed) ==
  IF ~authed \/ (adopt[p].id = NoId /\ adopt[p].artifacts["keyhole"] = "absent")
  THEN "not_ready"
  ELSE IF adopt[p].id # NoId THEN "ingestion_ready"
  ELSE IF ArtifactCount(p) >= 3 THEN "native_ready" ELSE "partially_ready"

AssessReadiness(p) ==
  /\ AdoptAt(p, "register", "assess")
  /\ \E authed \in BOOLEAN :
       AdoptGo(p, IF RegistrationReadiness(p, authed) = "not_ready" THEN AdoptOver(p, "blocked")
                  ELSE [adopt[p] EXCEPT !.at = "send", !.authed = TRUE])
  /\ UNCHANGED <<proofs, boundary>>

\* Whatever an answer says that it does not know, _classify_outcome calls success.
RegistrationStatuses == {"replayed", "accepted", "deferred", "rejected", "success", "failed"}

Registered(status) == IF status \in {"success", "accepted", "replayed"} THEN "success" ELSE "failed"

SubmitRegistration(p) ==
  /\ AdoptAt(p, "register", "send")
  /\ \E status \in RegistrationStatuses : AdoptGo(p, AdoptOver(p, Registered(status)))
  /\ UNCHANGED <<proofs, boundary>>

-----------------------------------------------------------------------------
(* keyhole align                                                           *)

\* _load_ingestion_outcome, by the id that is passed.
OutcomeOf(id) ==
  IF id # NoId /\ id.by = "correlation" /\ proofs[id.of].response = "whole"
  THEN adopt[id.of].outcome ELSE NoOutcome

\* _extract_items_from_ingestion: a warning is taken to be verified.
ItemsOf(outcome) ==
  (IF outcome.warned THEN {[class |-> "warning", state |-> "verified", severity |-> "medium"]}
   ELSE {})
    \cup
  (IF outcome.suggests THEN {[class |-> "suggestion", state |-> "inferred", severity |-> "low"]}
   ELSE {})

\* Only the highest severity makes a difference.
GuidanceItems ==
  [class : {"gap", "warning", "suggestion", "next_best_action", "inference"},
   state : {"verified", "inferred"}, severity : {"high", "medium", "low"}]

\* _derive_readiness
DeriveReadiness(items) ==
  LET verified == {i \in items : i.state = "verified"}
      gaps == {i \in verified : i.class = "gap"}
  IN IF \E g \in gaps : g.severity = "high" THEN "blocked"
     ELSE IF gaps # {} THEN "partially_aligned"
     ELSE IF verified = {} THEN "foreign"
     ELSE IF \A i \in items : i.class \in {"warning", "suggestion", "inference"}
     THEN "registration_ready" ELSE "run_ready"

\* The outcome is loaded first; without a token, the guidance is local.
StartAlign(p) ==
  /\ AdoptAt(p, "align", "idle")
  /\ \E id \in IngestIds \cup {NoId} :
       \/ AdoptGo(p, [AdoptOver(p, DeriveReadiness(ItemsOf(OutcomeOf(id)))) EXCEPT !.id = id])
       \/ ~adopt[p].cmd.localOnly /\ AdoptGo(p, [adopt[p] EXCEPT !.at = "ask", !.id = id])
  /\ UNCHANGED <<proofs, boundary>>

\* The boundary may name the readiness; otherwise it is derived of at most two
\* kinds of items.  An analysis that is only accepted is foreign.
AlignAnswers ==
  {"failed", "foreign", "partially_aligned", "blocked", "registration_ready", "run_ready"}
    \cup {DeriveReadiness({i, j}) : i, j \in GuidanceItems}

SubmitAlignment(p) ==
  /\ AdoptAt(p, "align", "ask")
  /\ \E result \in AlignAnswers : AdoptGo(p, [AdoptOver(p, result) EXCEPT !.authed = TRUE])
  /\ UNCHANGED <<proofs, boundary>>

-----------------------------------------------------------------------------
AdoptStep(p) ==
  \/ StartIngest(p) \/ IngestSession(p) \/ SendIngestion(p)
  \/ OpenProof(p) \/ FillProof(p) \/ EndIngest(p)
  \/ StartRegister(p) \/ ReadArtifact(p) \/ LoadReference(p)
  \/ AssessReadiness(p) \/ SubmitRegistration(p)
  \/ StartAlign(p) \/ SubmitAlignment(p) \/ AdoptKilled(p)

\* The commands run beside those on the declarations, and change none of them.
AdoptNext ==
  \/ DeclNext /\ UNCHANGED adoptVars
  \/ \E p \in AdoptProcs : AdoptStep(p) /\ UNCHANGED declVars

AdoptSpec == DeclInit /\ AdoptInit /\ [][AdoptNext]_<<declVars, adoptVars>>

-----------------------------------------------------------------------------
(* Properties.                                                             *)

\* The commands, the proofs and what the boundary has done keep their types.
AdoptPlaces == {"idle", "session", "send", "open", "fill", "read", "assess", "ask", "over"}
AdoptResults ==
  {"none", "killed", "crashed", "failed", "success", "summary", "blocked",
   "foreign", "partially_aligned", "registration_ready", "run_ready"}
AdoptProcess ==
  [cmd : AdoptCommands, at : AdoptPlaces, id : IngestIds \cup {NoId},
   left : Seq(DeclFiles \cup {"request", "response"}), scaffold : BOOLEAN,
   outcome : Outcomes, artifacts : [DeclFiles -> {"absent", "empty", "declared"}],
   reference : [id : IngestIds \cup {NoId}, posture : {"foreign", "aligned"},
                scaffold : BOOLEAN],
   authed : BOOLEAN, checked : SUBSET DeclProcs, result : AdoptResults]

AdoptTypeOK ==
  /\ adopt \in [AdoptProcs -> AdoptProcess]
  /\ proofs \in [AdoptProcs -> [request : {"none", "cut", "whole"},
                                response : {"none", "cut", "whole"}]]
  /\ boundary \in [AdoptProcs -> {"unasked", "taken", "refused"}]

\* What keyhole validate calls native_ready can be registered: while no
\* declaration has changed since a validation that passed, a registration of
\* the declarations that follows it is not refused for them, and sends a
\* keyhole.yaml and a contract that are not empty (run_validation,
\* load_native_artifacts, assess_readiness).
PassedIsRegistrable ==
  \A p \in AdoptProcs :
    AdoptAt(p, "register", "assess") /\ adopt[p].checked \cap fresh # {} =>
      /\ RegistrationReadiness(p, TRUE) # "not_ready"
      /\ \A f \in {"keyhole", "contract"} : adopt[p].artifacts[f] = "declared"

\* Nothing is made of an ingestion that the boundary did not say: guidance
\* without the boundary is "registration ready" only of one that it has taken,
\* and a registration refers to a posture only if the boundary has answered,
\* and to a scaffold only if that ingestion has seen one, even while the proof
\* is being written or was left half written (_load_ingestion_outcome,
\* load_ingestion_reference, _classify_outcome).
EvidenceIsOfIngestion ==
  \A p \in AdoptProcs :
    /\ adopt[p].cmd.op = "align" /\ ~adopt[p].authed /\ adopt[p].result = "registration_ready" =>
         boundary[adopt[p].id.of] = "taken"
    /\ adopt[p].reference # NoReference =>
         LET of == adopt[p].reference.id.of IN
         /\ adopt[p].reference.posture # "foreign" => boundary[of] \in {"taken", "refused"}
         /\ adopt[p].reference.id.by = "ingestion" => boundary[of] \in {"taken", "refused"}
         /\ adopt[p].reference.scaffold => adopt[of].scaffold
=============================================================================
