---------------------------- MODULE TestRuntime ----------------------------
(***************************************************************************)
(* The Keyhole test runtime (services/test-runtime/app): one asyncio       *)
(* process that serves POST /realize.  A handler runs without interruption *)
(* until it awaits the MCP governance controller; in governed mode several *)
(* handlers can therefore stand at that await at once, and each resumes    *)
(* with a verdict that was computed for the runtime's state of some time   *)
(* ago.  Outside governed mode governance_check awaits nothing and the     *)
(* handler is one step.                                                    *)
(*                                                                         *)
(* The governance controller is external; what it may answer is the        *)
(* constant UpstreamReplies.                                               *)
(***************************************************************************)
EXTENDS Naturals, Sequences, FiniteSets

CONSTANTS
  Requests,         \* requests that clients may make, each at most once
  Digests,          \* candidate digests
  None,             \* "no digest", "no reply yet"
  Modes,            \* modes the environment may put the runtime in
  UpstreamReplies   \* replies the governance controller may give

VerdictsReported == {"", "ACCEPT", "REJECT"}

\* A 200 reply: its "ok" flag and which of the evidence fields it carries.
Reply == [ok : BOOLEAN, verdict : VerdictsReported, drift : {"", "in_sync"},
          context : BOOLEAN, event : BOOLEAN]

ASSUME NoneAssumption == None \notin Digests \cup Reply
ASSUME ModesAssumption == Modes \subseteq {"local-only", "governed", "misconfigured"}
ASSUME RepliesAssumption == UpstreamReplies \subseteq Reply

VARIABLES
  mode,                 \* resolve_mode(): fixed when the process starts
  current_digest,
  realized_digests,
  governance_receipts,
  pointer,              \* RuntimeState._pointer
  request,              \* the body each request was made with
  upstream,             \* what the controller decided for it, or None
  handler               \* where its handler is, and what it answered

runtimeState == <<current_digest, realized_digests, governance_receipts, pointer>>
vars == <<mode, current_digest, realized_digests, governance_receipts, pointer,
          request, upstream, handler>>

Answers == {"ACCEPT", "ALREADY_REALIZED", "HTTP412", "HTTP422", "HTTP502"}
Body == [digest : Digests \cup {None}, require_governed : BOOLEAN,
         governance_context_id : BOOLEAN]
NoBody == [digest |-> None, require_governed |-> FALSE, governance_context_id |-> FALSE]

\* The evidence of a receipt.  mcp_event_id is present exactly when
\* event_spine_evidence is set: both come from the same list of fields.
Evidence == [governed : BOOLEAN, event_spine_evidence : BOOLEAN,
             governance_verdict : {"LOCAL_ONLY", "APPROVED", "ACCEPT", "REJECT"},
             drift_state : {"not_applicable", "not_reported", "in_sync"},
             governance_context_id : {"none", "request", "upstream"}]

-----------------------------------------------------------------------------
(* bridge.py: the evidence of a reply, with the bridge's defaults.         *)
ExtractGovernanceReceipt(reply, body) ==
  [governed |-> TRUE,
   event_spine_evidence |-> reply.event,
   governance_verdict |-> IF reply.verdict = "" THEN "APPROVED" ELSE reply.verdict,
   drift_state |-> IF reply.drift = "" THEN "not_reported" ELSE reply.drift,
   governance_context_id |->
     CASE reply.context -> "upstream"
       [] ~reply.context /\ body.governance_context_id -> "request"
       [] OTHER -> "none"]

(* What apply_digest records when there was no governance receipt.         *)
LocalOnlyReceipt(body) ==
  [governed |-> FALSE, event_spine_evidence |-> FALSE,
   governance_verdict |-> "LOCAL_ONLY", drift_state |-> "not_applicable",
   governance_context_id |-> IF body.governance_context_id THEN "request" ELSE "none"]

is_realized(d) == \E i \in 1..Len(realized_digests) : realized_digests[i] = d

(* Mutant: the digest is not looked up again after the await.              *)
ApplyUnchecked(r, d, evidence) ==
  /\ realized_digests' = Append(realized_digests, d)
  /\ current_digest' = d
  /\ pointer' = pointer + 1
  /\ governance_receipts' =
       Append(governance_receipts, [digest |-> d, from |-> r, evidence |-> evidence])
  /\ handler' = [handler EXCEPT ![r] = "ACCEPT"]

(* RuntimeState.apply_digest, called by the handler of request r.          *)
apply_digest(r, d, evidence) ==
  IF is_realized(d)
  THEN /\ handler' = [handler EXCEPT ![r] = "ALREADY_REALIZED"]
       /\ UNCHANGED runtimeState
  ELSE /\ realized_digests' = Append(realized_digests, d)
       /\ current_digest' = d
       /\ pointer' = pointer + 1
       /\ governance_receipts' =
            Append(governance_receipts, [digest |-> d, from |-> r, evidence |-> evidence])
       /\ handler' = [handler EXCEPT ![r] = "ACCEPT"]

RaiseHTTP(r, status) ==
  /\ handler' = [handler EXCEPT ![r] = status]
  /\ UNCHANGED runtimeState

(* The evidence fields a require_governed request insists on.  The verdict *)
(* and the drift state have been given defaults and are never missing.     *)
MissingEvidence(reply) == ~reply.context \/ ~reply.event

-----------------------------------------------------------------------------
Init ==
  /\ mode \in Modes
  /\ current_digest = None
  /\ realized_digests = <<>>
  /\ governance_receipts = <<>>
  /\ pointer = 0
  /\ request = [r \in Requests |-> NoBody]
  /\ upstream = [r \in Requests |-> None]
  /\ handler = [r \in Requests |-> "idle"]

Receive(r, body) ==
  /\ handler[r] = "idle"
  /\ body.digest # None
  /\ request' = [request EXCEPT ![r] = body]
  /\ UNCHANGED <<mode, upstream>>

\* require_governed outside governed mode: refused before anything is asked.
RefuseUngoverned(r, body) ==
  /\ Receive(r, body)
  /\ body.require_governed
  /\ mode # "governed"
  /\ RaiseHTTP(r, "HTTP412")

\* No MCP URL: the whole handler runs, ungated.
RealizeLocally(r, body) ==
  /\ Receive(r, body)
  /\ ~body.require_governed
  /\ mode = "local-only"
  /\ apply_digest(r, body.digest, LocalOnlyReceipt(body))

\* An MCP URL without a token: every request is rejected.
RejectMisconfigured(r, body) ==
  /\ Receive(r, body)
  /\ ~body.require_governed
  /\ mode = "misconfigured"
  /\ RaiseHTTP(r, "HTTP422")

\* Governed: the handler posts the candidate and suspends.
AwaitGovernance(r, body) ==
  /\ Receive(r, body)
  /\ mode = "governed"
  /\ handler' = [handler EXCEPT ![r] = "awaiting"]
  /\ UNCHANGED runtimeState

\* External: the controller decides; its reply is on the way.
ControllerDecides(r, reply) ==
  /\ handler[r] = "awaiting"
  /\ upstream[r] = None
  /\ upstream' = [upstream EXCEPT ![r] = reply]
  /\ UNCHANGED <<mode, runtimeState, request, handler>>

\* The reply arrives and the handler runs to its end.
Resume(r) ==
  LET body == request[r]
      reply == upstream[r]
  IN /\ handler[r] = "awaiting"
     /\ reply # None
     /\ \/ ~reply.ok /\ RaiseHTTP(r, "HTTP422")
        \/ /\ reply.ok
           /\ body.require_governed /\ MissingEvidence(reply)
           /\ RaiseHTTP(r, "HTTP502")
        \/ /\ reply.ok
           /\ ~(body.require_governed /\ MissingEvidence(reply))
           /\ apply_digest(r, body.digest, ExtractGovernanceReceipt(reply, body))
     /\ UNCHANGED <<mode, request, upstream>>

\* Mutant: the HTTP client has no timeout and only fails on a reply.
FailsOnReplyOnly(r) ==
  /\ handler[r] = "awaiting"
  /\ upstream[r] # None
  /\ RaiseHTTP(r, "HTTP422")
  /\ UNCHANGED <<mode, request, upstream>>

\* Timeout, connection failure, HTTP error or unreadable reply: REJECT, even
\* when the controller had already decided.
GovernanceCheckFails(r) ==
  /\ handler[r] = "awaiting"
  /\ RaiseHTTP(r, "HTTP422")
  /\ UNCHANGED <<mode, request, upstream>>

Next ==
  \E r \in Requests :
    \/ \E body \in Body :
         \/ RefuseUngoverned(r, body)
         \/ RealizeLocally(r, body)
         \/ RejectMisconfigured(r, body)
         \/ AwaitGovernance(r, body)
    \/ \E reply \in UpstreamReplies : ControllerDecides(r, reply)
    \/ Resume(r)
    \/ GovernanceCheckFails(r)

Spec == Init /\ [][Next]_vars

\* The event loop resumes a handler whose await has ended, and the HTTP
\* client's timeout ends every await.
Fairness == \A r \in Requests : WF_vars(Resume(r) \/ GovernanceCheckFails(r))

FairSpec == Spec /\ Fairness

-----------------------------------------------------------------------------
(* Properties.                                                             *)

LedgerEntry == [digest : Digests, from : Requests, evidence : Evidence]

\* The type invariant of RuntimeState, the handlers and the controller.
TypeOK ==
  /\ mode \in Modes
  /\ current_digest \in Digests \cup {None}
  /\ realized_digests \in Seq(Digests)
  /\ governance_receipts \in Seq(LedgerEntry)
  /\ pointer \in Nat
  /\ request \in [Requests -> Body]
  /\ upstream \in [Requests -> UpstreamReplies \cup {None}]
  /\ handler \in [Requests -> Answers \cup {"idle", "awaiting"}]

\* The four pieces of state apply_digest writes one after the other describe
\* the same realization at every point where another handler can run.
LedgerAligned ==
  /\ Len(governance_receipts) = Len(realized_digests)
  /\ pointer = Len(realized_digests)
  /\ \A i \in 1..Len(realized_digests) :
       governance_receipts[i].digest = realized_digests[i]
  /\ current_digest =
       IF realized_digests = <<>> THEN None ELSE realized_digests[Len(realized_digests)]

\* However handlers interleave at the await, no digest is realized twice and
\* no two requests are both told ACCEPT for the same digest.
RealizedOnce ==
  /\ \A i, j \in 1..Len(realized_digests) :
       realized_digests[i] = realized_digests[j] => i = j
  /\ \A r, s \in Requests :
       /\ handler[r] = "ACCEPT" /\ handler[s] = "ACCEPT"
       /\ request[r].digest = request[s].digest
       => r = s

\* What clients were told matches the ledger: ACCEPT answers and ledger entries
\* correspond, and ALREADY_REALIZED is said only of a digest in the ledger.
AnswersMatchLedger ==
  /\ \A r \in Requests : handler[r] = "ACCEPT" <=>
       \E i \in 1..Len(governance_receipts) : governance_receipts[i].from = r
  /\ \A r \in Requests : handler[r] = "ALREADY_REALIZED" => is_realized(request[r].digest)

\* The gate: with an MCP URL configured nothing is realized unless the
\* controller answered ok for that very request and digest, and a
\* require_governed realization carries the controller's context and event.
GovernedGate ==
  \A i \in 1..Len(governance_receipts) :
    LET e == governance_receipts[i]
    IN /\ e.digest = request[e.from].digest
       /\ mode # "misconfigured"
       /\ mode = "governed" => upstream[e.from] # None /\ upstream[e.from].ok
       /\ request[e.from].require_governed =>
            /\ mode = "governed"
            /\ e.evidence.event_spine_evidence
            /\ e.evidence.governance_context_id = "upstream"

\* A step of the runtime appends at most one digest to the ledger and never
\* rewrites an entry or a receipt, and an answer once given stays given.
LedgerOnlyGrows ==
  [][/\ Len(realized_digests') \in {Len(realized_digests), Len(realized_digests) + 1}
     /\ \A i \in 1..Len(realized_digests) :
          /\ realized_digests'[i] = realized_digests[i]
          /\ governance_receipts'[i] = governance_receipts[i]
     /\ \A r \in Requests : handler[r] \in Answers => handler'[r] = handler[r]]_vars

\* Every request that was let in is answered: a lost reply becomes a 422.
EveryRequestAnswered ==
  \A r \in Requests : handler[r] = "awaiting" ~> handler[r] \in Answers

-----------------------------------------------------------------------------
(* The runtime implements the ledger.                                      *)
outcomeOf(status) ==
  CASE status \in {"idle", "awaiting"} -> "pending"
    [] status \in {"ACCEPT", "ALREADY_REALIZED"} -> status
    [] OTHER -> "refused"

Ledger == INSTANCE RealizationLedger WITH
  ledger <- realized_digests,
  asked <- [r \in Requests |-> request[r].digest],
  outcome <- [r \in Requests |-> outcomeOf(handler[r])]

\* Every step of the runtime is a step of RealizationLedger or changes nothing
\* that its callers can see.
ImplementsLedger == Ledger!LedgerSpec
=============================================================================
