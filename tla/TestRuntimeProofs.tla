------------------------- MODULE TestRuntimeProofs -------------------------
(***************************************************************************)
(* Proofs about TestRuntime for any number of requests, digests, modes and *)
(* controller replies.                                                     *)
(*                                                                         *)
(* RealizedOnce is not inductive by itself: that a second ACCEPT for the   *)
(* same digest is impossible follows from the ledger only if every ACCEPT  *)
(* answer has its entry there.  IInv therefore joins the ledger's shape,   *)
(* the correspondence of answers and entries, and the gate.                *)
(*                                                                         *)
(* And about FirstApp, which realizes through such a runtime, for any      *)
(* commands, gaps and requests (AppInv), and ProofChain, where a proof     *)
(* becomes a receipt and a receipt a registration (ChainInv, at the end).  *)
(***************************************************************************)
EXTENDS TestRuntime, FirstApp, ProofChain, TLAPS

USE NoneAssumption, ModesAssumption, RepliesAssumption

\* Handlers stand at the await only in governed mode, with a digest to check,
\* and a handler that was never started has none.
HandlerShape ==
  \A r \in Requests :
    /\ handler[r] = "awaiting" => mode = "governed" /\ request[r].digest # None
    /\ handler[r] = "idle" => request[r].digest = None

\* The inductive invariant of POST /realize.
IInv ==
  /\ TypeOK /\ LedgerAligned /\ RealizedOnce /\ AnswersMatchLedger /\ GovernedGate
  /\ HandlerShape

\* The bridge's evidence extraction returns well-formed evidence.
LEMMA EvidenceType ==
  ASSUME NEW reply \in Reply, NEW body \in Body
  PROVE  /\ ExtractGovernanceReceipt(reply, body) \in Evidence
         /\ LocalOnlyReceipt(body) \in Evidence
  BY DEF ExtractGovernanceReceipt, LocalOnlyReceipt, Evidence, Reply, Body, VerdictsReported

\* The gate a handler must have passed when it calls apply_digest.
Gated(r, body, evidence) ==
  /\ mode # "misconfigured"
  /\ mode = "governed" => upstream[r] # None /\ upstream[r].ok
  /\ body.require_governed =>
       /\ mode = "governed"
       /\ evidence.event_spine_evidence
       /\ evidence.governance_context_id = "upstream"

\* Every ledger entry comes from some other request than an unanswered one.
LEMMA EntriesOfOthers ==
  ASSUME IInv, NEW r \in Requests, handler[r] \in {"idle", "awaiting"}
  PROVE  \A i \in 1..Len(governance_receipts) :
           governance_receipts[i].from \in Requests \ {r}
<1>. SUFFICES ASSUME NEW i \in 1..Len(governance_receipts)
              PROVE  governance_receipts[i].from \in Requests \ {r}
  OBVIOUS
<1>1. governance_receipts[i] \in LedgerEntry
  BY DEF IInv, TypeOK
<1>2. governance_receipts[i].from \in Requests
  BY <1>1 DEF LedgerEntry
<1>3. governance_receipts[i].from # r
  BY DEF IInv, AnswersMatchLedger
<1>. QED BY <1>2, <1>3

\* apply_digest, called by a handler that has not answered yet and has passed
\* the gate, preserves the invariant.
LEMMA ApplyDigest ==
  ASSUME IInv, NEW r \in Requests, NEW body \in Body, NEW evidence \in Evidence,
         handler[r] \in {"idle", "awaiting"}, body.digest \in Digests,
         request' = [request EXCEPT ![r] = body],
         UNCHANGED <<mode, upstream>>,
         Gated(r, body, evidence),
         apply_digest(r, body.digest, evidence)
  PROVE  IInv'
<1>a. CASE is_realized(body.digest)
  <2>. handler' = [handler EXCEPT ![r] = "ALREADY_REALIZED"] /\ UNCHANGED runtimeState
    BY <1>a DEF apply_digest
  <2>1. TypeOK'
    BY DEF IInv, TypeOK, runtimeState, Answers
  <2>2. LedgerAligned'
    BY DEF IInv, LedgerAligned, runtimeState
  <2>3. RealizedOnce'
    BY DEF IInv, TypeOK, RealizedOnce, runtimeState
  <2>4. AnswersMatchLedger'
    BY <1>a DEF IInv, TypeOK, AnswersMatchLedger, is_realized, runtimeState
  <2>5. GovernedGate'
    <3>1. \A i \in 1..Len(governance_receipts) :
            governance_receipts[i].from \in Requests \ {r}
      BY EntriesOfOthers
    <3>2. \A s \in Requests \ {r} : request'[s] = request[s]
      BY DEF IInv, TypeOK
    <3>. QED BY <3>1, <3>2 DEF IInv, GovernedGate, runtimeState
  <2>6. HandlerShape'
    BY DEF IInv, TypeOK, HandlerShape
  <2>. QED BY <2>1, <2>2, <2>3, <2>4, <2>5, <2>6 DEF IInv
<1>b. CASE ~is_realized(body.digest)
  <2>. DEFINE d == body.digest
              e == [digest |-> d, from |-> r, evidence |-> evidence]
              n == Len(realized_digests)
  <2>0. /\ realized_digests' = Append(realized_digests, d)
        /\ current_digest' = d
        /\ pointer' = pointer + 1
        /\ governance_receipts' = Append(governance_receipts, e)
        /\ handler' = [handler EXCEPT ![r] = "ACCEPT"]
    BY <1>b DEF apply_digest
  <2>e. e \in LedgerEntry
    BY DEF LedgerEntry
  <2>1. TypeOK'
    BY <2>0, <2>e DEF IInv, TypeOK, Answers
  <2>n. /\ n \in Nat /\ Len(governance_receipts) = n
        /\ Len(realized_digests') = n + 1 /\ Len(governance_receipts') = n + 1
        /\ realized_digests'[n + 1] = d /\ governance_receipts'[n + 1] = e
        /\ \A i \in 1..n : /\ realized_digests'[i] = realized_digests[i]
                           /\ governance_receipts'[i] = governance_receipts[i]
                           /\ governance_receipts[i] \in LedgerEntry
    BY <2>0, <2>e DEF IInv, TypeOK, LedgerAligned
  <2>. HIDE DEF n
  <2>2. LedgerAligned'
    <3>1. realized_digests' # <<>>
      BY <2>n, <2>1 DEF TypeOK
    <3>. QED BY <2>0, <2>n, <3>1 DEF IInv, LedgerAligned, n
  <2>3. \A i \in 1..n : realized_digests[i] # d
    BY <1>b DEF is_realized, n
  <2>4. \A s \in Requests : handler[s] = "ACCEPT" => request[s].digest # d
    <3>. SUFFICES ASSUME NEW s \in Requests, handler[s] = "ACCEPT"
                  PROVE  request[s].digest # d
      OBVIOUS
    <3>1. PICK i \in 1..n : governance_receipts[i].from = s
      BY <2>n DEF IInv, AnswersMatchLedger
    <3>2. governance_receipts[i].digest = request[s].digest
      BY <3>1, <2>n DEF IInv, GovernedGate
    <3>. QED BY <3>1, <3>2, <2>3 DEF IInv, LedgerAligned, n
  <2>5. RealizedOnce'
    <3>1. \A i, j \in 1..(n + 1) : realized_digests'[i] = realized_digests'[j] => i = j
      BY <2>n, <2>3 DEF IInv, RealizedOnce, n
    <3>2. ASSUME NEW s \in Requests, NEW t \in Requests,
                 handler'[s] = "ACCEPT", handler'[t] = "ACCEPT",
                 request'[s].digest = request'[t].digest
          PROVE  s = t
      BY <3>2, <2>0, <2>4 DEF IInv, TypeOK, RealizedOnce
    <3>. QED BY <3>1, <3>2, <2>n DEF RealizedOnce
  <2>6. AnswersMatchLedger'
    <3>1. ASSUME NEW s \in Requests
          PROVE  handler'[s] = "ACCEPT" <=>
                   \E i \in 1..(n + 1) : governance_receipts'[i].from = s
      <4>1. CASE s = r
        BY <4>1, <2>0, <2>n DEF IInv, TypeOK
      <4>2. CASE s # r
        BY <4>2, <2>0, <2>n DEF IInv, TypeOK, AnswersMatchLedger
      <4>. QED BY <4>1, <4>2
    <3>2. ASSUME NEW s \in Requests, handler'[s] = "ALREADY_REALIZED"
          PROVE  \E i \in 1..(n + 1) : realized_digests'[i] = request'[s].digest
      <4>1. s # r /\ handler[s] = "ALREADY_REALIZED" /\ request'[s] = request[s]
        BY <3>2, <2>0 DEF IInv, TypeOK
      <4>. QED BY <4>1, <2>n DEF IInv, AnswersMatchLedger, is_realized, n
    <3>. QED BY <3>1, <3>2, <2>n DEF AnswersMatchLedger, is_realized
  <2>7. GovernedGate'
    <3>. SUFFICES ASSUME NEW i \in 1..(n + 1)
                  PROVE  LET f == governance_receipts'[i]
                         IN /\ f.digest = request'[f.from].digest
                            /\ mode' # "misconfigured"
                            /\ mode' = "governed" => upstream'[f.from] # None /\ upstream'[f.from].ok
                            /\ request'[f.from].require_governed =>
                                 /\ mode' = "governed"
                                 /\ f.evidence.event_spine_evidence
                                 /\ f.evidence.governance_context_id = "upstream"
      BY <2>n DEF GovernedGate
    <3>1. CASE i = n + 1
      BY <3>1, <2>n DEF Gated, IInv, TypeOK
    <3>2. CASE i \in 1..n
      <4>1. governance_receipts[i].from \in Requests /\ governance_receipts[i].from # r
        BY <3>2, <2>n DEF IInv, AnswersMatchLedger, LedgerEntry
      <4>. QED BY <3>2, <4>1, <2>n DEF IInv, TypeOK, GovernedGate
    <3>. QED BY <3>1, <3>2, <2>n
  <2>8. HandlerShape'
    BY <2>0 DEF IInv, TypeOK, HandlerShape
  <2>. QED BY <2>1, <2>2, <2>5, <2>6, <2>7, <2>8 DEF IInv
<1>. QED BY <1>a, <1>b

\* A handler that suspends or answers with an HTTP error, and leaves the
\* runtime's state alone, preserves the invariant.
LEMMA NoMutation ==
  ASSUME IInv, NEW r \in Requests, NEW body \in Body,
         NEW status \in {"awaiting", "HTTP412", "HTTP422", "HTTP502"},
         handler[r] \in {"idle", "awaiting"},
         request' = [request EXCEPT ![r] = body],
         UNCHANGED <<mode, upstream, runtimeState>>,
         handler' = [handler EXCEPT ![r] = status],
         status = "awaiting" => mode = "governed" /\ body.digest # None
  PROVE  IInv'
<1>1. TypeOK'
  BY DEF IInv, TypeOK, runtimeState, Answers
<1>2. LedgerAligned'
  BY DEF IInv, LedgerAligned, runtimeState
<1>3. RealizedOnce'
  BY DEF IInv, TypeOK, RealizedOnce, runtimeState
<1>4. AnswersMatchLedger'
  BY DEF IInv, TypeOK, AnswersMatchLedger, is_realized, runtimeState
<1>5. GovernedGate'
  <2>1. \A i \in 1..Len(governance_receipts) :
          governance_receipts[i].from \in Requests \ {r}
    BY EntriesOfOthers
  <2>2. \A s \in Requests \ {r} : request'[s] = request[s]
    BY DEF IInv, TypeOK
  <2>. QED BY <2>1, <2>2 DEF IInv, GovernedGate, runtimeState
<1>6. HandlerShape'
  BY DEF IInv, TypeOK, HandlerShape
<1>. QED BY <1>1, <1>2, <1>3, <1>4, <1>5, <1>6 DEF IInv

LEMMA InitIInv == Init => IInv
  BY DEF Init, IInv, TypeOK, LedgerAligned, RealizedOnce, AnswersMatchLedger,
         GovernedGate, HandlerShape, is_realized, Body, NoBody, Answers

\* One step per action.
LEMMA StepIInv == IInv /\ [Next]_vars => IInv'
<1>. SUFFICES ASSUME IInv, [Next]_vars PROVE IInv'
  OBVIOUS
<1>1. ASSUME NEW r \in Requests, NEW body \in Body, RefuseUngoverned(r, body)
      PROVE  IInv'
  BY <1>1, NoMutation DEF RefuseUngoverned, Receive, RaiseHTTP
<1>2. ASSUME NEW r \in Requests, NEW body \in Body, RealizeLocally(r, body)
      PROVE  IInv'
  <2>1. LocalOnlyReceipt(body) \in Evidence
    BY DEF LocalOnlyReceipt, Evidence
  <2>2. Gated(r, body, LocalOnlyReceipt(body)) /\ body.digest \in Digests
    BY <1>2 DEF RealizeLocally, Receive, Gated, Body
  <2>. QED BY <1>2, <2>1, <2>2, ApplyDigest DEF RealizeLocally, Receive
<1>3. ASSUME NEW r \in Requests, NEW body \in Body, RejectMisconfigured(r, body)
      PROVE  IInv'
  BY <1>3, NoMutation DEF RejectMisconfigured, Receive, RaiseHTTP
<1>4. ASSUME NEW r \in Requests, NEW body \in Body, AwaitGovernance(r, body)
      PROVE  IInv'
  BY <1>4, NoMutation DEF AwaitGovernance, Receive
<1>5. ASSUME NEW r \in Requests, NEW reply \in UpstreamReplies, ControllerDecides(r, reply)
      PROVE  IInv'
  <2>. USE <1>5 DEF ControllerDecides, runtimeState
  <2>1. TypeOK'
    BY DEF IInv, TypeOK
  <2>2. LedgerAligned' /\ RealizedOnce' /\ AnswersMatchLedger' /\ HandlerShape'
    BY DEF IInv, LedgerAligned, RealizedOnce, AnswersMatchLedger, HandlerShape,
           is_realized
  <2>3. GovernedGate'
    <3>1. \A i \in 1..Len(governance_receipts) :
            governance_receipts[i].from \in Requests \ {r}
      BY EntriesOfOthers
    <3>2. \A s \in Requests \ {r} : upstream'[s] = upstream[s]
      BY DEF IInv, TypeOK
    <3>. QED BY <3>1, <3>2 DEF IInv, GovernedGate
  <2>. QED BY <2>1, <2>2, <2>3 DEF IInv
<1>6. ASSUME NEW r \in Requests, Resume(r)
      PROVE  IInv'
  <2>. DEFINE body == request[r]
              reply == upstream[r]
              evidence == ExtractGovernanceReceipt(reply, body)
  <2>1. /\ body \in Body /\ request' = [request EXCEPT ![r] = body]
        /\ reply \in Reply /\ handler[r] = "awaiting"
        /\ UNCHANGED <<mode, upstream>>
    BY <1>6 DEF Resume, IInv, TypeOK
  <2>2. CASE \E status \in {"HTTP422", "HTTP502"} : RaiseHTTP(r, status)
    BY <2>1, <2>2, NoMutation DEF RaiseHTTP
  <2>3. CASE /\ reply.ok /\ ~(body.require_governed /\ MissingEvidence(reply))
             /\ apply_digest(r, body.digest, evidence)
    <3>1. evidence \in Evidence
      BY <2>1, EvidenceType
    <3>2. body.digest \in Digests /\ mode = "governed"
      BY <2>1 DEF IInv, TypeOK, Body, HandlerShape
    <3>3. Gated(r, body, evidence)
      BY <2>1, <2>3, <3>2, <1>6 DEF Gated, Resume, MissingEvidence, ExtractGovernanceReceipt
    <3>. HIDE DEF body, evidence
    <3>. QED BY <2>1, <2>3, <3>1, <3>2, <3>3, ApplyDigest
  <2>. QED BY <1>6, <2>2, <2>3 DEF Resume
<1>7. ASSUME NEW r \in Requests, GovernanceCheckFails(r)
      PROVE  IInv'
  <2>1. request[r] \in Body /\ request' = [request EXCEPT ![r] = request[r]]
    BY <1>7 DEF GovernanceCheckFails, IInv, TypeOK
  <2>. QED BY <1>7, <2>1, NoMutation DEF GovernanceCheckFails, RaiseHTTP
<1>8. CASE UNCHANGED vars
  BY <1>8 DEF vars, IInv, TypeOK, LedgerAligned, RealizedOnce, AnswersMatchLedger,
              GovernedGate, HandlerShape, is_realized
<1>. QED
  BY <1>1, <1>2, <1>3, <1>4, <1>5, <1>6, <1>7, <1>8 DEF Next

\* The type invariant of the runtime: what apply_digest and the bridge write
\* has the shape the state and receipt endpoints publish.
THEOREM TypeCorrect == Spec => []TypeOK
<1>1. IInv => TypeOK
  BY DEF IInv
<1>. QED BY <1>1, InitIInv, StepIInv, PTL DEF Spec

\* However many handlers interleave at the await, no digest is realized twice,
\* no two requests are told ACCEPT for it, and the four parts of the runtime's
\* state agree with each other and with the answers given.
THEOREM RealizationIsIdempotent ==
  Spec => [](RealizedOnce /\ LedgerAligned /\ AnswersMatchLedger)
<1>1. IInv => RealizedOnce /\ LedgerAligned /\ AnswersMatchLedger
  BY DEF IInv
<1>. QED BY <1>1, InitIInv, StepIInv, PTL DEF Spec

\* Nothing passes the governance gate of POST /realize without the approval it
\* needs.
THEOREM GateHolds == Spec => []GovernedGate
<1>1. IInv => GovernedGate
  BY DEF IInv
<1>. QED BY <1>1, InitIInv, StepIInv, PTL DEF Spec

-----------------------------------------------------------------------------
(* The runtime implements RealizationLedger.                               *)

\* apply_digest is the ledger's decision, for a request made before or now.
LEMMA ApplyDecides ==
  ASSUME IInv, NEW r \in Requests, NEW d \in Digests, NEW evidence,
         handler[r] \in {"idle", "awaiting"}, apply_digest(r, d, evidence)
  PROVE  Ledger!Realize(r, d) \/ Ledger!Repeat(r, d)
<1>1. Ledger!InLedger(d) <=> is_realized(d)
  BY DEF Ledger!InLedger, is_realized
<1>2. CASE is_realized(d)
  <2>1. handler' = [handler EXCEPT ![r] = "ALREADY_REALIZED"]
    BY <1>2 DEF apply_digest
  <2>2. [s \in Requests |-> outcomeOf(handler'[s])] =
          [[s \in Requests |-> outcomeOf(handler[s])] EXCEPT ![r] = "ALREADY_REALIZED"]
    BY <2>1 DEF IInv, TypeOK, outcomeOf
  <2>. QED BY <1>1, <1>2, <2>2 DEF Ledger!Repeat, apply_digest, runtimeState
<1>3. CASE ~is_realized(d)
  <2>1. handler' = [handler EXCEPT ![r] = "ACCEPT"]
    BY <1>3 DEF apply_digest
  <2>2. [s \in Requests |-> outcomeOf(handler'[s])] =
          [[s \in Requests |-> outcomeOf(handler[s])] EXCEPT ![r] = "ACCEPT"]
    BY <2>1 DEF IInv, TypeOK, outcomeOf
  <2>. QED BY <1>1, <1>3, <2>2 DEF Ledger!Realize, apply_digest
<1>. QED BY <1>2, <1>3

\* An HTTP error is the ledger's refusal.
LEMMA ErrorRefuses ==
  ASSUME IInv, NEW r \in Requests, NEW status \in {"HTTP412", "HTTP422", "HTTP502"},
         RaiseHTTP(r, status)
  PROVE  Ledger!Refuse(r)
<1>1. [s \in Requests |-> outcomeOf(handler'[s])] =
        [[s \in Requests |-> outcomeOf(handler[s])] EXCEPT ![r] = "refused"]
  BY DEF IInv, TypeOK, outcomeOf, RaiseHTTP
<1>. QED BY <1>1 DEF Ledger!Refuse, RaiseHTTP, runtimeState

\* Receiving a body is asking for its digest.
LEMMA ReceiveAsks ==
  ASSUME IInv, NEW r \in Requests, NEW body \in Body, Receive(r, body)
  PROVE  /\ body.digest \in Digests
         /\ request[r].digest = None
         /\ [s \in Requests |-> request'[s].digest] =
              [[s \in Requests |-> request[s].digest] EXCEPT ![r] = body.digest]
  BY DEF IInv, TypeOK, HandlerShape, Receive, Body

LEMMA StepRefines == IInv /\ [Next]_vars => [Ledger!LedgerNext]_(Ledger!ledgerVars)
<1>. SUFFICES ASSUME IInv, [Next]_vars
              PROVE  [Ledger!LedgerNext]_(Ledger!ledgerVars)
  OBVIOUS
<1>. USE DEF Ledger!LedgerNext, Ledger!AskAndDecide, Ledger!Decide, Ledger!Ask,
             Ledger!Waiting
<1>1. ASSUME NEW r \in Requests, NEW body \in Body, RefuseUngoverned(r, body)
      PROVE  Ledger!LedgerNext
  BY <1>1, ReceiveAsks, ErrorRefuses DEF RefuseUngoverned
<1>2. ASSUME NEW r \in Requests, NEW body \in Body, RealizeLocally(r, body)
      PROVE  Ledger!LedgerNext
  <2>1. handler[r] = "idle" /\ Receive(r, body)
        /\ apply_digest(r, body.digest, LocalOnlyReceipt(body))
    BY <1>2 DEF RealizeLocally, Receive
  <2>a. body.digest \in Digests
    BY <2>1, ReceiveAsks
  <2>. DEFINE d == body.digest
              evidence == LocalOnlyReceipt(body)
  <2>. HIDE DEF d, evidence
  <2>2. Ledger!Realize(r, d) \/ Ledger!Repeat(r, d)
    BY <2>1, <2>a, ApplyDecides DEF d, evidence
  <2>. QED BY <2>1, <2>2, ReceiveAsks DEF d
<1>3. ASSUME NEW r \in Requests, NEW body \in Body, RejectMisconfigured(r, body)
      PROVE  Ledger!LedgerNext
  BY <1>3, ReceiveAsks, ErrorRefuses DEF RejectMisconfigured
<1>4. ASSUME NEW r \in Requests, NEW body \in Body, AwaitGovernance(r, body)
      PROVE  Ledger!LedgerNext
  <2>1. [s \in Requests |-> outcomeOf(handler'[s])] = [s \in Requests |-> outcomeOf(handler[s])]
    BY <1>4 DEF AwaitGovernance, Receive, IInv, TypeOK, outcomeOf
  <2>. QED BY <1>4, <2>1, ReceiveAsks DEF AwaitGovernance, runtimeState
<1>5. ASSUME NEW r \in Requests, NEW reply \in UpstreamReplies, ControllerDecides(r, reply)
      PROVE  UNCHANGED Ledger!ledgerVars
  BY <1>5 DEF ControllerDecides, runtimeState, Ledger!ledgerVars
<1>6. ASSUME NEW r \in Requests, Resume(r)
      PROVE  Ledger!LedgerNext
  <2>1. /\ handler[r] = "awaiting" /\ UNCHANGED request
        /\ request[r].digest \in Digests /\ outcomeOf(handler[r]) = "pending"
    BY <1>6 DEF Resume, IInv, TypeOK, HandlerShape, Body, outcomeOf
  <2>2. \/ Ledger!Realize(r, request[r].digest) \/ Ledger!Repeat(r, request[r].digest)
        \/ Ledger!Refuse(r)
    BY <1>6, <2>1, ApplyDecides, ErrorRefuses DEF Resume
  <2>. QED BY <2>1, <2>2
<1>7. ASSUME NEW r \in Requests, GovernanceCheckFails(r)
      PROVE  Ledger!LedgerNext
  <2>1. /\ handler[r] = "awaiting" /\ UNCHANGED request
        /\ request[r].digest # None /\ outcomeOf(handler[r]) = "pending"
    BY <1>7 DEF GovernanceCheckFails, IInv, TypeOK, HandlerShape, outcomeOf
  <2>. QED BY <1>7, <2>1, ErrorRefuses DEF GovernanceCheckFails
<1>8. CASE UNCHANGED vars
  BY <1>8 DEF vars, Ledger!ledgerVars
<1>. QED BY <1>1, <1>2, <1>3, <1>4, <1>5, <1>6, <1>7, <1>8 DEF Next

\* POST /realize behaves as one append-only ledger of digests, whatever its
\* handlers and the governance controller do in between.
THEOREM RuntimeImplementsLedger == Spec => ImplementsLedger
<1>1. Init => Ledger!LedgerInit
  BY DEF Init, Ledger!LedgerInit, NoBody, outcomeOf
<1>. QED
  BY <1>1, InitIInv, StepIInv, StepRefines, PTL DEF Spec, ImplementsLedger, Ledger!LedgerSpec
-----------------------------------------------------------------------------
(* The governed first app.  The server keeps what it was asked, and a        *)
(* request that is done stays done; so what a command holds when it sends a  *)
(* request, writes a file or reads one is still so at the next.              *)

ServedRequest ==
  [op : AppCommands \cup {"claim"}, cites : Nat, digest : Nat,
   gap : AppGaps \cup {NoGap}, st : {"done", "bare", "active", "failed"}]
AppProcess ==
  [cmd : AppCommands, at : AppPlaces, gap : AppGaps \cup {NoGap},
   result : {"none", "success", "failed"}, digest : Nat, cites : Nat, got : Nat]
SavedFile ==
  [state : {"none", "cut", "mixed", "whole"}, of : Nat, cites : Nat,
   gap : AppGaps \cup {NoGap}, digest : Nat]

\* Request j is a finished one of operation o.
IsDone(j, o) == j \in DOMAIN served /\ served[j].op = o /\ served[j].st = "done"

\* What a request of operation o may say: s is a request, or who sends it.
Grounded(o, s) ==
  /\ o = "register" /\ needsClaim =>
       /\ IsDone(s.cites, "claim") /\ s.digest # 0
       /\ s.gap = served[s.cites].gap /\ s.digest = served[s.cites].digest
  /\ o = "compile" =>
       /\ IsDone(s.cites, "register") /\ s.gap = served[s.cites].gap
       /\ needsClaim => s.digest = served[s.cites].digest
  /\ o = "run" => IsDone(s.cites, "compile")

\* What a command has where it stands.
AppHolds(p) ==
  LET a == app[p]
      r == served[a.got]
  IN  /\ a.at \in {"digest", "gap", "claim"} => a.cmd = "register"
      /\ a.at \in {"gap", "claim"} => a.digest # 0
      /\ a.at = "read" => a.cmd # "register"
      /\ a.at = "gate" => a.cmd = "run"
      /\ a.at \in {"gate", "send"} => Grounded(a.cmd, a)
      /\ a.at \in {"answer", "write"} =>
           /\ a.got \in DOMAIN served
           /\ r.cites = a.cites /\ r.gap = a.gap /\ r.digest = a.digest
      /\ a.at = "answer" /\ r.op = "claim" => a.cmd = "register" /\ a.digest # 0
      /\ a.at = "write" => IsDone(a.got, a.cmd)

AppInv ==
  AppTypeOK /\ RequestsAreChained /\ FilesAreAnswers /\ \A p \in AppProcs : AppHolds(p)
\* A file that parses is the finished outcome of its request.
AnswerIn(c) ==
  LET f == saved[c]
      r == served[f.of]
  IN  f.state = "whole" =>
        /\ IsDone(f.of, c) /\ f.cites = r.cites
        /\ c = "register" => f.gap = r.gap /\ f.digest = r.digest

LEMMA FilesAre == FilesAreAnswers <=> \A c \in AppCommands : AnswerIn(c)
  BY DEF FilesAreAnswers, AnswerIn, IsDone

LEMMA AppTypes ==
  AppTypeOK <=> /\ saved \in [AppCommands -> SavedFile] /\ app \in [AppProcs -> AppProcess]
                /\ served \in Seq(ServedRequest)
                /\ digests \in 0..MaxDigests /\ canonical \in 0..digests
                /\ needsClaim \in BOOLEAN
  BY DEF AppTypeOK, SavedFile, AppProcess, ServedRequest

LEMMA InitAppInv == AppInit => AppInv
<1>. SUFFICES ASSUME AppInit PROVE AppInv
  OBVIOUS
<1>1. PICK scene \in AppScenes : app = [p \in AppProcs |-> Blank(scene[p])]
  BY DEF AppInit
<1>2. app \in [AppProcs -> AppProcess] /\ \A p \in AppProcs : app[p].at = "idle"
  BY <1>1, AppAssumption DEF Blank, AppProcess, AppPlaces, AppCommands
<1>3. NoFile \in SavedFile /\ NoFile.state = "none"
  BY DEF NoFile, SavedFile
<1>4. AppTypeOK
  BY <1>2, <1>3, AppTypes, AppAssumption DEF AppInit
<1>5. RequestsAreChained
  BY DEF AppInit, RequestsAreChained
<1>6. FilesAreAnswers
  BY <1>3, FilesAre DEF AppInit, AnswerIn
<1>7. \A p \in AppProcs : AppHolds(p)
  BY <1>2 DEF AppHolds
<1>. QED BY <1>4, <1>5, <1>6, <1>7 DEF AppInv

\* What the server keeps of its requests.
ServedKeeps ==
  /\ UNCHANGED needsClaim
  /\ \A i \in DOMAIN served :
       /\ i \in DOMAIN served'
       /\ served'[i].op = served[i].op /\ served'[i].cites = served[i].cites
       /\ served'[i].gap = served[i].gap /\ served'[i].digest = served[i].digest
       /\ served[i].st = "done" => served'[i].st = "done"

LEMMA KeepDone ==
  ASSUME ServedKeeps
  PROVE  \A j, o : IsDone(j, o) =>
           /\ IsDone(j, o)' /\ served'[j].cites = served[j].cites
           /\ served'[j].gap = served[j].gap /\ served'[j].digest = served[j].digest
  BY DEF ServedKeeps, IsDone

LEMMA KeepHolds ==
  ASSUME ServedKeeps, NEW p \in AppProcs, AppHolds(p), app'[p] = app[p]
  PROVE  AppHolds(p)'
<1>1. Grounded(app[p].cmd, app[p]) => Grounded(app[p].cmd, app[p])'
  BY KeepDone DEF Grounded, ServedKeeps
<1>. QED BY <1>1, KeepDone DEF AppHolds, ServedKeeps

LEMMA KeepChained ==
  ASSUME AppInv, ServedKeeps, NEW i \in DOMAIN served
  PROVE  Chained(i)'
<1>1. Chained(i) /\ i \in 1..Len(served) /\ served[i].cites \in Nat
  <2>1. served \in Seq(ServedRequest)
    BY AppTypes DEF AppInv
  <2>2. served[i] \in ServedRequest /\ i \in 1..Len(served)
    BY <2>1
  <2>. QED BY <2>2 DEF AppInv, RequestsAreChained, ServedRequest
<1>2. \A o : CitesDone(i, o) =>
        /\ CitesDone(i, o)'
        /\ served'[served[i].cites].gap = served[served[i].cites].gap
        /\ served'[served[i].cites].digest = served[served[i].cites].digest
  BY <1>1 DEF CitesDone, ServedKeeps
<1>. QED BY <1>1, <1>2 DEF Chained, ServedKeeps

LEMMA KeepAnswer ==
  ASSUME ServedKeeps, NEW c \in AppCommands, AnswerIn(c), saved'[c] = saved[c]
  PROVE  AnswerIn(c)'
  BY KeepDone DEF AnswerIn

\* A step of p: what it must show of itself, of the file it writes and of the
\* request it makes.
LEMMA AppStepOf ==
  ASSUME AppInv, ServedKeeps, NEW p \in AppProcs,
         app' = [app EXCEPT ![p] = app'[p]], app'[p] \in AppProcess, AppHolds(p)',
         served' \in Seq(ServedRequest),
         digests' \in 0..MaxDigests, canonical' \in 0..digests',
         saved' \in [AppCommands -> SavedFile],
         \A i \in DOMAIN served' : i \in DOMAIN served \/ Chained(i)',
         \A c \in AppCommands : saved'[c] = saved[c] \/ AnswerIn(c)'
  PROVE  AppInv'
<1>1. AppTypeOK'
  BY DEF AppInv, ServedKeeps, AppTypeOK, SavedFile, AppProcess, ServedRequest
<1>2. \A q \in AppProcs : AppHolds(q)'
  <2>1. ASSUME NEW q \in AppProcs, q # p PROVE app'[q] = app[q]
    BY <2>1, AppTypes DEF AppInv
  <2>. QED BY <2>1, KeepHolds DEF AppInv
<1>3. RequestsAreChained'
  BY KeepChained DEF RequestsAreChained
<1>4. FilesAreAnswers'
  <2>1. \A c \in AppCommands : AnswerIn(c)'
    BY KeepAnswer, FilesAre DEF AppInv
  <2>. QED BY <2>1 DEF FilesAreAnswers, AnswerIn, IsDone
<1>. QED BY <1>1, <1>2, <1>3, <1>4 DEF AppInv

\* A step that only p notices.
LEMMA AppLocalStep ==
  ASSUME AppInv, NEW p \in AppProcs, UNCHANGED <<saved, appServer>>,
         app' = [app EXCEPT ![p] = app'[p]], app'[p] \in AppProcess, AppHolds(p)'
  PROVE  AppInv'
  BY AppStepOf, AppTypes DEF AppInv, appServer, ServedKeeps

LEMMA AppGoes ==
  ASSUME AppInv, NEW p \in AppProcs, NEW place \in AppPlaces, AppGo(p, place)
  PROVE  /\ app' = [app EXCEPT ![p] = app'[p]] /\ app'[p] \in AppProcess
         /\ app'[p] = [app[p] EXCEPT !.at = place]
         /\ app[p] \in AppProcess
  BY AppTypes DEF AppInv, AppGo, AppProcess

LEMMA AppEnds ==
  ASSUME AppInv, NEW p \in AppProcs, NEW outcome \in {"success", "failed"},
         app' = [app EXCEPT ![p] = Ended(p, outcome)]
  PROVE  /\ app' = [app EXCEPT ![p] = app'[p]] /\ app'[p] \in AppProcess
         /\ AppHolds(p)'
<1>1. app \in [AppProcs -> AppProcess] /\ app[p] \in AppProcess
  BY AppTypes DEF AppInv
<1>2. app'[p] = [cmd |-> app[p].cmd, at |-> "over", result |-> outcome, gap |-> NoGap,
                 digest |-> 0, cites |-> 0, got |-> 0]
  BY <1>1 DEF Ended, Blank
<1>3. app'[p] \in AppProcess /\ app'[p].at = "over"
  BY <1>1, <1>2 DEF AppProcess, AppPlaces
<1>. QED BY <1>1, <1>3 DEF AppHolds, Ended

LEMMA AppFails ==
  ASSUME AppInv, NEW p \in AppProcs, Fails(p), UNCHANGED <<saved, appServer>>
  PROVE  AppInv'
  BY AppEnds, AppLocalStep DEF Fails
\* A request that says what it may keeps the chain.
LEMMA AppRequests ==
  ASSUME AppInv, NEW p \in AppProcs, NEW o \in {app[p].cmd, "claim"}, Request(p, o),
         UNCHANGED <<saved, digests, canonical, needsClaim>>, Grounded(o, app[p]),
         o = "claim" => app[p].cmd = "register" /\ app[p].digest # 0
  PROVE  AppInv'
<1>1. /\ app \in [AppProcs -> AppProcess] /\ app[p] \in AppProcess
      /\ served \in Seq(ServedRequest) /\ saved \in [AppCommands -> SavedFile]
      /\ digests \in 0..MaxDigests /\ canonical \in 0..digests
  BY AppTypes DEF AppInv
<1>2. CASE Fails(p) /\ UNCHANGED served
  BY <1>2, AppFails DEF appServer
<1>3. ASSUME NEW st \in {"done", "bare", "active"},
             served' = Append(served, RequestOf(p, o, st)),
             \/ app' = [app EXCEPT ![p].got = Len(served'), ![p].at = "answer"]
             \/ Fails(p)
      PROVE  AppInv'
  <2>0. RequestOf(p, o, st) \in ServedRequest
    BY <1>1 DEF RequestOf, ServedRequest, AppProcess
  <2>1. PICK q \in ServedRequest :
        /\ q = RequestOf(p, o, st)
        /\ q.op = o /\ q.cites = app[p].cites /\ q.gap = app[p].gap /\ q.digest = app[p].digest
    BY <2>0 DEF RequestOf
  <2>. PICK n \in Nat : n = Len(served) + 1
    BY <1>1
  <2>2. /\ served' \in Seq(ServedRequest) /\ Len(served') = n /\ DOMAIN served' = 1..n
        /\ DOMAIN served = 1..Len(served) /\ n \in Nat
        /\ \A i \in 1..Len(served) : i \in 1..n /\ served'[i] = served[i]
        /\ served'[n] = q
    BY <1>1, <1>3, <2>1
  <2>3. ServedKeeps
    BY <2>2 DEF ServedKeeps
  <2>4. Chained(n)'
    <3>1. \A j \in DOMAIN served : j \in 1..n - 1 /\ served'[j] = served[j]
      BY <1>1, <2>2
    <3>. QED BY <2>1, <2>2, <2>3, <3>1 DEF Chained, CitesDone, Grounded, IsDone, ServedKeeps
  <2>5. \A i \in DOMAIN served' : i \in DOMAIN served \/ Chained(i)'
    BY <2>2, <2>4
  <2>6. CASE app' = [app EXCEPT ![p].got = Len(served'), ![p].at = "answer"]
    <3>1. /\ app'[p] = [app[p] EXCEPT !.got = n, !.at = "answer"]
          /\ app' = [app EXCEPT ![p] = app'[p]]
      BY <1>1, <2>2, <2>6
    <3>2. /\ app'[p] \in AppProcess /\ app'[p].cmd = app[p].cmd /\ app'[p].at = "answer"
          /\ app'[p].cites = app[p].cites /\ app'[p].gap = app[p].gap
          /\ app'[p].digest = app[p].digest /\ app'[p].got = n
      BY <1>1, <2>2, <3>1 DEF AppProcess, AppPlaces
    <3>3. AppHolds(p)'
      BY <2>1, <2>2, <3>2 DEF AppHolds
    <3>. QED BY <1>1, <2>2, <2>3, <2>5, <3>1, <3>2, <3>3, AppStepOf
  <2>7. CASE Fails(p)
    BY <1>1, <2>2, <2>3, <2>5, <2>7, AppEnds, AppStepOf DEF Fails
  <2>. QED BY <1>3, <2>6, <2>7
<1>. QED BY <1>2, <1>3 DEF Request

LEMMA AppSendStep ==
  ASSUME AppInv, NEW p \in AppProcs, AppClaim(p) \/ Send(p)
  PROVE  AppInv'
<1>1. app[p] \in AppProcess /\ AppHolds(p)
  BY AppTypes DEF AppInv
<1>2. CASE AppClaim(p)
  <2>1. app[p].cmd = "register" /\ app[p].digest # 0 /\ Grounded("claim", app[p])
    BY <1>1, <1>2 DEF AppClaim, AppAt, AppHolds, Grounded
  <2>. QED BY <1>2, <2>1, AppRequests DEF AppClaim
<1>3. CASE Send(p)
  <2>1. Grounded(app[p].cmd, app[p]) /\ app[p].cmd # "claim"
    BY <1>1, <1>3 DEF Send, AppHolds, AppProcess, AppCommands
  <2>. QED BY <1>3, <2>1, AppRequests DEF Send
<1>. QED BY <1>2, <1>3

LEMMA AppBeginStep ==
  ASSUME AppInv, NEW p \in AppProcs, AppStart(p) \/ AppDiscover(p) \/ LocalGate(p)
  PROVE  AppInv'
<1>1. AppHolds(p) /\ UNCHANGED <<saved, appServer>> /\ UNCHANGED <<served, needsClaim>>
  BY DEF AppInv, AppStart, AppDiscover, LocalGate, appServer
<1>2. ASSUME NEW place \in {"discover", "read", "digest", "send"}, AppGo(p, place),
             place = "read" => app[p].cmd # "register",
             place = "digest" => app[p].cmd = "register",
             place = "send" => Grounded(app[p].cmd, app[p])
      PROVE  AppInv'
  <2>1. /\ app' = [app EXCEPT ![p] = app'[p]] /\ app'[p] \in AppProcess
        /\ app'[p].cmd = app[p].cmd /\ app'[p].at = place /\ app'[p].cites = app[p].cites
        /\ app'[p].gap = app[p].gap /\ app'[p].digest = app[p].digest
    <3>1. place \in AppPlaces
      BY DEF AppPlaces
    <3>2. /\ app' = [app EXCEPT ![p] = app'[p]] /\ app'[p] \in AppProcess
          /\ app'[p] = [app[p] EXCEPT !.at = place] /\ app[p] \in AppProcess
      BY <1>2, <3>1, AppGoes
    <3>. QED BY <3>2 DEF AppProcess
  <2>2. Grounded(app[p].cmd, app[p]) => Grounded(app[p].cmd, app[p])'
    BY <1>1, <2>1 DEF Grounded, IsDone
  <2>3. AppHolds(p)'
    BY <1>2, <2>1, <2>2 DEF AppHolds
  <2>. QED BY <1>1, <2>1, <2>3, AppLocalStep
<1>3. CASE AppStart(p)
  BY <1>2, <1>3 DEF AppStart
<1>4. CASE AppDiscover(p)
  <2>1. app[p].cmd = "register" /\ ~needsClaim => Grounded(app[p].cmd, app[p])
    BY DEF Grounded
  <2>. QED BY <1>2, <1>4, <2>1 DEF AppDiscover
<1>5. CASE LocalGate(p)
  <2>1. Grounded(app[p].cmd, app[p])
    BY <1>1, <1>5 DEF LocalGate, AppAt, AppHolds
  <2>. QED BY <1>1, <1>2, <1>5, <2>1, AppFails DEF LocalGate
<1>. QED BY <1>3, <1>4, <1>5

\* The claim is made under a digest that the server minted.
LEMMA AppClaimStep ==
  ASSUME AppInv, NEW p \in AppProcs, ClaimDigest(p) \/ ResolveGap(p) \/ Claimed(p)
  PROVE  AppInv'
<1>1. /\ app \in [AppProcs -> AppProcess] /\ app[p] \in AppProcess /\ AppHolds(p)
      /\ served \in Seq(ServedRequest) /\ saved \in [AppCommands -> SavedFile]
      /\ digests \in 0..MaxDigests /\ canonical \in 0..digests
  BY AppTypes DEF AppInv
<1>2. CASE ClaimDigest(p)
  <2>1. PICK d \in 1..MaxDigests :
          /\ app' = [app EXCEPT ![p].digest = d, ![p].at = "gap"]
          /\ digests' \in 0..MaxDigests /\ canonical \in 0..digests'
          /\ UNCHANGED <<saved, served, canonical, needsClaim>>
          /\ app[p].cmd = "register"
    <3>1. app[p].cmd = "register" /\ UNCHANGED <<saved, served, canonical, needsClaim>>
      BY <1>2 DEF ClaimDigest, AppAt
    <3>2. CASE /\ canonical # 0 /\ UNCHANGED digests
               /\ app' = [app EXCEPT ![p].digest = canonical, ![p].at = "gap"]
      <4>1. canonical \in 1..MaxDigests
        BY <1>1, <3>2, AppAssumption
      <4>. QED BY <1>1, <3>1, <3>2, <4>1
    <3>3. CASE /\ digests < MaxDigests /\ digests' = digests + 1
               /\ app' = [app EXCEPT ![p].digest = digests', ![p].at = "gap"]
      <4>1. digests' \in 1..MaxDigests /\ digests' \in 0..MaxDigests
            /\ canonical \in 0..digests'
        BY <1>1, <3>3, AppAssumption
      <4>. QED BY <3>1, <3>3, <4>1
    <3>. QED BY <1>2, <3>2, <3>3 DEF ClaimDigest
  <2>2. /\ app'[p] = [app[p] EXCEPT !.digest = d, !.at = "gap"]
        /\ app' = [app EXCEPT ![p] = app'[p]]
    BY <1>1, <2>1
  <2>3. /\ app'[p] \in AppProcess /\ app'[p].at = "gap" /\ app'[p].cmd = "register"
        /\ app'[p].digest # 0
    <3>1. d \in Nat /\ d # 0
      BY AppAssumption
    <3>. QED BY <1>1, <2>1, <2>2, <3>1 DEF AppProcess, AppPlaces
  <2>4. AppHolds(p)'
    BY <2>3 DEF AppHolds
  <2>. QED BY <1>1, <2>1, <2>2, <2>3, <2>4, AppStepOf DEF ServedKeeps
<1>3. CASE ResolveGap(p)
  <2>1. PICK g \in AppGaps : app' = [app EXCEPT ![p].gap = g, ![p].at = "claim"]
    BY <1>3 DEF ResolveGap
  <2>2. /\ app'[p] = [app[p] EXCEPT !.gap = g, !.at = "claim"]
        /\ app' = [app EXCEPT ![p] = app'[p]]
    BY <1>1, <2>1
  <2>3. /\ app'[p] \in AppProcess /\ app'[p].at = "claim" /\ app'[p].cmd = app[p].cmd
        /\ app'[p].digest = app[p].digest
    BY <1>1, <2>2 DEF AppProcess, AppPlaces
  <2>4. AppHolds(p)'
    BY <1>1, <1>3, <2>3 DEF AppHolds, ResolveGap, AppAt
  <2>. QED BY <1>3, <2>2, <2>3, <2>4, AppLocalStep DEF ResolveGap
<1>4. CASE Claimed(p)
  <2>1. /\ app' = [app EXCEPT ![p].cites = app[p].got, ![p].got = 0, ![p].at = "send"]
        /\ UNCHANGED <<saved, appServer>> /\ UNCHANGED <<served, needsClaim>>
        /\ app[p].at = "answer" /\ served[app[p].got].op = "claim" /\ app[p].got \in Nat
        /\ served[app[p].got].st = "done"
    BY <1>1, <1>4 DEF Claimed, Answered, appServer, AppProcess
  <2>2. /\ app'[p] = [app[p] EXCEPT !.cites = app[p].got, !.got = 0, !.at = "send"]
        /\ app' = [app EXCEPT ![p] = app'[p]] /\ 0 \in Nat /\ app[p].got \in Nat
    BY <1>1, <2>1
  <2>3. /\ app'[p] \in AppProcess /\ app'[p].at = "send" /\ app'[p].cmd = app[p].cmd
        /\ app'[p].digest = app[p].digest /\ app'[p].gap = app[p].gap
        /\ app'[p].cites = app[p].got
    BY <1>1, <2>2 DEF AppProcess, AppPlaces
  <2>4. Grounded(app[p].cmd, app[p])'
    BY <1>1, <2>1, <2>3 DEF AppHolds, Grounded, IsDone
  <2>5. AppHolds(p)'
    BY <2>3, <2>4 DEF AppHolds
  <2>. QED BY <2>1, <2>2, <2>3, <2>5, AppLocalStep
<1>. QED BY <1>2, <1>3, <1>4

\* A file is read for what its request said.
LEMMA AppReadStep ==
  ASSUME AppInv, NEW p \in AppProcs, ReadSource(p)
  PROVE  AppInv'
<1>. DEFINE c == SourceOf(app[p].cmd)
            f == saved[c]
<1>1. /\ app \in [AppProcs -> AppProcess] /\ app[p] \in AppProcess /\ AppHolds(p)
      /\ served \in Seq(ServedRequest) /\ saved \in [AppCommands -> SavedFile]
  BY AppTypes DEF AppInv
<1>2. app[p].at = "read" /\ UNCHANGED <<saved, appServer>> /\ UNCHANGED <<served, needsClaim>>
  BY DEF ReadSource, appServer
<1>3. app[p].cmd \in {"compile", "run"} /\ c \in AppCommands
  BY <1>1, <1>2 DEF AppHolds, AppProcess, AppCommands, SourceOf
<1>4. CASE Fails(p)
  BY <1>2, <1>4, AppFails
<1>5. ASSUME f.state = "whole", NEW d, NEW place,
             app[p].cmd = "compile" => d \in {ContextRef(f), f.digest} /\ place = "send",
             app[p].cmd = "run" => d = f.digest /\ place = "gate",
             app' = [app EXCEPT ![p].cites = f.of, ![p].gap = f.gap, ![p].digest = d,
                                ![p].at = place]
      PROVE  AppInv'
  <2>1. AnswerIn(c) /\ f \in SavedFile /\ IsDone(f.of, c)
    BY <1>1, <1>3, <1>5, FilesAre DEF AppInv, AnswerIn
  <2>2. d \in Nat /\ place \in {"send", "gate"}
    <3>1. canonical \in Nat
      BY DEF AppInv, AppTypeOK
    <3>. QED BY <1>3, <1>5, <2>1, <3>1 DEF ContextRef, SavedFile
  <2>3. /\ app'[p] = [app[p] EXCEPT !.cites = f.of, !.gap = f.gap, !.digest = d, !.at = place]
        /\ app' = [app EXCEPT ![p] = app'[p]]
    BY <1>1, <1>5
  <2>4. /\ app'[p] \in AppProcess /\ app'[p].at = place /\ app'[p].cmd = app[p].cmd
        /\ app'[p].digest = d /\ app'[p].gap = f.gap /\ app'[p].cites = f.of
    BY <1>1, <2>1, <2>2, <2>3 DEF AppProcess, AppPlaces, SavedFile
  <2>5. ASSUME app[p].cmd = "compile" PROVE AppHolds(p)'
    <3>1. c = "register" /\ f.gap = served[f.of].gap /\ f.digest = served[f.of].digest
      BY <1>5, <2>1, <2>5 DEF SourceOf, AnswerIn
    <3>2. needsClaim => f.digest # 0
      BY <2>1, <3>1 DEF AppInv, RequestsAreChained, Chained, IsDone
    <3>3. needsClaim => d = f.digest
      BY <1>5, <2>5, <3>2 DEF ContextRef
    <3>4. Grounded(app[p].cmd, app[p])'
      BY <1>2, <2>1, <2>4, <2>5, <3>1, <3>3 DEF Grounded, IsDone
    <3>. QED BY <2>4, <2>5, <3>4, <1>5 DEF AppHolds
  <2>6. ASSUME app[p].cmd = "run" PROVE AppHolds(p)'
    <3>1. Grounded(app[p].cmd, app[p])'
      BY <1>2, <2>1, <2>4, <2>6 DEF Grounded, IsDone, SourceOf
    <3>. QED BY <2>4, <2>6, <3>1, <1>5 DEF AppHolds
  <2>7. AppHolds(p)'
    BY <1>3, <2>5, <2>6
  <2>. QED BY <1>2, <2>3, <2>4, <2>7, AppLocalStep
<1>6. CASE Reads(p)
  <2>1. PICK d : /\ app[p].cmd = "compile" => d \in {ContextRef(f), f.digest}
                 /\ app[p].cmd = "run" => d = f.digest
                 /\ app' = [app EXCEPT ![p].cites = f.of, ![p].gap = f.gap, ![p].digest = d,
                              ![p].at = IF app[p].cmd = "run" THEN "gate" ELSE "send"]
    BY <1>3, <1>6 DEF ReadSource
  <2>. QED BY <1>3, <1>5, <1>6, <2>1 DEF Reads
<1>. QED BY <1>4, <1>6 DEF ReadSource

\* A file is written for the request it answers.
LEMMA AppSaveStep ==
  ASSUME AppInv, NEW p \in AppProcs, TruncateSaved(p) \/ WriteSaved(p)
  PROVE  AppInv'
<1>1. /\ app \in [AppProcs -> AppProcess] /\ app[p] \in AppProcess /\ AppHolds(p)
      /\ served \in Seq(ServedRequest) /\ saved \in [AppCommands -> SavedFile]
      /\ digests \in 0..MaxDigests /\ canonical \in 0..digests
      /\ app[p].cmd \in AppCommands
  BY AppTypes DEF AppInv, AppProcess
<1>2. UNCHANGED <<served, digests, canonical, needsClaim>> /\ ServedKeeps
  BY DEF TruncateSaved, WriteSaved, appServer, ServedKeeps
<1>3. CutFile \in SavedFile /\ MixedFile \in SavedFile /\ CutFile.state = "cut"
      /\ MixedFile.state = "mixed"
  BY DEF CutFile, MixedFile, NoFile, SavedFile
<1>. PICK c \in AppCommands : c = app[p].cmd
  BY <1>1
<1>4. ASSUME NEW x \in SavedFile, saved' = [saved EXCEPT ![c] = x],
             x.state # "whole" \/ AnswerIn(c)',
             app' = [app EXCEPT ![p] = app'[p]], app'[p] \in AppProcess, AppHolds(p)'
      PROVE  AppInv'
  <2>1. saved' \in [AppCommands -> SavedFile] /\ saved'[c] = x
    BY <1>1, <1>4
  <2>2. \A b \in AppCommands : saved'[b] = saved[b] \/ AnswerIn(b)'
    BY <1>1, <1>4, <2>1 DEF AnswerIn
  <2>. QED BY <1>1, <1>2, <1>4, <2>1, <2>2, AppStepOf DEF ServedKeeps
<1>5. CASE TruncateSaved(p)
  <2>1. /\ app' = [app EXCEPT ![p] = app'[p]] /\ app'[p] \in AppProcess
        /\ app'[p] = [app[p] EXCEPT !.at = "write"]
    BY <1>5, AppGoes DEF TruncateSaved, AppPlaces
  <2>2. /\ app'[p].cmd = app[p].cmd /\ app'[p].at = "write" /\ app'[p].cites = app[p].cites
        /\ app'[p].gap = app[p].gap /\ app'[p].digest = app[p].digest
        /\ app'[p].got = app[p].got
    BY <1>1, <2>1 DEF AppProcess
  <2>3. AppHolds(p)'
    BY <1>1, <1>2, <1>5, <2>2 DEF AppHolds, TruncateSaved, Answered, IsDone
  <2>. QED BY <1>3, <1>4, <1>5, <2>1, <2>3 DEF TruncateSaved
<1>6. CASE WriteSaved(p)
  <2>1. /\ app[p].at = "write"
        /\ app' = [app EXCEPT ![p] = Ended(p, "success")]
    BY <1>6 DEF WriteSaved
  <2>2. /\ app' = [app EXCEPT ![p] = app'[p]] /\ app'[p] \in AppProcess /\ AppHolds(p)'
    BY <2>1, AppEnds
  <2>3. PICK x \in {FileOf(p), MixedFile} : saved' = [saved EXCEPT ![app[p].cmd] = x]
    BY <1>6 DEF WriteSaved
  <2>4. CASE x = MixedFile
    BY <1>3, <1>4, <2>2, <2>3, <2>4
  <2>5. CASE x = FileOf(p)
    <3>1. /\ IsDone(app[p].got, app[p].cmd) /\ app[p].got \in Nat
          /\ served[app[p].got].cites = app[p].cites /\ served[app[p].got].gap = app[p].gap
          /\ served[app[p].got].digest = app[p].digest
      BY <1>1, <2>1 DEF AppHolds, AppProcess
    <3>2. /\ x.state = "whole" /\ x.of = app[p].got /\ x.cites = app[p].cites
          /\ app[p].cmd = "register" => x.gap = app[p].gap /\ x.digest = app[p].digest
          /\ x \in SavedFile
      BY <1>1, <2>5, <3>1 DEF FileOf, NoFile, SavedFile, AppProcess
    <3>3. saved'[c] = x
      BY <1>1, <2>3
    <3>4. AnswerIn(c)'
      BY <1>2, <3>1, <3>2, <3>3 DEF AnswerIn, IsDone
    <3>. QED BY <1>4, <2>2, <2>3, <3>2, <3>4
  <2>. QED BY <2>3, <2>4, <2>5
<1>. QED BY <1>5, <1>6
\* The server ends its runs and moves its digest.
LEMMA AppServerStep ==
  ASSUME AppInv, CanonicalMoves \/ \E i \in DOMAIN served : AppRunEnds(i)
  PROVE  AppInv'
<1>1. /\ app \in [AppProcs -> AppProcess] /\ served \in Seq(ServedRequest)
      /\ saved \in [AppCommands -> SavedFile]
      /\ digests \in 0..MaxDigests /\ canonical \in 0..digests /\ needsClaim \in BOOLEAN
  BY AppTypes DEF AppInv
<1>2. ASSUME ServedKeeps, UNCHANGED <<saved, app>>, served' \in Seq(ServedRequest),
             DOMAIN served' = DOMAIN served,
             digests' \in 0..MaxDigests, canonical' \in 0..digests'
      PROVE  AppInv'
  <2>1. AppTypeOK'
    BY <1>1, <1>2 DEF AppTypeOK, SavedFile, AppProcess, ServedRequest, ServedKeeps
  <2>2. RequestsAreChained'
    BY <1>2, KeepChained DEF RequestsAreChained
  <2>3. FilesAreAnswers'
    <3>1. \A c \in AppCommands : AnswerIn(c)'
      BY <1>2, KeepAnswer, FilesAre DEF AppInv
    <3>. QED BY <3>1 DEF FilesAreAnswers, AnswerIn, IsDone
  <2>4. \A p \in AppProcs : AppHolds(p)'
    BY <1>2, KeepHolds DEF AppInv
  <2>. QED BY <2>1, <2>2, <2>3, <2>4 DEF AppInv
<1>3. CASE CanonicalMoves
  <2>1. digests' \in 0..MaxDigests /\ canonical' \in 0..digests'
        /\ UNCHANGED <<saved, app, served, needsClaim>>
    BY <1>1, <1>3, AppAssumption DEF CanonicalMoves
  <2>. QED BY <1>1, <1>2, <2>1 DEF ServedKeeps
<1>4. ASSUME NEW i \in DOMAIN served, AppRunEnds(i)
      PROVE  AppInv'
  <2>1. PICK st \in {"done", "bare", "failed"} : served' = [served EXCEPT ![i].st = st]
    BY <1>4 DEF AppRunEnds
  <2>2. /\ served[i].st = "active" /\ served[i] \in ServedRequest
        /\ UNCHANGED <<saved, app, digests, canonical, needsClaim>>
    BY <1>1, <1>4 DEF AppRunEnds
  <2>3. [served[i] EXCEPT !.st = st] \in ServedRequest
    BY <2>2 DEF ServedRequest
  <2>4. /\ served' \in Seq(ServedRequest) /\ DOMAIN served' = DOMAIN served
        /\ served' = [served EXCEPT ![i] = [served[i] EXCEPT !.st = st]]
    BY <1>1, <2>1, <2>3
  <2>5. ServedKeeps
    BY <2>2, <2>4 DEF ServedKeeps, ServedRequest
  <2>. QED BY <1>1, <1>2, <2>2, <2>4, <2>5
<1>. QED BY <1>3, <1>4

LEMMA StepAppInv == AppInv /\ [AppNext]_appVars => AppInv'
<1>. SUFFICES ASSUME AppInv, [AppNext]_appVars PROVE AppInv'
  OBVIOUS
<1>1. CASE UNCHANGED appVars
  BY <1>1 DEF appVars, appServer, AppInv, AppTypeOK, RequestsAreChained, Chained, CitesDone,
     FilesAreAnswers, AppHolds, Grounded, IsDone
<1>2. ASSUME NEW p \in AppProcs, AnswerFails(p) \/ AppKilled(p)
      PROVE  AppInv'
  BY <1>2, AppFails DEF AnswerFails, AppKilled
<1>. QED BY <1>1, <1>2, AppBeginStep, AppClaimStep, AppSendStep, AppReadStep, AppSaveStep,
            AppServerStep DEF AppNext

LEMMA AppInvariant == AppSpec => []AppInv
  BY InitAppInv, StepAppInv, PTL DEF AppSpec

\* The files of the governed first app, its commands and the server's requests
\* keep their types.
THEOREM AppTypeCorrect == AppSpec => []AppTypeOK
<1>1. AppInv => AppTypeOK
  BY DEF AppInv
<1>. QED BY <1>1, AppInvariant, PTL

\* register_repo, compile_context, run_governed_realization: for any number of
\* commands over the same three files, what the server is asked is a chain.
THEOREM AppRequestsAreChained == AppSpec => []RequestsAreChained
<1>1. AppInv => RequestsAreChained
  BY DEF AppInv
<1>. QED BY <1>1, AppInvariant, PTL

\* _write_state: a file that parses holds one finished request of the server.
THEOREM AppFilesAreAnswers == AppSpec => []FilesAreAnswers
<1>1. AppInv => FilesAreAnswers
  BY DEF AppInv
<1>. QED BY <1>1, AppInvariant, PTL
-----------------------------------------------------------------------------
(* From a proof result to a registered capability.  A receipt that a command *)
(* holds, or finds whole, is of a submission that the server judged; and     *)
(* what a submission was cannot change any more, but for a rejection that    *)
(* follows on a queued one.                                                  *)

Verdicts == {"none", "ACCEPT", "ACCEPTED", "REJECT"}
ReceiptRecord == [state : {"none", "cut", "whole"}, inv : Invs \cup {Unnamed},
                  verdict : Verdicts, run : Procs \cup {Nobody}, hash : Nat]
Comparison == [run : Procs \cup {Nobody}, echoed : Nat, hash : Nat]
Entry == Caps \X (Providers \cup {NoProvider})
CommandRecord ==
  [op : Ops, inv : Invs \cup {Unnamed}, cap : Caps, hash : Nat, receipt : ReceiptRecord,
   at : {"idle", "read", "send", "truncate", "write", "glob", "receipt", "result",
         "lookup", "list", "empty", "append", "over"},
   todo : SUBSET Invs, passes : BOOLEAN, checked : SUBSET Comparison,
   provider : Providers \cup {NoProvider}, existing : SUBSET Entry,
   result : {"none", "failed", "success", "advisory", "present", "added"}]

ChainTypeOK ==
  /\ written \in Nat
  /\ result \in [Invs -> [hash : Nat, valid : BOOLEAN]]
  /\ receipt \in [Invs -> ReceiptRecord]
  /\ list \in [Files -> SUBSET Entry]
  /\ cmd \in [Procs -> CommandRecord]
  /\ sub \in [Procs -> [inv : Invs \cup {Unnamed}, hash : Nat,
                        verdict : {"none", "ACCEPT", "REJECT", "queued", "refused",
                                   "rejected later"}]]
  /\ registered \subseteq [cap : Caps, inv : Invs \cup {Unnamed}, run : Procs \cup {Nobody}]
  /\ offered \subseteq Caps \X Providers
  /\ added \in [Files -> SUBSET Entry]
  /\ mixed \subseteq Files

\* A receipt is of a submission the server got.
OfSubmission(r) ==
  /\ r.inv \in Invs /\ r.run \in Procs
  /\ sub[r.run].inv = r.inv /\ r.hash \in {0, sub[r.run].hash}
  /\ sub[r.run].verdict # "none"
  /\ IsAccepted(r) => sub[r.run].verdict # "REJECT"

\* A comparison of receipt verify that passed.
OfSubmitted(c) ==
  /\ c.run \in Procs /\ sub[c.run].verdict \notin {"none", "REJECT"}
  /\ c.echoed # 0 /\ c.hash # 0 => c.hash = sub[c.run].hash

Offered(e) == e[2] # NoProvider => e \in offered

\* What a command c of the process p holds, where it stands.
Carries(p, c) ==
  /\ c.op = "submit" => c.inv # Unnamed
  /\ c.op = "submit" /\ c.at \in {"idle", "read", "send"} => sub[p].verdict = "none"
  /\ c.op = "submit" /\ c.at \in {"truncate", "write"} =>
       c.receipt.state = "whole" /\ c.receipt.inv = c.inv /\ OfSubmission(c.receipt)
  /\ c.op = "verify" /\ c.at = "result" =>
       c.receipt.state = "whole" /\ OfSubmission(c.receipt)
  /\ c.op = "register" /\ c.at = "send" => IsAccepted(c.receipt) /\ OfSubmission(c.receipt)
  /\ c.result # "none" => c.at = "over"
  /\ c.op = "verify" /\ c.at # "over" /\ c.passes => \A d \in c.checked : OfSubmitted(d)
  /\ c.op = "verify" /\ c.result = "success" => \A d \in c.checked : OfSubmitted(d)
  /\ c.at \in {"list", "empty", "append"} /\ c.op # "create" /\ c.provider # NoProvider =>
       <<c.cap, c.provider>> \in offered
  /\ c.at \in {"empty", "append"} /\ c.op # "create" =>
       \A e \in c.existing : Offered(e)

\* One command at a time is between reading a file and writing it.
ListIsKept(f) ==
  /\ \A p, q \in Procs : AtList(p, f, {"empty", "append"}) /\ AtList(q, f, {"empty", "append"})
                           => p = q
  /\ \A p \in Procs : AtList(p, f, {"empty", "append"}) => added[f] \subseteq cmd[p].existing
  /\ (\A p \in Procs : ~AtList(p, f, {"append"})) => added[f] \subseteq list[f]

FilesAreTrue ==
  /\ \A i \in Invs : receipt[i].state = "whole" =>
       receipt[i].inv = i /\ OfSubmission(receipt[i])
  /\ \A r \in registered :
       /\ r.run \in Procs /\ sub[r.run].inv = r.inv
       /\ sub[r.run].verdict \notin {"none", "REJECT"}
  /\ \A e \in list["dependencies"] : Offered(e)

ChainInv ==
  /\ ChainTypeOK
  /\ \A p \in Procs : Carries(p, cmd[p])
  /\ FilesAreTrue
  /\ \A f \in Files \ mixed : ListIsKept(f)

\* What was submitted stays so, and is rejected at once or not at all.
SubmissionsGo ==
  \A q \in Procs : sub[q].verdict # "none" =>
    /\ sub'[q].inv = sub[q].inv /\ sub'[q].hash = sub[q].hash
    /\ sub'[q].verdict # "none"
    /\ sub'[q].verdict = "REJECT" => sub[q].verdict = "REJECT"

LEMMA ReceiptsStayTrue ==
  ASSUME SubmissionsGo, NEW r, OfSubmission(r) PROVE OfSubmission(r)'
  BY DEF SubmissionsGo, OfSubmission

LEMMA ComparisonsStayTrue ==
  ASSUME SubmissionsGo, NEW d, OfSubmitted(d) PROVE OfSubmitted(d)'
  BY DEF SubmissionsGo, OfSubmitted

LEMMA CarriesStays ==
  ASSUME SubmissionsGo, offered \subseteq offered', NEW p \in Procs, NEW c, Carries(p, c),
         sub[p].verdict = "none" => sub'[p].verdict = "none"
  PROVE  Carries(p, c)'
  <1>1. OfSubmission(c.receipt) => OfSubmission(c.receipt)'
    <2> PICK r : r = c.receipt
      OBVIOUS
    <2>1. OfSubmission(r) => OfSubmission(r)'
      BY ReceiptsStayTrue
    <2>. QED
      BY <2>1
  <1>2. (\A d \in c.checked : OfSubmitted(d)) => \A d \in c.checked : OfSubmitted(d)'
    BY ComparisonsStayTrue
  <1>3. (\A e \in c.existing : Offered(e)) => \A e \in c.existing : Offered(e)'
    BY DEF Offered
  <1>. QED
    BY <1>1, <1>2, <1>3 DEF Carries

LEMMA FilesStayTrue ==
  ASSUME ChainInv, SubmissionsGo, offered \subseteq offered',
         UNCHANGED <<receipt, registered, list>>
  PROVE  FilesAreTrue'
  <1>1. FilesAreTrue
    BY DEF ChainInv
  <1>2. ASSUME NEW i \in Invs, receipt[i].state = "whole"
        PROVE  receipt[i].inv = i /\ OfSubmission(receipt[i])'
    <2> PICK r : r = receipt[i]
      OBVIOUS
    <2>1. r.inv = i /\ OfSubmission(r)
      BY <1>1, <1>2 DEF FilesAreTrue
    <2>2. OfSubmission(r)'
      BY <2>1, ReceiptsStayTrue
    <2>. QED
      BY <2>1, <2>2
  <1>3. ASSUME NEW r \in registered
        PROVE  /\ r.run \in Procs /\ sub'[r.run].inv = r.inv
               /\ sub'[r.run].verdict \notin {"none", "REJECT"}
    BY <1>1, <1>3 DEF FilesAreTrue, SubmissionsGo
  <1>4. \A e \in list["dependencies"] : Offered(e)'
    BY <1>1 DEF FilesAreTrue, Offered
  <1>. QED
    BY <1>2, <1>3, <1>4 DEF FilesAreTrue

\* A command that goes on, by what it carries then and what it leaves behind.
LEMMA CommandMoves ==
  ASSUME ChainInv, NEW p \in Procs, NEW c \in CommandRecord,
         cmd' = [cmd EXCEPT ![p] = c],
         SubmissionsGo, offered \subseteq offered',
         \A q \in Procs \ {p} : sub[q].verdict = "none" => sub'[q].verdict = "none",
         ChainTypeOK', Carries(p, c)', FilesAreTrue',
         \A f \in Files \ mixed' : ListIsKept(f)'
  PROVE  ChainInv'
  <1>1. ASSUME NEW q \in Procs PROVE Carries(q, cmd[q])'
    <2>1. cmd \in [Procs -> CommandRecord] /\ Carries(q, cmd[q])
      BY DEF ChainInv, ChainTypeOK
    <2>2. CASE q = p
      BY <2>1, <2>2
    <2>3. CASE q # p
      <3> PICK d : d = cmd[q]
        OBVIOUS
      <3>1. d = cmd'[q] /\ Carries(q, d)
        BY <2>1, <2>3
      <3>2. Carries(q, d)'
        BY <2>3, <3>1, CarriesStays
      <3>. QED
        BY <3>1, <3>2
    <2>. QED
      BY <2>2, <2>3
  <1>. QED
    BY <1>1 DEF ChainInv

\* A command that is not between reading and writing a list leaves the lists alone.
LEMMA ListsStay ==
  ASSUME ChainInv, NEW p \in Procs, NEW c \in CommandRecord,
         cmd' = [cmd EXCEPT ![p] = c], c.op = cmd[p].op,
         cmd[p].at # "append", c.at \notin {"empty", "append"},
         UNCHANGED <<list, added>>, mixed \subseteq mixed'
  PROVE  \A f \in Files \ mixed' : ListIsKept(f)'
  <1>1. cmd \in [Procs -> CommandRecord]
    BY DEF ChainInv, ChainTypeOK
  <1>2. TAKE f \in Files \ mixed'
  <1>3. ListIsKept(f)
    BY <1>1 DEF ChainInv
  <1>4. ASSUME NEW q \in Procs, NEW places, q # p
        PROVE  AtList(q, f, places)' <=> AtList(q, f, places)
    BY <1>1, <1>4 DEF AtList
  <1>5. ~AtList(p, f, {"empty", "append"})' /\ ~AtList(p, f, {"append"})'
        /\ ~AtList(p, f, {"append"})
    BY <1>1 DEF AtList
  <1>6. \A q, r \in Procs : AtList(q, f, {"empty", "append"})' /\ AtList(r, f, {"empty", "append"})'
                             => q = r
    BY <1>3, <1>4, <1>5 DEF ListIsKept
  <1>7. \A q \in Procs : AtList(q, f, {"empty", "append"})' => added'[f] \subseteq cmd'[q].existing
    BY <1>1, <1>3, <1>4, <1>5 DEF ListIsKept
  <1>8. (\A q \in Procs : ~AtList(q, f, {"append"})') => added'[f] \subseteq list'[f]
    BY <1>1, <1>3, <1>4, <1>5 DEF ListIsKept
  <1>. QED
    BY <1>6, <1>7, <1>8 DEF ListIsKept

\* What a command does to one file leaves the other alone.
LEMMA OtherListStays ==
  ASSUME ChainInv, NEW p \in Procs, NEW c \in CommandRecord,
         cmd' = [cmd EXCEPT ![p] = c], c.op = cmd[p].op,
         NEW f \in Files \ mixed, f # TargetOf(cmd[p].op),
         list'[f] = list[f], added'[f] = added[f]
  PROVE  ListIsKept(f)'
  <1>1. cmd \in [Procs -> CommandRecord] /\ ListIsKept(f)
    BY DEF ChainInv, ChainTypeOK
  <1>2. \A q \in Procs, places \in {{"append"}, {"empty", "append"}} :
          AtList(q, f, places)' <=> AtList(q, f, places)
    BY <1>1 DEF AtList
  <1>3. \A q \in Procs : AtList(q, f, {"empty", "append"}) => cmd'[q] = cmd[q]
    BY <1>1 DEF AtList
  <1>. QED
    BY <1>1, <1>2, <1>3 DEF ListIsKept

\* A command that changes nothing but itself, outside of the lists.
LEMMA QuietMove ==
  ASSUME ChainInv, NEW p \in Procs, NEW c \in CommandRecord,
         cmd' = [cmd EXCEPT ![p] = c], c.op = cmd[p].op,
         cmd[p].at # "append", c.at \notin {"empty", "append"},
         UNCHANGED <<bundle, lists, server>>, Carries(p, c)
  PROVE  ChainInv'
  <1>1. UNCHANGED <<written, result, receipt, list, added, mixed, sub, registered, offered>>
    BY DEF bundle, lists, server
  <1>2. SubmissionsGo
    BY <1>1 DEF SubmissionsGo
  <1>3. Carries(p, c)'
    BY <1>1, <1>2, CarriesStays
  <1>4. ChainTypeOK'
    BY <1>1 DEF ChainInv, ChainTypeOK
  <1>5. FilesAreTrue'
    BY <1>1, <1>2, FilesStayTrue
  <1>6. \A f \in Files \ mixed' : ListIsKept(f)'
    BY <1>1, ListsStay
  <1>. QED
    BY <1>1, <1>2, <1>3, <1>4, <1>5, <1>6, CommandMoves

\* A command that ends.
LEMMA EndingIs ==
  ASSUME ChainInv, NEW p \in Procs,
         NEW outcome \in {"failed", "success", "advisory", "present", "added"},
         End(p, outcome)
  PROVE  \E c \in CommandRecord :
           /\ cmd' = [cmd EXCEPT ![p] = c]
           /\ c.op = cmd[p].op /\ c.at = "over" /\ c.result = outcome
           /\ c.op = "submit" => c.inv # Unnamed
           /\ c.checked = cmd[p].checked
           /\ c.op # "verify" \/ outcome # "success" => Carries(p, c)
  <1>1. cmd[p] \in CommandRecord /\ Carries(p, cmd[p])
    BY DEF ChainInv, ChainTypeOK
  <1>2. PICK c : c = [Fresh(cmd[p].op, cmd[p].inv, cmd[p].cap) EXCEPT
                        !.at = "over", !.checked = cmd[p].checked, !.result = outcome]
    OBVIOUS
  <1>3. cmd' = [cmd EXCEPT ![p] = c]
    BY <1>2 DEF End
  <1>4. NoReceipt \in ReceiptRecord
    BY DEF NoReceipt, ReceiptRecord, Verdicts
  <1>5. /\ c \in CommandRecord /\ c.op = cmd[p].op /\ c.inv = cmd[p].inv /\ c.at = "over"
        /\ c.result = outcome /\ c.checked = cmd[p].checked
    BY <1>1, <1>2, <1>4 DEF Fresh, CommandRecord
  <1>6. c.op = "submit" => c.inv # Unnamed
    BY <1>1, <1>5 DEF Carries
  <1>7. c.op # "verify" \/ outcome # "success" => Carries(p, c)
    BY <1>5, <1>6 DEF Carries
  <1>. QED
    BY <1>3, <1>5, <1>6, <1>7

LEMMA EndingQuietly ==
  ASSUME ChainInv, NEW p \in Procs, End(p, "failed"), cmd[p].at # "append",
         UNCHANGED <<bundle, lists, server>>
  PROVE  ChainInv'
  <1>1. PICK c \in CommandRecord :
          /\ cmd' = [cmd EXCEPT ![p] = c]
          /\ c.op = cmd[p].op /\ c.at = "over" /\ Carries(p, c)
    BY EndingIs
  <1>. QED
    BY <1>1, QuietMove

LEMMA GoingIs ==
  ASSUME ChainInv, NEW p \in Procs,
         NEW place \in {"read", "glob", "lookup", "list", "send", "write", "append"},
         Go(p, place)
  PROVE  \E c \in CommandRecord :
           /\ cmd' = [cmd EXCEPT ![p] = c]
           /\ c.op = cmd[p].op /\ c.at = place /\ c.inv = cmd[p].inv /\ c.cap = cmd[p].cap
           /\ c.receipt = cmd[p].receipt /\ c.passes = cmd[p].passes
           /\ c.checked = cmd[p].checked /\ c.provider = cmd[p].provider
           /\ c.existing = cmd[p].existing /\ c.result = cmd[p].result
  <1>1. cmd[p] \in CommandRecord /\ cmd \in [Procs -> CommandRecord]
    BY DEF ChainInv, ChainTypeOK
  <1>2. PICK c : c = [cmd[p] EXCEPT !.at = place]
    OBVIOUS
  <1>3. cmd' = [cmd EXCEPT ![p] = c]
    BY <1>2 DEF Go
  <1>4. PICK d \in CommandRecord : d = cmd[p]
    BY <1>1
  <1>5. c = [d EXCEPT !.at = place]
    BY <1>2, <1>4
  <1>6. c \in CommandRecord
    BY <1>5 DEF CommandRecord
  <1>7. /\ c.op = d.op /\ c.at = place /\ c.inv = d.inv /\ c.cap = d.cap
        /\ c.receipt = d.receipt /\ c.passes = d.passes /\ c.checked = d.checked
        /\ c.provider = d.provider /\ c.existing = d.existing /\ c.result = d.result
    BY <1>5 DEF CommandRecord
  <1>. QED
    BY <1>3, <1>4, <1>6, <1>7

LEMMA ProcessHas ==
  ASSUME ChainInv, NEW p \in Procs
  PROVE  /\ cmd \in [Procs -> CommandRecord] /\ cmd[p] \in CommandRecord
         /\ Carries(p, cmd[p])
  BY DEF ChainInv, ChainTypeOK

LEMMA StartKeeps == ASSUME ChainInv, NEW p \in Procs, Start(p) PROVE ChainInv'
  <1>1. cmd[p].at = "idle" /\ cmd[p].op \in Ops /\ Carries(p, cmd[p])
    BY ProcessHas DEF Start, CommandRecord
  <1>2. /\ FirstPlace(cmd[p].op) \in {"read", "glob", "lookup", "list", "send"}
        /\ cmd[p].op = "submit" => FirstPlace(cmd[p].op) = "read"
        /\ cmd[p].op = "verify" => FirstPlace(cmd[p].op) = "glob"
        /\ cmd[p].op = "register" => FirstPlace(cmd[p].op) = "lookup"
        /\ FirstPlace(cmd[p].op) = "list" => cmd[p].op = "create"
    BY <1>1 DEF FirstPlace, Ops
  <1>3. PICK c \in CommandRecord :
          /\ cmd' = [cmd EXCEPT ![p] = c]
          /\ c.op = cmd[p].op /\ c.at = FirstPlace(cmd[p].op) /\ c.inv = cmd[p].inv
          /\ c.passes = cmd[p].passes /\ c.checked = cmd[p].checked
          /\ c.result = cmd[p].result
    BY <1>2, GoingIs DEF Start
  <1>4. Carries(p, c)
    BY <1>1, <1>2, <1>3 DEF Carries
  <1>. QED
    BY <1>1, <1>2, <1>3, <1>4, QuietMove DEF Start

LEMMA RunGateKeeps == ASSUME ChainInv, NEW i \in Invs, RunGate(i) PROVE ChainInv'
  <1>1. /\ written' \in Nat /\ result' \in [Invs -> [hash : Nat, valid : BOOLEAN]]
        /\ UNCHANGED <<receipt, list, added, mixed, sub, registered, offered, cmd>>
    <2>1. written \in Nat /\ written' = written + 1
      BY DEF RunGate, ChainInv, ChainTypeOK
    <2>2. PICK r \in {CutResult} \cup {[hash |-> written', valid |-> v] : v \in BOOLEAN} :
            result' = [result EXCEPT ![i] = r]
      BY DEF RunGate
    <2>3. written' \in Nat
      BY <2>1
    <2>4. r \in [hash : Nat, valid : BOOLEAN]
      <3>1. CASE r = CutResult
        <4>1. 0 \in Nat /\ FALSE \in BOOLEAN
          OBVIOUS
        <4>. QED
          BY <3>1, <4>1 DEF CutResult
      <3>2. ASSUME NEW v \in BOOLEAN, r = [hash |-> written', valid |-> v]
            PROVE  r \in [hash : Nat, valid : BOOLEAN]
        BY <2>3, <3>2
      <3>. QED
        BY <2>2, <3>1, <3>2
    <2>5. result' \in [Invs -> [hash : Nat, valid : BOOLEAN]]
      BY <2>2, <2>4 DEF ChainInv, ChainTypeOK
    <2>. QED
      BY <2>3, <2>5 DEF RunGate, lists, server
  <1>2. ChainTypeOK'
    BY <1>1 DEF ChainInv, ChainTypeOK
  <1>3. \A p \in Procs : Carries(p, cmd[p])'
    BY <1>1 DEF ChainInv, Carries, OfSubmission, OfSubmitted, Offered
  <1>4. FilesAreTrue'
    BY <1>1 DEF ChainInv, FilesAreTrue, OfSubmission, Offered
  <1>5. \A f \in Files \ mixed' : ListIsKept(f)'
    BY <1>1 DEF ChainInv, ListIsKept, AtList
  <1>. QED
    BY <1>2, <1>3, <1>4, <1>5 DEF ChainInv

LEMMA ReadResultKeeps == ASSUME ChainInv, NEW p \in Procs, ReadResult(p) PROVE ChainInv'
  <1>1. /\ cmd[p].op = "submit" /\ cmd[p].at = "read" /\ cmd[p].inv \in Invs
        /\ UNCHANGED <<bundle, lists, server>>
    BY ProcessHas DEF ReadResult, At, Carries, CommandRecord
  <1>2. CASE End(p, "failed")
    BY <1>1, <1>2, EndingQuietly
  <1>3. CASE cmd' = [cmd EXCEPT ![p].hash = result[cmd[p].inv].hash, ![p].at = "send"]
    <2>1. PICK n \in Nat : n = result[cmd[p].inv].hash
      BY <1>1 DEF ChainInv, ChainTypeOK
    <2>2. PICK d \in CommandRecord : d = cmd[p]
      BY ProcessHas
    <2> PICK c : c = [d EXCEPT !.hash = n, !.at = "send"]
      OBVIOUS
    <2>3. c \in CommandRecord
      BY DEF CommandRecord
    <2>4. c.op = d.op /\ c.at = "send" /\ c.inv = d.inv /\ c.result = d.result
      BY DEF CommandRecord
    <2>5. cmd' = [cmd EXCEPT ![p] = c]
      BY <1>3, <2>1, <2>2, ProcessHas
    <2>6. Carries(p, c)
      BY <1>1, <2>2, <2>4, ProcessHas DEF Carries
    <2>. QED
      BY <1>1, <2>2, <2>3, <2>4, <2>5, <2>6, QuietMove
  <1>. QED
    BY <1>2, <1>3 DEF ReadResult

LEMMA JudgementsSay ==
  ASSUME NEW j \in Judgements
  PROVE  /\ j[1] \in {"none", "ACCEPT", "REJECT", "queued", "refused"}
         /\ dispatch_run(j[2]) \in {"SUCCESS", "ACCEPTED"} =>
              /\ j[1] # "none"
              /\ GovernedVerdict(j[2]) \in Verdicts
              /\ GovernedVerdict(j[2]) \in {"ACCEPT", "ACCEPTED"} => j[1] # "REJECT"
  <1>1. CASE j \in {<<"ACCEPT", Done("ACCEPT")>>, <<"ACCEPT", Done("none")>>}
    BY <1>1 DEF Done, Answer, GovernedVerdict, dispatch_run, Raises, classify_outcome, Verdicts
  <1>2. CASE j = <<"REJECT", Done("REJECT")>>
    BY <1>2 DEF Done, Answer, GovernedVerdict, dispatch_run, Raises, classify_outcome, Verdicts
  <1>3. CASE j = <<"REJECT", Answer(200, "rejected", TRUE, FALSE, "REJECT")>>
    BY <1>3 DEF Answer, dispatch_run, Raises, classify_outcome
  <1>4. CASE \E r \in Queued : j = <<"queued", r>>
    BY <1>4 DEF Queued, Answer, GovernedVerdict, dispatch_run, Raises, classify_outcome, Verdicts
  <1>5. CASE \E r \in Refusals : j = <<"refused", r>>
    BY <1>5 DEF Refusals, Answer, GovernedVerdict, dispatch_run, Raises, classify_outcome,
                handle_transport_exception, Verdicts
  <1>6. CASE \E v \in {"ACCEPT", "REJECT", "queued", "none"} : j = <<v, NoReply>>
    BY <1>6 DEF NoReply, Answer, dispatch_run, Raises, handle_transport_exception
  <1>. QED
    BY <1>1, <1>2, <1>3, <1>4, <1>5, <1>6 DEF Judgements

LEMMA SubmitKeeps == ASSUME ChainInv, NEW p \in Procs, Submit(p) PROVE ChainInv'
  <1>1. /\ cmd[p].op = "submit" /\ cmd[p].at = "send" /\ cmd[p].inv \in Invs
        /\ sub[p].verdict = "none" /\ cmd[p].hash \in Nat
    BY ProcessHas DEF Submit, At, Carries, CommandRecord
  <1>2. PICK j \in Judgements :
          /\ sub' = [sub EXCEPT ![p] = [inv |-> cmd[p].inv, hash |-> cmd[p].hash,
                                        verdict |-> j[1]]]
          /\ SubmitConclude(p, j[2])
    BY DEF Submit
  <1>3. UNCHANGED <<written, result, receipt, list, added, mixed, registered, offered>>
    BY DEF Submit, bundle, lists
  <1>4. /\ sub \in [Procs -> [inv : Invs \cup {Unnamed}, hash : Nat,
                        verdict : {"none", "ACCEPT", "REJECT", "queued", "refused",
                                   "rejected later"}]]
        /\ sub'[p] = [inv |-> cmd[p].inv, hash |-> cmd[p].hash, verdict |-> j[1]]
        /\ \A q \in Procs \ {p} : sub'[q] = sub[q]
    BY <1>2 DEF ChainInv, ChainTypeOK
  <1>5. SubmissionsGo
    BY <1>1, <1>4 DEF SubmissionsGo
  <1>6. ASSUME NEW c \in CommandRecord, cmd' = [cmd EXCEPT ![p] = c],
               c.op = cmd[p].op, c.at \in {"over", "truncate"}, Carries(p, c)'
        PROVE  ChainInv'
    <2>1. cmd' \in [Procs -> CommandRecord]
      BY <1>6, ProcessHas
    <2>2. ChainTypeOK'
      BY <1>1, <1>2, <1>3, <2>1, JudgementsSay DEF ChainInv, ChainTypeOK
    <2>3. FilesAreTrue'
      BY <1>3, <1>5, FilesStayTrue
    <2>4. \A f \in Files \ mixed' : ListIsKept(f)'
      BY <1>1, <1>3, <1>6, ListsStay DEF lists
    <2>. QED
      BY <1>3, <1>4, <1>5, <1>6, <2>2, <2>3, <2>4, CommandMoves
  <1>7. CASE dispatch_run(j[2]) \notin {"SUCCESS", "ACCEPTED"}
    <2>1. PICK c \in CommandRecord :
            /\ cmd' = [cmd EXCEPT ![p] = c]
            /\ c.op = cmd[p].op /\ c.at = "over" /\ c.inv # Unnamed /\ c.result = "failed"
      <3>1. End(p, "failed")
        BY <1>2, <1>7 DEF SubmitConclude
      <3>. QED
        BY <1>1, <3>1, EndingIs
    <2>2. Carries(p, c)'
      BY <1>1, <2>1 DEF Carries
    <2>. QED
      BY <1>6, <2>1, <2>2
  <1>8. CASE dispatch_run(j[2]) \in {"SUCCESS", "ACCEPTED"}
    <2>1. PICK hash \in {0, cmd[p].hash} :
            cmd' = [cmd EXCEPT ![p].at = "truncate",
                      ![p].receipt = ReceiptOf(cmd[p].inv, GovernedVerdict(j[2]), p, hash)]
      BY <1>2, <1>8 DEF SubmitConclude
    <2> PICK r : r = ReceiptOf(cmd[p].inv, GovernedVerdict(j[2]), p, hash)
      OBVIOUS
    <2>2. /\ r \in ReceiptRecord /\ r.state = "whole" /\ r.inv = cmd[p].inv /\ r.run = p
          /\ r.hash = hash /\ r.verdict = GovernedVerdict(j[2])
      BY <1>1, <1>8, JudgementsSay DEF ReceiptOf, ReceiptRecord
    <2> PICK c : c = [cmd[p] EXCEPT !.at = "truncate", !.receipt = r]
      OBVIOUS
    <2>3. /\ c \in CommandRecord /\ c.op = "submit" /\ c.at = "truncate" /\ c.receipt = r
          /\ c.inv = cmd[p].inv /\ c.result = cmd[p].result
      <3>1. PICK d \in CommandRecord : d = cmd[p]
        BY ProcessHas
      <3>2. c = [d EXCEPT !.at = "truncate", !.receipt = r]
        BY <3>1
      <3>3. c \in CommandRecord
        BY <2>2, <3>2 DEF CommandRecord
      <3>4. /\ c.op = d.op /\ c.at = "truncate" /\ c.receipt = r /\ c.inv = d.inv
            /\ c.result = d.result
        BY <3>2 DEF CommandRecord
      <3>. QED
        BY <1>1, <3>1, <3>3, <3>4
    <2>4. cmd' = [cmd EXCEPT ![p] = c]
      BY <2>1, ProcessHas
    <2>5. OfSubmission(r)'
      <3>1. j[1] # "none" /\ (r.verdict \in {"ACCEPT", "ACCEPTED"} => j[1] # "REJECT")
        BY <1>8, <2>2, JudgementsSay
      <3>2. /\ sub'[p].inv = cmd[p].inv /\ sub'[p].hash = cmd[p].hash
            /\ sub'[p].verdict = j[1]
        <4> PICK s : s = [inv |-> cmd[p].inv, hash |-> cmd[p].hash, verdict |-> j[1]]
          OBVIOUS
        <4>1. s.inv = cmd[p].inv /\ s.hash = cmd[p].hash /\ s.verdict = j[1]
          OBVIOUS
        <4>2. sub'[p] = s
          BY <1>4
        <4>. QED
          BY <4>1, <4>2
      <3>3. IsAccepted(r) => sub'[p].verdict # "REJECT"
        BY <3>1, <3>2 DEF IsAccepted
      <3>. QED
        BY <1>1, <2>2, <3>1, <3>2, <3>3 DEF OfSubmission, IsAccepted
    <2>6. Carries(p, c)'
      BY <1>1, <2>2, <2>3, <2>5, ProcessHas DEF Carries
    <2>. QED
      BY <1>1, <1>6, <2>3, <2>4, <2>6
  <1>. QED
    BY <1>7, <1>8

LEMMA RejectLaterKeeps == ASSUME ChainInv, NEW p \in Procs, RejectLater(p) PROVE ChainInv'
  <1>1. /\ sub[p].verdict = "queued"
        /\ sub' = [sub EXCEPT ![p].verdict = "rejected later"]
        /\ UNCHANGED <<written, result, receipt, list, added, mixed, registered, offered, cmd>>
    BY DEF RejectLater, bundle, lists
  <1>2. ChainTypeOK
    BY DEF ChainInv
  <1>3. SubmissionsGo /\ \A q \in Procs : sub[q].verdict = "none" => sub'[q].verdict = "none"
    BY <1>1, <1>2 DEF SubmissionsGo, ChainTypeOK
  <1>4. ChainTypeOK'
    BY <1>1, <1>2 DEF ChainTypeOK
  <1>5. FilesAreTrue'
    BY <1>1, <1>3, FilesStayTrue
  <1>6. \A f \in Files \ mixed' : ListIsKept(f)'
    <2>1. \A f \in Files \ mixed : ListIsKept(f)
      BY DEF ChainInv
    <2>2. \A f \in Files : ListIsKept(f) => ListIsKept(f)'
      BY <1>1 DEF ListIsKept, AtList
    <2>. QED
      BY <1>1, <2>1, <2>2
  <1>7. cmd' = [cmd EXCEPT ![p] = cmd[p]] /\ cmd[p] \in CommandRecord
    BY <1>1, ProcessHas
  <1>8. PICK c : c = cmd[p]
    OBVIOUS
  <1>9. Carries(p, c)'
    BY <1>1, <1>3, <1>8, ProcessHas, CarriesStays
  <1>. QED
    BY <1>1, <1>3, <1>4, <1>5, <1>6, <1>7, <1>8, <1>9, CommandMoves

LEMMA TruncateReceiptKeeps ==
  ASSUME ChainInv, NEW p \in Procs, TruncateReceipt(p) PROVE ChainInv'
  <1>1. /\ cmd[p].op = "submit" /\ cmd[p].at = "truncate" /\ cmd[p].inv \in Invs
        /\ UNCHANGED <<written, result, list, added, mixed, sub, registered, offered>>
    BY ProcessHas DEF TruncateReceipt, At, Carries, CommandRecord, lists, server
  <1>2. CASE UNCHANGED receipt /\ End(p, "failed")
    BY <1>1, <1>2, EndingQuietly DEF bundle, lists, server
  <1>3. CASE receipt' = [receipt EXCEPT ![cmd[p].inv] = CutReceipt] /\ Go(p, "write")
    <2>1. PICK c \in CommandRecord :
            /\ cmd' = [cmd EXCEPT ![p] = c]
            /\ c.op = cmd[p].op /\ c.at = "write" /\ c.inv = cmd[p].inv
            /\ c.receipt = cmd[p].receipt /\ c.result = cmd[p].result
      BY <1>3, GoingIs
    <2>2. CutReceipt \in ReceiptRecord /\ CutReceipt.state = "cut"
      BY DEF CutReceipt, NoReceipt, ReceiptRecord, Verdicts
    <2>3. ChainTypeOK'
      BY <1>1, <1>3, <2>1, <2>2, ProcessHas DEF ChainInv, ChainTypeOK
    <2>4. SubmissionsGo
      BY <1>1 DEF SubmissionsGo
    <2>5. Carries(p, c)
      BY <1>1, <2>1, ProcessHas DEF Carries
    <2>6. Carries(p, c)'
      BY <1>1, <2>4, <2>5, CarriesStays
    <2>7. \A i \in Invs : receipt'[i] = receipt[i] \/ receipt'[i].state # "whole"
      BY <1>3, <2>2 DEF ChainInv, ChainTypeOK
    <2>8. FilesAreTrue'
      <3>1. FilesAreTrue
        BY DEF ChainInv
      <3>. QED
        BY <1>1, <2>7, <3>1 DEF FilesAreTrue, OfSubmission, Offered
    <2>9. \A f \in Files \ mixed' : ListIsKept(f)'
      BY <1>1, <2>1, ListsStay DEF lists
    <2>. QED
      BY <1>1, <2>1, <2>3, <2>4, <2>6, <2>8, <2>9, CommandMoves
  <1>. QED
    BY <1>2, <1>3 DEF TruncateReceipt

LEMMA WriteReceiptKeeps ==
  ASSUME ChainInv, NEW p \in Procs, WriteReceipt(p) PROVE ChainInv'
  <1>1. /\ cmd[p].op = "submit" /\ cmd[p].at = "write" /\ cmd[p].inv \in Invs
        /\ UNCHANGED <<written, result, list, added, mixed, sub, registered, offered>>
    BY ProcessHas DEF WriteReceipt, At, Carries, CommandRecord, lists, server
  <1>2. /\ cmd[p].receipt.state = "whole" /\ cmd[p].receipt.inv = cmd[p].inv
        /\ OfSubmission(cmd[p].receipt) /\ cmd[p].receipt \in ReceiptRecord
    BY <1>1, ProcessHas DEF Carries, CommandRecord
  <1>3. PICK r : /\ r = cmd[p].receipt \/ r = CutReceipt
                 /\ receipt' = [receipt EXCEPT ![cmd[p].inv] = r]
    BY DEF WriteReceipt
  <1>4. PICK c \in CommandRecord :
          /\ cmd' = [cmd EXCEPT ![p] = c]
          /\ c.op = cmd[p].op /\ c.at = "over" /\ Carries(p, c)
    BY <1>1, EndingIs DEF WriteReceipt
  <1>5. CutReceipt \in ReceiptRecord /\ CutReceipt.state = "cut"
    BY DEF CutReceipt, NoReceipt, ReceiptRecord, Verdicts
  <1>6. ChainTypeOK'
    BY <1>1, <1>2, <1>3, <1>4, <1>5, ProcessHas DEF ChainInv, ChainTypeOK
  <1>7. SubmissionsGo
    BY <1>1 DEF SubmissionsGo
  <1>8. Carries(p, c)'
    BY <1>1, <1>4, <1>7, CarriesStays
  <1>9. FilesAreTrue'
    <2>1. FilesAreTrue
      BY DEF ChainInv
    <2>2. \A i \in Invs : IF i = cmd[p].inv THEN receipt'[i] = r ELSE receipt'[i] = receipt[i]
      BY <1>1, <1>3 DEF ChainInv, ChainTypeOK
    <2>3. r.state = "whole" => r.inv = cmd[p].inv /\ OfSubmission(r)
      BY <1>2, <1>3, <1>5
    <2>4. \A i \in Invs : receipt'[i].state = "whole" =>
            receipt'[i].inv = i /\ OfSubmission(receipt'[i])
      BY <2>1, <2>2, <2>3 DEF FilesAreTrue
    <2>. QED
      BY <1>1, <2>1, <2>4 DEF FilesAreTrue, OfSubmission, Offered
  <1>10. \A f \in Files \ mixed' : ListIsKept(f)'
    BY <1>1, <1>4, ListsStay DEF lists
  <1>. QED
    BY <1>1, <1>4, <1>6, <1>7, <1>8, <1>9, <1>10, CommandMoves

LEMMA DiscoverKeeps == ASSUME ChainInv, NEW p \in Procs, Discover(p) PROVE ChainInv'
  <1>1. cmd[p].op = "verify" /\ cmd[p].at = "glob" /\ UNCHANGED <<bundle, lists, server>>
    BY DEF Discover, At
  <1>2. CASE End(p, "failed")
    BY <1>1, <1>2, EndingQuietly
  <1>3. CASE \E todo \in SUBSET Invs :
               cmd' = [cmd EXCEPT ![p].todo = todo, ![p].at = "receipt"]
    <2> PICK todo \in SUBSET Invs :
               cmd' = [cmd EXCEPT ![p].todo = todo, ![p].at = "receipt"]
      BY <1>3
    <2>1. PICK d \in CommandRecord : d = cmd[p]
      BY ProcessHas
    <2> PICK c : c = [d EXCEPT !.todo = todo, !.at = "receipt"]
      OBVIOUS
    <2>2. c \in CommandRecord
      BY DEF CommandRecord
    <2>3. /\ c.op = d.op /\ c.at = "receipt" /\ c.passes = d.passes /\ c.checked = d.checked
          /\ c.result = d.result
      BY DEF CommandRecord
    <2>4. cmd' = [cmd EXCEPT ![p] = c]
      BY <2>1, ProcessHas
    <2>5. Carries(p, c)
      BY <1>1, <2>1, <2>3, ProcessHas DEF Carries
    <2>. QED
      BY <1>1, <2>1, <2>2, <2>3, <2>4, <2>5, QuietMove
  <1>4. Receipts \subseteq Invs
    BY DEF Receipts
  <1>. QED
    BY <1>2, <1>3, <1>4 DEF Discover

\* A receipt that was checked is the last one, or the next is taken up.
LEMMA CheckedKeeps ==
  ASSUME ChainInv, NEW p \in Procs, NEW i, NEW passes \in BOOLEAN,
         NEW checked \in SUBSET Comparison,
         cmd[p].op = "verify", cmd[p].at \in {"receipt", "result"},
         passes => \A d \in checked : OfSubmitted(d),
         Checked(p, i, passes, checked), UNCHANGED <<bundle, lists, server>>
  PROVE  ChainInv'
  <1>1. PICK d \in CommandRecord : d = cmd[p]
    BY ProcessHas
  <1>2. CASE cmd[p].todo = {i}
    <2> PICK c : c = [Fresh(d.op, d.inv, d.cap) EXCEPT !.at = "over", !.checked = checked,
                        !.result = IF passes THEN "success" ELSE "failed"]
      OBVIOUS
    <2>1. cmd' = [cmd EXCEPT ![p] = c]
      BY <1>1, <1>2 DEF Checked
    <2>2. NoReceipt \in ReceiptRecord
      BY DEF NoReceipt, ReceiptRecord, Verdicts
    <2>3. c \in CommandRecord
      BY <2>2 DEF Fresh, CommandRecord
    <2>4. /\ c.op = d.op /\ c.at = "over" /\ c.checked = checked
          /\ c.result = IF passes THEN "success" ELSE "failed"
      BY DEF Fresh
    <2>5. Carries(p, c)
      BY <1>1, <2>4 DEF Carries
    <2>. QED
      BY <1>1, <2>1, <2>3, <2>4, <2>5, QuietMove
  <1>3. CASE cmd[p].todo # {i}
    <2> PICK c : c = [d EXCEPT !.todo = @ \ {i}, !.at = "receipt",
                        !.passes = passes, !.checked = checked]
      OBVIOUS
    <2>1. cmd' = [cmd EXCEPT ![p].todo = @ \ {i}, ![p].at = "receipt",
                    ![p].passes = passes, ![p].checked = checked]
      BY <1>3 DEF Checked
    <2>2. cmd' = [cmd EXCEPT ![p] = c]
      BY <1>1, <2>1, ProcessHas
    <2>3. c \in CommandRecord
      BY DEF CommandRecord
    <2>4. /\ c.op = d.op /\ c.at = "receipt" /\ c.passes = passes /\ c.checked = checked
          /\ c.result = d.result
      BY DEF CommandRecord
    <2>5. Carries(p, c)
      BY <1>1, <2>4, ProcessHas DEF Carries
    <2>. QED
      BY <1>1, <2>2, <2>3, <2>4, <2>5, QuietMove
  <1>. QED
    BY <1>2, <1>3

LEMMA VerifyReceiptKeeps ==
  ASSUME ChainInv, NEW p \in Procs, VerifyReceipt(p) PROVE ChainInv'
  <1>1. cmd[p].op = "verify" /\ cmd[p].at = "receipt" /\ UNCHANGED <<bundle, lists, server>>
    BY DEF VerifyReceipt, At
  <1>2. PICK i \in cmd[p].todo :
          IF receipt[i].state = "whole"
          THEN cmd' = [cmd EXCEPT ![p].receipt = receipt[i], ![p].at = "result"]
          ELSE Checked(p, i, FALSE, cmd[p].checked)
    BY DEF VerifyReceipt
  <1>3. PICK d \in CommandRecord : d = cmd[p]
    BY ProcessHas
  <1>4. d.todo \subseteq Invs /\ d.checked \subseteq Comparison
    BY DEF CommandRecord
  <1>5. CASE receipt[i].state # "whole"
    BY <1>1, <1>2, <1>3, <1>4, <1>5, CheckedKeeps
  <1>6. CASE receipt[i].state = "whole"
    <2> PICK r : r = receipt[i]
      OBVIOUS
    <2>1. r \in ReceiptRecord /\ OfSubmission(r)
      BY <1>3, <1>4, <1>6 DEF ChainInv, ChainTypeOK, FilesAreTrue
    <2> PICK c : c = [d EXCEPT !.receipt = r, !.at = "result"]
      OBVIOUS
    <2>2. cmd' = [cmd EXCEPT ![p] = c]
      BY <1>2, <1>3, <1>6, ProcessHas
    <2>3. c \in CommandRecord
      BY <2>1 DEF CommandRecord
    <2>4. /\ c.op = d.op /\ c.at = "result" /\ c.passes = d.passes /\ c.checked = d.checked
          /\ c.result = d.result /\ c.receipt = r
      BY DEF CommandRecord
    <2>5. d.op = "verify" /\ d.at = "receipt" /\ Carries(p, d)
      BY <1>1, <1>3, ProcessHas
    <2>6. /\ d.result = "none"
          /\ d.passes => \A k \in d.checked : OfSubmitted(k)
      BY <2>5 DEF Carries
    <2>7. c.op = "verify" /\ c.result = "none" /\ c.receipt.state = "whole"
          /\ OfSubmission(c.receipt)
      BY <1>6, <2>1, <2>4, <2>5, <2>6
    <2>8. c.passes => \A k \in c.checked : OfSubmitted(k)
      BY <2>4, <2>6
    <2>9. Carries(p, c)
      BY <2>4, <2>7, <2>8 DEF Carries
    <2>. QED
      BY <1>1, <1>3, <2>2, <2>3, <2>4, <2>9, QuietMove
  <1>. QED
    BY <1>5, <1>6

LEMMA VerifyResultKeeps ==
  ASSUME ChainInv, NEW p \in Procs, VerifyResult(p) PROVE ChainInv'
  <1>1. /\ cmd[p].op = "verify" /\ cmd[p].at = "result"
        /\ UNCHANGED <<bundle, lists, server>>
    BY DEF VerifyResult, At
  <1>2. PICK d \in CommandRecord : d = cmd[p]
    BY ProcessHas
  <1> PICK r : r = cmd[p].receipt
    OBVIOUS
  <1>3. r \in ReceiptRecord /\ r.state = "whole" /\ OfSubmission(r)
    BY <1>1, <1>2, ProcessHas DEF Carries, CommandRecord
  <1>4. r.inv \in Invs /\ r.run \in Procs /\ r.hash \in Nat
    BY <1>3 DEF OfSubmission, ReceiptRecord
  <1> PICK l : l = result[r.inv]
    OBVIOUS
  <1>5. l.hash \in Nat
    BY <1>4 DEF ChainInv, ChainTypeOK
  <1> PICK new : new = [run |-> r.run, echoed |-> r.hash, hash |-> l.hash]
    OBVIOUS
  <1>6. new \in Comparison /\ new.run = r.run /\ new.echoed = r.hash /\ new.hash = l.hash
    BY <1>4, <1>5 DEF Comparison
  <1>7. PICK same \in BOOLEAN :
          Checked(p, r.inv, cmd[p].passes /\ IsAccepted(r) /\ HashMatches(r, l.hash) /\ same,
                  cmd[p].checked \cup {new})
    BY DEF VerifyResult
  <1> DEFINE passes == cmd[p].passes /\ IsAccepted(r) /\ HashMatches(r, l.hash) /\ same
             checked == cmd[p].checked \cup {new}
  <1>8. IsAccepted(r) /\ HashMatches(r, l.hash) => OfSubmitted(new)
    BY <1>3, <1>4, <1>5, <1>6 DEF IsAccepted, HashMatches, OfSubmission, OfSubmitted
  <1>9. passes => \A e \in checked : OfSubmitted(e)
    BY <1>1, <1>8, ProcessHas DEF Carries
  <1>10. checked \in SUBSET Comparison
    BY <1>2, <1>6 DEF CommandRecord
  <1>11. passes \in BOOLEAN /\ Checked(p, r.inv, passes, checked)
    BY <1>7
  <1> HIDE DEF passes, checked
  <1>. QED
    BY <1>1, <1>9, <1>10, <1>11, CheckedKeeps

LEMMA LookupKeeps == ASSUME ChainInv, NEW p \in Procs, Lookup(p) PROVE ChainInv'
  <1>1. /\ cmd[p].op = "register" /\ cmd[p].at = "lookup"
        /\ UNCHANGED <<bundle, lists, server>>
    BY DEF Lookup, At
  <1>2. CASE End(p, "failed")
    BY <1>1, <1>2, EndingQuietly
  <1>3. CASE \E j \in Citable(cmd[p].inv) :
               cmd' = [cmd EXCEPT ![p].receipt = receipt[j], ![p].at = "send"]
    <2> PICK j \in Citable(cmd[p].inv) :
               cmd' = [cmd EXCEPT ![p].receipt = receipt[j], ![p].at = "send"]
      BY <1>3
    <2>1. PICK d \in CommandRecord : d = cmd[p]
      BY ProcessHas
    <2> PICK r : r = receipt[j]
      OBVIOUS
    <2>2. j \in Invs /\ IsAccepted(r)
      BY DEF Citable
    <2>3. r \in ReceiptRecord /\ OfSubmission(r)
      BY <2>2 DEF IsAccepted, ChainInv, ChainTypeOK, FilesAreTrue
    <2> PICK c : c = [d EXCEPT !.receipt = r, !.at = "send"]
      OBVIOUS
    <2>4. cmd' = [cmd EXCEPT ![p] = c]
      BY <2>1, ProcessHas
    <2>5. c \in CommandRecord
      BY <2>3 DEF CommandRecord
    <2>6. c.op = d.op /\ c.at = "send" /\ c.receipt = r /\ c.result = d.result
      BY DEF CommandRecord
    <2>7. Carries(p, c)
      BY <1>1, <2>1, <2>2, <2>3, <2>6, ProcessHas DEF Carries
    <2>. QED
      BY <1>1, <2>1, <2>4, <2>5, <2>6, <2>7, QuietMove
  <1>. QED
    BY <1>2, <1>3 DEF Lookup

LEMMA RegisterKeeps == ASSUME ChainInv, NEW p \in Procs, Register(p) PROVE ChainInv'
  <1>1. /\ cmd[p].op = "register" /\ cmd[p].at = "send"
        /\ UNCHANGED <<written, result, receipt, list, added, mixed, sub, offered>>
    BY DEF Register, At, bundle, lists
  <1>2. PICK d \in CommandRecord : d = cmd[p]
    BY ProcessHas
  <1> PICK r : r = cmd[p].receipt
    OBVIOUS
  <1>3. r \in ReceiptRecord /\ IsAccepted(r) /\ OfSubmission(r)
    BY <1>1, <1>2, ProcessHas DEF Carries, CommandRecord
  <1> PICK new : new = [cap |-> cmd[p].cap, inv |-> r.inv, run |-> r.run]
    OBVIOUS
  <1>4. registered' = registered \cup {new}
    BY DEF Register
  <1>5. /\ new \in [cap : Caps, inv : Invs \cup {Unnamed}, run : Procs \cup {Nobody}]
        /\ new.inv = r.inv /\ new.run = r.run
    BY <1>2, <1>3 DEF CommandRecord, ReceiptRecord
  <1>6. new.run \in Procs /\ sub[new.run].inv = new.inv
        /\ sub[new.run].verdict \notin {"none", "REJECT"}
    BY <1>3, <1>5 DEF OfSubmission
  <1>7. PICK c \in CommandRecord :
          /\ cmd' = [cmd EXCEPT ![p] = c]
          /\ c.op = cmd[p].op /\ c.at = "over" /\ Carries(p, c)
    <2>1. PICK outcome \in {"success", "failed"} : End(p, outcome)
      BY DEF Register
    <2>. QED
      BY <1>1, <2>1, EndingIs
  <1>8. SubmissionsGo
    BY <1>1 DEF SubmissionsGo
  <1>9. ChainTypeOK'
    BY <1>1, <1>4, <1>5, <1>7, ProcessHas DEF ChainInv, ChainTypeOK
  <1>10. FilesAreTrue'
    <2>1. FilesAreTrue
      BY DEF ChainInv
    <2>. QED
      BY <1>1, <1>4, <1>6, <2>1 DEF FilesAreTrue, OfSubmission, Offered
  <1>11. Carries(p, c)'
    BY <1>1, <1>7, <1>8, CarriesStays
  <1>12. \A f \in Files \ mixed' : ListIsKept(f)'
    BY <1>1, <1>7, ListsStay
  <1>. QED
    BY <1>1, <1>7, <1>8, <1>9, <1>10, <1>11, <1>12, CommandMoves

LEMMA ResolveKeeps == ASSUME ChainInv, NEW p \in Procs, Resolve(p) PROVE ChainInv'
  <1>1. /\ cmd[p].op = "resolve" /\ cmd[p].at = "send"
        /\ UNCHANGED <<written, result, receipt, list, added, mixed, sub, registered>>
    BY DEF Resolve, At, bundle, lists
  <1>2. PICK d \in CommandRecord : d = cmd[p]
    BY ProcessHas
  <1>3. PICK v \in Providers \cup {NoProvider} :
          /\ offered' = offered \/ (v \in Providers /\ offered' = offered \cup {<<cmd[p].cap, v>>})
          /\ v # NoProvider => <<cmd[p].cap, v>> \in offered'
          /\ Resolved(p, v) \/ End(p, "failed")
    BY DEF Resolve
  <1>4. offered \subseteq offered' /\ offered' \subseteq Caps \X Providers
    <2>1. cmd[p].cap \in Caps /\ offered \subseteq Caps \X Providers
      BY <1>2 DEF ChainInv, ChainTypeOK, CommandRecord
    <2>2. v \in Providers => <<cmd[p].cap, v>> \in Caps \X Providers
      BY <2>1
    <2>. QED
      BY <1>3, <2>1, <2>2
  <1>5. SubmissionsGo
    BY <1>1 DEF SubmissionsGo
  <1>6. ASSUME NEW c \in CommandRecord, cmd' = [cmd EXCEPT ![p] = c],
               c.op = cmd[p].op, c.at \in {"over", "list"}, Carries(p, c)'
        PROVE  ChainInv'
    <2>1. ChainTypeOK'
      BY <1>1, <1>4, <1>6, ProcessHas DEF ChainInv, ChainTypeOK
    <2>2. FilesAreTrue'
      BY <1>1, <1>4, <1>5, FilesStayTrue
    <2>3. \A f \in Files \ mixed' : ListIsKept(f)'
      BY <1>1, <1>6, ListsStay
    <2>. QED
      BY <1>1, <1>4, <1>5, <1>6, <2>1, <2>2, <2>3, CommandMoves
  <1>7. CASE \E outcome \in {"advisory", "failed"} : End(p, outcome)
    <2>1. PICK c \in CommandRecord :
            /\ cmd' = [cmd EXCEPT ![p] = c]
            /\ c.op = cmd[p].op /\ c.at = "over" /\ Carries(p, c)
      BY <1>1, <1>7, EndingIs
    <2>2. Carries(p, c)'
      BY <1>1, <1>4, <1>5, <2>1, CarriesStays
    <2>. QED
      BY <1>6, <2>1, <2>2
  <1>8. CASE cmd' = [cmd EXCEPT ![p].provider = v, ![p].at = "list"]
    <2> PICK c : c = [d EXCEPT !.provider = v, !.at = "list"]
      OBVIOUS
    <2>1. cmd' = [cmd EXCEPT ![p] = c]
      BY <1>2, <1>8, ProcessHas
    <2>2. c \in CommandRecord
      BY <1>3 DEF CommandRecord
    <2>3. /\ c.op = d.op /\ c.at = "list" /\ c.provider = v /\ c.cap = d.cap
          /\ c.result = d.result
      BY DEF CommandRecord
    <2>4. Carries(p, c)'
      BY <1>1, <1>2, <1>3, <2>3, ProcessHas DEF Carries
    <2>. QED
      BY <1>2, <1>6, <2>1, <2>2, <2>3, <2>4
  <1>. QED
    BY <1>3, <1>7, <1>8 DEF Resolved

LEMMA ReadListKeeps == ASSUME ChainInv, NEW p \in Procs, ReadList(p) PROVE ChainInv'
  <1> DEFINE f == TargetOf(cmd[p].op)
  <1>1. /\ cmd[p].at = "list" /\ f \in Files
        /\ UNCHANGED <<written, result, receipt, list, added, sub, registered, offered>>
    BY DEF ReadList, bundle, server, TargetOf, Files
  <1>2. /\ mixed \subseteq mixed' /\ mixed' \subseteq Files
        /\ f \notin mixed' => \A q \in Procs : ~AtList(q, f, {"empty", "append"})
    BY <1>1 DEF ReadList, ChainInv, ChainTypeOK
  <1>3. SubmissionsGo
    BY <1>1 DEF SubmissionsGo
  <1>4. FilesAreTrue'
    BY <1>1, <1>3, FilesStayTrue
  <1>5. ASSUME NEW c \in CommandRecord, cmd' = [cmd EXCEPT ![p] = c],
               c.op = cmd[p].op, Carries(p, c), \A g \in Files \ mixed' : ListIsKept(g)'
        PROVE  ChainInv'
    <2>1. ChainTypeOK'
      BY <1>1, <1>2, <1>5, ProcessHas DEF ChainInv, ChainTypeOK
    <2>2. Carries(p, c)'
      BY <1>1, <1>3, <1>5, CarriesStays
    <2>. QED
      BY <1>1, <1>3, <1>4, <1>5, <2>1, <2>2, CommandMoves
  <1>6. CASE End(p, "present")
    <2>1. PICK c \in CommandRecord :
            /\ cmd' = [cmd EXCEPT ![p] = c]
            /\ c.op = cmd[p].op /\ c.at = "over" /\ Carries(p, c)
      BY <1>6, EndingIs
    <2>2. \A g \in Files \ mixed' : ListIsKept(g)'
      BY <1>1, <1>2, <2>1, ListsStay
    <2>. QED
      BY <1>5, <2>1, <2>2
  <1>7. CASE cmd' = [cmd EXCEPT ![p].existing = list[f], ![p].at = "empty"]
    <2>1. PICK d \in CommandRecord : d = cmd[p]
      BY ProcessHas
    <2> PICK entries : entries = list[f]
      OBVIOUS
    <2>2. entries \in SUBSET Entry
      BY <1>1 DEF ChainInv, ChainTypeOK
    <2> PICK c : c = [d EXCEPT !.existing = entries, !.at = "empty"]
      OBVIOUS
    <2>3. cmd' = [cmd EXCEPT ![p] = c]
      BY <1>7, <2>1, ProcessHas
    <2>4. c \in CommandRecord
      BY <2>2 DEF CommandRecord
    <2>5. /\ c.op = d.op /\ c.at = "empty" /\ c.existing = entries /\ c.cap = d.cap
          /\ c.provider = d.provider /\ c.passes = d.passes /\ c.checked = d.checked
          /\ c.result = d.result /\ c.inv = d.inv
      BY DEF CommandRecord
    <2>6. d.op # "create" => \A e \in entries : Offered(e)
      BY <2>1 DEF TargetOf, ChainInv, FilesAreTrue
    <2>7. Carries(p, c)
      BY <1>1, <2>1, <2>5, <2>6, ProcessHas DEF Carries
    <2>8. ASSUME NEW g \in Files \ mixed' PROVE ListIsKept(g)'
      <3>1. CASE g # f
        <4>1. g \in Files \ mixed /\ list'[g] = list[g] /\ added'[g] = added[g]
          BY <1>1, <1>2
        <4>2. c.op = cmd[p].op /\ g # TargetOf(cmd[p].op)
          BY <2>1, <2>5, <3>1
        <4>. HIDE DEF f
        <4>. QED
          BY <2>3, <2>4, <4>1, <4>2, OtherListStays
      <3>2. CASE g = f
        <4>1. \A q \in Procs : ~AtList(q, f, {"empty", "append"})
          BY <1>2, <3>2
        <4>2. added[f] \subseteq entries
          <5>1. ListIsKept(f)
            BY <1>1, <1>2, <3>2 DEF ChainInv
          <5>2. \A q \in Procs : ~AtList(q, f, {"append"})
            BY <4>1 DEF AtList
          <5>. QED
            BY <5>1, <5>2 DEF ListIsKept
        <4>3. \A q \in Procs : AtList(q, g, {"empty", "append"})' => q = p
          BY <2>3, <3>2, <4>1, ProcessHas DEF AtList
        <4>4. cmd'[p].existing = entries
          BY <2>3, <2>5, ProcessHas
        <4>. HIDE DEF f
        <4>. QED
          BY <1>1, <3>2, <4>2, <4>3, <4>4 DEF ListIsKept
      <3>. QED
        BY <3>1, <3>2
    <2>. QED
      BY <1>5, <2>1, <2>3, <2>4, <2>5, <2>7, <2>8
  <1>. QED
    BY <1>6, <1>7 DEF ReadList

LEMMA EmptyListKeeps == ASSUME ChainInv, NEW p \in Procs, EmptyList(p) PROVE ChainInv'
  <1> DEFINE f == TargetOf(cmd[p].op)
  <1>1. /\ cmd[p].at = "empty" /\ f \in Files
        /\ UNCHANGED <<written, result, receipt, added, mixed, sub, registered, offered>>
    BY DEF EmptyList, bundle, server, TargetOf, Files
  <1>2. CASE UNCHANGED list /\ End(p, "failed")
    BY <1>1, <1>2, EndingQuietly DEF bundle, lists, server
  <1>3. CASE list' = [list EXCEPT ![f] = {}] /\ Go(p, "append")
    <2>1. PICK c \in CommandRecord :
            /\ cmd' = [cmd EXCEPT ![p] = c]
            /\ c.op = cmd[p].op /\ c.at = "append" /\ c.inv = cmd[p].inv
            /\ c.cap = cmd[p].cap /\ c.passes = cmd[p].passes
            /\ c.checked = cmd[p].checked /\ c.provider = cmd[p].provider
            /\ c.existing = cmd[p].existing /\ c.result = cmd[p].result
      BY <1>3, GoingIs
    <2>2. Carries(p, c)
      BY <1>1, <2>1, ProcessHas DEF Carries
    <2>3. SubmissionsGo
      BY <1>1 DEF SubmissionsGo
    <2>4. Carries(p, c)'
      BY <1>1, <2>2, <2>3, CarriesStays
    <2>5. /\ list' \in [Files -> SUBSET Entry] /\ list'[f] = {}
          /\ \A g \in Files \ {f} : list'[g] = list[g]
      BY <1>1, <1>3 DEF ChainInv, ChainTypeOK
    <2>6. ChainTypeOK'
      BY <1>1, <2>1, <2>5, ProcessHas DEF ChainInv, ChainTypeOK
    <2>7. FilesAreTrue'
      <3>1. FilesAreTrue
        BY DEF ChainInv
      <3>2. list'["dependencies"] \subseteq list["dependencies"]
        BY <2>5 DEF Files
      <3>. QED
        BY <1>1, <3>1, <3>2 DEF FilesAreTrue, OfSubmission, Offered
    <2>8. ASSUME NEW g \in Files \ mixed' PROVE ListIsKept(g)'
      <3>1. CASE g # f
        BY <1>1, <2>1, <2>5, <3>1, OtherListStays
      <3>2. CASE g = f
        <4>1. ListIsKept(f) /\ AtList(p, f, {"empty", "append"})
          BY <1>1, <3>2 DEF ChainInv, AtList
        <4>2. \A q \in Procs : AtList(q, g, {"empty", "append"})' => q = p
          BY <2>1, <3>2, <4>1, ProcessHas DEF ListIsKept, AtList
        <4>3. AtList(p, g, {"append"})' /\ cmd'[p].existing = cmd[p].existing
          BY <2>1, <3>2, ProcessHas DEF AtList
        <4>. HIDE DEF f
        <4>. QED
          BY <1>1, <3>2, <4>1, <4>2, <4>3 DEF ListIsKept
      <3>. QED
        BY <3>1, <3>2
    <2>. QED
      BY <1>1, <2>1, <2>3, <2>4, <2>6, <2>7, <2>8, CommandMoves
  <1>. QED
    BY <1>2, <1>3 DEF EmptyList

LEMMA AppendEntryKeeps == ASSUME ChainInv, NEW p \in Procs, AppendEntry(p) PROVE ChainInv'
  <1> DEFINE f == TargetOf(cmd[p].op)
  <1>1. /\ cmd[p].at = "append" /\ f \in Files
        /\ UNCHANGED <<written, result, receipt, mixed, sub, registered, offered>>
    BY DEF AppendEntry, bundle, server, TargetOf, Files
  <1>2. PICK d \in CommandRecord : d = cmd[p]
    BY ProcessHas
  <1> PICK new : new = EntryOf(p)
    OBVIOUS
  <1>3. new \in Entry /\ new[1] = d.cap /\ new[2] = d.provider /\ new = <<d.cap, d.provider>>
    BY <1>2 DEF EntryOf, Entry, CommandRecord
  <1>4. PICK tail \in SUBSET list[f] :
          list' = [list EXCEPT ![f] = cmd[p].existing \cup {new} \cup tail]
    BY DEF AppendEntry
  <1>5. added' = [added EXCEPT ![f] = @ \cup {new}]
    BY DEF AppendEntry
  <1>6. d.existing \subseteq Entry
    BY DEF CommandRecord
  <1>7. /\ list' \in [Files -> SUBSET Entry]
        /\ list'[f] = cmd[p].existing \cup {new} \cup tail
        /\ \A g \in Files \ {f} : list'[g] = list[g]
    BY <1>1, <1>2, <1>3, <1>4, <1>6 DEF ChainInv, ChainTypeOK
  <1>8. /\ added' \in [Files -> SUBSET Entry] /\ added'[f] = added[f] \cup {new}
        /\ \A g \in Files \ {f} : added'[g] = added[g]
    BY <1>1, <1>3, <1>5 DEF ChainInv, ChainTypeOK
  <1>9. PICK c \in CommandRecord :
          /\ cmd' = [cmd EXCEPT ![p] = c]
          /\ c.op = cmd[p].op /\ c.at = "over" /\ Carries(p, c)
    BY EndingIs DEF AppendEntry
  <1>10. SubmissionsGo
    BY <1>1 DEF SubmissionsGo
  <1>11. Carries(p, c)'
    BY <1>1, <1>9, <1>10, CarriesStays
  <1>12. ChainTypeOK'
    BY <1>1, <1>7, <1>8, <1>9, ProcessHas DEF ChainInv, ChainTypeOK
  <1>13. FilesAreTrue'
    <2>1. FilesAreTrue
      BY DEF ChainInv
    <2>2. ASSUME NEW e \in list'["dependencies"] PROVE Offered(e)
      <3>1. CASE f # "dependencies"
        BY <1>7, <2>1, <3>1 DEF Files, FilesAreTrue
      <3>2. CASE f = "dependencies"
        <4>1. d.op # "create"
          BY <1>2, <3>2 DEF TargetOf
        <4>2. e \in d.existing => Offered(e)
          BY <1>1, <1>2, <4>1, ProcessHas DEF Carries
        <4>3. e = new => Offered(e)
          BY <1>1, <1>2, <1>3, <4>1, ProcessHas DEF Carries, Offered
        <4>4. e \in tail => Offered(e)
          BY <2>1, <3>2 DEF FilesAreTrue
        <4>. QED
          BY <1>2, <1>7, <3>2, <4>2, <4>3, <4>4
      <3>. QED
        BY <3>1, <3>2
    <2>. QED
      BY <1>1, <2>1, <2>2 DEF FilesAreTrue, OfSubmission, Offered
  <1>14. ASSUME NEW g \in Files \ mixed' PROVE ListIsKept(g)'
    <2>1. CASE g # f
      BY <1>1, <1>7, <1>8, <1>9, <2>1, OtherListStays
    <2>2. CASE g = f
      <3>1. ListIsKept(f) /\ AtList(p, f, {"empty", "append"})
        BY <1>1, <2>2 DEF ChainInv, AtList
      <3>2. \A q \in Procs : ~AtList(q, g, {"empty", "append"})'
        BY <1>9, <2>2, <3>1, ProcessHas DEF ListIsKept, AtList
      <3>3. added[f] \subseteq cmd[p].existing
        BY <3>1 DEF ListIsKept
      <3>. HIDE DEF f
      <3>. QED
        BY <1>7, <1>8, <2>2, <3>2, <3>3 DEF ListIsKept
    <2>. QED
      BY <2>1, <2>2
  <1>. QED
    BY <1>1, <1>9, <1>10, <1>11, <1>12, <1>13, <1>14, CommandMoves

LEMMA KilledKeeps == ASSUME ChainInv, NEW p \in Procs, Killed(p) PROVE ChainInv'
  <1>1. UNCHANGED <<written, result, receipt, list, added, sub, registered, offered>>
    BY DEF Killed, bundle, server
  <1>2. CASE cmd[p].at # "append"
    BY <1>1, <1>2, EndingQuietly DEF Killed, bundle, lists, server
  <1>3. CASE cmd[p].at = "append"
    <2> DEFINE f == TargetOf(cmd[p].op)
    <2>1. mixed' = mixed \cup {f} /\ f \in Files
      BY <1>3 DEF Killed, TargetOf, Files
    <2>2. PICK c \in CommandRecord :
            /\ cmd' = [cmd EXCEPT ![p] = c]
            /\ c.op = cmd[p].op /\ c.at = "over" /\ Carries(p, c)
      BY EndingIs DEF Killed
    <2>3. SubmissionsGo
      BY <1>1 DEF SubmissionsGo
    <2>4. Carries(p, c)'
      BY <1>1, <2>2, <2>3, CarriesStays
    <2>5. ChainTypeOK'
      BY <1>1, <2>1, <2>2, ProcessHas DEF ChainInv, ChainTypeOK
    <2>6. FilesAreTrue'
      BY <1>1, <2>3, FilesStayTrue
    <2>7. \A g \in Files \ mixed' : ListIsKept(g)'
      BY <1>1, <2>1, <2>2, OtherListStays
    <2>. QED
      BY <1>1, <2>2, <2>3, <2>4, <2>5, <2>6, <2>7, CommandMoves
  <1>. QED
    BY <1>2, <1>3

LEMMA ChainBegins == ChainInit => ChainInv
  <1> SUFFICES ASSUME ChainInit PROVE ChainInv
    OBVIOUS
  <1>1. NoReceipt \in ReceiptRecord /\ NoReceipt.state = "none"
    BY DEF NoReceipt, ReceiptRecord, Verdicts
  <1>2. ASSUME NEW op \in Ops, NEW i \in Invs \cup {Unnamed}, NEW x \in Caps
        PROVE  /\ Fresh(op, i, x) \in CommandRecord
               /\ Fresh(op, i, x).op = op /\ Fresh(op, i, x).inv = i
               /\ Fresh(op, i, x).at = "idle" /\ Fresh(op, i, x).checked = {}
               /\ Fresh(op, i, x).result = "none"
    BY <1>1 DEF Fresh, CommandRecord
  <1>3. ASSUME NEW p \in Procs
        PROVE  \E op \in Ops, i \in Invs \cup {Unnamed}, x \in Caps :
                 cmd[p] = Fresh(op, i, x) /\ (op = "submit" => i # Unnamed)
    <2>1. PICK op \in Scenes, i \in [Procs -> Invs \cup {Unnamed}], c \in [Procs -> Caps] :
       /\ \A q \in Procs : op[q] = "submit" => i[q] # Unnamed
       /\ cmd = [q \in Procs |-> Fresh(op[q],
                   IF op[q] \in {"create", "resolve"} THEN Unnamed ELSE i[q],
                   IF op[q] \in {"create", "resolve"} THEN c[q]
                   ELSE CHOOSE x \in Caps : TRUE)]
      BY DEF ChainInit
    <2>2. op[p] \in Ops
      BY <2>1, BoundAssumption
    <2>3. c[p] \in Caps /\ (CHOOSE x \in Caps : TRUE) \in Caps
      BY <2>1
    <2> PICK j : j = IF op[p] \in {"create", "resolve"} THEN Unnamed ELSE i[p]
      OBVIOUS
    <2> PICK y : y = IF op[p] \in {"create", "resolve"} THEN c[p]
                     ELSE CHOOSE x \in Caps : TRUE
      OBVIOUS
    <2>4. j \in Invs \cup {Unnamed} /\ y \in Caps /\ (op[p] = "submit" => j # Unnamed)
      BY <2>1, <2>3
    <2>5. cmd[p] = Fresh(op[p], j, y)
      BY <2>1
    <2>. QED
      BY <2>2, <2>4, <2>5
  <1>4. ASSUME NEW p \in Procs
        PROVE  /\ cmd[p] \in CommandRecord /\ cmd[p].at = "idle" /\ cmd[p].checked = {}
               /\ cmd[p].result = "none" /\ (cmd[p].op = "submit" => cmd[p].inv # Unnamed)
    BY <1>2, <1>3
  <1>5. cmd \in [Procs -> CommandRecord]
    <2>1. PICK F : cmd = [p \in Procs |-> F[p]]
      BY DEF ChainInit
    <2>. QED
      BY <1>4, <2>1
  <1>6. /\ offered \subseteq Caps \X Providers /\ list["dependencies"] = offered
        /\ list \in [Files -> SUBSET Entry]
    BY DEF ChainInit, Files, Entry
  <1>7. ChainTypeOK
    BY <1>1, <1>5, <1>6 DEF ChainInit, ChainTypeOK, NoResult
  <1>8. \A p \in Procs : Carries(p, cmd[p])
    BY <1>4 DEF ChainInit, Carries
  <1>9. FilesAreTrue
    BY <1>1, <1>6 DEF ChainInit, FilesAreTrue, Offered
  <1>10. \A f \in Files : ListIsKept(f)
    BY <1>4 DEF ChainInit, ListIsKept, AtList
  <1>. QED
    BY <1>7, <1>8, <1>9, <1>10 DEF ChainInv

LEMMA ChainInvariant == ChainSpec => []ChainInv
  <1>1. ChainInit => ChainInv
    BY ChainBegins
  <1>2. ChainInv /\ [ChainNext]_chainVars => ChainInv'
    <2> SUFFICES ASSUME ChainInv, [ChainNext]_chainVars PROVE ChainInv'
      OBVIOUS
    <2>1. CASE UNCHANGED chainVars
      <3>1. UNCHANGED <<written, result, receipt, list, added, mixed, sub, registered,
                        offered, cmd>>
        BY <2>1 DEF chainVars, bundle, lists, server
      <3>2. ChainTypeOK'
        BY <3>1 DEF ChainInv, ChainTypeOK
      <3>3. \A p \in Procs : Carries(p, cmd[p])'
        BY <3>1 DEF ChainInv, Carries, OfSubmission, OfSubmitted, Offered
      <3>4. FilesAreTrue'
        BY <3>1 DEF ChainInv, FilesAreTrue, OfSubmission, Offered
      <3>5. \A f \in Files \ mixed' : ListIsKept(f)'
        BY <3>1 DEF ChainInv, ListIsKept, AtList
      <3>. QED
        BY <3>2, <3>3, <3>4, <3>5 DEF ChainInv
    <2>2. CASE ChainNext
      BY <2>2, StartKeeps, KilledKeeps, ReadResultKeeps, SubmitKeeps, RejectLaterKeeps,
         TruncateReceiptKeeps, WriteReceiptKeeps, DiscoverKeeps, VerifyReceiptKeeps,
         VerifyResultKeeps, LookupKeeps, RegisterKeeps, ResolveKeeps, ReadListKeeps,
         EmptyListKeeps, AppendEntryKeeps, RunGateKeeps
         DEF ChainNext
    <2>. QED
      BY <2>1, <2>2
  <1>. QED
    BY <1>1, <1>2, PTL DEF ChainSpec

(* A receipt that can be read is of a submission of its own invariant, and   *)
(* says accepted of none the server rejected when it answered; a capability  *)
(* is registered on such a submission only.                                  *)
THEOREM ReceiptsAreOfSubmissions == ChainSpec => []ReceiptIsOfSubmission
  <1>1. ChainInv => ReceiptIsOfSubmission
    BY NamesAssumption DEF ChainInv, FilesAreTrue, OfSubmission, ReceiptIsOfSubmission
  <1>. QED
    BY <1>1, ChainInvariant, PTL

(* When receipt verify passes, its receipts are of submissions the server    *)
(* got and did not reject at once, and the results it could load are the     *)
(* ones submitted; a result that is cut it passes over.                      *)
THEOREM VerifiedAsSubmitted == ChainSpec => []VerifiedIsSubmitted
  <1>1. ChainInv => VerifiedIsSubmitted
    BY DEF ChainInv, Carries, OfSubmitted, VerifiedIsSubmitted
  <1>. QED
    BY <1>1, ChainInvariant, PTL

(* An entry reported as added stays in its file unless two commands overlap  *)
(* there or one dies in it, and every provider listed was the server's.      *)
THEOREM AddedEntriesStay == ChainSpec => []AddedIsKept
  <1>1. ChainInv => AddedIsKept
    BY DEF ChainInv, FilesAreTrue, Offered, ListIsKept, AddedIsKept
  <1>. QED
    BY <1>1, ChainInvariant, PTL
=============================================================================
