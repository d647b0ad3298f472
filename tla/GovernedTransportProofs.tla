---------------------- MODULE GovernedTransportProofs ----------------------
(***************************************************************************)
(* Proofs about GovernedTransport for any number of calls, keys, payloads  *)
(* and retries, and any loss, delay and order of requests and replies.     *)
(*                                                                         *)
(* That a write is executed at most once rests on two facts: every request *)
(* of a call carries the key minted before its first attempt, and the      *)
(* server executes a key once.  That a reported success is true rests on   *)
(* what a pending reply says about the server's store.                     *)
(*                                                                         *)
(* And about two programs beside it: LocalRuntime, where a command that is *)
(* busy has lived through the state the services are in, and ProofRunners, *)
(* where what a phase has said is true of what the runner still holds.     *)
(***************************************************************************)
EXTENDS GovernedTransport, LocalRuntime, ProofRunners, FiniteSetTheorems, TLAPS

USE RetriesAssumption, KeysAssumption, NoneAssumption DEF Replies, Observations, Ends

\* Every request of a call is the one the loop builds for its attempt.
RequestsAreFixed ==
  \A m \in sent :
    /\ m = RequestOf(m.call, m.attempt)
    /\ pc[m.call] # "idle"
    /\ m.attempt \in 1..attempt[m.call]

\* The key a call carries: its caller's, its own, or none.
KeysAreFixed ==
  \A c \in Calls :
    /\ pc[c] = "idle" => key[c] = None /\ attempt[c] = 0
    /\ pc[c] # "idle" =>
         /\ key[c] \in CallerKeys \cup {None, <<c, 0>>}
         /\ Write(c) => key[c] # None

\* The retry budget, at each place of the loop.
Budget ==
  \A c \in Calls :
    /\ attempt[c] <= MaxAttempts(retry_policy[c])
    /\ pc[c] = "ready" => AttemptsLeft(c)

\* The server's store holds a key once, and nothing that is still on the wire.
StoreIsKeyed ==
  /\ \A m, n \in executed : m.key = n.key /\ m.key # None => m = n
  /\ wire \cap executed = {}

\* What is true of the store when success is reported for call c.
Fresh(c) == \E m \in executed : m.call = c /\ m.attempt = attempt[c]
Replay(c) ==
  /\ key[c] # None
  /\ \E m \in executed :
       /\ m.key = key[c] /\ m.payload = payload[c]
       /\ <<m.call, m.attempt>> # <<c, attempt[c]>>

\* A reply that a call has not read yet tells the truth about the store.
RepliesAreTrue ==
  \A c \in Calls :
    /\ reply[c] # None => pc[c] = "waiting"
    /\ reply[c] = "ok" => Fresh(c)
    /\ reply[c] = "replayed" => Replay(c)
    /\ reply[c] = "conflict409" => key[c] # <<c, 0>>

EndsAreTrue ==
  \A c \in Calls :
    /\ end[c] # None <=> pc[c] = "done"
    /\ observation[c] # None <=> pc[c] = "done"
    /\ end[c] = "TransportResult" /\ observation[c] = "EXECUTED" => Fresh(c)
    /\ end[c] = "TransportResult" /\ observation[c] = "REPLAYED" => Replay(c)
    /\ observation[c] = "CONFLICT" => key[c] # <<c, 0>>

IInv ==
  /\ TypeOK /\ RequestsAreFixed /\ KeysAreFixed /\ Budget /\ StoreIsKeyed
  /\ RepliesAreTrue /\ EndsAreTrue

-----------------------------------------------------------------------------
LEMMA InitIInv == Init => IInv
<1>. SUFFICES ASSUME Init PROVE IInv
  OBVIOUS
<1>. USE DEF Init
<1>1. TypeOK
  BY DEF TypeOK
<1>2. RequestsAreFixed /\ StoreIsKeyed
  BY DEF RequestsAreFixed, StoreIsKeyed
<1>3. KeysAreFixed
  BY DEF KeysAreFixed
<1>4. Budget
  BY DEF Budget, MaxAttempts
<1>5. RepliesAreTrue /\ EndsAreTrue
  BY DEF RepliesAreTrue, EndsAreTrue
<1>. QED BY <1>1, <1>2, <1>3, <1>4, <1>5 DEF IInv

LEMMA ExecuteIInv ==
  ASSUME IInv, NEW c \in Calls, Execute(c)
  PROVE  IInv'
<1>. USE DEF IInv, Execute, network
<1>0. key'[c] \in CallerKeys \cup {None, <<c, 0>>} /\ (Write(c) => key'[c] # None)
      /\ key'[c] \in Keys \cup {None}
      /\ \A d \in Calls \ {c} : key'[d] = key[d] /\ pc'[d] = pc[d]
      /\ pc'[c] = "ready" /\ pc[c] = "idle"
  BY DEF TypeOK, Write, generate_idempotency_key, Keys, MintedKeys
<1>1. TypeOK'
  BY <1>0 DEF TypeOK
<1>2. RequestsAreFixed'
  BY <1>0 DEF TypeOK, RequestsAreFixed, RequestOf, Message
<1>3. KeysAreFixed'
  BY <1>0 DEF TypeOK, KeysAreFixed, Write, idempotency_required
<1>4. Budget'
  BY <1>0 DEF TypeOK, Budget, KeysAreFixed, AttemptsLeft, MaxAttempts
<1>5. StoreIsKeyed'
  BY DEF StoreIsKeyed
<1>6. RepliesAreTrue'
  BY <1>0 DEF TypeOK, RepliesAreTrue, Fresh, Replay
<1>7. EndsAreTrue'
  BY <1>0 DEF TypeOK, EndsAreTrue, Fresh, Replay
<1>. QED BY <1>1, <1>2, <1>3, <1>4, <1>5, <1>6, <1>7

LEMMA AttemptIInv ==
  ASSUME IInv, NEW c \in Calls, Attempt(c)
  PROVE  IInv'
<1>. DEFINE m == RequestOf(c, attempt[c] + 1)
<1>. USE DEF IInv, Attempt
<1>0. /\ pc[c] = "ready" /\ pc' = [pc EXCEPT ![c] = "waiting"]
      /\ attempt' = [attempt EXCEPT ![c] = attempt[c] + 1]
      /\ sent' = sent \cup {m} /\ wire' = wire \cup {m}
      /\ UNCHANGED <<retry_policy, key, payload, observation, end, executed, reply>>
      /\ attempt[c] \in Nat
  BY DEF TypeOK
<1>m. m \in Message /\ m.call = c /\ m.attempt = attempt[c] + 1 /\ m \notin sent
  BY <1>0 DEF TypeOK, Message, RequestOf, RequestsAreFixed
<1>1. TypeOK'
  BY <1>0, <1>m DEF TypeOK
<1>2. RequestsAreFixed'
  <2>. SUFFICES ASSUME NEW n \in sent'
                PROVE  /\ n = RequestOf(n.call, n.attempt)'
                       /\ pc'[n.call] # "idle"
                       /\ n.attempt \in 1..attempt'[n.call]
    BY DEF RequestsAreFixed
  <2>1. CASE n = m
    BY <2>1, <1>0, <1>m DEF TypeOK, RequestOf
  <2>2. CASE n \in sent
    <3>1. n.call \in Calls /\ attempt[n.call] \in Nat
      BY <2>2 DEF TypeOK, Message
    <3>. QED BY <2>2, <3>1, <1>0 DEF TypeOK, RequestsAreFixed, RequestOf
  <2>. QED BY <2>1, <2>2, <1>0
<1>3. KeysAreFixed'
  BY <1>0 DEF TypeOK, KeysAreFixed, Write, idempotency_required
<1>4. Budget'
  BY <1>0 DEF TypeOK, Budget, AttemptsLeft, MaxAttempts
<1>5. StoreIsKeyed'
  BY <1>0, <1>m DEF TypeOK, StoreIsKeyed
<1>6. RepliesAreTrue'
  BY <1>0 DEF TypeOK, RepliesAreTrue, Fresh, Replay
<1>7. EndsAreTrue'
  BY <1>0 DEF TypeOK, EndsAreTrue, Fresh, Replay
<1>. QED BY <1>1, <1>2, <1>3, <1>4, <1>5, <1>6, <1>7

\* All the ways in which an attempt ends without a result are alike: the call
\* retries within its budget, or ends with an observation the reply justifies.
LEMMA EndOfAttemptIInv ==
  ASSUME IInv, NEW c \in Calls, EndOfAttempt(c),
         \/ Retry(c)
         \/ \E obs \in Observations, how \in Ends :
              /\ Finish(c, obs, how)
              /\ how = "TransportResult" /\ obs = "EXECUTED" => Fresh(c)
              /\ how = "TransportResult" /\ obs = "REPLAYED" => Replay(c)
              /\ obs = "CONFLICT" => key[c] # <<c, 0>>
  PROVE  IInv'
<1>. USE DEF IInv, EndOfAttempt, network
<1>0. /\ pc[c] = "waiting" /\ reply' = [reply EXCEPT ![c] = None]
      /\ UNCHANGED <<retry_policy, key, payload, attempt, sent, wire, executed>>
      /\ pc' = [pc EXCEPT ![c] = pc'[c]] /\ pc'[c] \in {"ready", "done"}
      /\ pc'[c] = "ready" => AttemptsLeft(c) /\ UNCHANGED <<observation, end>>
      /\ pc'[c] = "done" =>
           \E obs \in Observations, how \in Ends :
              /\ observation' = [observation EXCEPT ![c] = obs]
              /\ end' = [end EXCEPT ![c] = how]
              /\ how = "TransportResult" /\ obs = "EXECUTED" => Fresh(c)
              /\ how = "TransportResult" /\ obs = "REPLAYED" => Replay(c)
              /\ obs = "CONFLICT" => key[c] # <<c, 0>>
  BY DEF TypeOK, Retry, Finish
<1>1. TypeOK'
  BY <1>0 DEF TypeOK
<1>2. RequestsAreFixed'
  BY <1>0 DEF TypeOK, RequestsAreFixed, RequestOf, Message
<1>3. KeysAreFixed'
  BY <1>0 DEF TypeOK, KeysAreFixed, Write, idempotency_required
<1>4. Budget'
  BY <1>0 DEF TypeOK, Budget, AttemptsLeft, MaxAttempts
<1>5. StoreIsKeyed'
  BY <1>0 DEF StoreIsKeyed
<1>6. RepliesAreTrue'
  BY <1>0 DEF TypeOK, RepliesAreTrue, Fresh, Replay
<1>7. EndsAreTrue'
  <2>1. CASE pc'[c] = "ready"
    BY <2>1, <1>0 DEF TypeOK, EndsAreTrue, Fresh, Replay
  <2>2. CASE pc'[c] = "done"
    <3>1. PICK obs \in Observations, how \in Ends :
              /\ observation' = [observation EXCEPT ![c] = obs]
              /\ end' = [end EXCEPT ![c] = how]
              /\ how = "TransportResult" /\ obs = "EXECUTED" => Fresh(c)
              /\ how = "TransportResult" /\ obs = "REPLAYED" => Replay(c)
              /\ obs = "CONFLICT" => key[c] # <<c, 0>>
      BY <2>2, <1>0
    <3>2. obs # None /\ how # None
      BY DEF TypeOK
    <3>. QED BY <2>2, <3>1, <1>0 DEF TypeOK, EndsAreTrue, Fresh, Replay
  <2>. QED BY <2>1, <2>2, <1>0
<1>. QED BY <1>1, <1>2, <1>3, <1>4, <1>5, <1>6, <1>7

LEMMA TransportFailureIInv ==
  ASSUME IInv, NEW c \in Calls, TransportFailure(c)
  PROVE  IInv'
  BY EndOfAttemptIInv DEF TransportFailure

\* What a call makes of the reply it waited for.
LEMMA ReceiveIInv ==
  ASSUME IInv, NEW c \in Calls, Receive(c)
  PROVE  IInv'
<1>. USE DEF IInv, RepliesAreTrue
<1>1. CASE ReceiveConflict(c)
  BY <1>1, EndOfAttemptIInv DEF ReceiveConflict
<1>2. CASE ReceiveRateLimit(c)
  BY <1>2, EndOfAttemptIInv DEF ReceiveRateLimit
<1>3. CASE ReceiveRetryable(c)
  BY <1>3, EndOfAttemptIInv DEF ReceiveRetryable
<1>4. CASE ReceiveServerError(c)
  BY <1>4, EndOfAttemptIInv DEF ReceiveServerError
<1>5. CASE ReceiveClientError(c)
  BY <1>5, EndOfAttemptIInv DEF ReceiveClientError
<1>6. CASE ReceiveSuccess(c)
  BY <1>6, EndOfAttemptIInv DEF ReceiveSuccess
<1>. QED BY <1>1, <1>2, <1>3, <1>4, <1>5, <1>6 DEF Receive

\* A request leaves the wire; the store and the replies grow truthfully.
LEMMA WireIInv ==
  ASSUME IInv, NEW m \in wire, wire' = wire \ {m}, UNCHANGED <<caller, sent>>,
         \/ executed' = executed
         \/ executed' = executed \cup {m} /\ SameKey(m) = {},
         \/ reply' = reply
         \/ \E r \in Replies :
              /\ Answer(m, r)
              /\ r = "ok" => executed' = executed \cup {m}
              /\ r = "replayed" => \E e \in SameKey(m) : e.payload = m.payload
              /\ r = "conflict409" => \E e \in SameKey(m) : e.payload # m.payload
  PROVE  IInv'
<1>. USE DEF IInv, caller
<1>m. /\ m \in sent /\ m \in Message /\ m.call \in Calls /\ m \notin executed
      /\ m.key = key[m.call] /\ m.payload = payload[m.call]
  BY DEF TypeOK, StoreIsKeyed, RequestsAreFixed, RequestOf, Message
<1>r. reply' \in [Calls -> Replies \cup {None}]
  BY <1>m DEF TypeOK, Answer
<1>e. executed \subseteq executed' /\ executed' \subseteq executed \cup {m}
  OBVIOUS
<1>1. TypeOK'
  BY <1>m, <1>r, <1>e DEF TypeOK
<1>2. RequestsAreFixed'
  BY DEF RequestsAreFixed, RequestOf
<1>3. KeysAreFixed'
  BY DEF KeysAreFixed, Write, idempotency_required
<1>4. Budget'
  BY DEF Budget, AttemptsLeft, MaxAttempts
<1>5. StoreIsKeyed'
  BY <1>m, <1>e DEF StoreIsKeyed, SameKey
<1>f. \A c \in Calls : (Fresh(c) => Fresh(c)') /\ (Replay(c) => Replay(c)')
  BY <1>e DEF Fresh, Replay
<1>6. RepliesAreTrue'
  <2>. SUFFICES ASSUME NEW c \in Calls
                PROVE  /\ reply'[c] # None => pc[c] = "waiting"
                       /\ reply'[c] = "ok" => Fresh(c)'
                       /\ reply'[c] = "replayed" => Replay(c)'
                       /\ reply'[c] = "conflict409" => key[c] # <<c, 0>>
    BY DEF RepliesAreTrue
  <2>1. CASE reply'[c] = reply[c]
    BY <2>1, <1>f DEF RepliesAreTrue
  <2>2. CASE reply'[c] # reply[c]
    <3>1. PICK r \in Replies :
            /\ Answer(m, r)
            /\ r = "ok" => executed' = executed \cup {m}
            /\ r = "replayed" => \E e \in SameKey(m) : e.payload = m.payload
            /\ r = "conflict409" => \E e \in SameKey(m) : e.payload # m.payload
      BY <2>2
    <3>2. /\ c = m.call /\ pc[c] = "waiting" /\ attempt[c] = m.attempt /\ reply'[c] = r
      BY <2>2, <3>1, <1>m DEF Answer, TypeOK
    <3>3. ASSUME r = "ok" PROVE Fresh(c)'
      BY <3>1, <3>2, <3>3 DEF Fresh
    <3>4. ASSUME r = "replayed" PROVE Replay(c)'
      <4>1. PICK e \in SameKey(m) : e.payload = m.payload
        BY <3>1, <3>4
      <4>2. /\ e \in executed /\ e.key = key[c] /\ e.key # None /\ e.payload = payload[c]
            /\ e \in sent
        BY <4>1, <1>m, <3>2 DEF SameKey, TypeOK
      <4>3. <<e.call, e.attempt>> # <<c, attempt[c]>>
        BY <4>2, <3>2, <1>m DEF RequestsAreFixed
      <4>. QED BY <4>2, <4>3, <1>e DEF Replay
    <3>5. ASSUME r = "conflict409" PROVE key[c] # <<c, 0>>
      <4>. SUFFICES ASSUME key[c] = <<c, 0>> PROVE FALSE
        OBVIOUS
      <4>1. PICK e \in SameKey(m) : e.payload # m.payload
        BY <3>1, <3>5
      <4>2. e \in sent /\ e.call \in Calls /\ key[e.call] = <<c, 0>> /\ e.payload = payload[e.call]
        BY <4>1, <1>m, <3>2 DEF SameKey, TypeOK, Message, RequestsAreFixed, RequestOf
      <4>3. <<c, 0>> \notin CallerKeys
        BY DEF MintedKeys
      <4>4. <<c, 0>> = <<e.call, 0>>
        BY <4>2, <4>3 DEF KeysAreFixed, RequestsAreFixed, Keys, MintedKeys
      <4>. QED BY <4>1, <4>2, <4>4, <1>m, <3>2
    <3>. QED BY <3>2, <3>3, <3>4, <3>5
  <2>. QED BY <2>1, <2>2
<1>7. EndsAreTrue'
  BY <1>f DEF EndsAreTrue
<1>. QED BY <1>1, <1>2, <1>3, <1>4, <1>5, <1>6, <1>7

LEMMA ServerIInv ==
  ASSUME IInv, NEW m \in wire, ServerHandles(m) \/ LoseRequest(m)
  PROVE  IInv'
<1>1. CASE LoseRequest(m)
  BY <1>1, WireIInv DEF LoseRequest
<1>2. CASE ServerHandles(m)
  <2>1. CASE ServerExecutes(m)
    BY <1>2, <2>1, WireIInv DEF ServerHandles, ServerExecutes
  <2>2. CASE ServerReplays(m)
    BY <1>2, <2>2, WireIInv DEF ServerHandles, ServerReplays
  <2>3. CASE ServerConflicts(m)
    BY <1>2, <2>3, WireIInv DEF ServerHandles, ServerConflicts
  <2>4. CASE ServerRefuses(m)
    BY <1>2, <2>4, WireIInv DEF ServerHandles, ServerRefuses
  <2>. QED BY <1>2, <2>1, <2>2, <2>3, <2>4 DEF ServerHandles
<1>. QED BY <1>1, <1>2

LEMMA StepIInv == IInv /\ [Next]_vars => IInv'
<1>. SUFFICES ASSUME IInv, [Next]_vars PROVE IInv'
  OBVIOUS
<1>1. CASE UNCHANGED vars
  BY <1>1 DEF vars, caller, network, IInv, TypeOK, RequestsAreFixed, RequestOf, KeysAreFixed,
              Budget, AttemptsLeft, MaxAttempts, StoreIsKeyed, RepliesAreTrue, EndsAreTrue,
              Fresh, Replay, Write, idempotency_required
<1>. QED
  BY <1>1, ExecuteIInv, AttemptIInv, TransportFailureIInv, ReceiveIInv, ServerIInv DEF Next

-----------------------------------------------------------------------------
\* The state execute and its proof metadata can be in is well-formed.
THEOREM TypeCorrect == Spec => []TypeOK
<1>1. IInv => TypeOK
  BY DEF IInv
<1>. QED BY <1>1, InitIInv, StepIInv, PTL DEF Spec

\* A retried write takes effect at most once, and an operation that must not be
\* retried is sent at most once.
THEOREM AtMostOnce == Spec => []WriteExecutedOnce
<1>1. IInv => WriteExecutedOnce
  <2>. SUFFICES ASSUME IInv PROVE WriteExecutedOnce
    OBVIOUS
  <2>. USE DEF IInv, TypeOK, RequestsAreFixed
  <2>1. ASSUME NEW m \in executed, NEW n \in executed, m.call = n.call, Write(m.call)
        PROVE  m = n
    <3>1. m.call \in Calls /\ m.key = key[m.call] /\ n.key = key[m.call]
      BY <2>1 DEF Message, RequestOf
    <3>2. key[m.call] # None
      BY <2>1, <3>1 DEF KeysAreFixed
    <3>. QED BY <2>1, <3>1, <3>2 DEF StoreIsKeyed
  <2>2. ASSUME NEW m \in sent, NEW n \in sent, m.call = n.call,
               retry_policy[m.call] = "NO_RETRY"
        PROVE  m = n
    <3>1. m.call \in Calls /\ attempt[m.call] \in Nat /\ attempt[m.call] <= 1
      BY <2>2 DEF Message, Budget, MaxAttempts
    <3>2. m.attempt = 1 /\ n.attempt = 1
      BY <2>2, <3>1
    <3>. QED BY <2>2, <3>2
  <2>. QED BY <2>1, <2>2 DEF WriteExecutedOnce
<1>. QED BY <1>1, InitIInv, StepIInv, PTL DEF Spec

\* A success execute returns is true: EXECUTED only for an effect of the attempt
\* that was answered, REPLAYED only for an earlier identical request.
THEOREM ReportedSuccessIsTrue == Spec => []SuccessIsTrue
<1>1. IInv => SuccessIsTrue
  BY DEF IInv, EndsAreTrue, SuccessIsTrue, Fresh, Replay
<1>. QED BY <1>1, InitIInv, StepIInv, PTL DEF Spec

\* Two calls whose keys the transport minted never meet at the server.
THEOREM MintedKeysNeverCollide == Spec => []MintedKeysAreOwn
<1>1. IInv => MintedKeysAreOwn
  <2>. SUFFICES ASSUME IInv, NEW c \in Calls, key[c] = <<c, 0>>
                PROVE  /\ observation[c] # "CONFLICT"
                       /\ \A m \in executed : m.key = key[c] => m.call = c
    BY DEF MintedKeysAreOwn, generate_idempotency_key
  <2>1. observation[c] # "CONFLICT"
    BY DEF IInv, EndsAreTrue
  <2>2. ASSUME NEW m \in executed, m.key = key[c]
        PROVE  m.call = c
    <3>1. m.call \in Calls /\ key[m.call] = <<c, 0>> /\ pc[m.call] # "idle"
      BY <2>2 DEF IInv, TypeOK, Message, RequestsAreFixed, RequestOf
    <3>2. <<c, 0>> \notin CallerKeys /\ <<c, 0>> # None
      BY DEF MintedKeys, Keys
    <3>. QED BY <3>1, <3>2 DEF IInv, KeysAreFixed
  <2>. QED BY <2>1, <2>2
<1>. QED BY <1>1, InitIInv, StepIInv, PTL DEF Spec
-----------------------------------------------------------------------------
\* No attempt of a call has been counted without its request.
EveryAttemptWasSent ==
  \A c \in Calls : \A i \in 1..attempt[c] : \E m \in sent : m.call = c /\ m.attempt = i

LEMMA StepEveryAttemptWasSent ==
  ASSUME IInv, EveryAttemptWasSent, [Next]_vars
  PROVE  EveryAttemptWasSent'
<1>1. CASE UNCHANGED <<attempt, sent>>
  BY <1>1 DEF EveryAttemptWasSent
<1>2. ASSUME NEW c \in Calls, Attempt(c)
      PROVE  EveryAttemptWasSent'
  <2>. DEFINE m == RequestOf(c, attempt[c] + 1)
  <2>1. /\ attempt' = [attempt EXCEPT ![c] = attempt[c] + 1] /\ sent' = sent \cup {m}
        /\ attempt \in [Calls -> Nat] /\ m.call = c /\ m.attempt = attempt[c] + 1
    BY <1>2 DEF Attempt, IInv, TypeOK, RequestOf
  <2>. SUFFICES ASSUME NEW d \in Calls, NEW i \in 1..attempt'[d]
                PROVE  \E n \in sent' : n.call = d /\ n.attempt = i
    BY DEF EveryAttemptWasSent
  <2>2. CASE d = c /\ i = attempt[c] + 1
    BY <2>1, <2>2
  <2>3. CASE ~(d = c /\ i = attempt[c] + 1)
    <3>1. i \in 1..attempt[d]
      BY <2>1, <2>3
    <3>. QED BY <3>1, <2>1 DEF EveryAttemptWasSent
  <2>. QED BY <2>2, <2>3
<1>3. UNCHANGED <<attempt, sent>> \/ \E c \in Calls : Attempt(c)
  BY DEF Next, vars, caller, network, Execute, TransportFailure, Receive, EndOfAttempt,
         ReceiveConflict, ReceiveRateLimit, ReceiveRetryable, ReceiveServerError,
         ReceiveClientError, ReceiveSuccess, ServerHandles, LoseRequest
<1>. QED BY <1>1, <1>2, <1>3

\* proof.attempt_count tells exactly how many requests of a call were sent, and
\* the loop keeps to its budget, for any number of retries.
THEOREM AttemptsAreCounted == Spec => []BoundedAttempts
<1>1. Init => EveryAttemptWasSent
  BY DEF Init, EveryAttemptWasSent
<1>2. IInv /\ EveryAttemptWasSent => BoundedAttempts
  <2>. SUFFICES ASSUME IInv, EveryAttemptWasSent, NEW c \in Calls
                PROVE  /\ {m.attempt : m \in {n \in sent : n.call = c}} = 1..attempt[c]
                       /\ attempt[c] <= MaxAttempts(retry_policy[c])
    BY DEF BoundedAttempts
  <2>1. \A m \in sent : m.call = c => m.attempt \in 1..attempt[c]
    BY DEF IInv, RequestsAreFixed
  <2>2. \A i \in 1..attempt[c] : \E m \in sent : m.call = c /\ m.attempt = i
    BY DEF EveryAttemptWasSent
  <2>3. attempt[c] <= MaxAttempts(retry_policy[c])
    BY DEF IInv, Budget
  <2>. QED BY <2>1, <2>2, <2>3
<1>3. IInv /\ EveryAttemptWasSent /\ [Next]_vars => EveryAttemptWasSent'
  BY StepEveryAttemptWasSent
<1>. QED BY <1>1, <1>2, <1>3, InitIInv, StepIInv, PTL DEF Spec

-----------------------------------------------------------------------------
(* GovernedTransport implements IdempotentWrite.  What callers see changes *)
(* when execute begins, when the server executes a request and when        *)
(* execute ends; the rest is the transport's own.                          *)

\* Effects are counted, so there must be finitely many of them.
StoreIsFinite == IsFiniteSet(executed)

Executions(c) == {m \in executed : m.call = c}

LEMMA StepStoreIsFinite == StoreIsFinite /\ [Next]_vars => StoreIsFinite'
<1>. SUFFICES ASSUME StoreIsFinite, [Next]_vars PROVE StoreIsFinite'
  OBVIOUS
<1>1. executed' = executed \/ \E m \in wire : executed' = executed \cup {m}
  BY DEF Next, vars, caller, network, Execute, Attempt, TransportFailure, Receive, EndOfAttempt,
         ReceiveConflict, ReceiveRateLimit, ReceiveRetryable, ReceiveServerError,
         ReceiveClientError, ReceiveSuccess, ServerHandles, ServerExecutes, ServerReplays,
         ServerConflicts, ServerRefuses, LoseRequest
<1>. QED BY <1>1, FS_AddElement DEF StoreIsFinite

\* How often a call has taken effect, before and after a request is executed.
LEMMA ExecutionsCounted ==
  ASSUME StoreIsFinite, NEW c \in Calls
  PROVE  /\ Cardinality(Executions(c)) \in Nat
         /\ Cardinality(Executions(c)) = 0 <=> Executions(c) = {}
<1>1. IsFiniteSet(Executions(c))
  BY FS_Subset DEF StoreIsFinite, Executions
<1>. QED BY <1>1, FS_CardinalityType, FS_EmptySet

LEMMA ExecutionIsCounted ==
  ASSUME StoreIsFinite, NEW m, m \notin executed, executed' = executed \cup {m}, NEW c \in Calls
  PROVE  Cardinality(Executions(c)') =
           IF c = m.call THEN Cardinality(Executions(c)) + 1 ELSE Cardinality(Executions(c))
<1>1. IsFiniteSet(Executions(c)) /\ m \notin Executions(c)
  BY FS_Subset DEF StoreIsFinite, Executions
<1>2. CASE c = m.call
  <2>1. Executions(c)' = Executions(c) \cup {m}
    BY <1>2 DEF Executions
  <2>. QED BY <1>1, <1>2, <2>1, FS_AddElement
<1>3. CASE c # m.call
  <2>1. Executions(c)' = Executions(c)
    BY <1>3 DEF Executions
  <2>. QED BY <1>3, <2>1
<1>. QED BY <1>2, <1>3

\* The server executes only what no call of the same key has had executed.
LEMMA ExecutesTakesEffect ==
  ASSUME IInv, StoreIsFinite, NEW m \in wire, ServerHandles(m), ServerExecutes(m)
  PROVE  \E c \in Calls : Abstract!TakeEffect(c)
<1>1. /\ m \notin executed /\ m.call \in Calls /\ pc[m.call] # "idle" /\ m.key = key[m.call]
      /\ executed' = executed \cup {m} /\ UNCHANGED caller
      /\ SameKey(m) = {}
  BY DEF ServerHandles, ServerExecutes, IInv, TypeOK, Message, StoreIsKeyed, RequestsAreFixed,
         RequestOf
<1>. DEFINE c == m.call
            effects == [d \in Calls |-> Cardinality({n \in executed : n.call = d})]
<1>2. ASSUME key[c] # None, NEW d \in Calls, key[d] = key[c]
      PROVE  effects[d] = 0
  <2>1. \A n \in executed : n.key = key[n.call]
    BY DEF IInv, TypeOK, RequestsAreFixed, RequestOf
  <2>2. Executions(d) = {}
    BY <1>1, <1>2, <2>1 DEF Executions, SameKey
  <2>. QED BY <2>2, ExecutionsCounted DEF Executions
<1>3. effects' = [effects EXCEPT ![c] = effects[c] + 1]
  <2>1. \A d \in Calls : Cardinality(Executions(d)') =
          IF d = c THEN Cardinality(Executions(d)) + 1 ELSE Cardinality(Executions(d))
    BY <1>1, ExecutionIsCounted
  <2>2. \A d \in Calls : effects'[d] = IF d = c THEN effects[d] + 1 ELSE effects[d]
    BY <2>1 DEF Executions
  <2>. QED BY <1>1, <2>2
<1>4. UNCHANGED <<pc, retry_policy, key, end, observation>>
  BY <1>1 DEF caller
<1>5. /\ UNCHANGED [d \in Calls |-> idempotency_required(d)]
      /\ UNCHANGED [d \in Calls |-> pc[d] # "idle"]
      /\ UNCHANGED [d \in Calls |-> resultOf(d)]
  BY <1>4 DEF idempotency_required, resultOf
<1>. QED BY <1>1, <1>2, <1>3, <1>4, <1>5 DEF Abstract!TakeEffect

\* What callers see of a step that executes nothing.
LEMMA EffectsUnchanged ==
  ASSUME executed' = executed
  PROVE  UNCHANGED [d \in Calls |-> Cardinality({n \in executed : n.call = d})]
  OBVIOUS

LEMMA ExecuteBegins ==
  ASSUME IInv, NEW c \in Calls, Execute(c)
  PROVE  Abstract!Begin(c)
<1>1. PICK supplied \in CallerKeys \cup {None} :
        key' = [key EXCEPT ![c] =
                  IF supplied = None /\ idempotency_required(c)
                  THEN generate_idempotency_key(c, 0)
                  ELSE supplied]
  BY DEF Execute
<1>. DEFINE i == IF supplied = None /\ idempotency_required(c)
                 THEN generate_idempotency_key(c, 0)
                 ELSE supplied
<1>2. i \in Keys \cup {None} /\ (idempotency_required(c) => i # None)
  BY DEF Keys, MintedKeys, generate_idempotency_key
<1>3. /\ pc[c] = "idle" /\ pc' = [pc EXCEPT ![c] = "ready"]
      /\ pc \in [Calls -> {"idle", "ready", "waiting", "done"}]
      /\ UNCHANGED <<retry_policy, executed, end, observation>>
  BY DEF Execute, IInv, TypeOK
<1>4. [d \in Calls |-> pc'[d] # "idle"] = [[d \in Calls |-> pc[d] # "idle"] EXCEPT ![c] = TRUE]
  BY <1>3
<1>5. /\ UNCHANGED [d \in Calls |-> idempotency_required(d)]
      /\ UNCHANGED [d \in Calls |-> resultOf(d)]
  BY <1>3 DEF idempotency_required, resultOf
<1>. QED BY <1>1, <1>2, <1>3, <1>4, <1>5, EffectsUnchanged DEF Abstract!Begin

\* An attempt, and an iteration that goes on to the next one, are not seen.
LEMMA SameView ==
  ASSUME UNCHANGED <<retry_policy, key, end, observation, executed>>,
         \A c \in Calls : (pc'[c] = "idle") <=> (pc[c] = "idle")
  PROVE  UNCHANGED Abstract!writeVars
<1>1. /\ UNCHANGED [d \in Calls |-> idempotency_required(d)]
      /\ UNCHANGED [d \in Calls |-> resultOf(d)]
  BY DEF idempotency_required, resultOf
<1>2. UNCHANGED [d \in Calls |-> pc[d] # "idle"]
  OBVIOUS
<1>. QED BY <1>1, <1>2, EffectsUnchanged DEF Abstract!writeVars

\* execute ends: the caller is told of success only by a result that is true.
LEMMA FinishReports ==
  ASSUME IInv, StoreIsFinite, NEW c \in Calls, EndOfAttempt(c),
         NEW obs \in Observations, NEW how \in Ends, Finish(c, obs, how),
         how = "TransportResult" /\ obs = "EXECUTED" => Fresh(c),
         how = "TransportResult" /\ obs = "REPLAYED" => Replay(c)
  PROVE  \E r \in {"executed", "replayed", "gave_up"} : Abstract!Report(c, r)
<1>. DEFINE r == IF how = "TransportResult" /\ obs = "EXECUTED" THEN "executed"
                 ELSE IF how = "TransportResult" /\ obs = "REPLAYED" THEN "replayed"
                 ELSE "gave_up"
<1>1. /\ pc[c] = "waiting" /\ pc' = [pc EXCEPT ![c] = "done"]
      /\ pc \in [Calls -> {"idle", "ready", "waiting", "done"}]
      /\ observation' = [observation EXCEPT ![c] = obs] /\ end' = [end EXCEPT ![c] = how]
      /\ observation \in [Calls -> Observations \cup {None}]
      /\ end \in [Calls -> Ends \cup {None}]
      /\ end[c] = None
      /\ UNCHANGED <<retry_policy, key, executed>>
  BY DEF EndOfAttempt, Finish, IInv, TypeOK, EndsAreTrue
<1>2. resultOf(c) = "pending" /\ resultOf(c)' = r
  BY <1>1 DEF resultOf
<1>3. [d \in Calls |-> resultOf(d)]' = [[d \in Calls |-> resultOf(d)] EXCEPT ![c] = r]
  <2>1. \A d \in Calls \ {c} : resultOf(d)' = resultOf(d)
    BY <1>1 DEF resultOf
  <2>. QED BY <1>2, <2>1
<1>4. r = "executed" => Cardinality({m \in executed : m.call = c}) > 0
  <2>1. r = "executed" => Executions(c) # {}
    BY DEF Fresh, Executions
  <2>. QED BY <2>1, ExecutionsCounted DEF Executions
<1>5. r = "replayed" =>
        \E d \in Calls : key[d] = key[c] /\ Cardinality({m \in executed : m.call = d}) > 0
  <2>. SUFFICES ASSUME r = "replayed"
                PROVE  \E d \in Calls : /\ key[d] = key[c]
                                        /\ Cardinality({m \in executed : m.call = d}) > 0
    OBVIOUS
  <2>1. PICK m \in executed : m.key = key[c]
    BY DEF Replay
  <2>2. m.call \in Calls /\ m.key = key[m.call]
    BY DEF IInv, TypeOK, Message, RequestsAreFixed, RequestOf
  <2>3. Executions(m.call) # {}
    BY DEF Executions
  <2>. QED BY <2>1, <2>2, <2>3, ExecutionsCounted DEF Executions
<1>6. /\ UNCHANGED [d \in Calls |-> idempotency_required(d)]
      /\ UNCHANGED [d \in Calls |-> pc[d] # "idle"]
  BY <1>1 DEF idempotency_required
<1>7. r \in {"executed", "replayed", "gave_up"}
  OBVIOUS
<1>. HIDE DEF r
<1>8. Abstract!Report(c, r)
  BY <1>1, <1>2, <1>3, <1>4, <1>5, <1>6, EffectsUnchanged DEF Abstract!Report
<1>. QED BY <1>7, <1>8

\* However an attempt ends, the call goes on unseen or reports.
LEMMA EndOfAttemptRefines ==
  ASSUME IInv, StoreIsFinite, NEW c \in Calls, TransportFailure(c) \/ Receive(c)
  PROVE  [Abstract!WriteNext]_(Abstract!writeVars)
<1>1. EndOfAttempt(c)
  BY DEF TransportFailure, Receive, ReceiveConflict, ReceiveRateLimit, ReceiveRetryable,
         ReceiveServerError, ReceiveClientError, ReceiveSuccess
<1>2. \/ Retry(c)
      \/ \E obs \in Observations, how \in Ends :
           /\ Finish(c, obs, how)
           /\ how = "TransportResult" /\ obs = "EXECUTED" => reply[c] = "ok"
           /\ how = "TransportResult" /\ obs = "REPLAYED" => reply[c] = "replayed"
  BY DEF TransportFailure, Receive, ReceiveConflict, ReceiveRateLimit, ReceiveRetryable,
         ReceiveServerError, ReceiveClientError, ReceiveSuccess
<1>3. CASE Retry(c)
  BY <1>1, <1>3, SameView DEF Retry, EndOfAttempt, IInv, TypeOK
<1>4. ASSUME NEW obs \in Observations, NEW how \in Ends, Finish(c, obs, how),
             how = "TransportResult" /\ obs = "EXECUTED" => reply[c] = "ok",
             how = "TransportResult" /\ obs = "REPLAYED" => reply[c] = "replayed"
      PROVE  Abstract!WriteNext
  <2>1. /\ how = "TransportResult" /\ obs = "EXECUTED" => Fresh(c)
        /\ how = "TransportResult" /\ obs = "REPLAYED" => Replay(c)
    BY <1>4 DEF IInv, RepliesAreTrue
  <2>. QED BY <1>1, <1>4, <2>1, FinishReports DEF Abstract!WriteNext
<1>. QED BY <1>2, <1>3, <1>4

LEMMA StepRefines ==
  IInv /\ StoreIsFinite /\ [Next]_vars => [Abstract!WriteNext]_(Abstract!writeVars)
<1>. SUFFICES ASSUME IInv, StoreIsFinite, [Next]_vars
              PROVE  [Abstract!WriteNext]_(Abstract!writeVars)
  OBVIOUS
<1>1. ASSUME NEW c \in Calls, Execute(c)
      PROVE  Abstract!WriteNext
  BY <1>1, ExecuteBegins DEF Abstract!WriteNext
<1>2. ASSUME NEW c \in Calls, Attempt(c)
      PROVE  UNCHANGED Abstract!writeVars
  BY <1>2, SameView DEF Attempt, IInv, TypeOK
<1>3. ASSUME NEW m \in wire, ServerHandles(m), ServerExecutes(m)
      PROVE  Abstract!WriteNext
  BY <1>3, ExecutesTakesEffect DEF Abstract!WriteNext
<1>4. ASSUME NEW m \in wire, UNCHANGED <<caller, executed>>
      PROVE  UNCHANGED Abstract!writeVars
  BY <1>4, SameView DEF caller
<1>5. CASE UNCHANGED vars
  BY <1>5, SameView DEF vars, caller
<1>6. ASSUME NEW m \in wire, ServerHandles(m) \/ LoseRequest(m)
      PROVE  (ServerHandles(m) /\ ServerExecutes(m)) \/ UNCHANGED <<caller, executed>>
  BY <1>6 DEF ServerHandles, LoseRequest, ServerReplays, ServerConflicts, ServerRefuses
<1>. QED BY <1>1, <1>2, <1>3, <1>4, <1>5, <1>6, EndOfAttemptRefines DEF Next

\* What callers of execute see is a step of IdempotentWrite: one effect per key
\* and success only where there was one, for any number of calls, retries, lost
\* replies and late requests.
THEOREM TransportImplementsIdempotentWrite == Spec => ImplementsIdempotentWrite
<1>1. Init => Abstract!WriteInit
  <2>1. Init => \A c \in Calls : {m \in executed : m.call = c} = {}
    BY DEF Init
  <2>2. Init => [c \in Calls |-> Cardinality({m \in executed : m.call = c})] = [c \in Calls |-> 0]
    BY <2>1, FS_EmptySet
  <2>3. Init => /\ [c \in Calls |-> idempotency_required(c)] \in [Calls -> BOOLEAN]
                /\ [c \in Calls |-> pc[c] # "idle"] = [c \in Calls |-> FALSE]
                /\ [c \in Calls |-> resultOf(c)] = [c \in Calls |-> "pending"]
                /\ key = [c \in Calls |-> None]
    BY DEF Init, idempotency_required, resultOf
  <2>. QED BY <2>2, <2>3 DEF Abstract!WriteInit
<1>2. Init => StoreIsFinite
  BY FS_EmptySet DEF Init, StoreIsFinite
<1>. QED
  BY <1>1, <1>2, InitIInv, StepIInv, StepStoreIsFinite, StepRefines, PTL
     DEF Spec, ImplementsIdempotentWrite, Abstract!WriteSpec
-----------------------------------------------------------------------------
(* The local runtime.  A command that is busy has lived through the state   *)
(* services is in; so an answer, or none, that it met without a fault is    *)
(* one of a state it lived through.                                         *)

LocalPlaces == {"idle", "doctor", "reach", "identity", "healthz", "up", "wait",
                "ps", "down", "done"}
Outcomes == {"none", "unsupported", "unreachable", "started", "reachable",
             "healthz_only", "first_success", "failed", "raised", "unhealthy",
             "already_stopped", "stopped"}

LocalTypeOK ==
  /\ does \in [Shells -> {"start", "stop", "status", "smoke"}]
  /\ services \in {"down", "starting", "up"} /\ foreign \in BOOLEAN
  /\ faults \in Nat
  /\ local \in [Shells -> [at : LocalPlaces, polls : Nat, identity : BOOLEAN,
                           result : Outcomes, faulted : BOOLEAN]]
  /\ lived \in [Shells -> SUBSET {"down", "starting", "up"}]

\* What one command saw, in the states s it lived through.
Seen(l, s) ==
  /\ l.at = "done" \/ l.result = "none"
  /\ l.at \in {"identity", "healthz"} /\ ~foreign =>
       (l.at = "identity" \/ l.identity => "up" \in s)
  /\ l.at = "healthz" /\ ~l.identity /\ ~l.faulted /\ ~foreign =>
       s \cap {"down", "starting"} # {}
  /\ l.at \in {"up", "wait"} /\ ~l.faulted /\ ~foreign =>
       s \cap {"down", "starting"} # {}
  /\ l.result \in {"started", "reachable", "healthz_only", "first_success"} /\ ~foreign =>
       "up" \in s
  /\ l.result \in {"stopped", "already_stopped"} /\ ~l.faulted => "down" \in s
  /\ l.result \in {"unreachable", "unhealthy", "failed"} /\ ~l.faulted /\ ~foreign =>
       s \cap {"down", "starting"} # {}

\* Where a command may be.
Course(p, l) ==
  /\ l.at \in {"up", "wait"} => does[p] = "start"
  /\ l.at \in {"reach", "identity"} => does[p] # "stop"
  /\ l.at \in {"doctor", "healthz"} => does[p] = "smoke"

LocalInv ==
  /\ LocalTypeOK
  /\ \A p \in Shells :
       /\ Seen(local[p], lived[p]) /\ Course(p, local[p])
       /\ Busy(p) => services \in lived[p]

USE LocalRuntimeAssumption

Locals == [at : LocalPlaces, polls : Nat, identity : BOOLEAN,
           result : Outcomes, faulted : BOOLEAN]
States == {"down", "starting", "up"}

\* What a command saw stays seen.
LEMMA SeenGrows ==
  ASSUME NEW l, NEW s, NEW t, s \subseteq t, Seen(l, s)
  PROVE  Seen(l, t)
  BY DEF Seen

LEMMA LocalBegins == LocalInit => LocalInv
  <1> SUFFICES ASSUME LocalInit PROVE LocalInv
    OBVIOUS
  <1>1. NothingSeen \in Locals
    BY DEF NothingSeen, Locals, LocalPlaces, Outcomes
  <1>2. LocalTypeOK
    BY <1>1 DEF LocalInit, LocalTypeOK, Locals
  <1>. QED
    BY <1>2 DEF LocalInit, LocalInv, NothingSeen, Seen, Course, Busy

\* Whatever happens to services, what a busy command lives through grows, and the
\* others keep what they saw.
LEMMA OthersLiveOn ==
  ASSUME LocalInv, services' \in States, Lived(services'), UNCHANGED <<does, foreign>>,
         NEW q \in Shells, local'[q] = local[q]
  PROVE  /\ lived'[q] \in SUBSET States
         /\ Seen(local[q], lived[q])' /\ Course(q, local[q])'
         /\ Busy(q)' => services' \in lived'[q]
  <1>1. lived[q] \subseteq lived'[q] /\ lived'[q] \in SUBSET States
    BY DEF LocalInv, LocalTypeOK, Lived, States
  <1>2. Seen(local[q], lived[q]) /\ Course(q, local[q])
    BY DEF LocalInv
  <1>3. Seen(local[q], lived'[q])
    BY <1>1, <1>2, SeenGrows
  <1>4. Seen(local[q], lived[q])'
    BY <1>3 DEF Seen
  <1>5. Course(q, local[q])'
    BY <1>2 DEF Course
  <1>6. Busy(q)' => services' \in lived'[q]
    BY DEF Busy, Lived
  <1>. QED
    BY <1>1, <1>4, <1>5, <1>6

LEMMA ServicesMove ==
  ASSUME LocalInv, services' \in States, Lived(services'),
         UNCHANGED <<does, foreign, local>>, faults' \in Nat
  PROVE  LocalInv'
  <1>1. \A q \in Shells : /\ lived'[q] \in SUBSET States
                          /\ Seen(local[q], lived[q])' /\ Course(q, local[q])'
                          /\ Busy(q)' => services' \in lived'[q]
    BY OthersLiveOn
  <1>2. LocalTypeOK'
    BY <1>1 DEF LocalInv, LocalTypeOK, Lived, States
  <1>. QED
    BY <1>1, <1>2 DEF LocalInv

\* A command that is busy goes on, and services with it or not.
LEMMA CommandGoesOn ==
  ASSUME LocalInv, NEW p \in Shells, NEW l \in Locals, Busy(p),
         local' = [local EXCEPT ![p] = l], faults' \in Nat,
         services' \in States, Lived(services'), UNCHANGED <<does, foreign>>,
         Seen(l, lived[p] \cup {services'}), Course(p, l)
  PROVE  LocalInv'
  <1>1. \A q \in Shells \ {p} : local'[q] = local[q]
    BY DEF LocalInv, LocalTypeOK
  <1>2. \A q \in Shells \ {p} : /\ lived'[q] \in SUBSET States
                                /\ Seen(local[q], lived[q])' /\ Course(q, local[q])'
                                /\ Busy(q)' => services' \in lived'[q]
    BY <1>1, OthersLiveOn
  <1>3. local'[p] = l /\ lived'[p] = lived[p] \cup {services'}
    BY DEF LocalInv, LocalTypeOK, Lived
  <1>4. lived'[p] \in SUBSET States
    BY <1>3 DEF LocalInv, LocalTypeOK, States
  <1>5. Seen(local[p], lived[p])' /\ Course(p, local[p])'
    BY <1>3 DEF Seen, Course
  <1>6. LocalTypeOK'
    BY <1>2, <1>4 DEF LocalInv, LocalTypeOK, Lived, States, Locals
  <1>. QED
    BY <1>2, <1>3, <1>5, <1>6 DEF LocalInv

LEMMA CommandGoesOnStaying ==
  ASSUME LocalInv, NEW p \in Shells, NEW l \in Locals, Busy(p),
         local' = [local EXCEPT ![p] = l], faults' \in Nat, Stays,
         UNCHANGED <<does, foreign>>, Seen(l, lived[p]), Course(p, l)
  PROVE  LocalInv'
  <1>1. lived[p] \cup {services'} = lived[p] /\ services' \in States
    BY DEF LocalInv, LocalTypeOK, Stays, States
  <1>2. Lived(services')
    BY DEF Stays, Lived
  <1>. QED
    BY <1>1, <1>2, CommandGoesOn

\* A probe, by what it meets.
LEMMA ProbeKeeps ==
  ASSUME LocalInv, NEW p \in Shells, Busy(p), NEW yes \in Locals, NEW no \in Locals,
         Probe(p, yes, no), Stays, UNCHANGED <<does, foreign>>,
         Course(p, yes), Course(p, no),
         services = "up" \/ foreign => /\ Seen(yes, lived[p])
                                       /\ Seen([no EXCEPT !.faulted = TRUE], lived[p]),
         services \in {"down", "starting"} /\ ~foreign => Seen(no, lived[p])
  PROVE  LocalInv'
  <1>1. faults \in Nat /\ services \in States
    BY DEF LocalInv, LocalTypeOK, States
  <1>2. CASE Answering /\ Step(p, yes)
    BY <1>1, <1>2, CommandGoesOnStaying DEF Answering, Step
  <1>3. CASE ~Answering /\ Step(p, no)
    BY <1>1, <1>3, CommandGoesOnStaying DEF Answering, Step, States
  <1>4. CASE Answering /\ Fault(p, no)
    <2>1. [no EXCEPT !.faulted = TRUE] \in Locals
      BY DEF Locals
    <2>2. Course(p, [no EXCEPT !.faulted = TRUE])
      BY DEF Course, Locals
    <2>3. PICK l : l = [no EXCEPT !.faulted = TRUE]
      OBVIOUS
    <2>4. local' = [local EXCEPT ![p] = l] /\ faults' \in Nat
      BY <1>1, <1>4, <2>3 DEF Fault
    <2>5. Seen(l, lived[p])
      BY <1>4, <2>3 DEF Answering
    <2>. QED
      BY <2>1, <2>2, <2>3, <2>4, <2>5, CommandGoesOnStaying
  <1>. QED
    BY <1>2, <1>3, <1>4 DEF Probe

\* The places a busy command goes to, and its reports.
LEMMA PlacesAndReports ==
  ASSUME LocalInv, NEW p \in Shells
  PROVE  /\ local[p] \in Locals
         /\ \A place \in LocalPlaces :
              /\ Place(p, place) \in Locals
              /\ Place(p, place).at = place
              /\ Place(p, place).result = local[p].result
              /\ Place(p, place).faulted = local[p].faulted
              /\ Place(p, place).identity = local[p].identity
         /\ \A outcome \in Outcomes :
              /\ Report(p, outcome) \in Locals
              /\ Report(p, outcome).at = "done"
              /\ Report(p, outcome).result = outcome
              /\ Report(p, outcome).faulted = local[p].faulted
  <1>1. local[p] \in Locals
    BY DEF LocalInv, LocalTypeOK, Locals
  <1>2. "done" \in LocalPlaces
    BY DEF LocalPlaces
  <1>. QED
    BY <1>1, <1>2 DEF Locals, Place, Report

\* A fault is remembered.
LEMMA FaultsAreRemembered ==
  ASSUME NEW l \in Locals
  PROVE  /\ [l EXCEPT !.faulted = TRUE] \in Locals
         /\ [l EXCEPT !.faulted = TRUE].at = l.at
         /\ [l EXCEPT !.faulted = TRUE].result = l.result
         /\ [l EXCEPT !.faulted = TRUE].faulted
  BY DEF Locals

\* What is known of a busy command.
LEMMA BusyHasSeen ==
  ASSUME LocalInv, NEW p \in Shells
  PROVE  /\ Seen(local[p], lived[p]) /\ Course(p, local[p])
         /\ Busy(p) => services \in lived[p]
         /\ does[p] \in {"start", "stop", "status", "smoke"}
         /\ services \in States /\ lived[p] \subseteq States
         /\ foreign \in BOOLEAN /\ faults \in Nat
  BY DEF LocalInv, LocalTypeOK, States

LEMMA StartsKeeps == ASSUME LocalInv, NEW p \in Shells, Starts(p) PROVE LocalInv'
  <1> DEFINE l == Place(p, FirstPlaceOf(does[p]))
  <1>1. /\ does[p] \in {"start", "stop", "status", "smoke"}
        /\ FirstPlaceOf(does[p]) \in {"ps", "doctor", "reach"}
        /\ FirstPlaceOf(does[p]) = "reach" => does[p] # "stop"
        /\ FirstPlaceOf(does[p]) = "doctor" => does[p] = "smoke"
    BY BusyHasSeen DEF FirstPlaceOf
  <1>2. l \in Locals /\ l.at \in {"ps", "doctor", "reach"} /\ l.result = "none"
    BY <1>1, PlacesAndReports, BusyHasSeen DEF LocalPlaces, Starts, Seen
  <1>3. Course(p, l)
    BY <1>1, <1>2, PlacesAndReports DEF Course, LocalPlaces
  <1>4. Seen(l, {services})
    BY <1>2 DEF Seen
  <1> HIDE DEF l
  <1>5. local' = [local EXCEPT ![p] = l] /\ UNCHANGED <<does, services, foreign, faults>>
        /\ lived' = [lived EXCEPT ![p] = {services}]
    BY DEF Starts, Step, l
  <1>6. LocalTypeOK'
    BY <1>2, <1>5 DEF LocalInv, LocalTypeOK, Locals
  <1>7. \A q \in Shells :
          /\ Seen(local[q], lived[q])' /\ Course(q, local[q])'
          /\ Busy(q)' => services' \in lived'[q]
    <2> TAKE q \in Shells
    <2>1. CASE q = p
      BY <2>1, <1>2, <1>3, <1>4, <1>5 DEF LocalInv, LocalTypeOK, Seen, Course, Busy
    <2>2. CASE q # p
      BY <2>2, <1>5, BusyHasSeen DEF LocalInv, LocalTypeOK, Seen, Course, Busy
    <2>. QED
      BY <2>1, <2>2
  <1>. QED
    BY <1>6, <1>7 DEF LocalInv

LEMMA DoctorsKeeps == ASSUME LocalInv, NEW p \in Shells, Doctors(p) PROVE LocalInv'
  <1>1. local[p].at = "doctor" /\ Busy(p)
    BY DEF Doctors, Busy
  <1>2. CASE Step(p, Place(p, "reach"))
    <2> PICK l : l = Place(p, "reach")
      OBVIOUS
    <2>1. l \in Locals /\ l.at = "reach" /\ l.result = "none"
      BY <1>1, BusyHasSeen, PlacesAndReports DEF LocalPlaces, Seen
    <2>2. Seen(l, lived[p]) /\ Course(p, l)
      BY <1>1, <2>1, BusyHasSeen DEF Seen, Course
    <2>. QED
      BY <1>1, <1>2, <2>1, <2>2, BusyHasSeen, CommandGoesOnStaying DEF Doctors, Step
  <1>3. CASE Fault(p, Report(p, "unsupported"))
    <2> PICK l : l = [Report(p, "unsupported") EXCEPT !.faulted = TRUE]
      OBVIOUS
    <2>1. l \in Locals /\ l.at = "done" /\ l.result = "unsupported"
      <3>1. "unsupported" \in Outcomes
        BY DEF Outcomes
      <3>. QED
        BY <3>1, PlacesAndReports, FaultsAreRemembered
    <2>2. Seen(l, lived[p]) /\ Course(p, l)
      BY <2>1 DEF Seen, Course
    <2>3. faults' \in Nat /\ local' = [local EXCEPT ![p] = l]
      BY <1>3, BusyHasSeen DEF Fault
    <2>. QED
      BY <1>1, <2>1, <2>2, <2>3, CommandGoesOnStaying DEF Doctors
  <1>. QED
    BY <1>2, <1>3 DEF Doctors

LEMMA ReachesKeeps == ASSUME LocalInv, NEW p \in Shells, Reaches(p) PROVE LocalInv'
  <1>1. /\ local[p].at = "reach" /\ Busy(p) /\ local[p].result = "none"
        /\ does[p] # "stop" /\ services \in lived[p]
    BY BusyHasSeen DEF Reaches, Busy, Seen, Course
  <1>2. PICK yes : yes = Place(p, "identity")
    OBVIOUS
  <1>3. PICK no : no = IF does[p] = "start" THEN Place(p, "up") ELSE Report(p, "unreachable")
    OBVIOUS
  <1>4. yes \in Locals /\ yes.at = "identity" /\ yes.result = "none"
    BY <1>1, <1>2, PlacesAndReports DEF LocalPlaces
  <1>5. /\ no \in Locals
        /\ IF does[p] = "start" THEN no.at = "up" /\ no.result = "none"
           ELSE no.at = "done" /\ no.result = "unreachable"
    BY <1>1, <1>3, PlacesAndReports DEF LocalPlaces, Outcomes
  <1>6. Course(p, yes) /\ Course(p, no)
    BY <1>1, <1>4, <1>5 DEF Course
  <1>7. Probe(p, yes, no) /\ Stays /\ UNCHANGED <<does, foreign>>
    BY <1>2, <1>3 DEF Reaches
  <1>8. services = "up" \/ foreign => Seen(yes, lived[p])
    BY <1>1, <1>4 DEF Seen
  <1>9. Seen([no EXCEPT !.faulted = TRUE], lived[p])
    BY <1>5 DEF Seen, Locals
  <1>10. services \in {"down", "starting"} /\ ~foreign => Seen(no, lived[p])
    BY <1>1, <1>5 DEF Seen
  <1>. QED
    BY <1>1, <1>4, <1>5, <1>6, <1>7, <1>8, <1>9, <1>10, ProbeKeeps

LEMMA AsksIdentityKeeps == ASSUME LocalInv, NEW p \in Shells, AsksIdentity(p) PROVE LocalInv'
  <1>1. /\ local[p].at = "identity" /\ Busy(p) /\ local[p].result = "none"
        /\ does[p] \in {"start", "status", "smoke"} /\ services \in lived[p]
        /\ ~foreign => "up" \in lived[p]
    BY BusyHasSeen DEF AsksIdentity, Busy, Seen, Course
  <1> DEFINE told(known) ==
        IF does[p] = "start" THEN Report(p, "started")
        ELSE IF does[p] = "status"
             THEN Report(p, IF known THEN "reachable" ELSE "healthz_only")
        ELSE [Place(p, "healthz") EXCEPT !.identity = known]
  <1>2. PICK yes, no : yes = told(TRUE) /\ no = told(FALSE)
    OBVIOUS
  <1>3. Probe(p, yes, no) /\ Stays /\ UNCHANGED <<does, foreign>>
    BY <1>1, <1>2 DEF AsksIdentity
  <1> DEFINE r(known) == [Place(p, "healthz") EXCEPT !.identity = known]
  <1>a. /\ r(TRUE) \in Locals /\ r(TRUE).at = "healthz"
        /\ r(TRUE).result = "none" /\ r(TRUE).identity = TRUE
        /\ r(FALSE) \in Locals /\ r(FALSE).at = "healthz"
        /\ r(FALSE).result = "none" /\ r(FALSE).identity = FALSE
    <2>1. "healthz" \in LocalPlaces
      BY DEF LocalPlaces
    <2> PICK l : l = Place(p, "healthz")
      OBVIOUS
    <2>2. l \in Locals /\ l.at = "healthz" /\ l.result = "none"
      BY <1>1, <2>1, PlacesAndReports
    <2>. QED
      BY <2>2 DEF Locals
  <1>b. {"started", "reachable", "healthz_only"} \subseteq Outcomes
    BY DEF Outcomes
  <1>c. \A outcome \in Outcomes : /\ Report(p, outcome) \in Locals
                                 /\ Report(p, outcome).at = "done"
                                 /\ Report(p, outcome).result = outcome
    BY PlacesAndReports
  <1>d. does[p] = "smoke" => yes = r(TRUE) /\ no = r(FALSE)
    BY <1>2
  <1>e. does[p] = "start" => yes = Report(p, "started") /\ no = yes
    BY <1>2
  <1>f. does[p] = "status" => yes = Report(p, "reachable") /\ no = Report(p, "healthz_only")
    BY <1>2
  <1> HIDE DEF told, r
  <1>4. /\ yes \in Locals
        /\ IF does[p] = "smoke" THEN yes.at = "healthz" /\ yes.result = "none" /\ yes.identity
           ELSE yes.at = "done" /\ yes.result \in {"started", "reachable"}
    <2>1. CASE does[p] = "smoke"
      BY <2>1, <1>a, <1>d
    <2>2. CASE does[p] # "smoke"
      BY <2>2, <1>1, <1>b, <1>c, <1>e, <1>f
    <2>. QED
      BY <2>1, <2>2
  <1>5. /\ no \in Locals
        /\ IF does[p] = "smoke" THEN no.at = "healthz" /\ no.result = "none" /\ ~no.identity
           ELSE no.at = "done" /\ no.result \in {"started", "healthz_only"}
    <2>1. CASE does[p] = "smoke"
      BY <2>1, <1>a, <1>d
    <2>2. CASE does[p] # "smoke"
      BY <2>2, <1>1, <1>b, <1>c, <1>e, <1>f
    <2>. QED
      BY <2>1, <2>2
  <1>6. Course(p, yes) /\ Course(p, no)
    BY <1>1, <1>4, <1>5 DEF Course
  <1>7. Seen(yes, lived[p])
    BY <1>1, <1>4 DEF Seen
  <1>8. Seen([no EXCEPT !.faulted = TRUE], lived[p])
    BY <1>1, <1>5 DEF Seen, Locals
  <1>9. services \in {"down", "starting"} /\ ~foreign => Seen(no, lived[p])
    BY <1>1, <1>5 DEF Seen
  <1>. QED
    BY <1>1, <1>3, <1>4, <1>5, <1>6, <1>7, <1>8, <1>9, ProbeKeeps

LEMMA SmokeActsKeeps == ASSUME LocalInv, NEW p \in Shells, SmokeActs(p) PROVE LocalInv'
  <1>1. /\ local[p].at = "healthz" /\ Busy(p) /\ services \in lived[p]
        /\ local[p].identity /\ ~foreign => "up" \in lived[p]
        /\ ~local[p].identity /\ ~local[p].faulted /\ ~foreign =>
             lived[p] \cap {"down", "starting"} # {}
    BY BusyHasSeen DEF SmokeActs, Busy, Seen
  <1>2. PICK yes, no : /\ yes = Report(p, IF local[p].identity THEN "first_success" ELSE "failed")
                       /\ no = Report(p, "failed")
    OBVIOUS
  <1>3. /\ yes \in Locals /\ yes.at = "done" /\ yes.faulted = local[p].faulted
        /\ yes.result = IF local[p].identity THEN "first_success" ELSE "failed"
        /\ no \in Locals /\ no.at = "done" /\ no.result = "failed"
    BY <1>2, PlacesAndReports DEF Outcomes
  <1>4. Probe(p, yes, no) /\ Stays /\ UNCHANGED <<does, foreign>>
    BY <1>2 DEF SmokeActs
  <1>5. Course(p, yes) /\ Course(p, no)
    BY <1>3 DEF Course
  <1>6. services = "up" \/ foreign => Seen(yes, lived[p])
    BY <1>1, <1>3 DEF Seen
  <1>7. Seen([no EXCEPT !.faulted = TRUE], lived[p])
    BY <1>3 DEF Seen, Locals
  <1>8. services \in {"down", "starting"} /\ ~foreign => Seen(no, lived[p])
    BY <1>1, <1>3 DEF Seen
  <1>. QED
    BY <1>1, <1>3, <1>4, <1>5, <1>6, <1>7, <1>8, ProbeKeeps

LEMMA ComposeUpKeeps == ASSUME LocalInv, NEW p \in Shells, ComposeUp(p) PROVE LocalInv'
  <1>1. /\ local[p].at = "up" /\ Busy(p) /\ local[p].result = "none"
        /\ does[p] = "start"
        /\ ~local[p].faulted /\ ~foreign => lived[p] \cap {"down", "starting"} # {}
    BY BusyHasSeen DEF ComposeUp, Busy, Seen, Course
  <1>2. services' \in States /\ Lived(services') /\ UNCHANGED <<does, foreign>>
    BY BusyHasSeen DEF ComposeUp, Stays, Becomes, Lived, States
  <1>3. CASE ~foreign /\ Step(p, Place(p, "wait"))
    <2> PICK l : l = Place(p, "wait")
      OBVIOUS
    <2>1. /\ l \in Locals /\ l.at = "wait" /\ l.result = "none"
          /\ l.faulted = local[p].faulted
      BY <1>1, PlacesAndReports DEF LocalPlaces
    <2>2. Seen(l, lived[p] \cup {services'}) /\ Course(p, l)
      BY <1>1, <2>1 DEF Seen, Course
    <2>3. faults' \in Nat /\ local' = [local EXCEPT ![p] = l]
      BY <1>3, BusyHasSeen DEF Step
    <2>. QED
      BY <1>1, <1>2, <2>1, <2>2, <2>3, CommandGoesOn
  <1>4. CASE foreign /\ Step(p, Report(p, "failed"))
    <2> PICK l : l = Report(p, "failed")
      OBVIOUS
    <2>1. l \in Locals /\ l.at = "done" /\ l.result = "failed"
      BY PlacesAndReports DEF Outcomes
    <2>2. Seen(l, lived[p] \cup {services'}) /\ Course(p, l)
      BY <1>4, <2>1 DEF Seen, Course
    <2>3. faults' \in Nat /\ local' = [local EXCEPT ![p] = l]
      BY <1>4, BusyHasSeen DEF Step
    <2>. QED
      BY <1>1, <1>2, <2>1, <2>2, <2>3, CommandGoesOn
  <1>5. CASE \E outcome \in {"failed", "raised"} : Fault(p, Report(p, outcome))
    <2> PICK outcome \in {"failed", "raised"} : Fault(p, Report(p, outcome))
      BY <1>5
    <2> PICK l : l = [Report(p, outcome) EXCEPT !.faulted = TRUE]
      OBVIOUS
    <2>1. l \in Locals /\ l.at = "done" /\ l.result = outcome /\ l.faulted
      <3>1. outcome \in Outcomes
        BY DEF Outcomes
      <3>. QED
        BY <3>1, PlacesAndReports, FaultsAreRemembered
    <2>2. Seen(l, lived[p] \cup {services'}) /\ Course(p, l)
      BY <2>1 DEF Seen, Course
    <2>3. faults' \in Nat /\ local' = [local EXCEPT ![p] = l]
      BY BusyHasSeen DEF Fault
    <2>. QED
      BY <1>1, <1>2, <2>1, <2>2, <2>3, CommandGoesOn
  <1>. QED
    BY <1>3, <1>4, <1>5 DEF ComposeUp

LEMMA WaitsForHealthKeeps ==
  ASSUME LocalInv, NEW p \in Shells, WaitsForHealth(p) PROVE LocalInv'
  <1>1. /\ local[p].at = "wait" /\ Busy(p) /\ local[p].result = "none"
        /\ does[p] = "start" /\ services \in lived[p]
        /\ ~local[p].faulted /\ ~foreign => lived[p] \cap {"down", "starting"} # {}
    BY BusyHasSeen DEF WaitsForHealth, Busy, Seen, Course
  <1>2. CASE Step(p, GivesUp(p))
    <2> PICK l : l = Report(p, "unhealthy")
      OBVIOUS
    <2>1. /\ l \in Locals /\ l.at = "done" /\ l.result = "unhealthy"
          /\ l.faulted = local[p].faulted
      BY PlacesAndReports DEF Outcomes
    <2>2. Seen(l, lived[p]) /\ Course(p, l)
      BY <1>1, <2>1 DEF Seen, Course
    <2>3. faults' \in Nat /\ local' = [local EXCEPT ![p] = l]
      BY <1>2, BusyHasSeen DEF Step, GivesUp
    <2>. QED
      BY <1>1, <2>1, <2>2, <2>3, CommandGoesOnStaying DEF WaitsForHealth
  <1>3. CASE Probe(p, Place(p, "identity"), [Place(p, "wait") EXCEPT !.polls = @ + 1])
    <2>1. PICK yes, no : /\ yes = Place(p, "identity")
                         /\ no = [Place(p, "wait") EXCEPT !.polls = @ + 1]
      OBVIOUS
    <2>2. yes \in Locals /\ yes.at = "identity" /\ yes.result = "none"
      BY <1>1, <2>1, PlacesAndReports DEF LocalPlaces
    <2>3. /\ no \in Locals /\ no.at = "wait" /\ no.result = "none"
          /\ no.faulted = local[p].faulted
      <3>1. "wait" \in LocalPlaces
        BY DEF LocalPlaces
      <3>. QED
        BY <1>1, <2>1, <3>1, PlacesAndReports DEF Locals
    <2>4. Course(p, yes) /\ Course(p, no)
      BY <1>1, <2>2, <2>3 DEF Course
    <2>5. Probe(p, yes, no) /\ Stays /\ UNCHANGED <<does, foreign>>
      BY <1>3, <2>1 DEF WaitsForHealth
    <2>6. services = "up" \/ foreign => Seen(yes, lived[p])
      BY <1>1, <2>2 DEF Seen
    <2>7. Seen([no EXCEPT !.faulted = TRUE], lived[p])
      BY <2>3, FaultsAreRemembered DEF Seen
    <2>8. Seen(no, lived[p])
      BY <1>1, <2>3 DEF Seen
    <2>. QED
      BY <1>1, <2>2, <2>3, <2>4, <2>5, <2>6, <2>7, <2>8, ProbeKeeps
  <1>. QED
    BY <1>2, <1>3 DEF WaitsForHealth

LEMMA ComposePsKeeps == ASSUME LocalInv, NEW p \in Shells, ComposePs(p) PROVE LocalInv'
  <1>1. local[p].at = "ps" /\ Busy(p) /\ local[p].result = "none" /\ services \in lived[p]
    BY BusyHasSeen DEF ComposePs, Busy, Seen
  <1>2. CASE Step(p, Place(p, "down"))
    <2> PICK l : l = Place(p, "down")
      OBVIOUS
    <2>1. l \in Locals /\ l.at = "down" /\ l.result = "none"
      BY <1>1, PlacesAndReports DEF LocalPlaces
    <2>2. Seen(l, lived[p]) /\ Course(p, l)
      BY <2>1 DEF Seen, Course
    <2>3. faults' \in Nat /\ local' = [local EXCEPT ![p] = l]
      BY <1>2, BusyHasSeen DEF Step
    <2>. QED
      BY <1>1, <2>1, <2>2, <2>3, CommandGoesOnStaying DEF ComposePs
  <1>3. CASE services = "down" /\ Step(p, Report(p, "already_stopped"))
    <2> PICK l : l = Report(p, "already_stopped")
      OBVIOUS
    <2>1. l \in Locals /\ l.at = "done" /\ l.result = "already_stopped"
      BY PlacesAndReports DEF Outcomes
    <2>2. Seen(l, lived[p]) /\ Course(p, l)
      BY <1>1, <1>3, <2>1 DEF Seen, Course
    <2>3. faults' \in Nat /\ local' = [local EXCEPT ![p] = l]
      BY <1>3, BusyHasSeen DEF Step
    <2>. QED
      BY <1>1, <2>1, <2>2, <2>3, CommandGoesOnStaying DEF ComposePs
  <1>4. CASE Fault(p, Report(p, "already_stopped"))
    <2> PICK l : l = [Report(p, "already_stopped") EXCEPT !.faulted = TRUE]
      OBVIOUS
    <2>1. l \in Locals /\ l.at = "done" /\ l.result = "already_stopped" /\ l.faulted
      <3>1. "already_stopped" \in Outcomes
        BY DEF Outcomes
      <3>. QED
        BY <3>1, PlacesAndReports, FaultsAreRemembered
    <2>2. Seen(l, lived[p]) /\ Course(p, l)
      BY <2>1 DEF Seen, Course
    <2>3. faults' \in Nat /\ local' = [local EXCEPT ![p] = l]
      BY <1>4, BusyHasSeen DEF Fault
    <2>. QED
      BY <1>1, <2>1, <2>2, <2>3, CommandGoesOnStaying DEF ComposePs
  <1>. QED
    BY <1>2, <1>3, <1>4 DEF ComposePs

LEMMA ComposeDownKeeps == ASSUME LocalInv, NEW p \in Shells, ComposeDown(p) PROVE LocalInv'
  <1>1. local[p].at = "down" /\ Busy(p)
    BY DEF ComposeDown, Busy
  <1>2. services' \in States /\ Lived(services') /\ UNCHANGED <<does, foreign>>
    BY BusyHasSeen DEF ComposeDown, Stays, Becomes, Lived, States
  <1>3. CASE Step(p, Report(p, "stopped")) /\ Becomes("down")
    <2> PICK l : l = Report(p, "stopped")
      OBVIOUS
    <2>1. l \in Locals /\ l.at = "done" /\ l.result = "stopped"
      BY PlacesAndReports DEF Outcomes
    <2>2. Seen(l, lived[p] \cup {services'}) /\ Course(p, l)
      BY <1>3, <2>1 DEF Seen, Course, Becomes
    <2>3. faults' \in Nat /\ local' = [local EXCEPT ![p] = l]
      BY <1>3, BusyHasSeen DEF Step
    <2>. QED
      BY <1>1, <1>2, <2>1, <2>2, <2>3, CommandGoesOn
  <1>4. CASE \E outcome \in {"failed", "raised"} : Fault(p, Report(p, outcome))
    <2> PICK outcome \in {"failed", "raised"} : Fault(p, Report(p, outcome))
      BY <1>4
    <2> PICK l : l = [Report(p, outcome) EXCEPT !.faulted = TRUE]
      OBVIOUS
    <2>1. l \in Locals /\ l.at = "done" /\ l.result = outcome /\ l.faulted
      <3>1. outcome \in Outcomes
        BY DEF Outcomes
      <3>. QED
        BY <3>1, PlacesAndReports, FaultsAreRemembered
    <2>2. Seen(l, lived[p] \cup {services'}) /\ Course(p, l)
      BY <2>1 DEF Seen, Course
    <2>3. faults' \in Nat /\ local' = [local EXCEPT ![p] = l]
      BY BusyHasSeen DEF Fault
    <2>. QED
      BY <1>1, <1>2, <2>1, <2>2, <2>3, CommandGoesOn
  <1>. QED
    BY <1>3, <1>4 DEF ComposeDown

LEMMA LocalInvariant == LocalSpec => []LocalInv
  <1>1. LocalInv /\ [LocalNext]_localVars => LocalInv'
    <2> SUFFICES ASSUME LocalInv, [LocalNext]_localVars PROVE LocalInv'
      OBVIOUS
    <2>1. CASE BecomesHealthy
      <3>1. services' \in States /\ Lived(services') /\ faults' \in Nat
        BY <2>1 DEF BecomesHealthy, Becomes, States, LocalInv, LocalTypeOK
      <3>. QED
        BY <2>1, <3>1, ServicesMove DEF BecomesHealthy
    <2>2. CASE Dies
      <3>1. services' \in States /\ Lived(services') /\ faults' \in Nat
        BY <2>2 DEF Dies, Becomes, States, LocalInv, LocalTypeOK
      <3>. QED
        BY <2>2, <3>1, ServicesMove DEF Dies
    <2>3. ASSUME NEW p \in Shells, LocalStep(p) PROVE LocalInv'
      BY <2>3, StartsKeeps, DoctorsKeeps, ReachesKeeps, AsksIdentityKeeps, SmokeActsKeeps,
         ComposeUpKeeps, WaitsForHealthKeeps, ComposePsKeeps, ComposeDownKeeps DEF LocalStep
    <2>4. CASE UNCHANGED localVars
      BY <2>4 DEF localVars, LocalInv, LocalTypeOK, Seen, Course, Busy
    <2>. QED
      BY <2>1, <2>2, <2>3, <2>4 DEF LocalNext
  <1>. QED
    BY <1>1, LocalBegins, PTL DEF LocalSpec

(* What the commands of the local runtime report was so at some moment of them,
   for any number of shells, polls and faults and whatever the containers do.     *)
THEOREM LocalReportsAreTrue == LocalSpec => []ReportsAreTrue
  <1>1. LocalInv => ReportsAreTrue
    BY DEF LocalInv, Seen, ReportsAreTrue
  <1>. QED
    BY <1>1, LocalInvariant, PTL
-----------------------------------------------------------------------------
(* The runners.  What a phase said is true of what the runner holds, and    *)
(* neither what it holds nor what was captured is newer than the world.     *)

AskedPhases == {"discovery", "identity", "context", "readonly"}
OfRun       == {"verification", "bundle"}
Underway    == at \notin {"idle", "direct", "done", "raised"}

StepRecord == [success : BOOLEAN, scaffolded : BOOLEAN, commit : Nat]
Out        == [passed : BOOLEAN, tree : Nat]
Bundle     == [run : Nat, commit : Nat, outs : Seq(Out), version : Nat]
Job        == [for : {"none", "verification", "bundle", "direct"}, commit : Nat,
               outs : Seq(Out), left : Nat]

RunnerTypeOK ==
  /\ kind \in {"smoke", "demo", "governance", "local"}
  /\ tree \in Nat /\ offer \in Nat /\ token \in BOOLEAN /\ moves \in Nat
  /\ runs \in Nat /\ caps \in Nat
  /\ steps \in Seq(StepRecord) /\ job \in Job /\ kept \in Bundle
  /\ reported \in Seq(Out) /\ submitted \in Seq(Bundle)

\* A result for each phase that has ended.
Placed ==
  /\ Underway => /\ Len(steps) < Len(Phases(kind))
                 /\ at = Phases(kind)[Len(steps) + 1]
  /\ at = "done" => Len(steps) = Len(Phases(kind))
  /\ at = "raised" => Len(steps) < Len(Phases(kind))
  /\ at \in {"idle", "direct"} <=> runs = 0
  /\ at \in {"idle", "direct"} => steps = <<>> /\ kept = NoBundle
  /\ at = "direct" => kind = "demo"

\* A phase that asks the server succeeds only when it is answered in this run.
AnsweredPhases ==
  /\ \A i \in 1 .. Len(steps) :
       steps[i].success /\ Phases(kind)[i] \in AskedPhases /\ kind # "local" =>
         Phases(kind)[i] \in answered
  /\ kind = "smoke" => answered \subseteq AskedPhases
  /\ kind = "demo" => answered \subseteq AskedPhases \ {"readonly"}

\* Demo: the results of phases 5 to 7 are of what is reported, held and handed over.
DemoHolds ==
  kind = "demo" =>
    /\ \A i \in 1 .. Len(steps) : steps[i].scaffolded => i \notin {1, 2, 3, 5}
    /\ Len(steps) >= 5 /\ steps[5].success => reported # <<>> /\ OutsPassed(reported)
    /\ Len(steps) < 6 => kept = NoBundle
    /\ Len(steps) >= 6 /\ (steps[6].success \/ steps[6].scaffolded) => kept.run = runs
    /\ Len(steps) = 7 /\ kept # NoBundle => \E i \in 1 .. Len(submitted) : submitted[i] = kept

\* Governance: from its phase 4 on the runner holds the bundle of this run.
GovernedHolds ==
  Governed =>
    /\ \A i \in 1 .. Len(steps) : steps[i].scaffolded => i \notin {2, 4}
    /\ Len(steps) >= 4 /\ steps[4].success => kept.run = runs /\ OutsPassed(kept.outs)
    /\ Len(steps) < 4 => kept.run < runs \/ runs = 0
    /\ kept.run = runs /\ kept.commit # 0 =>
         \A i \in 1 .. Len(steps) : steps[i].commit <= kept.commit

Backed(commit, outs) == \A j \in 1 .. Len(outs) : commit <= outs[j].tree

JobIsOfNow ==
  job # NoJob =>
    /\ at = job.for /\ at \in {"verification", "bundle", "direct"}
    /\ job.commit <= tree /\ Backed(job.commit, job.outs)
    /\ Governed /\ job.commit # 0 => \A i \in 1 .. Len(steps) : steps[i].commit <= job.commit

BundlesAreBacked ==
  /\ caps <= offer /\ kept.run <= runs
  /\ \A i \in 1 .. Len(steps) : steps[i].commit <= tree
  /\ Backed(kept.commit, kept.outs) /\ kept.version <= caps
  /\ \A i \in 1 .. Len(submitted) :
       Backed(submitted[i].commit, submitted[i].outs) /\ submitted[i].version <= caps

RunnerInv ==
  /\ RunnerTypeOK /\ Placed /\ AnsweredPhases /\ DemoHolds /\ GovernedHolds
  /\ JobIsOfNow /\ BundlesAreBacked

Runners == {"smoke", "demo", "governance", "local"}

LEMMA PhasesOf ==
  /\ Phases("smoke") = <<"discovery", "identity", "context", "readonly">>
  /\ Phases("demo") = <<"discovery", "identity", "context", "posture",
                        "verification", "bundle", "handoff">>
  /\ \A k \in {"governance", "local"} :
       Phases(k) = <<"registration", "context", "implementation",
                     "verification", "submission", "evaluation", "promotion">>
  BY DEF Phases

LEMMA PhasesAreDistinct ==
  ASSUME NEW k \in Runners
  PROVE  /\ Len(Phases(k)) = IF k = "smoke" THEN 4 ELSE 7
         /\ \A i \in 1 .. Len(Phases(k)) :
              /\ Phases(k)[i] \notin {"idle", "direct", "done", "raised"}
              /\ \A j \in 1 .. Len(Phases(k)) : Phases(k)[i] = Phases(k)[j] => i = j
  <1>1. CASE k = "smoke"
    <2> PICK q : q = <<"discovery", "identity", "context", "readonly">>
      OBVIOUS
    <2>1. /\ q[1] = "discovery" /\ q[2] = "identity" /\ q[3] = "context"
          /\ q[4] = "readonly" /\ Len(q) = 4
      OBVIOUS
    <2>2. \A i \in 1 .. 4 : i \in {1, 2, 3, 4}
      OBVIOUS
    <2>3. Phases(k) = q
      BY <1>1, PhasesOf
    <2>. QED
      BY <1>1, <2>1, <2>2, <2>3
  <1>2. CASE k = "demo"
    <2> PICK q : q = <<"discovery", "identity", "context", "posture",
                       "verification", "bundle", "handoff">>
      OBVIOUS
    <2>1. /\ q[1] = "discovery" /\ q[2] = "identity" /\ q[3] = "context"
          /\ q[4] = "posture" /\ q[5] = "verification" /\ q[6] = "bundle"
          /\ q[7] = "handoff" /\ Len(q) = 7
      OBVIOUS
    <2>2. \A i \in 1 .. 7 : i \in {1, 2, 3, 4, 5, 6, 7}
      OBVIOUS
    <2>3. Phases(k) = q
      BY <1>2, PhasesOf
    <2>. QED
      BY <1>2, <2>1, <2>2, <2>3
  <1>3. CASE k \in {"governance", "local"}
    <2> PICK q : q = <<"registration", "context", "implementation",
                       "verification", "submission", "evaluation", "promotion">>
      OBVIOUS
    <2>1. /\ q[1] = "registration" /\ q[2] = "context" /\ q[3] = "implementation"
          /\ q[4] = "verification" /\ q[5] = "submission" /\ q[6] = "evaluation"
          /\ q[7] = "promotion" /\ Len(q) = 7
      OBVIOUS
    <2>2. \A i \in 1 .. 7 : i \in {1, 2, 3, 4, 5, 6, 7}
      OBVIOUS
    <2>3. Phases(k) = q
      BY <1>3, PhasesOf
    <2>. QED
      BY <1>3, <2>1, <2>2, <2>3
  <1>. QED
    BY <1>1, <1>2, <1>3 DEF Runners

LEMMA PhaseNumbers ==
  ASSUME kind \in Runners, NEW n \in Nat, n < Len(Phases(kind)), at = Phases(kind)[n + 1]
  PROVE  /\ kind = "smoke" => <<n, at>> \in
              {<<0, "discovery">>, <<1, "identity">>, <<2, "context">>, <<3, "readonly">>}
         /\ kind = "demo" => <<n, at>> \in
              {<<0, "discovery">>, <<1, "identity">>, <<2, "context">>, <<3, "posture">>,
               <<4, "verification">>, <<5, "bundle">>, <<6, "handoff">>}
         /\ Governed => <<n, at>> \in
              {<<0, "registration">>, <<1, "context">>, <<2, "implementation">>,
               <<3, "verification">>, <<4, "submission">>, <<5, "evaluation">>,
               <<6, "promotion">>}
  <1>1. CASE kind = "smoke"
    <2>1. n \in {0, 1, 2, 3}
      BY <1>1, PhasesAreDistinct
    <2>. QED
      BY <1>1, <2>1, PhasesOf DEF Governed
  <1>2. CASE kind = "demo"
    <2>1. n \in {0, 1, 2, 3, 4, 5, 6}
      BY <1>2, PhasesAreDistinct
    <2>. QED
      BY <1>2, <2>1, PhasesOf DEF Governed
  <1>3. CASE kind \in {"governance", "local"}
    <2>1. n \in {0, 1, 2, 3, 4, 5, 6}
      BY <1>3, PhasesAreDistinct
    <2>. QED
      BY <1>3, <2>1, PhasesOf
  <1>. QED
    BY <1>1, <1>2, <1>3 DEF Runners

\* What Following makes of the phase after n results.
LEMMA PhasesFollow ==
  ASSUME kind \in Runners, NEW n \in Nat, n < Len(Phases(kind))
  PROVE  Following(Phases(kind)[n + 1]) =
           IF n + 1 = Len(Phases(kind)) THEN "done" ELSE Phases(kind)[n + 2]
  <1> DEFINE q == Phases(kind)
             i == CHOOSE j \in 1 .. Len(q) : q[j] = q[n + 1]
  <1>1. Following(q[n + 1]) = IF i = Len(q) THEN "done" ELSE q[i + 1]
    BY DEF Following
  <1>2. n + 1 \in 1 .. Len(q)
    BY PhasesAreDistinct
  <1>3. \A j \in 1 .. Len(q) : q[j] = q[n + 1] => j = n + 1
    BY <1>2, PhasesAreDistinct
  <1>4. i = n + 1
    BY <1>2, <1>3
  <1>5. (n + 1) + 1 = n + 2
    OBVIOUS
  <1> HIDE DEF i
  <1>. QED
    BY <1>1, <1>4, <1>5

\* A phase ends with its result, and the next one begins.
LEMMA PhaseEnds ==
  ASSUME RunnerTypeOK, Placed, Underway, NEW res \in StepRecord, Phase(res),
         UNCHANGED <<kind, runs>>
  PROVE  /\ steps' \in Seq(StepRecord) /\ Len(steps') = Len(steps) + 1
         /\ \A i \in 1 .. Len(steps) : steps'[i] = steps[i]
         /\ steps'[Len(steps) + 1] = res
         /\ Len(steps) \in Nat
         /\ Placed'
  <1>1. /\ steps' = Append(steps, res) /\ steps \in Seq(StepRecord)
        /\ at' = Following(at) /\ kind \in Runners
    BY DEF RunnerTypeOK, Phase, Runners
  <1>2. /\ steps' \in Seq(StepRecord) /\ Len(steps') = Len(steps) + 1
        /\ \A i \in 1 .. Len(steps) : steps'[i] = steps[i]
        /\ steps'[Len(steps) + 1] = res
        /\ Len(steps) \in Nat
    BY <1>1
  <1>3. PICK n \in Nat : n = Len(steps)
    BY <1>2
  <1>4. n < Len(Phases(kind)) /\ at = Phases(kind)[n + 1] /\ runs # 0
    BY <1>3 DEF Placed, Underway
  <1>5. at' = IF n + 1 = Len(Phases(kind)) THEN "done" ELSE Phases(kind)[n + 2]
    BY <1>1, <1>4, PhasesFollow
  <1>6. Len(Phases(kind)) \in Nat
    BY <1>1, PhasesAreDistinct
  <1>7. CASE n + 1 = Len(Phases(kind))
    BY <1>2, <1>3, <1>4, <1>5, <1>7 DEF Placed, Underway
  <1>8. CASE n + 1 # Len(Phases(kind))
    <2>1. n + 2 \in 1 .. Len(Phases(kind))
      BY <1>4, <1>6, <1>8
    <2>2. at' \notin {"idle", "direct", "done", "raised"}
      BY <1>1, <1>5, <1>8, <2>1, PhasesAreDistinct
    <2>3. Len(steps') < Len(Phases(kind)) /\ at' = Phases(kind)[Len(steps') + 1]
      BY <1>2, <1>3, <1>5, <1>6, <1>8, <2>1
    <2>4. /\ at' = Phases(kind')[Len(steps') + 1] /\ Len(steps') < Len(Phases(kind'))
          /\ runs' # 0
      BY <1>4, <2>3
    <2>. QED
      BY <1>2, <2>2, <2>4 DEF Placed, Underway
  <1>. QED
    BY <1>2, <1>7, <1>8

\* A phase that leaves the bundle and what is reported as they are.
LEMMA PhaseKeeps ==
  ASSUME RunnerInv, Underway, NEW res \in StepRecord, Phase(res),
         UNCHANGED <<kind, world, runs, kept, reported>>, job' = NoJob,
         NEW n \in Nat, n = Len(steps),
         caps' \in Nat, caps <= caps', caps' <= offer,
         submitted' \in Seq(Bundle),
         \A i \in 1 .. Len(submitted') :
           /\ Backed(submitted'[i].commit, submitted'[i].outs)
           /\ submitted'[i].version <= caps',
         answered \subseteq answered', answered' \subseteq answered \cup {at},
         answered' # answered => at \in AskedPhases,
         res.success /\ at \in AskedPhases /\ kind # "local" => at \in answered',
         res.commit <= tree,
         Governed /\ kept.run = runs /\ kept.commit # 0 => res.commit <= kept.commit,
         kind = "demo" =>
           /\ at # "readonly"
           /\ res.scaffolded => n + 1 \notin {1, 2, 3, 5}
           /\ n + 1 \in {5, 6} => ~res.success /\ ~res.scaffolded
           /\ n + 1 = 7 /\ kept # NoBundle => \E i \in 1 .. Len(submitted') : submitted'[i] = kept,
         Governed =>
           /\ res.scaffolded => n + 1 \notin {2, 4}
           /\ n + 1 = 4 => ~res.success
  PROVE  RunnerInv'
  <1>1. RunnerTypeOK /\ Placed /\ AnsweredPhases /\ DemoHolds /\ GovernedHolds /\ JobIsOfNow
        /\ BundlesAreBacked
    BY DEF RunnerInv
  <1>2. /\ steps' \in Seq(StepRecord) /\ Len(steps') = n + 1
        /\ \A i \in 1 .. n : steps'[i] = steps[i]
        /\ steps'[n + 1] = res
        /\ Placed'
    BY <1>1, PhaseEnds
  <1>3. \A i \in 1 .. Len(steps') : i \in 1 .. n \/ i = n + 1
    BY <1>2
  <1>4. NoJob \in Job
    BY DEF NoJob, Job
  <1>5. RunnerTypeOK'
    BY <1>1, <1>2, <1>4 DEF RunnerTypeOK, world
  <1>6. AnsweredPhases'
    <2>1. Phases(kind)[n + 1] = at
      BY <1>1 DEF Placed, Underway
    <2>2. ASSUME NEW i \in 1 .. Len(steps')
          PROVE  steps'[i].success /\ Phases(kind)[i] \in AskedPhases /\ kind # "local" =>
                   Phases(kind)[i] \in answered'
      <3>1. CASE i \in 1 .. n
        BY <1>1, <1>2, <3>1 DEF AnsweredPhases
      <3>2. CASE i = n + 1
        BY <1>2, <2>1, <3>2
      <3>. QED
        BY <1>3, <3>1, <3>2
    <2>. QED
      BY <1>1, <2>2 DEF AnsweredPhases
  <1>7. DemoHolds'
    <2> SUFFICES ASSUME kind = "demo" PROVE DemoHolds'
      BY DEF DemoHolds
    <2>1. \A i \in 1 .. Len(steps') : steps'[i].scaffolded => i \notin {1, 2, 3, 5}
      <3> TAKE i \in 1 .. Len(steps')
      <3>1. CASE i \in 1 .. n
        BY <1>1, <1>2, <3>1 DEF DemoHolds
      <3>2. CASE i = n + 1
        BY <1>2, <3>2
      <3>. QED
        BY <1>3, <3>1, <3>2
    <2>2. Len(steps') >= 5 /\ steps'[5].success => reported # <<>> /\ OutsPassed(reported)
      <3>1. CASE n >= 5
        BY <1>1, <1>2, <3>1 DEF DemoHolds
      <3>2. CASE n < 5
        BY <1>2, <3>2
      <3>. QED
        BY <3>1, <3>2
    <2>3. Len(steps') < 6 => kept = NoBundle
      BY <1>1, <1>2 DEF DemoHolds
    <2>4. Len(steps') >= 6 /\ (steps'[6].success \/ steps'[6].scaffolded) => kept.run = runs
      <3>1. CASE n >= 6
        BY <1>1, <1>2, <3>1 DEF DemoHolds
      <3>2. CASE n < 6
        BY <1>2, <3>2
      <3>. QED
        BY <3>1, <3>2
    <2>5. Len(steps') = 7 /\ kept # NoBundle =>
            \E i \in 1 .. Len(submitted') : submitted'[i] = kept
      BY <1>2
    <2>. QED
      BY <2>1, <2>2, <2>3, <2>4, <2>5 DEF DemoHolds, OutsPassed
  <1>8. GovernedHolds'
    <2> SUFFICES ASSUME Governed PROVE GovernedHolds'
      BY DEF GovernedHolds, Governed
    <2>1. \A i \in 1 .. Len(steps') : steps'[i].scaffolded => i \notin {2, 4}
      <3> TAKE i \in 1 .. Len(steps')
      <3>1. CASE i \in 1 .. n
        BY <1>1, <1>2, <3>1 DEF GovernedHolds
      <3>2. CASE i = n + 1
        BY <1>2, <3>2
      <3>. QED
        BY <1>3, <3>1, <3>2
    <2>2. Len(steps') >= 4 /\ steps'[4].success => kept.run = runs /\ OutsPassed(kept.outs)
      <3>1. CASE n >= 4
        BY <1>1, <1>2, <3>1 DEF GovernedHolds
      <3>2. CASE n < 4
        BY <1>2, <3>2
      <3>. QED
        BY <3>1, <3>2
    <2>3. Len(steps') < 4 => kept.run < runs \/ runs = 0
      BY <1>1, <1>2 DEF GovernedHolds
    <2>4. kept.run = runs /\ kept.commit # 0 =>
            \A i \in 1 .. Len(steps') : steps'[i].commit <= kept.commit
      <3> SUFFICES ASSUME kept.run = runs, kept.commit # 0, NEW i \in 1 .. Len(steps')
                   PROVE  steps'[i].commit <= kept.commit
        OBVIOUS
      <3>1. CASE i \in 1 .. n
        BY <1>1, <1>2, <3>1 DEF GovernedHolds
      <3>2. CASE i = n + 1
        BY <1>2, <3>2
      <3>. QED
        BY <1>3, <3>1, <3>2
    <2>. QED
      BY <2>1, <2>2, <2>3, <2>4 DEF GovernedHolds, OutsPassed, Governed
  <1>9. BundlesAreBacked'
    <2>1. \A i \in 1 .. Len(steps') : steps'[i].commit <= tree
      <3> TAKE i \in 1 .. Len(steps')
      <3>1. CASE i \in 1 .. n
        BY <1>1, <1>2, <3>1 DEF BundlesAreBacked
      <3>2. CASE i = n + 1
        BY <1>2, <3>2
      <3>. QED
        BY <1>3, <3>1, <3>2
    <2>2. kept.version <= caps'
      BY <1>1 DEF BundlesAreBacked, RunnerTypeOK, Bundle
    <2>. QED
      BY <1>1, <2>1, <2>2 DEF BundlesAreBacked, Backed, world
  <1>10. JobIsOfNow'
    BY DEF JobIsOfNow
  <1>. QED
    BY <1>2, <1>5, <1>6, <1>7, <1>8, <1>9, <1>10 DEF RunnerInv

LEMMA NowAt ==
  ASSUME RunnerInv, Underway
  PROVE  /\ Len(steps) \in Nat /\ kind \in Runners
         /\ kind = "smoke" => <<Len(steps), at>> \in
              {<<0, "discovery">>, <<1, "identity">>, <<2, "context">>, <<3, "readonly">>}
         /\ kind = "demo" => <<Len(steps), at>> \in
              {<<0, "discovery">>, <<1, "identity">>, <<2, "context">>, <<3, "posture">>,
               <<4, "verification">>, <<5, "bundle">>, <<6, "handoff">>}
         /\ Governed => <<Len(steps), at>> \in
              {<<0, "registration">>, <<1, "context">>, <<2, "implementation">>,
               <<3, "verification">>, <<4, "submission">>, <<5, "evaluation">>,
               <<6, "promotion">>}
  <1>1. PICK n : n = Len(steps)
    OBVIOUS
  <1>2. n \in Nat /\ kind \in Runners
    BY <1>1 DEF RunnerInv, RunnerTypeOK, Runners
  <1>3. n < Len(Phases(kind)) /\ at = Phases(kind)[n + 1]
    BY <1>1 DEF RunnerInv, Placed
  <1>. QED
    BY <1>1, <1>2, <1>3, PhaseNumbers

\* The job under way is of the phase under way.
LEMMA NoOtherJob ==
  ASSUME RunnerInv, at \notin {"verification", "bundle", "direct"}
  PROVE  job = NoJob
  BY DEF RunnerInv, JobIsOfNow

\* What PhaseKeeps needs of what the phases leave alone.
LEMMA HeldIsBacked ==
  ASSUME RunnerInv
  PROVE  /\ caps \in Nat /\ caps <= caps /\ caps <= offer /\ offer \in Nat /\ tree \in Nat
         /\ kind \in Runners /\ 0 <= tree
         /\ submitted \in Seq(Bundle) /\ kept \in Bundle
         /\ \A i \in 1 .. Len(submitted) :
              /\ Backed(submitted[i].commit, submitted[i].outs)
              /\ submitted[i].version <= caps
         /\ Backed(kept.commit, kept.outs) /\ kept.version <= caps
         /\ 0 <= kept.commit /\ kept.run <= runs
  BY DEF RunnerInv, RunnerTypeOK, BundlesAreBacked, Runners, Bundle

LEMMA ResultRecords ==
  /\ NoResult \in StepRecord /\ ~NoResult.success /\ ~NoResult.scaffolded /\ NoResult.commit = 0
  /\ Passed \in StepRecord /\ Passed.success /\ ~Passed.scaffolded /\ Passed.commit = 0
  /\ Scaffolded \in StepRecord /\ ~Scaffolded.success /\ Scaffolded.scaffolded
  /\ Scaffolded.commit = 0
  BY DEF NoResult, Passed, Scaffolded, StepRecord

LEMMA DiscoveryKeeps == ASSUME RunnerInv, Discovery PROVE RunnerInv'
  <1>1. at = "discovery" /\ Underway /\ job' = NoJob
    BY NoOtherJob DEF Discovery, Underway
  <1>2. PICK n \in Nat : n = Len(steps) /\ n = 0 /\ kind \in {"smoke", "demo"}
    BY <1>1, NowAt DEF Governed, Runners
  <1>3. PICK res \in {Passed, NoResult} :
          /\ Phase(res)
          /\ res = Passed => caps' = offer /\ answered' = answered \cup {at}
          /\ res = NoResult => UNCHANGED <<caps, answered>>
    BY ResultRecords DEF Discovery
  <1>4. /\ res \in StepRecord /\ res.commit = 0 /\ ~res.scaffolded
        /\ res.success => res = Passed
    BY ResultRecords
  <1>5. caps' \in Nat /\ caps <= caps' /\ caps' <= offer
    BY <1>3, HeldIsBacked
  <1>6. UNCHANGED <<kind, world, runs, kept, reported, submitted>>
    BY DEF Discovery
  <1>7. \A i \in 1 .. Len(submitted') :
          /\ Backed(submitted'[i].commit, submitted'[i].outs)
          /\ submitted'[i].version <= caps'
    <2> TAKE i \in 1 .. Len(submitted')
    <2> PICK b : b = submitted[i]
      OBVIOUS
    <2>1. i \in 1 .. Len(submitted)
      BY <1>6
    <2>2. b \in Bundle /\ Backed(b.commit, b.outs) /\ b.version <= caps
      BY <2>1, HeldIsBacked
    <2>3. b.version <= caps'
      BY <1>5, <2>2, HeldIsBacked DEF Bundle
    <2>. QED
      BY <1>6, <2>2, <2>3
  <1>8. /\ answered \subseteq answered' /\ answered' \subseteq answered \cup {at}
        /\ res.success => at \in answered'
        /\ at \in AskedPhases
    BY <1>1, <1>3, <1>4 DEF AskedPhases
  <1>9. submitted' \in Seq(Bundle) /\ 0 <= tree /\ 0 <= kept.commit
    BY <1>6, HeldIsBacked
  <1>10. ~Governed
    BY <1>2 DEF Governed
  <1>. QED
    BY <1>1, <1>2, <1>3, <1>4, <1>5, <1>6, <1>7, <1>8, <1>9, <1>10, PhaseKeeps

\* A phase that changes nothing but what was answered.
LEMMA AskingKeeps ==
  ASSUME RunnerInv, Underway, NEW res \in {Passed, NoResult}, Phase(res), job = NoJob,
         UNCHANGED <<kind, world, runs, caps, job, kept, reported, submitted>>,
         at \in AskedPhases, kind = "demo" => at # "readonly",
         \/ answered' = answered \cup {at}
         \/ UNCHANGED answered /\ (res = NoResult \/ kind = "local")
  PROVE  RunnerInv'
  <1>1. PICK n \in Nat : n = Len(steps)
    BY NowAt
  <1>2. /\ kind = "demo" => n \in {0, 1, 2}
        /\ Governed => n = 1
    BY <1>1, NowAt DEF AskedPhases
  <1>3. /\ res \in StepRecord /\ res.commit = 0 /\ ~res.scaffolded
        /\ res.success => res = Passed
    BY ResultRecords
  <1>4. res # NoResult => res.success
    BY ResultRecords
  <1>5. /\ answered \subseteq answered' /\ answered' \subseteq answered \cup {at}
        /\ res.success /\ kind # "local" => at \in answered'
    BY <1>3, ResultRecords
  <1>6. caps' \in Nat /\ caps <= caps' /\ caps' <= offer
    BY HeldIsBacked
  <1>7. submitted' \in Seq(Bundle) /\ 0 <= tree /\ 0 <= kept.commit
    BY HeldIsBacked
  <1>8. \A i \in 1 .. Len(submitted') :
          /\ Backed(submitted'[i].commit, submitted'[i].outs)
          /\ submitted'[i].version <= caps'
    BY HeldIsBacked
  <1>9. kind = "demo" =>
          /\ at # "readonly"
          /\ res.scaffolded => n + 1 \notin {1, 2, 3, 5}
          /\ n + 1 \in {5, 6} => ~res.success /\ ~res.scaffolded
          /\ n + 1 # 7
    BY <1>2, <1>3
  <1>10. Governed =>
          /\ res.scaffolded => n + 1 \notin {2, 4}
          /\ n + 1 = 4 => ~res.success
    BY <1>2, <1>3
  <1>11. job' = NoJob /\ res.commit <= tree /\ res.commit <= kept.commit
    BY <1>3, <1>7
  <1>. QED
    BY <1>1, <1>3, <1>5, <1>6, <1>7, <1>8, <1>9, <1>10, <1>11, PhaseKeeps

LEMMA AskContextKeeps == ASSUME RunnerInv, AskContext PROVE RunnerInv'
  <1>1. at \in {"context", "readonly"} /\ Underway /\ job = NoJob /\ at \in AskedPhases
    BY NoOtherJob DEF AskContext, Underway, AskedPhases
  <1>2. kind = "demo" => at # "readonly"
    BY <1>1, NowAt
  <1>3. PICK res \in {Passed, NoResult} :
          /\ Phase(res)
          /\ answered' = answered \cup {at} \/ (UNCHANGED answered /\ res = NoResult)
    BY DEF AskContext, Invoke
  <1>. QED
    BY <1>1, <1>2, <1>3, AskingKeeps DEF AskContext

LEMMA InheritContextKeeps == ASSUME RunnerInv, InheritContext PROVE RunnerInv'
  <1>1. at = "context" /\ Underway /\ job = NoJob /\ at \in AskedPhases
    BY NoOtherJob DEF InheritContext, Underway, AskedPhases
  <1>2. PICK res \in {Passed, NoResult} :
          /\ Phase(res)
          /\ \/ answered' = answered \cup {at}
             \/ UNCHANGED answered /\ (res = NoResult \/ kind = "local")
    BY DEF InheritContext, Invoke
  <1>. QED
    BY <1>1, <1>2, AskingKeeps DEF InheritContext

\* A run that ends with an exception leaves everything as it is.
LEMMA RaisingKeeps ==
  ASSUME RunnerInv, Underway, job = NoJob, at' = "raised",
         UNCHANGED <<kind, world, runs, steps, caps, job, kept, reported, answered, submitted>>
  PROVE  RunnerInv'
  <1>1. RunnerTypeOK'
    BY DEF RunnerInv, RunnerTypeOK, world
  <1>2. Placed'
    BY DEF RunnerInv, Placed, Underway
  <1>3. AnsweredPhases' /\ DemoHolds' /\ GovernedHolds'
    BY DEF RunnerInv, AnsweredPhases, DemoHolds, GovernedHolds, Governed, OutsPassed
  <1>4. JobIsOfNow' /\ BundlesAreBacked'
    BY DEF RunnerInv, JobIsOfNow, BundlesAreBacked, Backed, world
  <1>. QED
    BY <1>1, <1>2, <1>3, <1>4 DEF RunnerInv

LEMMA IdentityKeeps == ASSUME RunnerInv, Identity PROVE RunnerInv'
  <1>1. at = "identity" /\ Underway /\ job = NoJob /\ at \in AskedPhases
    BY NoOtherJob DEF Identity, Underway, AskedPhases
  <1>2. PICK n \in Nat : n = Len(steps) /\ n = 1 /\ kind \in {"smoke", "demo"}
    BY <1>1, NowAt DEF Governed, Runners
  <1>3. CASE Phase(Passed) /\ answered' = answered \cup {at}
    BY <1>1, <1>3, AskingKeeps DEF Identity
  <1>4. CASE SkipRest /\ UNCHANGED answered
    <2> DEFINE l == Len(Phases(kind))
    <2>1. l \in Nat /\ l \in {4, 7} /\ (kind = "demo" => l = 7)
      BY <1>2, PhasesAreDistinct DEF Runners
    <2>2. /\ steps' = [i \in 1 .. l |-> IF i <= n THEN steps[i] ELSE NoResult]
          /\ at' = "done"
      BY <1>2, <1>4 DEF SkipRest
    <2>3. \A i \in 1 .. n : steps[i] \in StepRecord
      <3>1. steps \in Seq(StepRecord)
        BY DEF RunnerInv, RunnerTypeOK
      <3>2. \A i \in 1 .. Len(steps) : steps[i] \in StepRecord
        BY <3>1
      <3>. QED
        BY <1>2, <3>2
    <2>4. /\ steps' \in Seq(StepRecord) /\ Len(steps') = l
          /\ \A i \in 1 .. l : steps'[i] = IF i <= n THEN steps[i] ELSE NoResult
      <3>1. steps' \in [1 .. l -> StepRecord]
        BY <2>1, <2>2, <2>3, ResultRecords
      <3>. QED
        BY <2>1, <2>2, <3>1
    <2>5. UNCHANGED <<kind, world, runs, caps, job, kept, reported, submitted, answered>>
      BY <1>4 DEF Identity
    <2>6. kind' = kind /\ l' = l
      BY <2>5
    <2> HIDE DEF l
    <2>7. RunnerTypeOK'
      BY <2>4, <2>5 DEF RunnerInv, RunnerTypeOK, world
    <2>8. Placed'
      <3>1. runs' # 0
        BY <1>1, <2>5 DEF RunnerInv, Placed
      <3>2. Len(steps') = Len(Phases(kind))'
        BY <2>4, <2>6 DEF l
      <3>. QED
        BY <2>2, <3>1, <3>2 DEF Placed, Underway
    <2>9. AnsweredPhases'
      <3>1. ASSUME NEW i \in 1 .. l
            PROVE  steps'[i].success /\ Phases(kind)[i] \in AskedPhases /\ kind # "local" =>
                     Phases(kind)[i] \in answered
        <4>1. CASE i <= n
          BY <1>2, <2>4, <4>1 DEF RunnerInv, AnsweredPhases
        <4>2. CASE ~(i <= n)
          BY <2>4, <4>2, ResultRecords
        <4>. QED
          BY <4>1, <4>2
      <3>. QED
        BY <2>4, <2>5, <3>1 DEF RunnerInv, AnsweredPhases
    <2>10. DemoHolds'
      <3> SUFFICES ASSUME kind = "demo" PROVE DemoHolds'
        BY <2>5 DEF DemoHolds
      <3>1. \A i \in 1 .. l : steps'[i].scaffolded => i \notin {1, 2, 3, 5}
        <4> TAKE i \in 1 .. l
        <4>1. CASE i <= n
          BY <1>2, <2>4, <4>1 DEF RunnerInv, DemoHolds
        <4>2. CASE ~(i <= n)
          BY <2>4, <4>2, ResultRecords
        <4>. QED
          BY <4>1, <4>2
      <3>2. ~steps'[5].success /\ ~steps'[6].success /\ ~steps'[6].scaffolded
        BY <1>2, <2>1, <2>4, ResultRecords
      <3>3. kept = NoBundle
        BY <1>2 DEF RunnerInv, DemoHolds
      <3>. QED
        BY <2>1, <2>4, <2>5, <3>1, <3>2, <3>3 DEF DemoHolds
    <2>11. GovernedHolds' /\ JobIsOfNow'
      BY <1>1, <1>2, <2>5 DEF GovernedHolds, Governed, JobIsOfNow
    <2>12. BundlesAreBacked'
      <3>1. \A i \in 1 .. l : steps'[i].commit <= tree
        <4> TAKE i \in 1 .. l
        <4>1. CASE i <= n
          BY <1>2, <2>4, <4>1 DEF RunnerInv, BundlesAreBacked
        <4>2. CASE ~(i <= n)
          BY <2>4, <4>2, ResultRecords, HeldIsBacked
        <4>. QED
          BY <4>1, <4>2
      <3>. QED
        BY <2>4, <2>5, <3>1 DEF RunnerInv, BundlesAreBacked, Backed, world
    <2>. QED
      BY <2>7, <2>8, <2>9, <2>10, <2>11, <2>12 DEF RunnerInv
  <1>5. CASE at' = "raised" /\ UNCHANGED <<steps, answered>>
    BY <1>1, <1>5, RaisingKeeps DEF Identity
  <1>. QED
    BY <1>3, <1>4, <1>5 DEF Identity

\* A phase that neither asks nor makes a bundle, with nothing but a result.
LEMMA QuietPhaseKeeps ==
  ASSUME RunnerInv, Underway, NEW res \in StepRecord, Phase(res), job = NoJob,
         UNCHANGED <<kind, world, runs, caps, job, kept, reported, answered, submitted>>,
         at \notin AskedPhases, res.commit = 0,
         kind = "demo" =>
           /\ at \in {"verification", "bundle"} => ~res.success /\ ~res.scaffolded
           /\ at = "handoff" => kept = NoBundle,
         at = "verification" => ~res.success /\ ~res.scaffolded
  PROVE  RunnerInv'
  <1>1. PICK n \in Nat : n = Len(steps)
    BY NowAt
  <1>2. /\ kind = "demo" => <<n, at>> \in {<<3, "posture">>, <<4, "verification">>,
                                           <<5, "bundle">>, <<6, "handoff">>}
        /\ Governed => <<n, at>> \in
             {<<0, "registration">>, <<2, "implementation">>, <<3, "verification">>,
              <<4, "submission">>, <<5, "evaluation">>, <<6, "promotion">>}
    BY <1>1, NowAt DEF AskedPhases
  <1>3. caps' \in Nat /\ caps <= caps' /\ caps' <= offer
    BY HeldIsBacked
  <1>4. submitted' \in Seq(Bundle) /\ 0 <= tree /\ 0 <= kept.commit
    BY HeldIsBacked
  <1>5. \A i \in 1 .. Len(submitted') :
          /\ Backed(submitted'[i].commit, submitted'[i].outs)
          /\ submitted'[i].version <= caps'
    BY HeldIsBacked
  <1>6. kind = "demo" =>
          /\ at # "readonly"
          /\ res.scaffolded => n + 1 \notin {1, 2, 3, 5}
          /\ n + 1 \in {5, 6} => ~res.success /\ ~res.scaffolded
          /\ n + 1 = 7 => kept = NoBundle
    BY <1>2
  <1>7. Governed =>
          /\ res.scaffolded => n + 1 \notin {2, 4}
          /\ n + 1 = 4 => ~res.success
    BY <1>2
  <1>8. job' = NoJob /\ res.commit <= tree /\ res.commit <= kept.commit
    BY <1>4
  <1>. QED
    BY <1>1, <1>3, <1>4, <1>5, <1>6, <1>7, <1>8, PhaseKeeps

LEMMA AdapterResults ==
  ASSUME NEW a \in Answers
  PROVE  /\ Scaffold(a) \in StepRecord /\ Scaffold(a).commit = 0
         /\ [Result(a.success) EXCEPT !.scaffolded = ~a.supported] \in StepRecord
         /\ [Result(a.success) EXCEPT !.scaffolded = ~a.supported].commit = 0
  BY DEF Answers, Scaffold, Result, NoResult, Passed, Scaffolded, StepRecord

LEMMA PostureKeeps == ASSUME RunnerInv, Posture PROVE RunnerInv'
  <1>1. at = "posture" /\ Underway /\ job = NoJob /\ at \notin AskedPhases
    BY NoOtherJob DEF Posture, Underway, AskedPhases
  <1>. QED
    BY <1>1, ResultRecords, QuietPhaseKeeps DEF Posture

LEMMA RegisterContractKeeps == ASSUME RunnerInv, RegisterContract PROVE RunnerInv'
  <1>1. at = "registration" /\ Underway /\ job = NoJob /\ at \notin AskedPhases
    BY NoOtherJob DEF RegisterContract, Underway, AskedPhases
  <1>2. PICK a \in Answers : Phase(Scaffold(a))
    BY DEF RegisterContract
  <1>. QED
    BY <1>1, <1>2, AdapterResults, QuietPhaseKeeps DEF RegisterContract

LEMMA EvaluationKeeps == ASSUME RunnerInv, Evaluation PROVE RunnerInv'
  <1>1. at = "evaluation" /\ Underway /\ job = NoJob /\ at \notin AskedPhases
    BY NoOtherJob DEF Evaluation, Underway, AskedPhases
  <1>2. PICK a \in Answers : Phase(Scaffold(a))
    BY DEF Evaluation
  <1>. QED
    BY <1>1, <1>2, AdapterResults, QuietPhaseKeeps DEF Evaluation

LEMMA PromotionKeeps == ASSUME RunnerInv, Promotion PROVE RunnerInv'
  <1>1. at = "promotion" /\ Underway /\ job = NoJob /\ at \notin AskedPhases
    BY NoOtherJob DEF Promotion, Underway, AskedPhases
  <1>. QED
    BY <1>1, ResultRecords, QuietPhaseKeeps DEF Promotion

LEMMA PassRaisesKeeps == ASSUME RunnerInv, PassRaises PROVE RunnerInv'
  <1>1. at \in {"verification", "bundle"} /\ Underway /\ job = NoJob /\ at \notin AskedPhases
    BY DEF PassRaises, Underway, AskedPhases
  <1>. QED
    BY <1>1, ResultRecords, QuietPhaseKeeps DEF PassRaises

LEMMA ImplementationKeeps == ASSUME RunnerInv, Implementation PROVE RunnerInv'
  <1>1. at = "implementation" /\ Underway /\ job = NoJob /\ at \notin AskedPhases
    BY NoOtherJob DEF Implementation, Underway, AskedPhases
  <1>2. CASE at' = "raised" /\ UNCHANGED steps
    BY <1>1, <1>2, RaisingKeeps DEF Implementation
  <1>3. CASE \E c \in SourceInfo : Phase([Passed EXCEPT !.commit = c])
    <2> PICK c \in SourceInfo : Phase([Passed EXCEPT !.commit = c])
      BY <1>3
    <2> PICK res : res = [Passed EXCEPT !.commit = c]
      OBVIOUS
    <2>1. c \in Nat /\ c <= tree
      BY HeldIsBacked DEF SourceInfo
    <2>2. res \in StepRecord /\ res.commit = c /\ ~res.scaffolded
      BY <2>1 DEF Passed, NoResult, StepRecord
    <2>3. PICK n \in Nat : n = Len(steps)
      BY <1>1, NowAt
    <2>4. kind # "demo" /\ (Governed => n = 2)
      BY <1>1, <2>3, NowAt
    <2>5. Governed => kept.run # runs
      <3>0. GovernedHolds
        BY DEF RunnerInv
      <3>1. Governed => kept.run < runs \/ runs = 0
        <4> SUFFICES ASSUME Governed PROVE kept.run < runs \/ runs = 0
          OBVIOUS
        <4>1. n = 2
          BY <2>4
        <4>2. Len(steps) < 4
          BY <2>3, <4>1
        <4>. QED
          BY <3>0, <4>2 DEF GovernedHolds
      <3>2. runs # 0 /\ kept.run \in Nat /\ runs \in Nat
        BY <1>1 DEF RunnerInv, RunnerTypeOK, Placed, Bundle
      <3>. QED
        BY <3>1, <3>2
    <2>6. caps' \in Nat /\ caps <= caps' /\ caps' <= offer /\ submitted' \in Seq(Bundle)
      BY HeldIsBacked DEF Implementation
    <2>7. \A i \in 1 .. Len(submitted') :
            /\ Backed(submitted'[i].commit, submitted'[i].outs)
            /\ submitted'[i].version <= caps'
      BY HeldIsBacked DEF Implementation
    <2>8. /\ UNCHANGED <<kind, world, runs, kept, reported, answered>> /\ job' = NoJob
          /\ Phase(res)
      BY <1>1 DEF Implementation
    <2>9. Governed =>
            /\ res.scaffolded => n + 1 \notin {2, 4}
            /\ n + 1 = 4 => ~res.success
      <3>1. n = 2 => n + 1 # 4
        OBVIOUS
      <3>. QED
        BY <2>2, <2>4, <3>1
    <2>. QED
      BY <1>1, <2>1, <2>2, <2>3, <2>4, <2>5, <2>6, <2>7, <2>8, <2>9, PhaseKeeps
  <1>. QED
    BY <1>2, <1>3 DEF Implementation

LEMMA HandoffKeeps == ASSUME RunnerInv, Handoff PROVE RunnerInv'
  <1>1. at \in {"handoff", "submission"} /\ Underway /\ job = NoJob /\ at \notin AskedPhases
    BY NoOtherJob DEF Handoff, Underway, AskedPhases
  <1>2. CASE kept = NoBundle
    BY <1>1, <1>2, ResultRecords, QuietPhaseKeeps DEF Handoff
  <1>3. CASE kept # NoBundle
    <2>1. PICK res \in StepRecord : Phase(res) /\ res.commit = 0
      BY <1>3, AdapterResults DEF Handoff
    <2>2. submitted' = Append(submitted, kept) /\ kept \in Bundle /\ submitted \in Seq(Bundle)
      BY <1>3, HeldIsBacked DEF Handoff
    <2>3. PICK m \in Nat : m = Len(submitted)
      BY <2>2
    <2>4. /\ submitted' \in Seq(Bundle) /\ Len(submitted') = m + 1
          /\ submitted'[m + 1] = kept
          /\ \A i \in 1 .. m : submitted'[i] = submitted[i]
      BY <2>2, <2>3
    <2>5. \A i \in 1 .. Len(submitted') :
            /\ Backed(submitted'[i].commit, submitted'[i].outs)
            /\ submitted'[i].version <= caps
      <3> TAKE i \in 1 .. Len(submitted')
      <3>1. CASE i \in 1 .. m
        BY <2>3, <2>4, <3>1, HeldIsBacked
      <3>2. CASE i = m + 1
        BY <2>4, <3>2, HeldIsBacked
      <3>. QED
        BY <2>4, <3>1, <3>2
    <2>6. \E i \in 1 .. Len(submitted') : submitted'[i] = kept
      BY <2>4
    <2>7. PICK n \in Nat : n = Len(steps)
      BY <1>1, NowAt
    <2>8. (kind = "demo" => n = 6) /\ (Governed => n = 4)
      BY <1>1, <2>7, NowAt
    <2>9. /\ UNCHANGED <<kind, world, runs, caps, kept, reported, answered>> /\ job' = NoJob
          /\ caps \in Nat /\ caps <= caps /\ caps <= offer
          /\ res.commit <= tree /\ res.commit <= kept.commit
      BY <1>1, <2>1, HeldIsBacked DEF Handoff
    <2>10. kind = "demo" =>
             /\ at # "readonly"
             /\ res.scaffolded => n + 1 \notin {1, 2, 3, 5}
             /\ n + 1 \in {5, 6} => ~res.success /\ ~res.scaffolded
      BY <1>1, <2>8
    <2>11. Governed =>
             /\ res.scaffolded => n + 1 \notin {2, 4}
             /\ n + 1 = 4 => ~res.success
      <3>1. n = 4 => n + 1 \notin {2, 4}
        OBVIOUS
      <3>. QED
        BY <2>8, <3>1
    <2>. QED
      BY <1>1, <2>1, <2>4, <2>5, <2>6, <2>7, <2>9, <2>10, <2>11, PhaseKeeps
  <1>. QED
    BY <1>2, <1>3

\* The world only moves on.
LEMMA MovesKeep ==
  ASSUME RunnerInv, NEW dt \in {0, 1}, NEW dc \in {0, 1}, NEW dk \in BOOLEAN, Moves(dt, dc, dk)
  PROVE  RunnerInv'
  <1>1. /\ tree' \in Nat /\ tree <= tree' /\ offer' \in Nat /\ offer <= offer'
        /\ moves' \in Nat /\ token' \in BOOLEAN /\ tree \in Nat /\ offer \in Nat
        /\ UNCHANGED <<kind, runner>>
    BY DEF Moves, RunnerInv, RunnerTypeOK
  <1>2. RunnerTypeOK'
    BY <1>1 DEF RunnerInv, RunnerTypeOK, runner
  <1>3. Placed' /\ AnsweredPhases' /\ DemoHolds' /\ GovernedHolds'
    BY <1>1 DEF RunnerInv, runner, Placed, Underway, AnsweredPhases, DemoHolds, GovernedHolds,
                Governed, OutsPassed
  <1>4. JobIsOfNow'
    <2> SUFFICES ASSUME job # NoJob PROVE JobIsOfNow'
      BY <1>1 DEF JobIsOfNow, runner
    <2>1. job.commit \in Nat /\ job.commit <= tree
      BY DEF RunnerInv, RunnerTypeOK, Job, JobIsOfNow
    <2>2. job.commit <= tree'
      BY <1>1, <2>1
    <2>. QED
      BY <1>1, <2>2 DEF RunnerInv, JobIsOfNow, Backed, Governed, runner
  <1>5. BundlesAreBacked'
    <2>1. caps <= offer'
      BY <1>1 DEF RunnerInv, BundlesAreBacked, RunnerTypeOK
    <2>2. \A i \in 1 .. Len(steps) : steps[i].commit <= tree'
      <3> TAKE i \in 1 .. Len(steps)
      <3>1. steps[i] \in StepRecord
        BY DEF RunnerInv, RunnerTypeOK
      <3>2. steps[i].commit \in Nat /\ steps[i].commit <= tree
        BY <3>1 DEF StepRecord, RunnerInv, BundlesAreBacked
      <3>. QED
        BY <1>1, <3>2
    <2>. QED
      BY <1>1, <2>1, <2>2 DEF RunnerInv, BundlesAreBacked, Backed, runner
  <1>. QED
    BY <1>2, <1>3, <1>4, <1>5 DEF RunnerInv

LEMMA NothingHeld ==
  /\ NoBundle \in Bundle /\ NoBundle.run = 0 /\ NoBundle.commit = 0
  /\ Backed(NoBundle.commit, NoBundle.outs) /\ NoBundle.version = 0
  /\ NoJob \in Job
  BY DEF NoBundle, NoJob, Job, Bundle, Backed

LEMMA RunBegins == RunnerInit => RunnerInv
  <1> SUFFICES ASSUME RunnerInit PROVE RunnerInv
    OBVIOUS
  <1>1. RunnerTypeOK
    BY NothingHeld, RunnersAssumption DEF RunnerInit, RunnerTypeOK
  <1>2. Placed /\ AnsweredPhases /\ DemoHolds /\ GovernedHolds
    BY NothingHeld DEF RunnerInit, Placed, Underway, AnsweredPhases, DemoHolds, GovernedHolds
  <1>3. JobIsOfNow /\ BundlesAreBacked
    BY NothingHeld DEF RunnerInit, JobIsOfNow, BundlesAreBacked
  <1>. QED
    BY <1>1, <1>2, <1>3 DEF RunnerInv

LEMMA BeginKeeps == ASSUME RunnerInv, Begin PROVE RunnerInv'
  <1>1. /\ at \in {"idle", "done"} /\ job = NoJob
        /\ runs' = runs + 1 /\ at' = Phases(kind)[1]
        /\ steps' = <<>> /\ answered' = {} /\ reported' = <<>> /\ submitted' = <<>>
        /\ kept' = IF kind = "demo" THEN NoBundle ELSE kept
        /\ UNCHANGED <<kind, tree, offer, token, moves, caps, job>>
    BY NoOtherJob DEF Begin, world
  <1>2. kind \in Runners /\ runs \in Nat /\ kept \in Bundle
    BY DEF RunnerInv, RunnerTypeOK, Runners
  <1>3. RunnerTypeOK'
    BY <1>1, NothingHeld DEF RunnerInv, RunnerTypeOK
  <1>4. Placed'
    <2>1. 0 < Len(Phases(kind)) /\ at' \notin {"idle", "direct", "done", "raised"}
      BY <1>1, <1>2, PhasesAreDistinct
    <2>2. runs' # 0
      BY <1>1, <1>2
    <2>3. Len(steps') = 0 /\ at' = Phases(kind')[1] /\ 0 < Len(Phases(kind'))
      BY <1>1, <2>1
    <2>. QED
      BY <2>1, <2>2, <2>3 DEF Placed, Underway
  <1>5. AnsweredPhases' /\ DemoHolds'
    BY <1>1 DEF AnsweredPhases, DemoHolds
  <1>6. kept'.run \in Nat /\ kept'.run < runs'
    <2>1. kept.run \in Nat /\ kept.run <= runs
      BY <1>2 DEF RunnerInv, BundlesAreBacked, Bundle
    <2>. QED
      BY <1>1, <1>2, <2>1, NothingHeld
  <1>7. GovernedHolds'
    BY <1>1, <1>2, <1>6 DEF GovernedHolds
  <1>8. JobIsOfNow'
    BY <1>1 DEF JobIsOfNow
  <1>9. BundlesAreBacked'
    <2>1. Backed(kept'.commit, kept'.outs) /\ kept'.version <= caps /\ caps <= offer
      BY <1>1, <1>2, NothingHeld, HeldIsBacked
    <2>2. kept'.run <= runs'
      BY <1>1, <1>2, <1>6
    <2>. QED
      BY <1>1, <2>1, <2>2 DEF BundlesAreBacked, Backed
  <1>. QED
    BY <1>3, <1>4, <1>5, <1>7, <1>8, <1>9 DEF RunnerInv

\* A step of the verification pass changes nothing but the job.
LEMMA JobMoves ==
  ASSUME RunnerInv, job' \in Job,
         UNCHANGED <<kind, world, runs, at, steps, caps, kept, reported, answered, submitted>>,
         at = job'.for, at \in {"verification", "bundle", "direct"},
         job'.commit <= tree, Backed(job'.commit, job'.outs),
         Governed /\ job'.commit # 0 =>
           \A i \in 1 .. Len(steps) : steps[i].commit <= job'.commit
  PROVE  RunnerInv'
  <1>1. RunnerTypeOK'
    BY DEF RunnerInv, RunnerTypeOK, world
  <1>2. Placed' /\ AnsweredPhases' /\ DemoHolds' /\ GovernedHolds'
    BY DEF RunnerInv, Placed, Underway, AnsweredPhases, DemoHolds, GovernedHolds, Governed, OutsPassed
  <1>3. JobIsOfNow'
    BY DEF JobIsOfNow, Backed, Governed, world
  <1>4. BundlesAreBacked'
    BY DEF RunnerInv, BundlesAreBacked, Backed, world
  <1>. QED
    BY <1>1, <1>2, <1>3, <1>4 DEF RunnerInv

LEMMA CaptureSourceKeeps == ASSUME RunnerInv, CaptureSource PROVE RunnerInv'
  <1>1. PICK c \in SourceInfo :
          job' = [for |-> at, commit |-> c, outs |-> <<>>, left |-> Collectors]
    BY DEF CaptureSource
  <1>2. c \in Nat /\ c <= tree
    BY HeldIsBacked DEF SourceInfo
  <1>3. at \in {"verification", "bundle", "direct"}
    BY DEF CaptureSource
  <1>4. job' \in Job
    BY <1>1, <1>2, <1>3, RunnersAssumption DEF Job
  <1>5. Backed(job'.commit, job'.outs)
    BY <1>1 DEF Backed
  <1>6. job'.commit # 0 => \A i \in 1 .. Len(steps) : steps[i].commit <= job'.commit
    BY <1>1 DEF SourceInfo, RunnerInv, BundlesAreBacked
  <1>. QED
    BY <1>1, <1>2, <1>3, <1>4, <1>5, <1>6, JobMoves DEF CaptureSource

LEMMA CollectKeeps == ASSUME RunnerInv, Collect PROVE RunnerInv'
  <1>1. job # NoJob /\ job \in Job /\ job.left > 0 /\ tree \in Nat
    BY DEF Collect, RunnerInv, RunnerTypeOK
  <1>2. /\ at = job.for /\ at \in {"verification", "bundle", "direct"}
        /\ job.commit <= tree /\ Backed(job.commit, job.outs)
        /\ Governed /\ job.commit # 0 =>
             \A i \in 1 .. Len(steps) : steps[i].commit <= job.commit
    BY <1>1 DEF RunnerInv, JobIsOfNow
  <1>3. PICK outs \in {<<[passed |-> b, tree |-> tree]>> : b \in BOOLEAN} \cup {<<>>} :
          job' = [job EXCEPT !.outs = @ \o outs, !.left = @ - 1]
    BY DEF Collect
  <1>4. /\ outs \in Seq(Out)
        /\ \A j \in 1 .. Len(outs) : outs[j].tree = tree
    <2>1. CASE outs = <<>>
      BY <2>1
    <2>2. CASE \E b \in BOOLEAN : outs = <<[passed |-> b, tree |-> tree]>>
      <3> PICK b \in BOOLEAN : outs = <<[passed |-> b, tree |-> tree]>>
        BY <2>2
      <3> PICK o : o = [passed |-> b, tree |-> tree]
        OBVIOUS
      <3>1. o \in Out /\ o.tree = tree
        BY <1>1 DEF Out
      <3>2. outs = <<o>>
        OBVIOUS
      <3>. QED
        BY <3>1, <3>2
    <2>. QED
      BY <1>3, <2>1, <2>2
  <1>5. PICK m, l \in Nat : /\ job.outs \in Seq(Out) /\ m = Len(job.outs) /\ m \in Nat
                            /\ l = Len(outs)
    BY <1>1, <1>4 DEF Job
  <1>6. PICK s : s = job.outs \o outs
    OBVIOUS
  <1>7. /\ s \in Seq(Out) /\ Len(s) = m + l
        /\ \A j \in 1 .. m : s[j] = job.outs[j]
        /\ \A j \in m + 1 .. m + l : s[j] = outs[j - m]
    BY <1>4, <1>5, <1>6
  <1>8. /\ job' \in Job /\ job'.for = job.for /\ job'.commit = job.commit /\ job'.outs = s
    <2>1. PICK k \in Nat : k = job.left - 1
      BY <1>1 DEF Job
    <2>2. job' = [job EXCEPT !.outs = s, !.left = k]
      BY <1>3, <1>6, <2>1
    <2>. QED
      BY <1>1, <1>7, <2>2 DEF Job
  <1>9. Backed(job.commit, s)
    <2> SUFFICES ASSUME NEW j \in 1 .. Len(s) PROVE job.commit <= s[j].tree
      BY DEF Backed
    <2>1. CASE j \in 1 .. m
      BY <1>2, <1>5, <1>7, <2>1 DEF Backed
    <2>2. CASE j \in m + 1 .. m + l
      <3>1. j - m \in 1 .. l
        BY <1>5, <2>2
      <3>2. s[j] = outs[j - m] /\ outs[j - m].tree = tree
        BY <1>4, <1>5, <1>7, <2>2, <3>1
      <3>. QED
        BY <1>2, <3>2
    <2>. QED
      BY <1>5, <1>7, <2>1, <2>2
  <1>. QED
    BY <1>2, <1>8, <1>9, JobMoves DEF Collect

\* The bundle of a pass that ends.
LEMMA AssembledIsBacked ==
  ASSUME RunnerInv, job # NoJob, NEW b, b = Assembled
  PROVE  /\ b \in Bundle /\ b.run = runs /\ b.commit = job.commit /\ b.outs = job.outs
         /\ Backed(b.commit, b.outs) /\ b.version <= caps
         /\ at = job.for /\ at \in {"verification", "bundle", "direct"}
         /\ Governed /\ b.commit # 0 => \A i \in 1 .. Len(steps) : steps[i].commit <= b.commit
  <1>1. job \in Job /\ caps \in Nat /\ runs \in Nat
    BY DEF RunnerInv, RunnerTypeOK
  <1>2. b \in Bundle /\ b.run = runs /\ b.commit = job.commit /\ b.outs = job.outs
        /\ b.version <= caps
    BY <1>1 DEF Assembled, Bundle, Job
  <1>. QED
    BY <1>2 DEF RunnerInv, JobIsOfNow

LEMMA VerificationEndsKeeps == ASSUME RunnerInv, VerificationEnds PROVE RunnerInv'
  <1>1. /\ at = "verification" /\ Underway /\ job # NoJob /\ job' = NoJob
        /\ UNCHANGED <<kind, tree, offer, token, moves, runs, caps, answered, submitted>>
    BY DEF VerificationEnds, Underway, NoJob, world
  <1>2. PICK b : b = Assembled
    OBVIOUS
  <1>3. /\ b \in Bundle /\ b.run = runs /\ Backed(b.commit, b.outs) /\ b.version <= caps
        /\ Governed /\ b.commit # 0 => \A i \in 1 .. Len(steps) : steps[i].commit <= b.commit
    BY <1>1, <1>2, AssembledIsBacked
  <1>4. PICK res : res = Result(Verified(b))
    OBVIOUS
  <1>5. /\ Phase(res)
        /\ kept' = IF Governed THEN b ELSE kept
        /\ reported' = IF kind = "demo" /\ Verified(b) THEN b.outs ELSE reported
    BY <1>2, <1>4 DEF VerificationEnds
  <1>6. /\ res \in StepRecord /\ res.commit = 0 /\ ~res.scaffolded
        /\ res.success => Verified(b)
    BY <1>4, ResultRecords DEF Result
  <1>7. PICK n \in Nat : n = Len(steps) /\ kind \in Runners
    BY <1>1, NowAt
  <1>8. (kind = "demo" => n = 4) /\ (Governed => n = 3) /\ kind # "smoke"
    BY <1>1, <1>7, NowAt
  <1>9. RunnerTypeOK /\ Placed /\ AnsweredPhases /\ DemoHolds /\ GovernedHolds /\ BundlesAreBacked
    BY DEF RunnerInv
  <1>10. /\ steps' \in Seq(StepRecord) /\ Len(steps') = n + 1
         /\ \A i \in 1 .. n : steps'[i] = steps[i]
         /\ steps'[n + 1] = res
         /\ Placed'
    BY <1>1, <1>5, <1>6, <1>7, <1>9, PhaseEnds
  <1>11. \A i \in 1 .. Len(steps') : i \in 1 .. n \/ i = n + 1
    BY <1>10
  <1>12. b.outs \in Seq(Out)
    BY <1>3 DEF Bundle
  <1>13. RunnerTypeOK'
    BY <1>1, <1>3, <1>5, <1>9, <1>10, <1>12, NothingHeld DEF RunnerTypeOK
  <1>14. AnsweredPhases'
    <2>1. Phases(kind)[n + 1] = "verification"
      BY <1>1, <1>7, <1>9 DEF Placed, Underway
    <2>2. ASSUME NEW i \in 1 .. Len(steps')
          PROVE  steps'[i].success /\ Phases(kind)[i] \in AskedPhases /\ kind # "local" =>
                   Phases(kind)[i] \in answered'
      <3>1. CASE i \in 1 .. n
        BY <1>1, <1>7, <1>9, <1>10, <3>1 DEF AnsweredPhases
      <3>2. CASE i = n + 1
        BY <2>1, <3>2 DEF AskedPhases
      <3>. QED
        BY <1>11, <3>1, <3>2
    <2>. QED
      BY <1>1, <1>9, <2>2 DEF AnsweredPhases
  <1>15. DemoHolds'
    <2> SUFFICES ASSUME kind = "demo" PROVE DemoHolds'
      BY <1>1 DEF DemoHolds
    <2>0. n = 4 /\ Len(steps') = 5 /\ ~Governed
      BY <1>8, <1>10 DEF Governed
    <2>1. \A i \in 1 .. Len(steps') : steps'[i].scaffolded => i \notin {1, 2, 3, 5}
      <3> TAKE i \in 1 .. Len(steps')
      <3>1. CASE i \in 1 .. n
        BY <1>7, <1>9, <1>10, <3>1 DEF DemoHolds
      <3>2. CASE i = n + 1
        BY <1>6, <1>10, <3>2
      <3>. QED
        BY <1>11, <3>1, <3>2
    <2>2. steps'[5] = res
      BY <1>10, <2>0
    <2>3. res.success => reported' # <<>> /\ OutsPassed(reported')
      <3>1. res.success => reported' = b.outs /\ BundlePassed(b)
        BY <1>5, <1>6, <2>0 DEF Verified
      <3>. QED
        BY <3>1 DEF BundlePassed
    <2>4. kept' = NoBundle
      BY <1>5, <1>7, <1>9, <2>0 DEF DemoHolds
    <2>. QED
      BY <1>1, <2>0, <2>1, <2>2, <2>3, <2>4 DEF DemoHolds, OutsPassed
  <1>16. GovernedHolds'
    <2> SUFFICES ASSUME Governed PROVE GovernedHolds'
      BY <1>1 DEF GovernedHolds, Governed
    <2>0. n = 3 /\ Len(steps') = 4 /\ kept' = b
      BY <1>5, <1>8, <1>10
    <2>1. \A i \in 1 .. Len(steps') : steps'[i].scaffolded => i \notin {2, 4}
      <3> TAKE i \in 1 .. Len(steps')
      <3>1. CASE i \in 1 .. n
        BY <1>7, <1>9, <1>10, <3>1 DEF GovernedHolds
      <3>2. CASE i = n + 1
        BY <1>6, <1>10, <3>2
      <3>. QED
        BY <1>11, <3>1, <3>2
    <2>2. steps'[4] = res
      BY <1>10, <2>0
    <2>3. res.success => kept'.run = runs /\ OutsPassed(kept'.outs)
      <3>1. ASSUME Verified(b) PROVE OutsPassed(b.outs)
        <4>1. CASE BundlePassed(b)
          BY <4>1 DEF BundlePassed
        <4>2. CASE b.outs = <<>>
          BY <4>2 DEF OutsPassed
        <4>. QED
          BY <3>1, <4>1, <4>2 DEF Verified
      <3>. QED
        BY <1>3, <1>6, <2>0, <3>1
    <2>4. kept'.run = runs /\ kept'.commit # 0 =>
            \A i \in 1 .. Len(steps') : steps'[i].commit <= kept'.commit
      <3> SUFFICES ASSUME kept'.commit # 0, NEW i \in 1 .. Len(steps')
                   PROVE  steps'[i].commit <= kept'.commit
        OBVIOUS
      <3>1. b.commit # 0 /\ b.commit \in Nat
        BY <1>3, <2>0 DEF Bundle
      <3>2. CASE i \in 1 .. n
        <4>1. \A j \in 1 .. Len(steps) : steps[j].commit <= b.commit
          BY <1>3, <3>1
        <4>. QED
          BY <1>7, <1>10, <2>0, <3>2, <4>1
      <3>3. CASE i = n + 1
        BY <1>6, <1>10, <2>0, <3>1, <3>3
      <3>. QED
        BY <1>11, <3>2, <3>3
    <2>. QED
      BY <1>1, <2>0, <2>1, <2>2, <2>3, <2>4 DEF GovernedHolds, OutsPassed
  <1>17. BundlesAreBacked'
    <2>1. \A i \in 1 .. Len(steps') : steps'[i].commit <= tree
      <3> TAKE i \in 1 .. Len(steps')
      <3>1. CASE i \in 1 .. n
        BY <1>7, <1>9, <1>10, <3>1 DEF BundlesAreBacked
      <3>2. CASE i = n + 1
        BY <1>6, <1>10, <3>2, HeldIsBacked
      <3>. QED
        BY <1>11, <3>1, <3>2
    <2>2. /\ Backed(kept'.commit, kept'.outs) /\ kept'.version <= caps /\ caps <= offer
          /\ kept'.run <= runs
      BY <1>3, <1>5, <1>9, HeldIsBacked DEF RunnerTypeOK
    <2>. QED
      BY <1>1, <1>9, <2>1, <2>2 DEF BundlesAreBacked, Backed
  <1>18. JobIsOfNow'
    BY <1>1 DEF JobIsOfNow
  <1>. QED
    BY <1>10, <1>13, <1>14, <1>15, <1>16, <1>17, <1>18 DEF RunnerInv

LEMMA BundleEndsKeeps == ASSUME RunnerInv, BundleEnds PROVE RunnerInv'
  <1>1. /\ at = "bundle" /\ Underway /\ job # NoJob /\ job' = NoJob
        /\ UNCHANGED <<kind, tree, offer, token, moves, runs, caps, reported, answered, submitted>>
    BY DEF BundleEnds, Underway, NoJob, world
  <1>2. PICK b : b = Assembled /\ kept' = b
    BY DEF BundleEnds
  <1>3. b \in Bundle /\ b.run = runs /\ Backed(b.commit, b.outs) /\ b.version <= caps
    BY <1>1, <1>2, AssembledIsBacked
  <1>4. PICK res \in StepRecord : Phase(res) /\ res.commit = 0
    <2>1. [Passed EXCEPT !.scaffolded = TRUE] \in StepRecord
          /\ [Passed EXCEPT !.scaffolded = TRUE].commit = 0
      BY DEF Passed, NoResult, StepRecord
    <2>. QED
      BY <2>1 DEF BundleEnds
  <1>5. PICK n \in Nat : n = Len(steps) /\ kind \in Runners
    BY <1>1, NowAt
  <1>6. kind = "demo" /\ n = 5
    BY <1>1, <1>5, NowAt DEF Governed, Runners
  <1>7. RunnerTypeOK /\ Placed /\ AnsweredPhases /\ DemoHolds /\ BundlesAreBacked
    BY DEF RunnerInv
  <1>8. /\ steps' \in Seq(StepRecord) /\ Len(steps') = 6
        /\ \A i \in 1 .. 5 : steps'[i] = steps[i]
        /\ steps'[6] = res
        /\ Placed'
    BY <1>1, <1>4, <1>5, <1>6, <1>7, PhaseEnds
  <1>9. \A i \in 1 .. Len(steps') : i \in 1 .. 5 \/ i = 6
    BY <1>8
  <1>10. RunnerTypeOK'
    BY <1>1, <1>2, <1>3, <1>7, <1>8, NothingHeld DEF RunnerTypeOK
  <1>11. AnsweredPhases'
    <2>1. Phases(kind)[6] = "bundle"
      BY <1>1, <1>5, <1>6, <1>7 DEF Placed, Underway
    <2>2. ASSUME NEW i \in 1 .. Len(steps')
          PROVE  steps'[i].success /\ Phases(kind)[i] \in AskedPhases /\ kind # "local" =>
                   Phases(kind)[i] \in answered'
      <3>1. CASE i \in 1 .. 5
        BY <1>1, <1>5, <1>6, <1>7, <1>8, <3>1 DEF AnsweredPhases
      <3>2. CASE i = 6
        BY <2>1, <3>2 DEF AskedPhases
      <3>. QED
        BY <1>9, <3>1, <3>2
    <2>. QED
      BY <1>1, <1>7, <2>2 DEF AnsweredPhases
  <1>12. DemoHolds'
    <2>1. \A i \in 1 .. Len(steps') : steps'[i].scaffolded => i \notin {1, 2, 3, 5}
      <3> TAKE i \in 1 .. Len(steps')
      <3>1. CASE i \in 1 .. 5
        BY <1>5, <1>6, <1>7, <1>8, <3>1 DEF DemoHolds
      <3>2. CASE i = 6
        BY <3>2
      <3>. QED
        BY <1>9, <3>1, <3>2
    <2>2. steps'[5].success => reported # <<>> /\ OutsPassed(reported)
      BY <1>5, <1>6, <1>7, <1>8 DEF DemoHolds
    <2>. QED
      BY <1>1, <1>2, <1>3, <1>8, <2>1, <2>2 DEF DemoHolds, OutsPassed
  <1>13. GovernedHolds'
    BY <1>1, <1>6 DEF GovernedHolds, Governed
  <1>14. BundlesAreBacked'
    <2>1. \A i \in 1 .. Len(steps') : steps'[i].commit <= tree
      <3> TAKE i \in 1 .. Len(steps')
      <3>1. CASE i \in 1 .. 5
        BY <1>5, <1>6, <1>7, <1>8, <3>1 DEF BundlesAreBacked
      <3>2. CASE i = 6
        BY <1>4, <1>8, <3>2, HeldIsBacked
      <3>. QED
        BY <1>9, <3>1, <3>2
    <2>2. b.run <= runs
      BY <1>3, <1>7 DEF RunnerTypeOK
    <2>. QED
      BY <1>1, <1>2, <1>3, <1>7, <2>1, <2>2 DEF BundlesAreBacked, Backed
  <1>15. JobIsOfNow'
    BY <1>1 DEF JobIsOfNow
  <1>. QED
    BY <1>8, <1>10, <1>11, <1>12, <1>13, <1>14, <1>15 DEF RunnerInv

LEMMA SubmitProofKeeps == ASSUME RunnerInv, SubmitProof PROVE RunnerInv'
  <1>1. /\ kind = "demo" /\ at = "idle" /\ at' = "direct" /\ job = NoJob
        /\ UNCHANGED <<kind, tree, offer, token, moves, runs, steps, caps, job, kept,
                       reported, answered, submitted>>
    BY NoOtherJob DEF SubmitProof, world
  <1>2. RunnerTypeOK'
    BY <1>1 DEF RunnerInv, RunnerTypeOK
  <1>3. Placed'
    BY <1>1 DEF RunnerInv, Placed, Underway
  <1>4. AnsweredPhases' /\ DemoHolds' /\ GovernedHolds'
    BY <1>1 DEF RunnerInv, AnsweredPhases, DemoHolds, GovernedHolds, Governed, OutsPassed
  <1>5. JobIsOfNow' /\ BundlesAreBacked'
    BY <1>1 DEF RunnerInv, JobIsOfNow, BundlesAreBacked, Backed
  <1>. QED
    BY <1>2, <1>3, <1>4, <1>5 DEF RunnerInv

LEMMA SubmitProofEndsKeeps == ASSUME RunnerInv, SubmitProofEnds PROVE RunnerInv'
  <1>1. /\ at = "direct" /\ at' = "idle" /\ job # NoJob /\ job' = NoJob
        /\ submitted' = Append(submitted, Assembled)
        /\ UNCHANGED <<kind, tree, offer, token, moves, runs, steps, caps, kept,
                       reported, answered>>
    BY DEF SubmitProofEnds, NoJob, world
  <1>2. PICK b : b = Assembled
    OBVIOUS
  <1>3. b \in Bundle /\ Backed(b.commit, b.outs) /\ b.version <= caps
    BY <1>1, <1>2, AssembledIsBacked
  <1>4. PICK m \in Nat : m = Len(submitted) /\ submitted \in Seq(Bundle)
    BY HeldIsBacked
  <1>5. /\ submitted' \in Seq(Bundle) /\ Len(submitted') = m + 1
        /\ submitted'[m + 1] = b
        /\ \A i \in 1 .. m : submitted'[i] = submitted[i]
    BY <1>1, <1>2, <1>3, <1>4
  <1>6. \A i \in 1 .. Len(submitted') :
          /\ Backed(submitted'[i].commit, submitted'[i].outs)
          /\ submitted'[i].version <= caps
    <2> TAKE i \in 1 .. Len(submitted')
    <2>1. CASE i \in 1 .. m
      BY <1>4, <1>5, <2>1, HeldIsBacked
    <2>2. CASE i = m + 1
      BY <1>3, <1>5, <2>2
    <2>. QED
      BY <1>5, <2>1, <2>2
  <1>7. steps = <<>> /\ kept = NoBundle /\ runs = 0 /\ kind = "demo"
    BY <1>1 DEF RunnerInv, Placed
  <1>8. RunnerTypeOK'
    BY <1>1, <1>5, NothingHeld DEF RunnerInv, RunnerTypeOK
  <1>9. Placed' /\ AnsweredPhases' /\ DemoHolds' /\ GovernedHolds' /\ JobIsOfNow'
    BY <1>1, <1>7 DEF RunnerInv, Placed, Underway, AnsweredPhases, DemoHolds, GovernedHolds,
                      Governed, JobIsOfNow
  <1>10. BundlesAreBacked'
    BY <1>1, <1>6 DEF RunnerInv, BundlesAreBacked, Backed
  <1>. QED
    BY <1>8, <1>9, <1>10 DEF RunnerInv

LEMMA RunnerInvariant == RunnerSpec => []RunnerInv
  <1>1. RunnerInv /\ [RunnerNext]_runnerVars => RunnerInv'
    <2> SUFFICES ASSUME RunnerInv, [RunnerNext]_runnerVars PROVE RunnerInv'
      OBVIOUS
    <2>1. CASE Commits \/ OfferChanges \/ TokenRunsOut
      BY <2>1, MovesKeep DEF Commits, OfferChanges, TokenRunsOut
    <2>2. CASE Begin \/ Discovery \/ Identity \/ AskContext \/ InheritContext \/ Posture
               \/ Implementation
      BY <2>2, BeginKeeps, DiscoveryKeeps, IdentityKeeps, AskContextKeeps, InheritContextKeeps,
         PostureKeeps, ImplementationKeeps
    <2>3. CASE CaptureSource \/ Collect \/ VerificationEnds \/ BundleEnds \/ PassRaises
      BY <2>3, CaptureSourceKeeps, CollectKeeps, VerificationEndsKeeps, BundleEndsKeeps,
         PassRaisesKeeps
    <2>4. CASE RegisterContract \/ Handoff \/ Evaluation \/ Promotion
               \/ SubmitProof \/ SubmitProofEnds
      BY <2>4, RegisterContractKeeps, HandoffKeeps, EvaluationKeeps, PromotionKeeps,
         SubmitProofKeeps, SubmitProofEndsKeeps
    <2>5. CASE UNCHANGED runnerVars
      <3>1. UNCHANGED <<kind, tree, offer, token, moves, runs, at, steps, caps, job, kept,
                        reported, answered, submitted>>
        BY <2>5 DEF runnerVars, world, runner
      <3>2. RunnerTypeOK' /\ Placed' /\ AnsweredPhases'
        BY <3>1 DEF RunnerInv, RunnerTypeOK, Placed, Underway, AnsweredPhases
      <3>3. DemoHolds' /\ GovernedHolds'
        BY <3>1 DEF RunnerInv, DemoHolds, GovernedHolds, Governed, OutsPassed
      <3>4. JobIsOfNow' /\ BundlesAreBacked'
        BY <3>1 DEF RunnerInv, JobIsOfNow, BundlesAreBacked, Backed, Governed
      <3>. QED
        BY <3>2, <3>3, <3>4 DEF RunnerInv
    <2>. QED
      BY <2>1, <2>2, <2>3, <2>4, <2>5 DEF RunnerNext
  <1>. QED
    BY <1>1, RunBegins, PTL DEF RunnerSpec

\* All phases have ended, and each but a scaffolded one has succeeded.
LEMMA WhatPassed ==
  ASSUME RunnerInv, at = "done", AllPassed
  PROVE  /\ Len(steps) = Len(Phases(kind)) /\ kind \in Runners
         /\ \A i \in 1 .. Len(steps) :
              steps[i].success \/ (steps[i].scaffolded /\ kind # "smoke")
  <1>1. Len(steps) = Len(Phases(kind)) /\ kind \in Runners
    BY DEF RunnerInv, Placed, RunnerTypeOK, Runners
  <1>2. IF kind = "smoke" THEN Succeeded(Results) ELSE Succeeded(Executed)
    BY <1>1 DEF AllPassed, Runners
  <1>3. ASSUME NEW i \in 1 .. Len(steps)
        PROVE  steps[i].success \/ (steps[i].scaffolded /\ kind # "smoke")
    <2>1. steps[i] \in Results
      BY DEF Results
    <2>. QED
      BY <1>2, <2>1 DEF Succeeded, Executed
  <1>. QED
    BY <1>1, <1>3

(* A verdict of success of a runner is about its present run, although the runner
   keeps capabilities and bundles from the run before; whatever the developer, the
   server and the token do meanwhile, for any number of collectors and runs. What
   it asked was answered in that run, which is not to say that it was granted.     *)
THEOREM PassesAreOfTheirRun == RunnerSpec => []PassIsOfThisRun
  <1>1. ASSUME RunnerInv, at = "done", AllPassed, kind = "smoke"
        PROVE  answered = {"discovery", "identity", "context", "readonly"}
    <2>1. Len(steps) = 4 /\ \A i \in 1 .. 4 : steps[i].success
      BY <1>1, WhatPassed, PhasesAreDistinct
    <2>2. \A i \in 1 .. 4 : Phases("smoke")[i] \in AskedPhases =>
            Phases("smoke")[i] \in answered
      BY <1>1, <2>1 DEF RunnerInv, AnsweredPhases
    <2>3. {"discovery", "identity", "context", "readonly"} \subseteq answered
      BY <2>2, PhasesOf DEF AskedPhases
    <2>. QED
      BY <1>1, <2>3 DEF RunnerInv, AnsweredPhases, AskedPhases
  <1>2. ASSUME RunnerInv, at = "done", AllPassed, kind = "demo"
        PROVE  /\ answered = {"discovery", "identity", "context"}
               /\ reported # <<>> /\ OutsPassed(reported)
               /\ kept.run = runs /\ \E i \in 1 .. Len(submitted) : submitted[i] = kept
    <2>1. Len(steps) = 7 /\ \A i \in 1 .. 7 : steps[i].success \/ steps[i].scaffolded
      BY <1>2, WhatPassed, PhasesAreDistinct
    <2>2. steps[1].success /\ steps[2].success /\ steps[3].success /\ steps[5].success
      BY <1>2, <2>1 DEF RunnerInv, DemoHolds
    <2>3. \A i \in 1 .. 7 : steps[i].success /\ Phases("demo")[i] \in AskedPhases =>
            Phases("demo")[i] \in answered
      BY <1>2, <2>1 DEF RunnerInv, AnsweredPhases
    <2>4. {"discovery", "identity", "context"} \subseteq answered
      BY <2>2, <2>3, PhasesOf DEF AskedPhases
    <2>5. answered = {"discovery", "identity", "context"}
      BY <1>2, <2>4 DEF RunnerInv, AnsweredPhases, AskedPhases
    <2>6. kept.run = runs /\ runs # 0
      BY <1>2, <2>1 DEF RunnerInv, DemoHolds, Placed
    <2>7. kept # NoBundle
      BY <2>6, NothingHeld
    <2>. QED
      BY <1>2, <2>1, <2>2, <2>5, <2>6, <2>7 DEF RunnerInv, DemoHolds
  <1>3. ASSUME RunnerInv, at = "done", AllPassed, kind \in {"governance", "local"}
        PROVE  /\ kind = "governance" => "context" \in answered
               /\ kept.run = runs /\ OutsPassed(kept.outs)
    <2>1. Len(steps) = 7 /\ \A i \in 1 .. 7 : steps[i].success \/ steps[i].scaffolded
      BY <1>3, WhatPassed, PhasesAreDistinct
    <2>2. steps[2].success /\ steps[4].success
      BY <1>3, <2>1 DEF RunnerInv, GovernedHolds, Governed
    <2>3. kind = "governance" => "context" \in answered
      <3>1. Phases(kind)[2] = "context"
        BY <1>3, PhasesOf
      <3>. QED
        BY <1>3, <2>1, <2>2, <3>1 DEF RunnerInv, AnsweredPhases, AskedPhases
    <2>. QED
      BY <1>3, <2>1, <2>2, <2>3 DEF RunnerInv, GovernedHolds, Governed
  <1>4. RunnerInv => PassIsOfThisRun
    <2> SUFFICES ASSUME RunnerInv, at = "done", AllPassed PROVE PassIsOfThisRun
      BY DEF PassIsOfThisRun
    <2>1. kind \in Runners
      BY DEF RunnerInv, RunnerTypeOK, Runners
    <2>. QED
      BY <1>1, <1>2, <1>3, <2>1 DEF PassIsOfThisRun, Runners
  <1>. QED
    BY <1>4, RunnerInvariant, PTL

(* No bundle given to an adapter claims a commit newer than what a collector ran on,
   or a contract the runner has not seen, and no implementation event is newer than
   the bundle of its run.                                                          *)
THEOREM ProvenanceStaysTrue == RunnerSpec => []ProvenanceIsTrue
  <1>1. RunnerInv => ProvenanceIsTrue
    BY DEF RunnerInv, BundlesAreBacked, GovernedHolds, Backed, ProvenanceIsTrue
  <1>. QED
    BY <1>1, RunnerInvariant, PTL
=============================================================================
