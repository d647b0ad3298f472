------------------------- MODULE GovernedTransport -------------------------
(***************************************************************************)
(* GovernedTransport.execute (keyhole_sdk/transport): one logical call     *)
(* spans several HTTP attempts under one idempotency key.  An attempt can  *)
(* fail after its request reached the server, and the server may handle a  *)
(* request long after the client stopped waiting for it, so attempts of    *)
(* one call and calls of several clients overlap at the server.            *)
(*                                                                         *)
(* The server is external.  It keeps the X-Idempotency-Key contract that   *)
(* the client relies on: a key it has executed is not executed again, it   *)
(* is replayed for the same payload and refused with 409 for another.      *)
(***************************************************************************)
EXTENDS Naturals, FiniteSets

CONSTANTS
  Calls,          \* calls of execute
  Payloads,       \* what a call asks for
  CallerKeys,     \* idempotency keys that callers pass in
  None,           \* no key, no reply, no observation
  MaxRetries,     \* RetryConfig.max_retries
  RetryEnabled    \* RetryConfig.enabled

\* A key is a caller's or a uuid4 minted by a call, before its loop (place 0)
\* or in one of its attempts.
MintedKeys == Calls \X (0..(MaxRetries + 1))
Keys == CallerKeys \cup MintedKeys

ASSUME RetriesAssumption == MaxRetries \in Nat /\ RetryEnabled \in BOOLEAN
ASSUME KeysAssumption == CallerKeys \cap MintedKeys = {}

Policies == {"SAFE_READ", "SAFE_WRITE_IDEMPOTENT", "NO_RETRY"}

\* HTTP status classes that execute treats alike.  "garbled" is a success
\* whose body is not JSON; "replayed" carries X-Original-Request-Id.
Replies == {"ok", "replayed", "garbled", "conflict409", "limited429", "timeout408",
            "unavailable", "failed5xx", "rejected4xx"}

Observations == {"EXECUTED", "REPLAYED", "DEFERRED", "CONFLICT", "TRANSPORT_UNKNOWN", "NOT_SENT"}

\* How execute ended: a result, or the exception it raised.
Ends == {"TransportResult", "SchemaError", "IdempotencyConflictError", "RateLimitedError",
         "RetryExhaustedError", "TransportUnknownError", "RuntimeUnavailableError",
         "PublicEndpointError"}

ASSUME NoneAssumption == None \notin Keys \cup Replies \cup Observations \cup Ends

generate_idempotency_key(c, place) == <<c, place>>

Message == [call : Calls, attempt : Nat, key : Keys \cup {None}, payload : Payloads]

VARIABLES
  pc,            \* "idle", "ready" to attempt, "waiting" for a reply, "done"
  retry_policy,  \* of the operation's descriptor (NO_RETRY when unregistered)
  key,           \* the idempotency key of the call, or None
  payload,       \* what the call asks for
  attempt,       \* the loop counter, and proof.attempt_count
  observation,   \* proof.final_client_observation once marked, or None
  end,           \* how execute ended, or None
  sent,          \* every request sent so far
  wire,          \* requests sent and not yet handled by the server
  executed,      \* requests the server has executed: its idempotency store
  reply          \* the reply to the attempt a call is waiting for, or None

caller == <<pc, retry_policy, key, payload, attempt, observation, end>>
network == <<sent, wire>>
vars == <<caller, network, executed, reply>>

Init ==
  /\ pc = [c \in Calls |-> "idle"]
  /\ retry_policy \in [Calls -> Policies]
  /\ key = [c \in Calls |-> None]
  /\ payload \in [Calls -> Payloads]
  /\ attempt = [c \in Calls |-> 0]
  /\ observation = [c \in Calls |-> None]
  /\ end = [c \in Calls |-> None]
  /\ sent = {} /\ wire = {} /\ executed = {}
  /\ reply = [c \in Calls |-> None]

-----------------------------------------------------------------------------
(* The client.                                                             *)

\* _max_attempts.
MaxAttempts(policy) ==
  IF RetryEnabled /\ policy # "NO_RETRY" THEN MaxRetries + 1 ELSE 1

idempotency_required(c) == retry_policy[c] = "SAFE_WRITE_IDEMPOTENT"

\* execute is called, with or without a key of the caller's.
Execute(c) ==
  /\ pc[c] = "idle"
  /\ \E supplied \in CallerKeys \cup {None} :
       key' = [key EXCEPT ![c] =
                 IF supplied = None /\ idempotency_required(c)
                 THEN generate_idempotency_key(c, 0)
                 ELSE supplied]
  /\ pc' = [pc EXCEPT ![c] = "ready"]
  /\ UNCHANGED <<retry_policy, payload, attempt, observation, end, network, executed, reply>>

\* Mutant: every attempt mints a key of its own.
RequestWithFreshKey(c, n) ==
  [call |-> c, attempt |-> n, payload |-> payload[c],
   key |-> IF idempotency_required(c) THEN generate_idempotency_key(c, n) ELSE key[c]]

\* The request of attempt n.
RequestOf(c, n) ==
  [call |-> c, attempt |-> n, key |-> key[c], payload |-> payload[c]]

Attempt(c) ==
  LET m == RequestOf(c, attempt[c] + 1)
  IN /\ pc[c] = "ready"
     /\ attempt' = [attempt EXCEPT ![c] = attempt[c] + 1]
     /\ sent' = sent \cup {m}
     /\ wire' = wire \cup {m}
     /\ pc' = [pc EXCEPT ![c] = "waiting"]
     /\ UNCHANGED <<retry_policy, key, payload, observation, end, executed, reply>>

AttemptsLeft(c) == attempt[c] < MaxAttempts(retry_policy[c])

Retry(c) ==
  /\ AttemptsLeft(c)
  /\ pc' = [pc EXCEPT ![c] = "ready"]
  /\ UNCHANGED <<observation, end>>

Finish(c, obs, how) ==
  /\ pc' = [pc EXCEPT ![c] = "done"]
  /\ observation' = [observation EXCEPT ![c] = obs]
  /\ end' = [end EXCEPT ![c] = how]

\* The rest of an iteration of the loop: the reply, if any, is consumed.
EndOfAttempt(c) ==
  /\ pc[c] = "waiting"
  /\ reply' = [reply EXCEPT ![c] = None]
  /\ UNCHANGED <<retry_policy, key, payload, attempt, network, executed>>

\* Mutant: requests is called without a timeout.
TransportFailureNoTimeout(c) ==
  /\ reply[c] # None
  /\ EndOfAttempt(c)
  /\ \/ Retry(c)
     \/ ~AttemptsLeft(c) /\ Finish(c, "TRANSPORT_UNKNOWN", "TransportUnknownError")

\* ConnectionError, Timeout or OSError; the request may be anywhere, and so
\* may its reply.
TransportFailure(c) ==
  /\ EndOfAttempt(c)
  /\ \/ Retry(c)
     \/ ~AttemptsLeft(c) /\ Finish(c, "TRANSPORT_UNKNOWN", "TransportUnknownError")

ReceiveConflict(c) ==
  /\ reply[c] = "conflict409"
  /\ EndOfAttempt(c)
  /\ Finish(c, "CONFLICT", "IdempotencyConflictError")

ReceiveRateLimit(c) ==
  /\ reply[c] = "limited429"
  /\ EndOfAttempt(c)
  /\ \/ Retry(c)
     \/ ~AttemptsLeft(c) /\ Finish(c, "DEFERRED", "RateLimitedError")

\* 408, 502, 503 and 504 while a retry is possible at all.
ReceiveRetryable(c) ==
  /\ reply[c] \in {"timeout408", "unavailable"}
  /\ MaxAttempts(retry_policy[c]) > 1
  /\ EndOfAttempt(c)
  /\ \/ Retry(c)
     \/ ~AttemptsLeft(c) /\ Finish(c, "TRANSPORT_UNKNOWN", "RetryExhaustedError")

ReceiveServerError(c) ==
  /\ \/ reply[c] = "failed5xx"
     \/ reply[c] = "unavailable" /\ MaxAttempts(retry_policy[c]) = 1
  /\ EndOfAttempt(c)
  /\ Finish(c, "TRANSPORT_UNKNOWN", "RuntimeUnavailableError")

ReceiveClientError(c) ==
  /\ \/ reply[c] = "rejected4xx"
     \/ reply[c] = "timeout408" /\ MaxAttempts(retry_policy[c]) = 1
  /\ EndOfAttempt(c)
  /\ Finish(c, "NOT_SENT", "PublicEndpointError")

ReceiveSuccess(c) ==
  /\ EndOfAttempt(c)
  /\ \/ reply[c] = "garbled" /\ Finish(c, "EXECUTED", "SchemaError")
     \/ reply[c] = "replayed" /\ Finish(c, "REPLAYED", "TransportResult")
     \/ reply[c] = "ok" /\ Finish(c, "EXECUTED", "TransportResult")

-----------------------------------------------------------------------------
(* The server and the network (external).                                  *)

SameKey(m) == {e \in executed : e.key # None /\ e.key = m.key}

\* The reply reaches the client only if it still waits for that attempt.
Answer(m, r) ==
  reply' = IF pc[m.call] = "waiting" /\ attempt[m.call] = m.attempt
           THEN [reply EXCEPT ![m.call] = r]
           ELSE reply

\* A fresh request is executed; the gateway may still answer with an error.
ServerExecutes(m) ==
  /\ SameKey(m) = {}
  /\ executed' = executed \cup {m}
  /\ \E r \in {"ok", "garbled", "unavailable", "failed5xx"} : Answer(m, r)

ServerReplays(m) ==
  /\ \E e \in SameKey(m) : e.payload = m.payload
  /\ \E r \in {"replayed", "garbled", "unavailable"} : Answer(m, r)
  /\ UNCHANGED executed

ServerConflicts(m) ==
  /\ \E e \in SameKey(m) : e.payload # m.payload
  /\ Answer(m, "conflict409")
  /\ UNCHANGED executed

\* Overload, validation, authorization: refused before the key is looked at.
ServerRefuses(m) ==
  /\ \E r \in {"limited429", "timeout408", "unavailable", "failed5xx", "rejected4xx"} :
       Answer(m, r)
  /\ UNCHANGED executed

ServerHandles(m) ==
  /\ m \in wire
  /\ wire' = wire \ {m}
  /\ ServerExecutes(m) \/ ServerReplays(m) \/ ServerConflicts(m) \/ ServerRefuses(m)
  /\ UNCHANGED <<caller, sent>>

LoseRequest(m) ==
  /\ m \in wire
  /\ wire' = wire \ {m}
  /\ UNCHANGED <<caller, sent, executed, reply>>

-----------------------------------------------------------------------------
Receive(c) ==
  \/ ReceiveConflict(c) \/ ReceiveRateLimit(c) \/ ReceiveRetryable(c)
  \/ ReceiveServerError(c) \/ ReceiveClientError(c) \/ ReceiveSuccess(c)

Next ==
  \/ \E c \in Calls : Execute(c) \/ Attempt(c) \/ TransportFailure(c) \/ Receive(c)
  \/ \E m \in wire : ServerHandles(m) \/ LoseRequest(m)

Spec == Init /\ [][Next]_vars

\* execute runs on, and its timeout ends every wait.  Nothing is assumed of
\* the server or the network.
Fairness == \A c \in Calls : WF_vars(Attempt(c)) /\ WF_vars(TransportFailure(c) \/ Receive(c))

FairSpec == Spec /\ Fairness

-----------------------------------------------------------------------------
(* Properties.                                                             *)

\* The type invariant of the calls of execute, the network and the server's
\* store of executed requests.
TypeOK ==
  /\ pc \in [Calls -> {"idle", "ready", "waiting", "done"}]
  /\ retry_policy \in [Calls -> Policies]
  /\ key \in [Calls -> Keys \cup {None}]
  /\ payload \in [Calls -> Payloads]
  /\ attempt \in [Calls -> Nat]
  /\ observation \in [Calls -> Observations \cup {None}]
  /\ end \in [Calls -> Ends \cup {None}]
  /\ sent \subseteq Message /\ wire \subseteq sent /\ executed \subseteq sent
  /\ reply \in [Calls -> Replies \cup {None}]

Write(c) == idempotency_required(c)

\* However many attempts of a write reach the server, and however late, it is
\* executed at most once; an operation that may not be retried is sent at most
\* once, so it cannot be executed twice either.
WriteExecutedOnce ==
  /\ \A m, n \in executed : m.call = n.call /\ Write(m.call) => m = n
  /\ \A m, n \in sent : m.call = n.call /\ retry_policy[m.call] = "NO_RETRY" => m = n

\* A success handed to the caller is true, and is presented for what it is:
\* EXECUTED means the very attempt that was answered executed the operation,
\* REPLAYED means an earlier request with the same key and payload did.
SuccessIsTrue ==
  \A c \in Calls : end[c] = "TransportResult" =>
    /\ observation[c] = "EXECUTED" =>
         \E m \in executed : m.call = c /\ m.attempt = attempt[c]
    /\ observation[c] = "REPLAYED" =>
         /\ key[c] # None
         /\ \E m \in executed :
              /\ m.key = key[c] /\ m.payload = payload[c]
              /\ <<m.call, m.attempt>> # <<c, attempt[c]>>

\* A key the transport minted is never answered with somebody else's outcome:
\* no conflict, and a replay only of an attempt of the same call.
MintedKeysAreOwn ==
  \A c \in Calls : key[c] = generate_idempotency_key(c, 0) =>
    /\ observation[c] # "CONFLICT"
    /\ \A m \in executed : m.key = key[c] => m.call = c

\* The attempts the proof metadata records are exactly the requests that were
\* sent, within the retry budget.
BoundedAttempts ==
  \A c \in Calls :
    /\ {m.attempt : m \in {n \in sent : n.call = c}} = 1..attempt[c]
    /\ attempt[c] <= MaxAttempts(retry_policy[c])

\* Every call ends, whatever the network and the server do.
CallsEnd == \A c \in Calls : pc[c] = "ready" ~> pc[c] = "done"

-----------------------------------------------------------------------------
(* The transport implements IdempotentWrite.                               *)
resultOf(c) ==
  CASE end[c] = None -> "pending"
    [] end[c] = "TransportResult" /\ observation[c] = "EXECUTED" -> "executed"
    [] end[c] = "TransportResult" /\ observation[c] = "REPLAYED" -> "replayed"
    [] OTHER -> "gave_up"

Abstract == INSTANCE IdempotentWrite WITH
  Identities <- Keys,
  NoIdentity <- None,
  mustIdentify <- [c \in Calls |-> idempotency_required(c)],
  begun <- [c \in Calls |-> pc[c] # "idle"],
  identity <- key,
  effects <- [c \in Calls |-> Cardinality({m \in executed : m.call = c})],
  result <- [c \in Calls |-> resultOf(c)]

\* Attempts, retries, lost replies and late requests are invisible to callers:
\* what they see is a step of IdempotentWrite.
ImplementsIdempotentWrite == Abstract!WriteSpec
=============================================================================
