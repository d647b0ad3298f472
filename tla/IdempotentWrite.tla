-------------------------- MODULE IdempotentWrite --------------------------
(***************************************************************************)
(* What calls over a lossy network promise when they carry an identity:    *)
(* all calls of one identity together have at most one effect, a call that *)
(* must have an identity never begins without one, a call that reports     *)
(* success reports an effect that has happened, and a call that gives up   *)
(* decides nothing: its effect may have happened, or may happen later.     *)
(***************************************************************************)
EXTENDS Naturals

CONSTANTS
  Calls,       \* calls made by clients
  Identities,  \* identities a call may carry
  NoIdentity

VARIABLES
  mustIdentify,  \* whether a call is of an operation that needs an identity
  begun,         \* whether the call has begun
  identity,      \* the identity it carries, or NoIdentity
  effects,       \* how many times the call has taken effect
  result         \* what it told its caller

writeVars == <<mustIdentify, begun, identity, effects, result>>

WriteInit ==
  /\ mustIdentify \in [Calls -> BOOLEAN]
  /\ begun = [c \in Calls |-> FALSE]
  /\ identity = [c \in Calls |-> NoIdentity]
  /\ effects = [c \in Calls |-> 0]
  /\ result = [c \in Calls |-> "pending"]

Begin(c) ==
  /\ ~begun[c]
  /\ begun' = [begun EXCEPT ![c] = TRUE]
  /\ \E i \in Identities \cup {NoIdentity} :
       /\ mustIdentify[c] => i # NoIdentity
       /\ identity' = [identity EXCEPT ![c] = i]
  /\ UNCHANGED <<mustIdentify, effects, result>>

TakeEffect(c) ==
  /\ begun[c]
  /\ identity[c] # NoIdentity =>
       \A d \in Calls : identity[d] = identity[c] => effects[d] = 0
  /\ effects' = [effects EXCEPT ![c] = @ + 1]
  /\ UNCHANGED <<mustIdentify, begun, identity, result>>

Report(c, r) ==
  /\ begun[c]
  /\ result[c] = "pending"
  /\ r = "executed" => effects[c] > 0
  /\ r = "replayed" => \E d \in Calls : identity[d] = identity[c] /\ effects[d] > 0
  /\ result' = [result EXCEPT ![c] = r]
  /\ UNCHANGED <<mustIdentify, begun, identity, effects>>

WriteNext ==
  \E c \in Calls :
    \/ Begin(c) \/ TakeEffect(c)
    \/ \E r \in {"executed", "replayed", "gave_up"} : Report(c, r)

WriteSpec == WriteInit /\ [][WriteNext]_writeVars
=============================================================================
