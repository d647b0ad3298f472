-------------------------- MODULE DeviceAuthProofs --------------------------
(***************************************************************************)
(* Proofs about DeviceAuth and RunCommand.  That only the active attempt    *)
(* gets a token rests on two facts about the registry: what is neither     *)
(* superseded nor completed is active, and what is completed has been      *)
(* superseded or has ended, so that a poller whose approval has just come  *)
(* back, and that is not superseded, is the active one.                    *)
(*                                                                         *)
(* That a run has a type the server knew in time rests on the date of the  *)
(* cache: unless one was stored late, a snapshot of date d is of the tick  *)
(* d - TTL or an earlier one of the command, and what was served at a tick *)
(* the clock has passed stays so.                                          *)
(***************************************************************************)
EXTENDS DeviceAuth, RunCommand, TLAPS

USE MaxAttemptsAssumption, NoneAssumption, CancelTokenAssumption, ServerAssumption,
    LimitsAssumption
USE DEF Attempts, Statuses

-----------------------------------------------------------------------------
(* The inductive invariant.                                                *)

\* An attempt that is completed was superseded, or its poller has ended.
CompletedHasEnded ==
  \A a \in completed : a \in superseded \/ pc[a] \in Ended

\* The budget of failures is never used up while a poller goes on.
BudgetIsLeft ==
  \A a \in Attempts : failures[a] < MaxFailures

\* The time that is left, as PollsKeepDeadline has it, for every attempt.
TimeIsLeft ==
  \A a \in Attempts :
    /\ pc[a] \in {"top", "checked", "polling"} => left[a] >= 0
    /\ pc[a] \in Polling => left[a] >= -RequestTimeout

\* What the last poll brought back is true of the device code.
OutcomeIsTrue ==
  \A a \in Attempts :
    pc[a] = "outcome" =>
      /\ outcome[a] = "APPROVED" => grant[a] = "spent"
      /\ outcome[a] = "DENIED" => grant[a] = "denied"
      /\ outcome[a] = "EXPIRED" => grant[a] = "expired"

\* An attempt that has not been started has no poller.
UnknownIsIdle == \A a \in Attempts : a \notin known => pc[a] = "none"

IInv ==
  /\ TypeOK /\ PendingIsActive /\ CompletedHasEnded /\ BudgetIsLeft
  /\ TimeIsLeft /\ OutcomeIsTrue /\ UnknownIsIdle

LEMMA InitIInv == Init => IInv
  BY DEF Init, IInv, TypeOK, PendingIsActive, CompletedHasEnded, BudgetIsLeft,
         TimeIsLeft, OutcomeIsTrue, UnknownIsIdle, Polling, Ended, Grants

-----------------------------------------------------------------------------
(* The operations of the registry, the person and the server.              *)

LEMMA StartIInv ==
  ASSUME IInv, NEW a \in Attempts, Start(a)
  PROVE  IInv'
  BY DEF Start, IInv, TypeOK, PendingIsActive, CompletedHasEnded, BudgetIsLeft,
         TimeIsLeft, OutcomeIsTrue, UnknownIsIdle, Polling, Ended, Grants

LEMMA CompleteIInv ==
  ASSUME IInv, NEW a \in Attempts, Complete(a)
  PROVE  IInv'
  BY DEF Complete, poller, IInv, TypeOK, PendingIsActive, CompletedHasEnded, BudgetIsLeft,
         TimeIsLeft, OutcomeIsTrue, UnknownIsIdle, Polling, Ended, Grants

LEMMA CancelIInv ==
  ASSUME IInv, NEW a \in Attempts, Cancel(a)
  PROVE  IInv'
  BY DEF Cancel, poller, IInv, TypeOK, PendingIsActive, CompletedHasEnded, BudgetIsLeft,
         TimeIsLeft, OutcomeIsTrue, UnknownIsIdle, Polling, Ended, Grants

LEMMA CancelAllIInv ==
  ASSUME IInv, CancelAll
  PROVE  IInv'
  BY DEF CancelAll, poller, IInv, TypeOK, PendingIsActive, CompletedHasEnded, BudgetIsLeft,
         TimeIsLeft, OutcomeIsTrue, UnknownIsIdle, Polling, Ended, Grants

LEMMA SetCancelTokenIInv ==
  ASSUME IInv, NEW a \in Attempts, SetCancelToken(a)
  PROVE  IInv'
  BY DEF SetCancelToken, registry, poller, IInv, TypeOK, PendingIsActive, CompletedHasEnded,
         BudgetIsLeft, TimeIsLeft, OutcomeIsTrue, UnknownIsIdle, Polling, Ended, Grants

\* A decision, or a lapse, comes too late for an outcome that is on its way.
LEMMA ServerIInv ==
  ASSUME IInv, NEW a \in Attempts, Decide(a) \/ Lapse(a)
  PROVE  IInv'
  <1>1. PICK g \in Grants :
          /\ grant' = [grant EXCEPT ![a] = g] /\ UNCHANGED <<registry, cancelled, poller>>
          /\ \/ grant[a] = "pending" /\ g \in {"approved", "denied"}
             \/ grant[a] \in {"pending", "approved"} /\ g = "expired"
    BY DEF Decide, Lapse, Grants
  <1>2. TypeOK'
    BY <1>1 DEF IInv, TypeOK, registry, poller
  <1>3. OutcomeIsTrue'
    BY <1>1 DEF IInv, TypeOK, OutcomeIsTrue, poller
  <1>. QED
    BY <1>1, <1>2, <1>3 DEF IInv, registry, poller, PendingIsActive, CompletedHasEnded,
       BudgetIsLeft, TimeIsLeft, UnknownIsIdle

-----------------------------------------------------------------------------
(* The poller.                                                             *)

\* A poller that ends.
LEMMA EndsIInv ==
  ASSUME IInv, NEW a \in Attempts, pc[a] \in Polling, NEW how \in Ended, Ends(a, how)
  PROVE  IInv'
  <1>1. a \in known /\ how \notin Polling
    BY DEF IInv, UnknownIsIdle, Polling, Ended
  <1>2. TypeOK'
    BY <1>1 DEF Ends, registry, IInv, TypeOK, Grants
  <1>3. \A b \in Attempts : pc'[b] = IF b = a THEN how ELSE pc[b]
    BY DEF Ends, IInv, TypeOK
  <1>4. PendingIsActive' /\ CompletedHasEnded' /\ UnknownIsIdle'
    BY <1>1, <1>3 DEF Ends, registry, IInv, TypeOK, PendingIsActive, CompletedHasEnded, UnknownIsIdle
  <1>5. BudgetIsLeft' /\ TimeIsLeft' /\ OutcomeIsTrue'
    BY <1>1, <1>3 DEF Ends, IInv, TypeOK, BudgetIsLeft, TimeIsLeft, OutcomeIsTrue, Polling
  <1>. QED
    BY <1>2, <1>4, <1>5 DEF IInv

LEMMA RequestIInv ==
  ASSUME IInv, NEW a \in Attempts, RequestDeviceAuthorization(a)
  PROVE  IInv'
  <1>1. CASE pc' = [pc EXCEPT ![a] = "failed"] /\ UNCHANGED <<interval, left>>
    BY <1>1 DEF RequestDeviceAuthorization, registry, IInv, TypeOK, PendingIsActive,
       CompletedHasEnded, BudgetIsLeft, TimeIsLeft, OutcomeIsTrue, UnknownIsIdle, Polling, Ended
  <1>2. CASE \E i \in Intervals, e \in Expiries :
               /\ interval' = [interval EXCEPT ![a] = Most(IntervalFloor, i)]
               /\ left' = [left EXCEPT ![a] = Most(ExpiryFloor, e)]
               /\ pc' = [pc EXCEPT ![a] = "top"]
    <2>1. PICK i \in Intervals, e \in Expiries :
               /\ interval' = [interval EXCEPT ![a] = Most(IntervalFloor, i)]
               /\ left' = [left EXCEPT ![a] = Most(ExpiryFloor, e)]
               /\ pc' = [pc EXCEPT ![a] = "top"]
      BY <1>2
    <2>2. /\ Most(IntervalFloor, i) \in Nat \ {0}
          /\ Most(ExpiryFloor, e) \in Int /\ Most(ExpiryFloor, e) >= 0
      <3>1. i \in Int /\ e \in Int
        OBVIOUS
      <3>. QED
        BY <3>1 DEF Most
    <2>3. TypeOK'
      BY <2>1, <2>2 DEF RequestDeviceAuthorization, registry, IInv, TypeOK, Polling
    <2>4. \A b \in Attempts : b # a => pc'[b] = pc[b] /\ left'[b] = left[b]
      BY <2>1 DEF IInv, TypeOK
    <2>5. pc'[a] = "top" /\ left'[a] >= 0 /\ left'[a] >= -RequestTimeout
      BY <2>1, <2>2 DEF IInv, TypeOK
    <2>6. TimeIsLeft'
      BY <2>4, <2>5 DEF IInv, TimeIsLeft
    <2>7. BudgetIsLeft' /\ OutcomeIsTrue'
      BY <2>4, <2>5 DEF RequestDeviceAuthorization, IInv, BudgetIsLeft, OutcomeIsTrue
    <2>8. PendingIsActive' /\ CompletedHasEnded' /\ UnknownIsIdle'
      BY <2>4, <2>5 DEF RequestDeviceAuthorization, registry, IInv, TypeOK, PendingIsActive,
         CompletedHasEnded, UnknownIsIdle, Ended
    <2>. QED
      BY <2>3, <2>6, <2>7, <2>8 DEF IInv
  <1>. QED
    BY <1>1, <1>2 DEF RequestDeviceAuthorization

\* A poller that goes on to another place of its loop.
LEMMA GoesIInv ==
  ASSUME IInv, NEW a \in Attempts, pc[a] \in Polling, NEW place \in Polling, Goes(a, place),
         interval' \in [Attempts -> Nat \ {0}],
         \A b \in Attempts : failures'[b] < MaxFailures,
         failures' \in [Attempts -> 0..MaxFailures],
         outcome' \in [Attempts -> Statuses \cup {None}], grant' \in [Attempts -> Grants],
         NEW l \in Int, left' = [left EXCEPT ![a] = l], l >= -RequestTimeout,
         place # "outcome" => l >= 0,
         \A b \in Attempts : b # a => outcome'[b] = outcome[b] /\ grant'[b] = grant[b],
         place = "outcome" =>
           /\ outcome'[a] = "APPROVED" => grant'[a] = "spent"
           /\ outcome'[a] = "DENIED" => grant'[a] = "denied"
           /\ outcome'[a] = "EXPIRED" => grant'[a] = "expired"
  PROVE  IInv'
  <1>1. /\ pc' = [pc EXCEPT ![a] = place] /\ UNCHANGED <<registry, cancelled>>
        /\ a \in known /\ pc[a] \notin Ended /\ place \notin Ended \cup {"none"}
    BY DEF Goes, IInv, UnknownIsIdle, Polling, Ended
  <1>2. \A b \in Attempts : pc'[b] = IF b = a THEN place ELSE pc[b]
    BY <1>1 DEF IInv, TypeOK
  <1>3. TypeOK'
    BY <1>1 DEF registry, IInv, TypeOK
  <1>4. PendingIsActive' /\ CompletedHasEnded' /\ UnknownIsIdle'
    BY <1>1, <1>2 DEF registry, IInv, TypeOK, PendingIsActive, CompletedHasEnded, UnknownIsIdle
  <1>5. \A b \in Attempts : left'[b] = IF b = a THEN l ELSE left[b]
    BY DEF IInv, TypeOK
  <1>6. TimeIsLeft'
    BY <1>2, <1>5 DEF IInv, TimeIsLeft, Polling
  <1>7. OutcomeIsTrue'
    BY <1>2 DEF IInv, OutcomeIsTrue
  <1>8. BudgetIsLeft'
    BY DEF BudgetIsLeft
  <1>. QED
    BY <1>3, <1>4, <1>6, <1>7, <1>8 DEF IInv

LEMMA CheckIInv ==
  ASSUME IInv, NEW a \in Attempts, CheckCancelToken(a) \/ CheckSuperseded(a)
  PROVE  IInv'
  <1>1. CASE Ends(a, "cancelled")
    BY <1>1, EndsIInv DEF CheckCancelToken, CheckSuperseded, Polling, Ended
  <1>2. ASSUME NEW place \in {"checked", "polling"}, pc[a] \in {"top", "checked"}, Goes(a, place),
               UNCHANGED <<interval, left, failures, outcome, grant>>
        PROVE  IInv'
    <2>1. left[a] \in Int /\ left[a] >= 0 /\ left' = [left EXCEPT ![a] = left[a]]
      BY <1>2 DEF IInv, TypeOK, TimeIsLeft
    <2>2. left[a] >= -RequestTimeout
      BY <2>1
    <2>3. pc[a] \in Polling /\ place \in Polling /\ place # "outcome"
      BY <1>2 DEF Polling
    <2>4. /\ interval' \in [Attempts -> Nat \ {0}] /\ failures' \in [Attempts -> 0..MaxFailures]
          /\ \A b \in Attempts : failures'[b] < MaxFailures
          /\ outcome' \in [Attempts -> Statuses \cup {None}] /\ grant' \in [Attempts -> Grants]
      BY <1>2 DEF IInv, TypeOK, BudgetIsLeft
    <2>. QED
      BY <1>2, <2>1, <2>2, <2>3, <2>4, GoesIInv
  <1>. QED
    BY <1>1, <1>2 DEF CheckCancelToken, CheckSuperseded

LEMMA PollOnceIInv ==
  ASSUME IInv, NEW a \in Attempts, PollOnce(a)
  PROVE  IInv'
  <1>1. PICK r \in Replies(grant[a]), d \in 0..RequestTimeout :
          /\ outcome' = [outcome EXCEPT ![a] = r.status]
          /\ grant' = [grant EXCEPT ![a] = r.grant]
          /\ left' = [left EXCEPT ![a] = @ - d]
    BY DEF PollOnce
  <1>2. /\ r.status \in Statuses /\ r.grant \in Grants
        /\ r.status = "APPROVED" => r.grant = "spent"
        /\ r.status = "DENIED" => r.grant = "denied"
        /\ r.status = "EXPIRED" => r.grant = "expired"
    BY DEF Replies
  <1>3. left[a] - d \in Int /\ left[a] - d >= -RequestTimeout
    <2>1. pc[a] = "polling"
      BY DEF PollOnce
    <2>2. left[a] \in Int /\ left[a] >= 0 /\ d \in Int /\ d <= RequestTimeout
      BY <2>1 DEF IInv, TypeOK, TimeIsLeft
    <2>. QED
      BY <2>2
  <1>4. outcome'[a] = r.status /\ grant'[a] = r.grant
    BY <1>1 DEF IInv, TypeOK
  <1>5. outcome' \in [Attempts -> Statuses \cup {None}] /\ grant' \in [Attempts -> Grants]
    BY <1>1, <1>2 DEF IInv, TypeOK
  <1>6. \A b \in Attempts : b # a => outcome'[b] = outcome[b] /\ grant'[b] = grant[b]
    BY <1>1 DEF IInv, TypeOK
  <1>. QED
    BY <1>1, <1>2, <1>3, <1>4, <1>5, <1>6, GoesIInv DEF PollOnce, IInv, TypeOK, BudgetIsLeft, Polling

LEMMA WaitIInv ==
  ASSUME IInv, NEW a \in Attempts, pc[a] = "outcome", NEW i \in Nat \ {0},
         NEW f \in Nat, f < MaxFailures, Wait(a, i, f)
  PROVE  IInv'
  <1>1. CASE left[a] <= 0
    BY <1>1, EndsIInv DEF Wait, Polling, Ended
  <1>2. CASE ~(left[a] <= 0)
    <2>1. left[a] \in Int /\ left[a] > 0
      BY <1>2 DEF IInv, TypeOK
    <2>. DEFINE l == left[a] - Least(i, left[a])
    <2>2. l \in Int /\ l >= 0
      BY <2>1 DEF Least
    <2>3. /\ interval' = [interval EXCEPT ![a] = i] /\ failures' = [failures EXCEPT ![a] = f]
          /\ left' = [left EXCEPT ![a] = l] /\ outcome' = [outcome EXCEPT ![a] = None]
          /\ Goes(a, "top") /\ grant' = grant
      BY <1>2 DEF Wait
    <2>4. /\ interval' \in [Attempts -> Nat \ {0}] /\ failures' \in [Attempts -> 0..MaxFailures]
          /\ \A b \in Attempts : failures'[b] < MaxFailures
          /\ outcome' \in [Attempts -> Statuses \cup {None}] /\ grant' \in [Attempts -> Grants]
          /\ \A b \in Attempts : b # a => outcome'[b] = outcome[b] /\ grant'[b] = grant[b]
      BY <2>3 DEF IInv, TypeOK, BudgetIsLeft
    <2>5. l >= -RequestTimeout
      BY <2>2
    <2>. HIDE DEF l
    <2>. QED
      BY <2>2, <2>3, <2>4, <2>5, GoesIInv DEF Polling
  <1>. QED
    BY <1>1, <1>2

LEMMA OutcomeIInv ==
  ASSUME IInv, NEW a \in Attempts,
         Approved(a) \/ Refused(a) \/ Pending(a) \/ SlowDown(a) \/ NetworkError(a)
  PROVE  IInv'
  <1>1. CASE Approved(a) \/ Refused(a)
    BY <1>1, EndsIInv DEF Approved, Refused, Polling, Ended
  <1>2. CASE Pending(a)
    <2>1. interval[a] \in Nat \ {0} /\ 0 < MaxFailures
      BY DEF IInv, TypeOK
    <2>. QED
      BY <1>2, <2>1, WaitIInv DEF Pending
  <1>3. CASE SlowDown(a)
    <2>1. interval[a] + Increment \in Nat \ {0}
      BY DEF IInv, TypeOK
    <2>2. Least(interval[a] + Increment, IntervalCap) \in Nat \ {0}
      BY <2>1 DEF Least
    <2>. QED
      BY <1>3, <2>2, 0 < MaxFailures, WaitIInv DEF SlowDown
  <1>4. CASE NetworkError(a)
    <2>1. failures[a] \in Nat
      BY DEF IInv, TypeOK
    <2>2. CASE failures[a] + 1 >= MaxFailures
      BY <1>4, <2>2, EndsIInv DEF NetworkError, Polling, Ended
    <2>3. CASE ~(failures[a] + 1 >= MaxFailures)
      <3>1. interval[a] \in Nat \ {0} /\ failures[a] + 1 \in Nat /\ failures[a] + 1 < MaxFailures
        BY <2>1, <2>3 DEF IInv, TypeOK
      <3>. QED
        BY <1>4, <2>3, <3>1, WaitIInv DEF NetworkError
    <2>. QED
      BY <2>2, <2>3
  <1>. QED
    BY <1>1, <1>2, <1>3, <1>4

-----------------------------------------------------------------------------
(* The theorems.                                                           *)

LEMMA StepIInv == IInv /\ [Next]_vars => IInv'
  <1> SUFFICES ASSUME IInv, [Next]_vars PROVE IInv'
    OBVIOUS
  <1>1. CASE UNCHANGED vars
    BY <1>1 DEF vars, registry, poller, IInv, TypeOK, PendingIsActive, CompletedHasEnded,
       BudgetIsLeft, TimeIsLeft, OutcomeIsTrue, UnknownIsIdle
  <1>2. CASE CancelAll
    BY <1>2, CancelAllIInv
  <1>3. ASSUME NEW a \in Attempts,
               \/ Start(a) \/ Complete(a) \/ Cancel(a) \/ SetCancelToken(a)
               \/ Decide(a) \/ Lapse(a)
        PROVE  IInv'
    BY <1>3, StartIInv, CompleteIInv, CancelIInv, SetCancelTokenIInv, ServerIInv
  <1>4. ASSUME NEW a \in Attempts, Poller(a)
        PROVE  IInv'
    BY <1>4, RequestIInv, CheckIInv, PollOnceIInv, OutcomeIInv DEF Poller
  <1>. QED
    BY <1>1, <1>2, <1>3, <1>4 DEF Next

\* Registry, pollers and server agree at every step of AuthAttemptRegistry and
\* poll_for_token: the strengthening that the theorems below are read off from.
THEOREM InductiveInvariant == Spec => []IInv
  BY InitIInv, StepIInv, PTL DEF Spec

\* The registry and the pollers keep their types, and no poll interval is ever
\* zero (DeviceAuthorizationResponse.from_dict, poll_for_token).
THEOREM TypeCorrect == Spec => []TypeOK
  <1>1. IInv => TypeOK
    BY DEF IInv
  <1>. QED
    BY <1>1, InductiveInvariant, PTL

\* At most one attempt is pending, and it is the active one
\* (AuthAttemptRegistry).
THEOREM OnlyOneIsPending == Spec => []PendingIsActive
  <1>1. IInv => PendingIsActive
    BY DEF IInv
  <1>. QED
    BY <1>1, InductiveInvariant, PTL

\* No poll is sent after the deadline (poll_for_token).
THEOREM DeadlineIsKept == Spec => []PollsKeepDeadline
  <1>1. IInv => PollsKeepDeadline
    BY DEF IInv, TypeOK, TimeIsLeft, PollsKeepDeadline
  <1>. QED
    BY <1>1, InductiveInvariant, PTL

\* Where a poller can end, in which way, and what is true then.
LEMMA StepEnds ==
  ASSUME IInv, [Next]_vars, NEW a \in Attempts, pc'[a] # pc[a], pc'[a] \in Ended
  PROVE  /\ pc'[a] = "token" => outcome[a] = "APPROVED" /\ pc[a] = "outcome" /\ a \notin superseded
         /\ Truth(a, pc'[a])
  <1>0. Next
    BY DEF vars, poller
  <1>1. PICK b \in Attempts : Start(b) \/ Poller(b)
    BY <1>0 DEF Next, CancelAll, Complete, Cancel, SetCancelToken, Decide, Lapse, poller
  <1>2. CASE Start(b)
    BY <1>2 DEF Start, IInv, TypeOK, Ended
  <1>3. a = b \/ pc'[a] = pc[a]
    BY <1>1 DEF Start, Poller, RequestDeviceAuthorization, CheckCancelToken, CheckSuperseded,
       PollOnce, Approved, Refused, Pending, SlowDown, NetworkError, Wait, Ends, Goes, IInv, TypeOK
  <1>4. pc \in [Attempts -> {"none", "requesting"} \cup Polling \cup Ended] /\ b = a
    BY <1>3 DEF IInv, TypeOK
  <1>5. CASE RequestDeviceAuthorization(a)
    BY <1>4, <1>5 DEF RequestDeviceAuthorization, Ended, Truth
  <1>6. CASE CheckCancelToken(a) \/ CheckSuperseded(a)
    BY <1>4, <1>6 DEF CheckCancelToken, CheckSuperseded, Ends, Goes, Ended, Truth
  <1>7. CASE PollOnce(a)
    BY <1>4, <1>7 DEF PollOnce, Goes, Ended
  <1>8. CASE Approved(a) \/ Refused(a)
    BY <1>4, <1>8 DEF Approved, Refused, Ends, Truth, IInv, OutcomeIsTrue
  <1>9. ASSUME NEW i, NEW f, Wait(a, i, f)
        PROVE  pc'[a] = "expired" /\ left[a] <= 0
    BY <1>4, <1>9 DEF Wait, Ends, Goes, Ended
  <1>10. CASE Pending(a) \/ SlowDown(a)
    BY <1>9, <1>10 DEF Pending, SlowDown, Truth
  <1>11. CASE NetworkError(a)
    <2>1. failures[a] \in Nat /\ failures[a] < MaxFailures
      BY DEF IInv, TypeOK, BudgetIsLeft
    <2>2. CASE failures[a] + 1 >= MaxFailures
      BY <1>4, <1>11, <2>1, <2>2 DEF NetworkError, Ends, Truth
    <2>3. CASE ~(failures[a] + 1 >= MaxFailures)
      BY <1>9, <1>11, <2>3 DEF NetworkError, Truth
    <2>. QED
      BY <2>2, <2>3
  <1>. QED
    BY <1>1, <1>2, <1>4, <1>5, <1>6, <1>7, <1>8, <1>10, <1>11 DEF Poller

\* Only the active attempt gets a token (poll_for_token and the registry).
THEOREM TokenIsForActive == Spec => OnlyActiveGetsToken
  <1>1. ASSUME IInv, [Next]_vars, NEW a \in Attempts, pc'[a] = "token", pc[a] # "token"
        PROVE  active = a /\ a \notin completed
    <2>1. pc[a] = "outcome" /\ a \notin superseded
      BY <1>1, StepEnds DEF Ended
    <2>2. a \in known /\ a \notin completed
      BY <2>1, <1>1 DEF IInv, UnknownIsIdle, CompletedHasEnded, Ended
    <2>. QED
      BY <2>1, <2>2, <1>1 DEF IInv, PendingIsActive
  <1>2. IInv /\ [Next]_vars =>
          [\A a \in Attempts : pc'[a] = "token" /\ pc[a] # "token" => active = a /\ a \notin completed]_vars
    BY <1>1
  <1>. QED
    BY <1>2, InductiveInvariant, PTL DEF Spec, OnlyActiveGetsToken

\* What a login is told is what happened (poll_for_token).
THEOREM LoginsAreTold == Spec => EndsAreTrue
  <1>1. ASSUME IInv, [Next]_vars, NEW a \in Attempts, pc'[a] # pc[a]
        PROVE  Truth(a, pc'[a])
    <2>1. CASE pc'[a] \in Ended
      BY <1>1, <2>1, StepEnds
    <2>2. CASE pc'[a] \notin Ended
      BY <2>2 DEF Truth, Ended
    <2>. QED
      BY <2>1, <2>2
  <1>2. IInv /\ [Next]_vars => [\A a \in Attempts : pc'[a] # pc[a] => Truth(a, pc'[a])]_vars
    BY <1>1
  <1>. QED
    BY <1>2, InductiveInvariant, PTL DEF Spec, EndsAreTrue
-----------------------------------------------------------------------------
(* keyhole run up to the request it sends.  A snapshot is of a moment the    *)
(* clock has passed, and what a command holds of it was so at the server     *)
(* then, or while the command ran; a context compiled for a run is of the    *)
(* principal the run is sent for.                                            *)

Contexts == Procs \cup {AutoContext, Malformed, NoDigest}
RunCommandRecord ==
  [op : {"run", "compile", "inspect"}, name : Names, given : Contexts, ctx : Contexts,
   at : {"idle", "load", "reload", "fetch", "store", "storing", "check", "recent",
         "session", "compile", "note", "noting", "inspect", "dispatch", "over"},
   cached : Contracts \cup {NoContract}, live : Contracts \cup {NoContract}, looked : Nat,
   asked : BOOLEAN, lost : BOOLEAN, type : Names, who : Identities \cup {Nobody},
   end : {"none", "refused", "unrecognized", "failed", "compiled", "shown", "sent"}]
SentRun == [sent : {TRUE}, name : Names, type : Names, looked : Nat,
            who : Identities \cup {Nobody}, auto : BOOLEAN, ctx : Contexts]

CommandTypeOK ==
  /\ now \in 0 .. MaxTime
  /\ contract \in Contracts
  /\ context \in [Procs -> Identities \cup {Nobody}]
  /\ run \in [Procs -> SentRun \cup {NoRun}]
  /\ cache \in [state : {"whole"}, of : Contracts, expires : Nat] \cup {NoFile, CutFile}
  /\ recent \in [state : {"whole"}, of : Contexts] \cup {NoFile, CutFile}
  /\ session \in Identities \cup {Nobody}
  /\ cmd \in [Procs -> RunCommandRecord]
  /\ served \in [0 .. MaxTime -> SUBSET Contracts]
  /\ during \in [Procs -> SUBSET Contracts]
  /\ late \in BOOLEAN

\* The server had the contract k less than TTL before the tick looked.
Had(k, looked) == \E t \in 0 .. MaxTime : looked < t + TTL /\ k \in served[t]
\* What TypeWasServed says of a run.
OfItsTime(type, name, looked) ==
  \/ type = name /\ type \in Static
  \/ \E t \in 0 .. MaxTime :
       /\ looked < t + TTL
       /\ \E k \in served[t] : type \in Resolved(k, name)

\* The context was compiled for the process p and the principal.
IsOwn(p, ctx, who) == ctx = p /\ who # Nobody /\ context[p] = who

\* What is noted of the server is up to date, and so is the date of the cache.
HistoryIsTrue ==
  /\ contract \in served[now]
  /\ \A t \in 0 .. MaxTime : t > now => served[t] = {}
  /\ \A p \in Procs : cmd[p].at \notin {"idle", "over"} => contract \in during[p]
  /\ cache.state = "whole" /\ ~late =>
       \E t \in 0 .. now : cache.expires = t + TTL /\ cache.of \in served[t]

\* What a command c of the process p has found out, where it stands.
HasLooked(p, c) ==
  /\ c.looked <= now
  /\ c.at \in {"idle", "load", "reload", "recent", "fetch"} =>
       c.live = NoContract /\ ~c.asked
  /\ c.at \in {"idle", "load", "reload", "recent"} => c.cached = NoContract
  /\ c.at = "reload" /\ cache.state = "whole" => c.looked < cache.expires
  /\ c.at = "fetch" /\ c.cached # NoContract => ~Proceeds(c.cached, c.name)
  /\ c.at \in {"store", "storing"} => c.asked /\ c.live # NoContract
  /\ c.at \in {"store", "storing", "check"} /\ c.live # NoContract =>
       c.live \in served[c.looked]
  /\ c.at \in {"store", "storing", "check"} /\ c.asked =>
       c.cached = NoContract \/ ~Proceeds(c.cached, c.name)
  /\ c.op = "run" /\ c.at = "check" /\ ~c.asked =>
       /\ c.live = NoContract /\ c.cached # NoContract /\ Proceeds(c.cached, c.name)
       /\ ~late => Had(c.cached, c.looked)
  /\ c.op = "run" /\ c.at \in {"session", "compile", "note", "noting", "dispatch"} /\ ~late =>
       OfItsTime(c.type, c.name, c.looked)

\* What it answers for.
HasAsked(p, c) ==
  /\ c.live # NoContract => c.live \in during[p]
  /\ c.end # "none" => c.at = "over"
  /\ c.end = "unrecognized" =>
       /\ c.asked
       /\ c.live # NoContract /\ ~c.lost => \E k \in during[p] : ~Proceeds(k, c.name)

\* The context it is going to bind.
HasContext(p, c) ==
  /\ c.at = "recent" => c.op # "run"
  /\ c.op = "run" /\ c.at \in {"session", "compile"} => c.ctx # NoDigest
  /\ c.op = "run" /\ c.at \notin {"over", "note", "noting", "dispatch"} => c.ctx = c.given
  /\ c.at \in {"note", "noting"} => IsOwn(p, c.ctx, c.who)
  /\ c.at = "dispatch" =>
       /\ c.op = "run" /\ c.ctx \in Procs
       /\ c.given = AutoContext => IsOwn(p, c.ctx, c.who)

Holds(p, c) == HasLooked(p, c) /\ HasAsked(p, c) /\ HasContext(p, c)

\* What has been sent.
Sent(p) ==
  run[p].sent =>
    /\ cmd[p].at = "over" /\ run[p].ctx \in Procs
    /\ run[p].auto => IsOwn(p, run[p].ctx, run[p].who)
    /\ ~late => OfItsTime(run[p].type, run[p].name, run[p].looked)

RunCommandInv ==
  /\ CommandTypeOK
  /\ HistoryIsTrue
  /\ \A p \in Procs : Holds(p, cmd[p])
  /\ \A p \in Procs : Sent(p)

\* The world as the commands of other processes leave it to the process q.
WorldGoes(q) ==
  /\ now <= now' /\ (late => late')
  /\ \A t \in 0 .. MaxTime : served[t] \subseteq served'[t]
  /\ during[q] \subseteq during'[q]
  /\ context'[q] = context[q]

\* A date read of the cache is still good for its result.
DateHolds(c) ==
  c.at = "reload" /\ cache'.state = "whole" => c.looked < cache'.expires

LEMMA TimesStay ==
  ASSUME \A t \in 0 .. MaxTime : served[t] \subseteq served'[t], NEW name, NEW looked
  PROVE  /\ \A k : Had(k, looked) => Had(k, looked)'
         /\ \A type : OfItsTime(type, name, looked) => OfItsTime(type, name, looked)'
  <1>1. \A k : Had(k, looked) => Had(k, looked)'
    BY DEF Had
  <1>2. \A k, n : Resolved(k, n)' = Resolved(k, n)
    BY DEF Resolved, Registry, Ambiguous, CanonicalTypes
  <1>3. ASSUME NEW type, OfItsTime(type, name, looked)
        PROVE  OfItsTime(type, name, looked)'
    BY <1>2, <1>3 DEF OfItsTime
  <1>. QED
    BY <1>1, <1>3

LEMMA HoldingStays ==
  ASSUME CommandTypeOK, NEW q \in Procs, NEW c \in RunCommandRecord, Holds(q, c), WorldGoes(q),
         CommandTypeOK', DateHolds(c)
  PROVE  Holds(q, c)'
  <1>1. /\ c.looked \in Nat /\ now \in Nat /\ now' \in Nat /\ c.looked <= now
        /\ now <= MaxTime /\ MaxTime \in Nat
    <2>1. c.looked \in Nat
      BY DEF RunCommandRecord
    <2>2. now \in 0 .. MaxTime /\ now' \in 0 .. MaxTime
      BY DEF CommandTypeOK
    <2>3. MaxTime \in Nat
      BY BoundAssumption
    <2>4. c.looked <= now
      BY DEF Holds, HasLooked
    <2>. QED
      BY <2>1, <2>2, <2>3, <2>4
  <1>2. c.looked <= now' /\ c.looked \in 0 .. MaxTime
    <2>1. now <= now'
      BY DEF WorldGoes
    <2>. QED
      BY <1>1, <2>1
  <1>3. \A k, n : Proceeds(k, n)' = Proceeds(k, n)
    BY DEF Proceeds, Resolved, Registry, Ambiguous, CanonicalTypes
  <1>4. \A k : Had(k, c.looked) => Had(k, c.looked)'
    <2> PICK looked : looked = c.looked
      OBVIOUS
    <2>1. \A k : Had(k, looked) => Had(k, looked)'
      BY TimesStay DEF WorldGoes
    <2>. QED
      BY <2>1
  <1>5. OfItsTime(c.type, c.name, c.looked) => OfItsTime(c.type, c.name, c.looked)'
    <2> PICK looked, name, type : looked = c.looked /\ name = c.name /\ type = c.type
      OBVIOUS
    <2>1. OfItsTime(type, name, looked) => OfItsTime(type, name, looked)'
      BY TimesStay DEF WorldGoes
    <2>. QED
      BY <2>1
  <1>6. c.live \in served[c.looked] => c.live \in served'[c.looked]
    BY <1>2 DEF WorldGoes
  <1>7. late => late'
    BY DEF WorldGoes
  <1>8. HasLooked(q, c)'
    BY <1>2, <1>3, <1>4, <1>5, <1>6, <1>7 DEF Holds, HasLooked, DateHolds
  <1>9. HasAsked(q, c)'
    BY <1>3 DEF Holds, HasAsked, WorldGoes
  <1>10. HasContext(q, c)'
    BY DEF Holds, HasContext, IsOwn, WorldGoes
  <1>. QED
    BY <1>8, <1>9, <1>10 DEF Holds

LEMMA SentStays ==
  ASSUME RunCommandInv, NEW q \in Procs, WorldGoes(q), run'[q] = run[q],
         cmd[q].at = "over" => cmd'[q].at = "over"
  PROVE  Sent(q)'
  <1>1. Sent(q)
    BY DEF RunCommandInv
  <1> PICK r : r = run[q]
    OBVIOUS
  <1>2. OfItsTime(r.type, r.name, r.looked) => OfItsTime(r.type, r.name, r.looked)'
    <2> PICK looked, name, type : looked = r.looked /\ name = r.name /\ type = r.type
      OBVIOUS
    <2>1. OfItsTime(type, name, looked) => OfItsTime(type, name, looked)'
      BY TimesStay DEF WorldGoes
    <2>. QED
      BY <2>1
  <1>3. IsOwn(q, r.ctx, r.who) => IsOwn(q, r.ctx, r.who)'
    BY DEF IsOwn, WorldGoes
  <1>4. late => late'
    BY DEF WorldGoes
  <1>. QED
    BY <1>1, <1>2, <1>3, <1>4 DEF Sent

LEMMA CommandHas ==
  ASSUME RunCommandInv, NEW p \in Procs
  PROVE  /\ cmd \in [Procs -> RunCommandRecord] /\ cmd[p] \in RunCommandRecord
         /\ HasLooked(p, cmd[p]) /\ HasAsked(p, cmd[p]) /\ HasContext(p, cmd[p])
         /\ now \in Nat /\ now <= MaxTime /\ MaxTime \in Nat /\ TTL \in Nat /\ TTL # 0
         /\ NoContract \notin Contracts
  BY NamesAssumption, BoundAssumption DEF RunCommandInv, CommandTypeOK, Holds

\* A command that goes on, by what it holds then and what it leaves behind.
LEMMA CommandGoes ==
  ASSUME RunCommandInv, NEW p \in Procs, NEW c \in RunCommandRecord,
         cmd' = [cmd EXCEPT ![p] = c], cmd[p].at \notin {"idle", "over"},
         UNCHANGED <<now, contract, session, served, during>>, CommandTypeOK', late => late',
         \A q \in Procs \ {p} : context'[q] = context[q] /\ run'[q] = run[q],
         \/ cache' = cache
         \/ cache'.state = "cut"
         \/ cache'.expires = now + TTL /\ (~late' => cache'.of \in served[now]),
         Holds(p, c)', Sent(p)'
  PROVE  RunCommandInv'
  <1>1. /\ cmd \in [Procs -> RunCommandRecord] /\ now \in Nat /\ TTL \in Nat /\ TTL # 0
    BY CommandHas
  <1>2. ASSUME NEW q \in Procs, q # p
        PROVE  WorldGoes(q) /\ Holds(q, cmd[q]) /\ cmd'[q] = cmd[q]
    BY <1>1, <1>2 DEF WorldGoes, RunCommandInv
  <1>3. ASSUME NEW q \in Procs PROVE Holds(q, cmd[q])'
    <2>1. CASE q = p
      BY <1>1, <2>1
    <2>2. CASE q # p
      <3> PICK d : d = cmd[q]
        OBVIOUS
      <3>1. d \in RunCommandRecord /\ Holds(q, d) /\ cmd'[q] = d
        BY <1>1, <1>2, <2>2
      <3>2. d.looked \in Nat /\ d.looked <= now
        BY <3>1 DEF RunCommandRecord, Holds, HasLooked
      <3>3. DateHolds(d)
        <4>1. CASE cache' = cache
          BY <3>1, <4>1 DEF Holds, HasLooked, DateHolds
        <4>2. CASE cache'.expires = now + TTL
          <5>1. d.looked < now + TTL
            BY <1>1, <3>2
          <5>. QED
            BY <4>2, <5>1 DEF DateHolds
        <4>3. CASE cache'.state = "cut"
          BY <4>3 DEF DateHolds
        <4>. QED
          BY <4>1, <4>2, <4>3
      <3>4. CommandTypeOK
        BY DEF RunCommandInv
      <3>5. Holds(q, d)'
        BY <1>2, <2>2, <3>1, <3>3, <3>4, HoldingStays
      <3>. QED
        BY <3>1, <3>5
    <2>. QED
      BY <2>1, <2>2
  <1>4. ASSUME NEW q \in Procs PROVE Sent(q)'
    BY <1>2, <1>4, SentStays
  <1>5. HistoryIsTrue'
    <2>1. HistoryIsTrue
      BY DEF RunCommandInv
    <2>2. \A q \in Procs : cmd'[q].at \notin {"idle", "over"} => contract \in during[q]
      BY <1>1, <2>1 DEF HistoryIsTrue
    <2>3. cache'.state = "whole" /\ ~late' =>
            \E t \in 0 .. now : cache'.expires = t + TTL /\ cache'.of \in served[t]
      <3>1. CASE cache' = cache
        BY <2>1, <3>1 DEF HistoryIsTrue
      <3>2. CASE cache'.expires = now + TTL /\ (~late' => cache'.of \in served[now])
        BY <1>1, <3>2
      <3>. QED
        BY <3>1, <3>2
    <2>. QED
      BY <2>1, <2>2, <2>3 DEF HistoryIsTrue
  <1>. QED
    BY <1>3, <1>4, <1>5 DEF RunCommandInv

RecentFile == [state : {"whole"}, of : Contexts] \cup {NoFile, CutFile}

\* A command that changes nothing else, but perhaps the context noted last.
LEMMA QuietCommand ==
  ASSUME RunCommandInv, NEW p \in Procs, NEW c \in RunCommandRecord,
         cmd' = [cmd EXCEPT ![p] = c], cmd[p].at \notin {"idle", "over"},
         UNCHANGED <<now, server, cache, session, notes>>, recent' \in RecentFile,
         HasLooked(p, c), HasAsked(p, c), HasContext(p, c)
  PROVE  RunCommandInv'
  <1>1. UNCHANGED <<now, contract, context, run, cache, session, served, during, late>>
    BY DEF server, notes
  <1>2. cmd' \in [Procs -> RunCommandRecord]
    BY CommandHas
  <1>3. CommandTypeOK
    BY DEF RunCommandInv
  <1>4. CommandTypeOK'
    BY <1>1, <1>2, <1>3 DEF CommandTypeOK, RecentFile
  <1>5. now \in Nat
    BY CommandHas
  <1>6. WorldGoes(p)
    BY <1>1, <1>5 DEF WorldGoes
  <1>7. Holds(p, c)'
    BY <1>1, <1>3, <1>4, <1>6, HoldingStays DEF Holds, HasLooked, DateHolds
  <1>8. Sent(p)'
    BY <1>1, <1>6, SentStays
  <1>. QED
    BY <1>1, <1>4, <1>7, <1>8, CommandGoes

\* A command that ends holds what it was asked, found out and said.
LEMMA EndedIs ==
  ASSUME RunCommandInv, NEW p \in Procs,
         NEW said \in {"refused", "unrecognized", "failed", "compiled", "shown", "sent"},
         End(p, said)
  PROVE  \E c \in RunCommandRecord :
           /\ cmd' = [cmd EXCEPT ![p] = c]
           /\ c.at = "over" /\ c.name = cmd[p].name /\ c.end = said /\ c.looked = 0
           /\ said = "unrecognized" =>
                /\ c.asked = cmd[p].asked /\ c.live = cmd[p].live /\ c.lost = cmd[p].lost
           /\ said # "unrecognized" => c.live = NoContract
  <1>1. PICK d \in RunCommandRecord : d = cmd[p]
    BY CommandHas
  <1>2. PICK new : new = [Fresh([op |-> d.op, name |-> d.name, ctx |-> d.given])
                          EXCEPT !.at = "over", !.end = said, !.ctx = d.ctx]
    OBVIOUS
  <1>3. new = [op |-> d.op, name |-> d.name, given |-> d.given, ctx |-> d.ctx, at |-> "over",
               cached |-> NoContract, live |-> NoContract, looked |-> 0, asked |-> FALSE,
               lost |-> FALSE, type |-> d.name, who |-> Nobody, end |-> said]
    BY <1>2 DEF Fresh
  <1>4. /\ new \in RunCommandRecord /\ new.at = "over" /\ new.name = d.name /\ new.end = said
        /\ new.looked = 0 /\ new.live = NoContract
    <2>1. /\ d.op \in {"run", "compile", "inspect"} /\ d.name \in Names
          /\ d.given \in Contexts /\ d.ctx \in Contexts
      BY DEF RunCommandRecord
    <2>2. new \in RunCommandRecord
      BY <1>3, <2>1 DEF RunCommandRecord
    <2>. QED
      BY <1>3, <2>2
  <1>5. CASE said # "unrecognized"
    <2>1. cmd' = [cmd EXCEPT ![p] = new]
      BY <1>1, <1>2, <1>5 DEF End
    <2>. QED
      BY <1>1, <1>4, <1>5, <2>1
  <1>6. CASE said = "unrecognized"
    <2>1. PICK c : c = [new EXCEPT !.asked = d.asked, !.live = d.live, !.lost = d.lost]
      OBVIOUS
    <2>2. cmd' = [cmd EXCEPT ![p] = c]
      BY <1>1, <1>2, <1>6, <2>1 DEF End
    <2>3. d.asked \in BOOLEAN /\ d.live \in Contracts \cup {NoContract} /\ d.lost \in BOOLEAN
      BY DEF RunCommandRecord
    <2>4. c = [op |-> d.op, name |-> d.name, given |-> d.given, ctx |-> d.ctx, at |-> "over",
               cached |-> NoContract, live |-> d.live, looked |-> 0, asked |-> d.asked,
               lost |-> d.lost, type |-> d.name, who |-> Nobody, end |-> said]
      BY <1>3, <2>1
    <2>5. c \in RunCommandRecord
      <3>1. /\ d.op \in {"run", "compile", "inspect"} /\ d.name \in Names
            /\ d.given \in Contexts /\ d.ctx \in Contexts
        BY DEF RunCommandRecord
      <3>. QED
        BY <2>3, <2>4, <3>1 DEF RunCommandRecord
    <2>6. /\ c.at = "over" /\ c.name = d.name /\ c.end = said /\ c.looked = 0
          /\ c.asked = d.asked /\ c.live = d.live /\ c.lost = d.lost
      BY <2>4
    <2>. QED
      BY <1>1, <1>6, <2>2, <2>5, <2>6
  <1>. QED
    BY <1>5, <1>6

LEMMA EndHolds ==
  ASSUME RunCommandInv, NEW p \in Procs,
         NEW said \in {"refused", "failed", "compiled", "shown", "sent"}, End(p, said)
  PROVE  \E c \in RunCommandRecord :
           /\ cmd' = [cmd EXCEPT ![p] = c] /\ c.at = "over"
           /\ HasLooked(p, c) /\ HasAsked(p, c) /\ HasContext(p, c)
  <1>1. PICK c \in RunCommandRecord :
          /\ cmd' = [cmd EXCEPT ![p] = c]
          /\ c.at = "over" /\ c.end = said /\ c.looked = 0 /\ c.live = NoContract
    BY EndedIs
  <1>2. c.looked <= now
    BY <1>1, CommandHas
  <1>3. HasLooked(p, c)
    BY <1>1, <1>2 DEF HasLooked
  <1>4. HasAsked(p, c)
    BY <1>1 DEF HasAsked
  <1>5. HasContext(p, c)
    BY <1>1 DEF HasContext
  <1>. QED
    BY <1>1, <1>3, <1>4, <1>5

LEMMA EndsQuietly ==
  ASSUME RunCommandInv, NEW p \in Procs,
         NEW said \in {"refused", "failed", "compiled", "shown", "sent"}, End(p, said),
         cmd[p].at \notin {"idle", "over"},
         UNCHANGED <<now, server, cache, session, notes>>, recent' \in RecentFile
  PROVE  RunCommandInv'
  <1>1. PICK c \in RunCommandRecord :
           /\ cmd' = [cmd EXCEPT ![p] = c] /\ c.at = "over"
           /\ HasLooked(p, c) /\ HasAsked(p, c) /\ HasContext(p, c)
    BY EndHolds
  <1>. QED
    BY <1>1, QuietCommand

LEMMA RecentStays == ASSUME RunCommandInv, UNCHANGED recent PROVE recent' \in RecentFile
  BY DEF RunCommandInv, CommandTypeOK, RecentFile

\* A command that changes nothing but itself.
LEMMA StillCommand ==
  ASSUME RunCommandInv, NEW p \in Procs, NEW c \in RunCommandRecord,
         cmd' = [cmd EXCEPT ![p] = c], cmd[p].at \notin {"idle", "over"},
         UNCHANGED <<now, server, files, session, notes>>,
         HasLooked(p, c), HasAsked(p, c), HasContext(p, c)
  PROVE  RunCommandInv'
  <1>1. UNCHANGED <<cache, recent>>
    BY DEF files
  <1>. QED
    BY <1>1, RecentStays, QuietCommand

LEMMA EndsStill ==
  ASSUME RunCommandInv, NEW p \in Procs,
         NEW said \in {"refused", "failed", "compiled", "shown", "sent"}, End(p, said),
         cmd[p].at \notin {"idle", "over"},
         UNCHANGED <<now, server, files, session, notes>>
  PROVE  RunCommandInv'
  <1>1. UNCHANGED <<cache, recent>>
    BY DEF files
  <1>. QED
    BY <1>1, RecentStays, EndsQuietly

Places == {"idle", "load", "reload", "fetch", "store", "storing", "check", "recent",
           "session", "compile", "note", "noting", "inspect", "dispatch", "over"}

\* A command that has only come to another place.
LEMMA GoesTo ==
  ASSUME RunCommandInv, NEW p \in Procs, NEW place \in Places, Go(p, place)
  PROVE  \E c \in RunCommandRecord :
           /\ cmd' = [cmd EXCEPT ![p] = c]
           /\ c.at = place /\ c.op = cmd[p].op /\ c.name = cmd[p].name
           /\ c.given = cmd[p].given /\ c.ctx = cmd[p].ctx /\ c.cached = cmd[p].cached
           /\ c.live = cmd[p].live /\ c.looked = cmd[p].looked /\ c.asked = cmd[p].asked
           /\ c.lost = cmd[p].lost /\ c.type = cmd[p].type /\ c.who = cmd[p].who
           /\ c.end = cmd[p].end
  <1>1. PICK d \in RunCommandRecord : d = cmd[p]
    BY CommandHas
  <1>2. PICK c : c = [d EXCEPT !.at = place]
    OBVIOUS
  <1>3. c \in RunCommandRecord
    BY <1>2 DEF RunCommandRecord, Places
  <1>4. /\ c.at = place /\ c.op = d.op /\ c.name = d.name /\ c.given = d.given
        /\ c.ctx = d.ctx /\ c.cached = d.cached /\ c.live = d.live /\ c.looked = d.looked
        /\ c.asked = d.asked /\ c.lost = d.lost /\ c.type = d.type /\ c.who = d.who
        /\ c.end = d.end
    BY <1>2 DEF RunCommandRecord
  <1>5. cmd' = [cmd EXCEPT ![p] = c]
    BY <1>1, <1>2 DEF Go
  <1>. QED
    BY <1>1, <1>3, <1>4, <1>5

LEMMA StartCommandKeeps ==
  ASSUME RunCommandInv, NEW p \in Procs, StartCommand(p) PROVE RunCommandInv'
  <1>1. /\ cmd[p].at = "idle" /\ during' = [during EXCEPT ![p] = {contract}]
        /\ UNCHANGED <<now, contract, context, run, cache, recent, session, served, late>>
    BY DEF StartCommand, At, server, files
  <1>2. PICK place \in {"load", "check", "recent"} :
          /\ Go(p, place)
          /\ cmd[p].op = "run" => place = "load"
    BY CommandHas DEF StartCommand, RunCommandRecord
  <1>3. PICK c \in RunCommandRecord :
          /\ cmd' = [cmd EXCEPT ![p] = c]
          /\ c.at = place /\ c.op = cmd[p].op
          /\ c.given = cmd[p].given /\ c.ctx = cmd[p].ctx /\ c.cached = cmd[p].cached
          /\ c.live = cmd[p].live /\ c.looked = cmd[p].looked /\ c.asked = cmd[p].asked
          /\ c.end = cmd[p].end
    <2>1. place \in Places
      BY DEF Places
    <2>. QED
      BY <1>2, <2>1, GoesTo
  <1>4. CommandTypeOK /\ HistoryIsTrue
    BY DEF RunCommandInv
  <1>5. during' \in [Procs -> SUBSET Contracts] /\ during'[p] = {contract}
        /\ \A q \in Procs \ {p} : during'[q] = during[q]
    BY <1>1, <1>4 DEF CommandTypeOK
  <1>6. CommandTypeOK'
    <2>1. cmd' \in [Procs -> RunCommandRecord]
      BY <1>3, CommandHas
    <2>. QED
      BY <1>1, <1>4, <1>5, <2>1 DEF CommandTypeOK
  <1>7. ASSUME NEW q \in Procs, q # p
        PROVE  WorldGoes(q) /\ Holds(q, cmd[q]) /\ cmd'[q] = cmd[q]
    <2>1. cmd'[q] = cmd[q]
      BY <1>3, <1>7, CommandHas
    <2>. QED
      BY <1>1, <1>5, <1>7, <2>1, CommandHas DEF WorldGoes, RunCommandInv
  <1>8. ASSUME NEW q \in Procs PROVE Holds(q, cmd[q])'
    <2>1. CASE q = p
      <3>1. HasLooked(p, c)'
        BY <1>1, <1>2, <1>3, CommandHas DEF HasLooked
      <3>2. HasAsked(p, c)'
        BY <1>1, <1>2, <1>3, CommandHas DEF HasLooked, HasAsked
      <3>3. HasContext(p, c)'
        BY <1>1, <1>2, <1>3, CommandHas DEF HasContext
      <3>4. cmd'[p] = c
        BY <1>3, CommandHas
      <3>. QED
        BY <2>1, <3>1, <3>2, <3>3, <3>4 DEF Holds
    <2>2. CASE q # p
      <3>1. PICK d \in RunCommandRecord : d = cmd[q]
        BY CommandHas
      <3>2. DateHolds(d)
        BY <1>1, <1>7, <2>2, <3>1 DEF Holds, HasLooked, DateHolds
      <3>3. Holds(q, d)'
        BY <1>4, <1>6, <1>7, <2>2, <3>1, <3>2, HoldingStays
      <3>. QED
        BY <1>7, <2>2, <3>1, <3>3
    <2>. QED
      BY <2>1, <2>2
  <1>9. ASSUME NEW q \in Procs PROVE Sent(q)'
    <2>1. CASE q = p
      BY <1>1, <2>1 DEF RunCommandInv, Sent
    <2>2. CASE q # p
      BY <1>1, <1>7, <2>2, SentStays
    <2>. QED
      BY <2>1, <2>2
  <1>10. HistoryIsTrue'
    <2>1. \A q \in Procs : cmd'[q].at \notin {"idle", "over"} => contract \in during'[q]
      BY <1>4, <1>5, <1>7 DEF HistoryIsTrue
    <2>. QED
      BY <1>1, <1>4, <2>1 DEF HistoryIsTrue
  <1>. QED
    BY <1>6, <1>8, <1>9, <1>10 DEF RunCommandInv

LEMMA LoadEnvelopeKeeps ==
  ASSUME RunCommandInv, NEW p \in Procs, LoadEnvelope(p) PROVE RunCommandInv'
  <1>1. cmd[p].at = "load" /\ UNCHANGED <<now, server, files, session, notes>>
    BY DEF LoadEnvelope, At
  <1>2. PICK d \in RunCommandRecord : d = cmd[p]
    BY CommandHas
  <1>3. PICK place \in {"reload", "fetch"} :
          place = IF IsValid(cache) THEN "reload" ELSE "fetch"
    OBVIOUS
  <1>4. PICK c : c = [d EXCEPT !.looked = now, !.at = place]
    OBVIOUS
  <1>5. c \in RunCommandRecord
    BY <1>4, CommandHas DEF RunCommandRecord
  <1>6. /\ c.at = place /\ c.looked = now /\ c.op = d.op /\ c.name = d.name
        /\ c.given = d.given /\ c.ctx = d.ctx /\ c.cached = d.cached /\ c.live = d.live
        /\ c.asked = d.asked /\ c.end = d.end
    BY <1>4 DEF RunCommandRecord
  <1>7. cmd' = [cmd EXCEPT ![p] = c]
    <2>1. cmd' = [cmd EXCEPT ![p].looked = now, ![p].at = place]
      BY <1>3 DEF LoadEnvelope
    <2>. QED
      BY <1>2, <1>4, <2>1, CommandHas
  <1>8. HasLooked(p, c)
    <2>1. place = "reload" => now < cache.expires
      BY <1>3 DEF IsValid
    <2>2. d.live = NoContract /\ ~d.asked /\ d.cached = NoContract
      BY <1>1, <1>2, CommandHas DEF HasLooked
    <2>3. c.looked <= now
      <3>1. now \in Nat
        BY CommandHas
      <3>2. c.looked = now
        BY <1>6
      <3>3. now <= now
        BY <3>1
      <3>. QED
        BY <3>2, <3>3
    <2>. QED
      BY <1>6, <2>1, <2>2, <2>3 DEF HasLooked
  <1>9. HasAsked(p, c)
    BY <1>1, <1>2, <1>3, <1>6, CommandHas DEF HasAsked
  <1>10. HasContext(p, c)
    BY <1>1, <1>2, <1>3, <1>6, CommandHas DEF HasContext
  <1>. QED
    BY <1>1, <1>5, <1>7, <1>8, <1>9, <1>10, StillCommand

LEMMA LoadResultKeeps ==
  ASSUME RunCommandInv, NEW p \in Procs, LoadResult(p) PROVE RunCommandInv'
  <1>1. cmd[p].at = "reload" /\ UNCHANGED <<now, server, files, session, notes>>
    BY DEF LoadResult, At
  <1>2. PICK d \in RunCommandRecord : d = cmd[p]
    BY CommandHas
  <1>3. PICK k : k = IF IsWhole(cache) THEN cache.of ELSE NoContract
    OBVIOUS
  <1>4. k \in Contracts \cup {NoContract}
    BY <1>3 DEF IsWhole, RunCommandInv, CommandTypeOK, NoFile, CutFile
  <1>5. PICK place \in {"check", "fetch"} :
          place = IF k # NoContract /\ Proceeds(k, cmd[p].name) THEN "check" ELSE "fetch"
    OBVIOUS
  <1>6. PICK c : c = [d EXCEPT !.cached = k, !.at = place]
    OBVIOUS
  <1>7. c \in RunCommandRecord
    BY <1>4, <1>6 DEF RunCommandRecord
  <1>8. /\ c.at = place /\ c.cached = k /\ c.looked = d.looked /\ c.op = d.op
        /\ c.name = d.name /\ c.given = d.given /\ c.ctx = d.ctx /\ c.live = d.live
        /\ c.asked = d.asked /\ c.end = d.end
    BY <1>6 DEF RunCommandRecord
  <1>9. cmd' = [cmd EXCEPT ![p] = c]
    <2>1. cmd' = [cmd EXCEPT ![p].cached = k, ![p].at = place]
      BY <1>3, <1>5 DEF LoadResult
    <2>. QED
      BY <1>2, <1>6, <2>1, CommandHas
  <1>10. k # NoContract /\ ~late => Had(k, d.looked)
    <2> SUFFICES ASSUME k # NoContract, ~late PROVE Had(k, d.looked)
      OBVIOUS
    <2>1. cache.state = "whole" /\ k = cache.of
      BY <1>3 DEF IsWhole
    <2>2. d.looked < cache.expires
      BY <1>1, <1>2, <2>1, CommandHas DEF HasLooked
    <2>3. PICK t \in 0 .. now : cache.expires = t + TTL /\ cache.of \in served[t]
      BY <2>1 DEF RunCommandInv, HistoryIsTrue
    <2>4. t \in 0 .. MaxTime
      BY <2>3, CommandHas
    <2>. QED
      BY <2>1, <2>2, <2>3, <2>4 DEF Had
  <1>11. HasLooked(p, c)
    BY <1>1, <1>2, <1>5, <1>8, <1>10, CommandHas DEF HasLooked
  <1>12. HasAsked(p, c)
    BY <1>1, <1>2, <1>5, <1>8, CommandHas DEF HasAsked
  <1>13. HasContext(p, c)
    BY <1>1, <1>2, <1>5, <1>8, CommandHas DEF HasContext
  <1>. QED
    BY <1>1, <1>7, <1>9, <1>11, <1>12, <1>13, StillCommand

LEMMA FetchKeeps ==
  ASSUME RunCommandInv, NEW p \in Procs, Fetch(p) PROVE RunCommandInv'
  <1>1. cmd[p].at = "fetch" /\ UNCHANGED <<now, server, files, session, notes>>
    BY DEF Fetch, At
  <1>2. PICK d \in RunCommandRecord : d = cmd[p]
    BY CommandHas
  <1>3. contract \in Contracts /\ contract \in served[now] /\ contract \in during[p]
    BY <1>1 DEF RunCommandInv, CommandTypeOK, HistoryIsTrue
  <1>4. ASSUME NEW c \in RunCommandRecord, cmd' = [cmd EXCEPT ![p] = c],
               c.op = d.op, c.name = d.name, c.given = d.given, c.ctx = d.ctx,
               c.cached = d.cached, c.end = d.end, c.asked,
               \/ c.at = "store" /\ c.live = contract /\ c.looked = now
               \/ c.at = "check" /\ c.live = d.live /\ c.looked = d.looked
        PROVE  RunCommandInv'
    <2>1. HasLooked(p, c)
      <3>1. d.live = NoContract /\ (d.cached = NoContract \/ ~Proceeds(d.cached, d.name))
        BY <1>1, <1>2, CommandHas DEF HasLooked
      <3>2. c.looked <= now
        <4>1. now \in Nat
          BY CommandHas
        <4>2. d.looked <= now
          BY <1>2, CommandHas DEF HasLooked
        <4>. QED
          BY <1>4, <4>1, <4>2
      <3>3. c.at = "store" => c.live # NoContract /\ c.live \in served[c.looked]
        BY <1>3, <1>4, CommandHas
      <3>4. c.at = "check" => c.live = NoContract
        BY <1>4, <3>1
      <3>. QED
        BY <1>4, <3>1, <3>2, <3>3, <3>4 DEF HasLooked
    <2>2. HasAsked(p, c)
      BY <1>1, <1>2, <1>3, <1>4, CommandHas DEF HasLooked, HasAsked
    <2>3. HasContext(p, c)
      BY <1>1, <1>2, <1>4, CommandHas DEF HasContext
    <2>. QED
      BY <1>1, <1>4, <2>1, <2>2, <2>3, StillCommand
  <1>5. CASE cmd' = [cmd EXCEPT ![p].asked = TRUE, ![p].live = contract,
                                ![p].looked = now, ![p].at = "store"]
    <2>1. PICK c : c = [d EXCEPT !.asked = TRUE, !.live = contract, !.looked = now,
                                 !.at = "store"]
      OBVIOUS
    <2>2. c \in RunCommandRecord
      BY <1>3, <2>1, CommandHas DEF RunCommandRecord
    <2>3. /\ c.at = "store" /\ c.asked /\ c.live = contract /\ c.looked = now /\ c.op = d.op
          /\ c.name = d.name /\ c.given = d.given /\ c.ctx = d.ctx /\ c.cached = d.cached
          /\ c.end = d.end
      BY <2>1 DEF RunCommandRecord
    <2>4. cmd' = [cmd EXCEPT ![p] = c]
      BY <1>2, <1>5, <2>1, CommandHas
    <2>. QED
      BY <1>4, <2>2, <2>3, <2>4
  <1>6. CASE cmd' = [cmd EXCEPT ![p].asked = TRUE, ![p].at = "check"]
    <2>1. PICK c : c = [d EXCEPT !.asked = TRUE, !.at = "check"]
      OBVIOUS
    <2>2. c \in RunCommandRecord
      BY <2>1 DEF RunCommandRecord
    <2>3. /\ c.at = "check" /\ c.asked /\ c.live = d.live /\ c.looked = d.looked /\ c.op = d.op
          /\ c.name = d.name /\ c.given = d.given /\ c.ctx = d.ctx /\ c.cached = d.cached
          /\ c.end = d.end
      BY <2>1 DEF RunCommandRecord
    <2>4. cmd' = [cmd EXCEPT ![p] = c]
      BY <1>2, <1>6, <2>1, CommandHas
    <2>. QED
      BY <1>4, <2>2, <2>3, <2>4
  <1>. QED
    BY <1>5, <1>6 DEF Fetch

\* A step of a command that stores a snapshot.
LEMMA CacheStep ==
  ASSUME RunCommandInv, NEW p \in Procs, NEW c \in RunCommandRecord,
         cmd' = [cmd EXCEPT ![p] = c], cmd[p].at \notin {"idle", "over"},
         UNCHANGED <<now, contract, context, run, recent, session, served, during>>,
         late' \in BOOLEAN, late => late',
         \/ cache' = cache
         \/ cache' = CutFile
         \/ cache' \in [state : {"whole"}, of : Contracts, expires : Nat],
         \/ cache' = cache
         \/ cache'.state = "cut"
         \/ cache'.expires = now + TTL /\ (~late' => cache'.of \in served[now]),
         c.at # "reload", HasLooked(p, c), HasAsked(p, c), HasContext(p, c)
  PROVE  RunCommandInv'
  <1>1. cmd' \in [Procs -> RunCommandRecord]
    BY CommandHas
  <1>2. CommandTypeOK
    BY DEF RunCommandInv
  <1>3. CommandTypeOK'
    BY <1>1, <1>2 DEF CommandTypeOK
  <1>4. WorldGoes(p)
    <2>1. now \in Nat
      BY CommandHas
    <2>2. now <= now
      BY <2>1
    <2>. QED
      BY <2>2 DEF WorldGoes
  <1>5. Holds(p, c) /\ DateHolds(c)
    BY DEF Holds, DateHolds
  <1>6. Holds(p, c)'
    BY <1>2, <1>3, <1>4, <1>5, HoldingStays
  <1>7. Sent(p)'
    BY <1>4, SentStays
  <1>. QED
    BY <1>3, <1>6, <1>7, CommandGoes

\* The answer of the server is lost again when it cannot be stored.
LEMMA LosingKeeps ==
  ASSUME RunCommandInv, NEW p \in Procs, cmd[p].at \in {"store", "storing"},
         cmd' = [cmd EXCEPT ![p].lost = TRUE, ![p].at = "check"],
         UNCHANGED <<now, contract, context, run, cache, recent, session, served, during>>,
         late' \in BOOLEAN, late => late'
  PROVE  RunCommandInv'
  <1>1. PICK d \in RunCommandRecord : d = cmd[p]
    BY CommandHas
  <1>2. PICK c : c = [d EXCEPT !.lost = TRUE, !.at = "check"]
    OBVIOUS
  <1>3. c \in RunCommandRecord
    BY <1>2 DEF RunCommandRecord
  <1>4. /\ c.at = "check" /\ c.op = d.op /\ c.name = d.name /\ c.given = d.given
        /\ c.ctx = d.ctx /\ c.cached = d.cached /\ c.live = d.live /\ c.looked = d.looked
        /\ c.asked = d.asked /\ c.end = d.end
    BY <1>2 DEF RunCommandRecord
  <1>5. cmd' = [cmd EXCEPT ![p] = c]
    BY <1>1, <1>2, CommandHas
  <1>6. HasLooked(p, c)
    <2>1. /\ d.looked <= now /\ d.asked /\ d.live # NoContract
          /\ d.live \in served[d.looked]
          /\ d.cached = NoContract \/ ~Proceeds(d.cached, d.name)
      BY <1>1, CommandHas DEF HasLooked
    <2>. QED
      BY <1>4, <2>1 DEF HasLooked
  <1>7. HasAsked(p, c)
    BY <1>1, <1>4, CommandHas DEF HasAsked
  <1>8. HasContext(p, c)
    BY <1>1, <1>4, CommandHas DEF HasContext
  <1>. QED
    BY <1>3, <1>4, <1>5, <1>6, <1>7, <1>8, CacheStep

LEMMA OpenCacheKeeps ==
  ASSUME RunCommandInv, NEW p \in Procs, OpenCache(p) PROVE RunCommandInv'
  <1>1. /\ cmd[p].at = "store"
        /\ UNCHANGED <<now, contract, context, run, recent, session, served, during, late>>
    BY DEF OpenCache, At, server, notes
  <1>2. PICK d \in RunCommandRecord : d = cmd[p]
    BY CommandHas
  <1>3. CASE cache' = CutFile /\ Go(p, "storing")
    <2>1. PICK c \in RunCommandRecord :
            /\ cmd' = [cmd EXCEPT ![p] = c]
            /\ c.at = "storing" /\ c.op = d.op /\ c.name = d.name
            /\ c.given = d.given /\ c.ctx = d.ctx /\ c.cached = d.cached
            /\ c.live = d.live /\ c.looked = d.looked /\ c.asked = d.asked
            /\ c.end = d.end
      <3>1. "storing" \in Places
        BY DEF Places
      <3>. QED
        BY <1>2, <1>3, <3>1, GoesTo
    <2>2. HasLooked(p, c)
      <3>1. /\ d.looked <= now /\ d.asked /\ d.live # NoContract
            /\ d.live \in served[d.looked]
            /\ d.cached = NoContract \/ ~Proceeds(d.cached, d.name)
        BY <1>1, <1>2, CommandHas DEF HasLooked
      <3>. QED
        BY <2>1, <3>1 DEF HasLooked
    <2>3. HasAsked(p, c)
      BY <1>1, <1>2, <2>1, CommandHas DEF HasAsked
    <2>4. HasContext(p, c)
      BY <1>1, <1>2, <2>1, CommandHas DEF HasContext
    <2>5. cache'.state = "cut" /\ c.at # "reload"
      BY <1>3, <2>1 DEF CutFile
    <2>6. late' \in BOOLEAN /\ (late => late')
      BY <1>1 DEF RunCommandInv, CommandTypeOK
    <2>. QED
      BY <1>1, <1>3, <2>1, <2>2, <2>3, <2>4, <2>5, <2>6, CacheStep
  <1>4. CASE UNCHANGED cache /\ cmd' = [cmd EXCEPT ![p].lost = TRUE, ![p].at = "check"]
    <2>1. late' \in BOOLEAN /\ (late => late')
      BY <1>1 DEF RunCommandInv, CommandTypeOK
    <2>. QED
      BY <1>1, <1>4, <2>1, LosingKeeps
  <1>. QED
    BY <1>3, <1>4 DEF OpenCache

LEMMA WriteCacheKeeps ==
  ASSUME RunCommandInv, NEW p \in Procs, WriteCache(p) PROVE RunCommandInv'
  <1>1. /\ cmd[p].at = "storing"
        /\ UNCHANGED <<now, contract, context, run, recent, session, served, during>>
        /\ late' \in BOOLEAN /\ (late => late')
        /\ ~late' => ~(cmd[p].looked < now)
    BY DEF WriteCache, At, server
  <1>2. PICK d \in RunCommandRecord : d = cmd[p]
    BY CommandHas
  <1>3. /\ d.looked <= now /\ d.asked /\ d.live # NoContract /\ d.live \in Contracts
        /\ d.live \in served[d.looked]
        /\ d.cached = NoContract \/ ~Proceeds(d.cached, d.name)
    BY <1>1, <1>2, CommandHas DEF HasLooked, RunCommandRecord
  <1>4. CASE /\ \E f \in {[state |-> "whole", of |-> cmd[p].live, expires |-> now + TTL]}
                     \cup (IF cache.state = "whole" THEN {CutFile} ELSE {}) :
                  cache' = f
             /\ Go(p, "check")
    <2>1. PICK c \in RunCommandRecord :
            /\ cmd' = [cmd EXCEPT ![p] = c]
            /\ c.at = "check" /\ c.op = d.op /\ c.name = d.name
            /\ c.given = d.given /\ c.ctx = d.ctx /\ c.cached = d.cached
            /\ c.live = d.live /\ c.looked = d.looked /\ c.asked = d.asked
            /\ c.end = d.end
      <3>1. "check" \in Places
        BY DEF Places
      <3>. QED
        BY <1>2, <1>4, <3>1, GoesTo
    <2>2. HasLooked(p, c)
      BY <1>3, <2>1 DEF HasLooked
    <2>3. HasAsked(p, c)
      BY <1>1, <1>2, <2>1, CommandHas DEF HasAsked
    <2>4. HasContext(p, c)
      BY <1>1, <1>2, <2>1, CommandHas DEF HasContext
    <2>5. PICK new : new = [state |-> "whole", of |-> d.live, expires |-> now + TTL]
      OBVIOUS
    <2>6. new.state = "whole" /\ new.of = d.live /\ new.expires = now + TTL
      BY <2>5
    <2>7. cache' = new \/ cache' = CutFile
      BY <1>2, <1>4, <2>5
    <2>8. now + TTL \in Nat
      BY CommandHas
    <2>9. new \in [state : {"whole"}, of : Contracts, expires : Nat]
      BY <1>3, <2>5, <2>8
    <2>10. ~late' => d.looked = now
      <3>1. d.looked \in Nat /\ now \in Nat
        BY CommandHas DEF RunCommandRecord
      <3>. QED
        BY <1>1, <1>2, <1>3, <3>1
    <2>11. ~late' => new.of \in served[now]
      BY <1>3, <2>6, <2>10
    <2>12. \/ cache' = cache
           \/ cache'.state = "cut"
           \/ cache'.expires = now + TTL /\ (~late' => cache'.of \in served[now])
      BY <2>6, <2>7, <2>11 DEF CutFile
    <2>. QED
      BY <1>1, <2>1, <2>2, <2>3, <2>4, <2>7, <2>9, <2>12, CacheStep
  <1>5. CASE UNCHANGED cache /\ cmd' = [cmd EXCEPT ![p].lost = TRUE, ![p].at = "check"]
    BY <1>1, <1>5, LosingKeeps
  <1>. QED
    BY <1>4, <1>5 DEF WriteCache

LEMMA TypesAreNames ==
  ASSUME NEW k \in Contracts \cup {NoContract}, NEW n \in Names
  PROVE  Resolved(k, n) \subseteq Names
  <1>1. Registry(k)[n] \subseteq Names
    <2>1. CASE k = NoContract \/ Ambiguous(k)
      BY <2>1 DEF Registry
    <2>2. CASE ~(k = NoContract \/ Ambiguous(k))
      <3>1. Registry(k) = Advertised[k] /\ k \in Contracts
        BY <2>2 DEF Registry
      <3>. QED
        BY <3>1, NamesAssumption
    <2>. QED
      BY <2>1, <2>2
  <1>. QED
    BY <1>1 DEF Resolved

LEMMA KnownByItself ==
  ASSUME NEW n \in Names PROVE Resolved(NoContract, n) = {n} \cap Static
  BY DEF Resolved, Registry, CanonicalTypes

\* The types a command may take its name for were so in time.
LEMMA ResolvedInTime ==
  ASSUME RunCommandInv, NEW p \in Procs, cmd[p].op = "run", cmd[p].at = "check", ~late,
         NEW t \in Resolved(Snapshot(cmd[p]), cmd[p].name)
  PROVE  OfItsTime(t, cmd[p].name, cmd[p].looked)
  <1>1. PICK d \in RunCommandRecord : d = cmd[p]
    BY CommandHas
  <1>2. PICK n \in Names : n = d.name
    BY DEF RunCommandRecord
  <1>3. PICK k : k = Snapshot(d)
    OBVIOUS
  <1>4. PICK looked \in Nat : looked = d.looked
    BY DEF RunCommandRecord
  <1>5. t \in Resolved(k, n)
    BY <1>1, <1>2, <1>3
  <1>6. CASE k = NoContract
    BY <1>1, <1>2, <1>5, <1>6, KnownByItself DEF OfItsTime
  <1>7. CASE k # NoContract /\ k = d.live
    <2>1. k \in served[looked]
      BY <1>1, <1>4, <1>7, CommandHas DEF HasLooked
    <2>2. looked <= now
      BY <1>1, <1>4, CommandHas DEF HasLooked
    <2>3. now \in Nat /\ now <= MaxTime /\ MaxTime \in Nat /\ TTL \in Nat /\ TTL # 0
      BY CommandHas
    <2>4. looked \in 0 .. MaxTime /\ looked < looked + TTL
      BY <2>2, <2>3
    <2>5. OfItsTime(t, n, looked)
      BY <1>5, <2>1, <2>4 DEF OfItsTime
    <2>. QED
      BY <1>1, <1>2, <1>4, <2>5
  <1>8. CASE k # NoContract /\ k # d.live
    <2>1. k = d.cached
      BY <1>3, <1>8 DEF Snapshot
    <2>2. Proceeds(k, n)
      BY <1>5 DEF Proceeds
    <2>3. ~d.asked
      BY <1>1, <1>2, <1>8, <2>1, <2>2, CommandHas DEF HasLooked
    <2>4. Had(k, looked)
      BY <1>1, <1>4, <2>1, <2>3, CommandHas DEF HasLooked
    <2>5. OfItsTime(t, n, looked)
      BY <1>5, <2>4 DEF Had, OfItsTime
    <2>. QED
      BY <1>1, <1>2, <1>4, <2>5
  <1>. QED
    BY <1>6, <1>7, <1>8

LEMMA CheckRunKeeps ==
  ASSUME RunCommandInv, NEW p \in Procs, CheckRun(p) PROVE RunCommandInv'
  <1>1. /\ cmd[p].at = "check" /\ cmd[p].op = "run"
        /\ UNCHANGED <<now, server, files, session, notes>>
    BY DEF CheckRun, At
  <1>2. PICK d \in RunCommandRecord : d = cmd[p]
    BY CommandHas
  <1>3. CASE End(p, "refused")
    BY <1>1, <1>3, EndsStill
  <1>4. CASE ~Proceeds(Snapshot(cmd[p]), cmd[p].name) /\ End(p, "unrecognized")
    <2>1. PICK c \in RunCommandRecord :
            /\ cmd' = [cmd EXCEPT ![p] = c]
            /\ c.at = "over" /\ c.name = d.name /\ c.end = "unrecognized" /\ c.looked = 0
            /\ c.asked = d.asked /\ c.live = d.live /\ c.lost = d.lost
      BY <1>2, <1>4, EndedIs
    <2>2. HasLooked(p, c)
      <3>1. 0 <= now
        BY CommandHas
      <3>. QED
        BY <2>1, <3>1 DEF HasLooked
    <2>3. d.asked
      BY <1>1, <1>2, <1>4, CommandHas DEF HasLooked, Snapshot
    <2>4. d.live # NoContract /\ ~d.lost => d.live \in during[p] /\ ~Proceeds(d.live, d.name)
      BY <1>2, <1>4, CommandHas DEF HasAsked, Snapshot
    <2>5. HasAsked(p, c)
      BY <1>2, <2>1, <2>3, <2>4, CommandHas DEF HasAsked
    <2>6. HasContext(p, c)
      BY <2>1 DEF HasContext
    <2>. QED
      BY <1>1, <2>1, <2>2, <2>5, <2>6, StillCommand
  <1>5. CASE /\ cmd[p].ctx # NoDigest
             /\ \E t \in Resolved(Snapshot(cmd[p]), cmd[p].name) :
                  cmd' = [cmd EXCEPT ![p].type = t, ![p].at = "session"]
    <2>1. PICK t \in Resolved(Snapshot(cmd[p]), cmd[p].name) :
            cmd' = [cmd EXCEPT ![p].type = t, ![p].at = "session"]
      BY <1>5
    <2>2. t \in Names
      <3>1. Snapshot(d) \in Contracts \cup {NoContract} /\ d.name \in Names
        BY DEF Snapshot, RunCommandRecord
      <3>. QED
        BY <1>2, <3>1, TypesAreNames
    <2>3. PICK c : c = [d EXCEPT !.type = t, !.at = "session"]
      OBVIOUS
    <2>4. c \in RunCommandRecord
      BY <2>2, <2>3 DEF RunCommandRecord
    <2>5. /\ c.at = "session" /\ c.type = t /\ c.op = d.op /\ c.name = d.name
          /\ c.given = d.given /\ c.ctx = d.ctx /\ c.live = d.live /\ c.looked = d.looked
          /\ c.end = d.end
      BY <2>3 DEF RunCommandRecord
    <2>6. cmd' = [cmd EXCEPT ![p] = c]
      BY <1>2, <2>1, <2>3, CommandHas
    <2>7. HasLooked(p, c)
      <3>1. ~late => OfItsTime(t, d.name, d.looked)
        BY <1>1, <1>2, ResolvedInTime
      <3>2. d.looked <= now
        BY <1>2, CommandHas DEF HasLooked
      <3>. QED
        BY <2>5, <3>1, <3>2 DEF HasLooked
    <2>8. HasAsked(p, c)
      BY <1>1, <1>2, <2>5, CommandHas DEF HasAsked
    <2>9. HasContext(p, c)
      BY <1>1, <1>2, <1>5, <2>5, CommandHas DEF HasContext
    <2>. QED
      BY <1>1, <2>4, <2>6, <2>7, <2>8, <2>9, StillCommand
  <1>. QED
    BY <1>3, <1>4, <1>5 DEF CheckRun

LEMMA FindRecentKeeps ==
  ASSUME RunCommandInv, NEW p \in Procs, FindRecent(p) PROVE RunCommandInv'
  <1>1. cmd[p].at = "recent" /\ UNCHANGED <<now, server, files, session, notes>>
    BY DEF FindRecent, At
  <1>2. PICK d \in RunCommandRecord : d = cmd[p]
    BY CommandHas
  <1>3. PICK x : x = IF d.ctx = NoDigest /\ recent.state = "whole" THEN recent.of ELSE d.ctx
    OBVIOUS
  <1>4. x \in Contexts
    BY <1>3 DEF RunCommandRecord, RunCommandInv, CommandTypeOK, NoFile, CutFile
  <1>5. PICK c : c = [d EXCEPT !.at = "check", !.ctx = x]
    OBVIOUS
  <1>6. c \in RunCommandRecord
    BY <1>4, <1>5 DEF RunCommandRecord
  <1>7. /\ c.at = "check" /\ c.ctx = x /\ c.op = d.op /\ c.name = d.name /\ c.given = d.given
        /\ c.cached = d.cached /\ c.live = d.live /\ c.looked = d.looked
        /\ c.asked = d.asked /\ c.end = d.end
    BY <1>5 DEF RunCommandRecord
  <1>8. cmd' = [cmd EXCEPT ![p] = c]
    BY <1>2, <1>3, <1>5, CommandHas DEF FindRecent
  <1>9. d.op # "run"
    BY <1>1, <1>2, CommandHas DEF HasContext
  <1>10. HasLooked(p, c)
    BY <1>1, <1>2, <1>7, <1>9, CommandHas DEF HasLooked
  <1>11. HasAsked(p, c)
    BY <1>1, <1>2, <1>7, CommandHas DEF HasAsked
  <1>12. HasContext(p, c)
    BY <1>7, <1>9 DEF HasContext
  <1>. QED
    BY <1>1, <1>6, <1>8, <1>10, <1>11, <1>12, StillCommand

LEMMA CheckContextKeeps ==
  ASSUME RunCommandInv, NEW p \in Procs, CheckContext(p) PROVE RunCommandInv'
  <1>1. /\ cmd[p].at = "check" /\ cmd[p].op # "run"
        /\ UNCHANGED <<now, server, files, session, notes>>
    BY DEF CheckContext, At
  <1>2. CASE End(p, "refused")
    BY <1>1, <1>2, EndsStill
  <1>3. CASE Go(p, "session")
    <2>1. "session" \in Places
      BY DEF Places
    <2>2. PICK c \in RunCommandRecord :
            /\ cmd' = [cmd EXCEPT ![p] = c]
            /\ c.at = "session" /\ c.op = cmd[p].op /\ c.name = cmd[p].name
            /\ c.live = cmd[p].live /\ c.looked = cmd[p].looked
            /\ c.end = cmd[p].end
      BY <1>3, <2>1, GoesTo
    <2>3. HasLooked(p, c)
      BY <1>1, <2>2, CommandHas DEF HasLooked
    <2>4. HasAsked(p, c)
      BY <1>1, <2>2, CommandHas DEF HasAsked
    <2>5. HasContext(p, c)
      BY <1>1, <2>2 DEF HasContext
    <2>. QED
      BY <1>1, <2>2, <2>3, <2>4, <2>5, StillCommand
  <1>. QED
    BY <1>2, <1>3 DEF CheckContext

LEMMA ReadSessionKeeps ==
  ASSUME RunCommandInv, NEW p \in Procs, ReadSession(p) PROVE RunCommandInv'
  <1>1. cmd[p].at = "session" /\ UNCHANGED <<now, server, files, session, notes>>
    BY DEF ReadSession, At
  <1>2. PICK d \in RunCommandRecord : d = cmd[p]
    BY CommandHas
  <1>3. CASE End(p, "refused")
    BY <1>1, <1>3, EndsStill
  <1>4. CASE ~(cmd[p].op = "run" /\ cmd[p].ctx = Malformed)
    <2>1. PICK place \in {"inspect", "compile", "dispatch"} :
            place = IF d.op = "inspect" THEN "inspect"
                    ELSE IF d.op = "compile" \/ d.ctx = AutoContext THEN "compile"
                    ELSE "dispatch"
      OBVIOUS
    <2>2. PICK c : c = [d EXCEPT !.who = session, !.at = place]
      OBVIOUS
    <2>3. session \in Identities \cup {Nobody}
      BY DEF RunCommandInv, CommandTypeOK
    <2>4. c \in RunCommandRecord
      BY <2>2, <2>3 DEF RunCommandRecord
    <2>5. /\ c.at = place /\ c.type = d.type /\ c.op = d.op /\ c.name = d.name
          /\ c.given = d.given /\ c.ctx = d.ctx /\ c.live = d.live /\ c.looked = d.looked
          /\ c.end = d.end
      BY <2>2 DEF RunCommandRecord
    <2>6. cmd' = [cmd EXCEPT ![p] = c]
      <3>1. cmd' = [cmd EXCEPT ![p].who = session, ![p].at = place]
        BY <1>2, <1>4, <2>1 DEF ReadSession
      <3>. QED
        BY <1>2, <2>2, <3>1, CommandHas
    <2>7. HasLooked(p, c)
      BY <1>1, <1>2, <2>1, <2>5, CommandHas DEF HasLooked
    <2>8. HasAsked(p, c)
      BY <1>1, <1>2, <2>1, <2>5, CommandHas DEF HasAsked
    <2>9. HasContext(p, c)
      <3>1. d.op = "run" => d.ctx # NoDigest /\ d.ctx = d.given
        BY <1>1, <1>2, CommandHas DEF HasContext
      <3>2. place = "dispatch" => d.op = "run" /\ d.ctx \in Procs /\ d.given # AutoContext
        BY <1>2, <1>4, <2>1, <3>1 DEF RunCommandRecord, Contexts
      <3>. QED
        BY <2>1, <2>5, <3>1, <3>2 DEF HasContext
    <2>. QED
      BY <1>1, <2>4, <2>6, <2>7, <2>8, <2>9, StillCommand
  <1>. QED
    BY <1>3, <1>4 DEF ReadSession

\* Answers that name a context name one that was compiled for the process.
LEMMA CompiledFor ==
  ASSUME NEW p \in Procs, NEW a \in CompileAnswers(p)
  PROVE  /\ a[1] \in {Nobody, cmd[p].who}
         /\ IsCompiled(a[2]) => a[1] = cmd[p].who /\ a[1] # Nobody /\ a[2].body = p
  <1>1. CASE \E r \in {NoReply} \cup Refusals \cup Queued : a = <<Nobody, r>>
    BY <1>1 DEF NoReply, Refusals, Queued, Answer, IsCompiled, NoDigest
  <1>2. CASE cmd[p].who # Nobody /\ \E r \in {Done(p), NoReply} : a = <<cmd[p].who, r>>
    BY <1>2 DEF NoReply, Done, Answer, IsCompiled, NoDigest
  <1>. QED
    BY <1>1, <1>2 DEF CompileAnswers

LEMMA CompileKeeps ==
  ASSUME RunCommandInv, NEW p \in Procs, Compile(p) PROVE RunCommandInv'
  <1>1. /\ cmd[p].at = "compile"
        /\ UNCHANGED <<now, contract, run, cache, recent, session, served, during, late>>
    BY DEF Compile, At, files, notes
  <1>2. PICK d \in RunCommandRecord : d = cmd[p]
    BY CommandHas
  <1>3. PICK a \in CompileAnswers(p) :
          /\ context' = [context EXCEPT ![p] = a[1]]
          /\ IF IsCompiled(a[2])
             THEN cmd' = [cmd EXCEPT ![p].ctx = a[2].body, ![p].at = "note"]
             ELSE End(p, IF cmd[p].op = "compile" /\ Succeeds(a[2]) THEN "compiled"
                         ELSE "failed")
    BY DEF Compile
  <1>4. CommandTypeOK /\ d.who \in Identities \cup {Nobody}
    BY DEF RunCommandInv, RunCommandRecord
  <1>5. /\ context' \in [Procs -> Identities \cup {Nobody}] /\ context'[p] = a[1]
        /\ \A q \in Procs \ {p} : context'[q] = context[q]
    BY <1>2, <1>3, <1>4, CompiledFor DEF CommandTypeOK
  <1>6. ASSUME NEW c \in RunCommandRecord, cmd' = [cmd EXCEPT ![p] = c],
               HasLooked(p, c), HasAsked(p, c), HasContext(p, c)'
        PROVE  RunCommandInv'
    <2>1. cmd' \in [Procs -> RunCommandRecord]
      BY <1>6, CommandHas
    <2>2. CommandTypeOK'
      BY <1>1, <1>4, <1>5, <2>1 DEF CommandTypeOK
    <2>3. HasLooked(p, c)'
      BY <1>1, <1>6 DEF HasLooked, Had, OfItsTime
    <2>4. HasAsked(p, c)'
      BY <1>1, <1>6 DEF HasAsked
    <2>5. Holds(p, c)'
      BY <1>6, <2>3, <2>4 DEF Holds
    <2>6. Sent(p)'
      BY <1>1 DEF RunCommandInv, Sent
    <2>. QED
      BY <1>1, <1>5, <1>6, <2>2, <2>5, <2>6, CommandGoes
  <1>7. CASE IsCompiled(a[2])
    <2>1. a[1] = d.who /\ d.who # Nobody /\ a[2].body = p
      BY <1>2, <1>3, <1>7, CompiledFor
    <2>2. PICK c : c = [d EXCEPT !.ctx = p, !.at = "note"]
      OBVIOUS
    <2>3. c \in RunCommandRecord
      BY <2>2 DEF RunCommandRecord, Contexts
    <2>4. /\ c.at = "note" /\ c.ctx = p /\ c.who = d.who /\ c.type = d.type /\ c.op = d.op
          /\ c.name = d.name /\ c.given = d.given /\ c.live = d.live /\ c.looked = d.looked
          /\ c.end = d.end
      BY <2>2 DEF RunCommandRecord
    <2>5. cmd' = [cmd EXCEPT ![p] = c]
      <3>1. cmd' = [cmd EXCEPT ![p].ctx = p, ![p].at = "note"]
        BY <1>3, <1>7, <2>1
      <3>. QED
        BY <1>2, <2>2, <3>1, CommandHas
    <2>6. HasLooked(p, c)
      BY <1>1, <1>2, <2>4, CommandHas DEF HasLooked
    <2>7. HasAsked(p, c)
      BY <1>1, <1>2, <2>4, CommandHas DEF HasAsked
    <2>8. HasContext(p, c)'
      BY <1>5, <2>1, <2>4 DEF HasContext, IsOwn
    <2>. QED
      BY <1>6, <2>3, <2>5, <2>6, <2>7, <2>8
  <1>8. CASE ~IsCompiled(a[2])
    <2>1. PICK said \in {"compiled", "failed"} : End(p, said)
      BY <1>3, <1>8
    <2>2. PICK c \in RunCommandRecord :
            /\ cmd' = [cmd EXCEPT ![p] = c] /\ c.at = "over"
            /\ HasLooked(p, c) /\ HasAsked(p, c)
      BY <2>1, EndHolds
    <2>3. HasContext(p, c)'
      BY <2>2 DEF HasContext
    <2>. QED
      BY <1>6, <2>2, <2>3
  <1>. QED
    BY <1>7, <1>8

LEMMA AfterNoteKeeps ==
  ASSUME RunCommandInv, NEW p \in Procs, AfterNote(p), cmd[p].at \in {"note", "noting"},
         UNCHANGED <<now, server, cache, session, notes>>, recent' \in RecentFile
  PROVE  RunCommandInv'
  <1>1. CASE cmd[p].op = "run" /\ Go(p, "dispatch")
    <2>1. "dispatch" \in Places
      BY DEF Places
    <2>2. PICK c \in RunCommandRecord :
            /\ cmd' = [cmd EXCEPT ![p] = c]
            /\ c.at = "dispatch" /\ c.op = "run" /\ c.name = cmd[p].name
            /\ c.ctx = cmd[p].ctx /\ c.live = cmd[p].live /\ c.looked = cmd[p].looked
            /\ c.type = cmd[p].type /\ c.who = cmd[p].who /\ c.end = cmd[p].end
      BY <1>1, <2>1, GoesTo
    <2>3. HasLooked(p, c)
      BY <1>1, <2>2, CommandHas DEF HasLooked
    <2>4. HasAsked(p, c)
      BY <2>2, CommandHas DEF HasAsked
    <2>5. HasContext(p, c)
      BY <2>2, CommandHas DEF HasContext, IsOwn
    <2>. QED
      BY <2>2, <2>3, <2>4, <2>5, QuietCommand
  <1>2. CASE End(p, "compiled")
    BY <1>2, EndsQuietly
  <1>. QED
    BY <1>1, <1>2 DEF AfterNote

LEMMA OpenRecentKeeps ==
  ASSUME RunCommandInv, NEW p \in Procs, OpenRecent(p) PROVE RunCommandInv'
  <1>1. cmd[p].at = "note" /\ UNCHANGED <<now, server, cache, session, notes>>
    BY DEF OpenRecent, At
  <1>2. CASE UNCHANGED recent /\ AfterNote(p)
    BY <1>1, <1>2, RecentStays, AfterNoteKeeps
  <1>3. CASE recent' = CutFile /\ Go(p, "noting")
    <2>1. "noting" \in Places /\ recent' \in RecentFile
      BY <1>3 DEF Places, RecentFile
    <2>2. PICK c \in RunCommandRecord :
            /\ cmd' = [cmd EXCEPT ![p] = c]
            /\ c.at = "noting" /\ c.op = cmd[p].op /\ c.name = cmd[p].name
            /\ c.ctx = cmd[p].ctx /\ c.live = cmd[p].live /\ c.looked = cmd[p].looked
            /\ c.type = cmd[p].type /\ c.who = cmd[p].who /\ c.end = cmd[p].end
      BY <1>3, <2>1, GoesTo
    <2>3. HasLooked(p, c)
      BY <1>1, <2>2, CommandHas DEF HasLooked
    <2>4. HasAsked(p, c)
      BY <1>1, <2>2, CommandHas DEF HasAsked
    <2>5. HasContext(p, c)
      BY <1>1, <2>2, CommandHas DEF HasContext, IsOwn
    <2>. QED
      BY <1>1, <2>1, <2>2, <2>3, <2>4, <2>5, QuietCommand
  <1>. QED
    BY <1>2, <1>3 DEF OpenRecent

LEMMA WriteRecentKeeps ==
  ASSUME RunCommandInv, NEW p \in Procs, WriteRecent(p) PROVE RunCommandInv'
  <1>1. cmd[p].at = "noting" /\ UNCHANGED <<now, server, cache, session, notes>>
    BY DEF WriteRecent, At
  <1>2. recent' \in RecentFile
    <2>1. cmd[p].ctx \in Contexts
      BY CommandHas DEF RunCommandRecord
    <2>. QED
      BY <2>1, RecentStays DEF WriteRecent, RecentFile, RunCommandInv, CommandTypeOK
  <1>. QED
    BY <1>1, <1>2, AfterNoteKeeps DEF WriteRecent

LEMMA InspectKeeps ==
  ASSUME RunCommandInv, NEW p \in Procs, Inspect(p) PROVE RunCommandInv'
  BY EndsStill DEF Inspect, At

LEMMA KilledKeeps ==
  ASSUME RunCommandInv, NEW p \in Procs, Killed(p) PROVE RunCommandInv'
  BY EndsStill DEF Killed

LEMMA DispatchKeeps ==
  ASSUME RunCommandInv, NEW p \in Procs, Dispatch(p) PROVE RunCommandInv'
  <1>1. /\ cmd[p].at = "dispatch" /\ End(p, "sent")
        /\ UNCHANGED <<now, contract, context, cache, recent, session, served, during, late>>
    BY DEF Dispatch, At, files, notes
  <1>2. PICK d \in RunCommandRecord : d = cmd[p]
    BY CommandHas
  <1>3. PICK r : r = [sent |-> TRUE, name |-> d.name, type |-> d.type, looked |-> d.looked,
                      who |-> d.who, auto |-> d.given = AutoContext, ctx |-> d.ctx]
    OBVIOUS
  <1>4. run' = [run EXCEPT ![p] = r]
    BY <1>2, <1>3 DEF Dispatch
  <1>5. r \in SentRun
    BY <1>3 DEF RunCommandRecord, SentRun
  <1>6. /\ r.name = d.name /\ r.type = d.type /\ r.looked = d.looked /\ r.who = d.who
        /\ r.auto = (d.given = AutoContext) /\ r.ctx = d.ctx
    BY <1>3
  <1>7. PICK c \in RunCommandRecord :
          /\ cmd' = [cmd EXCEPT ![p] = c] /\ c.at = "over"
          /\ HasLooked(p, c) /\ HasAsked(p, c) /\ HasContext(p, c)
    BY <1>1, EndHolds
  <1>8. CommandTypeOK
    BY DEF RunCommandInv
  <1>9. CommandTypeOK'
    <2>1. cmd' \in [Procs -> RunCommandRecord]
      BY <1>7, CommandHas
    <2>2. run' \in [Procs -> SentRun \cup {NoRun}]
      BY <1>4, <1>5, <1>8 DEF CommandTypeOK
    <2>. QED
      BY <1>1, <1>8, <2>1, <2>2 DEF CommandTypeOK
  <1>10. Holds(p, c)'
    BY <1>1, <1>7 DEF Holds, HasLooked, HasAsked, HasContext, IsOwn, Had, OfItsTime
  <1>11. run'[p] = r /\ cmd'[p] = c /\ \A q \in Procs \ {p} : run'[q] = run[q]
    BY <1>4, <1>7, <1>8 DEF CommandTypeOK
  <1>12. /\ d.ctx \in Procs /\ (d.given = AutoContext => IsOwn(p, d.ctx, d.who))
         /\ ~late => OfItsTime(d.type, d.name, d.looked)
    BY <1>1, <1>2, CommandHas DEF HasContext, HasLooked
  <1>13. Sent(p)'
    <2>1. r.ctx \in Procs
      BY <1>6, <1>12
    <2>2. r.auto => IsOwn(p, r.ctx, r.who)'
      BY <1>1, <1>6, <1>12 DEF IsOwn
    <2>3. ~late => OfItsTime(r.type, r.name, r.looked)'
      BY <1>1, <1>6, <1>12 DEF OfItsTime
    <2>. QED
      BY <1>1, <1>7, <1>11, <2>1, <2>2, <2>3 DEF Sent
  <1>. QED
    BY <1>1, <1>7, <1>9, <1>10, <1>11, <1>13, CommandGoes

-----------------------------------------------------------------------------
(* The environment.                                                         *)

\* A step of the world that takes nothing back.
LEMMA WorldStep ==
  ASSUME RunCommandInv, UNCHANGED <<cmd, cache, run>>, \A q \in Procs : WorldGoes(q),
         CommandTypeOK', HistoryIsTrue'
  PROVE  RunCommandInv'
  <1>1. CommandTypeOK
    BY DEF RunCommandInv
  <1>2. ASSUME NEW q \in Procs PROVE Holds(q, cmd[q])'
    <2>1. PICK d \in RunCommandRecord : d = cmd[q] /\ cmd'[q] = d
      BY CommandHas
    <2>2. Holds(q, d)
      BY <2>1 DEF RunCommandInv
    <2>3. DateHolds(d)
      BY <2>2 DEF Holds, HasLooked, DateHolds
    <2>4. WorldGoes(q)
      OBVIOUS
    <2>5. Holds(q, d)'
      BY <1>1, <2>2, <2>3, <2>4, HoldingStays
    <2>. QED
      BY <2>1, <2>5
  <1>3. ASSUME NEW q \in Procs PROVE Sent(q)'
    BY SentStays
  <1>. QED
    BY <1>2, <1>3 DEF RunCommandInv

LEMMA TickKeeps ==
  ASSUME RunCommandInv, Tick PROVE RunCommandInv'
  <1>1. /\ now < MaxTime /\ now' = now + 1
        /\ served' = [served EXCEPT ![now + 1] = {contract}]
        /\ UNCHANGED <<contract, context, run, cache, recent, session, cmd, during, late>>
    BY DEF Tick, server, files
  <1>2. now \in Nat /\ MaxTime \in Nat
    BY BoundAssumption DEF RunCommandInv, CommandTypeOK
  <1>3. now + 1 \in 0 .. MaxTime /\ now < now + 1 /\ now <= now'
    BY <1>1, <1>2
  <1>4. CommandTypeOK /\ HistoryIsTrue
    BY DEF RunCommandInv
  <1>5. contract \in Contracts /\ served \in [0 .. MaxTime -> SUBSET Contracts]
    BY <1>4 DEF CommandTypeOK
  <1>6. PICK next : next = now + 1
    OBVIOUS
  <1>7. /\ next \in 0 .. MaxTime /\ served' = [served EXCEPT ![next] = {contract}]
        /\ now' = next
    BY <1>1, <1>3, <1>6
  <1>8. served[next] = {}
    BY <1>3, <1>4, <1>6 DEF HistoryIsTrue
  <1>9. /\ \A t \in 0 .. MaxTime : served[t] \subseteq served'[t]
        /\ \A t \in 0 .. MaxTime : t # next => served'[t] = served[t]
        /\ contract \in served'[next]
    BY <1>5, <1>7, <1>8
  <1>10. served' \in [0 .. MaxTime -> SUBSET Contracts]
    BY <1>5, <1>7
  <1>11. CommandTypeOK'
    BY <1>1, <1>4, <1>7, <1>10 DEF CommandTypeOK
  <1>12. HistoryIsTrue'
    <2>1. contract' \in served'[now']
      BY <1>1, <1>7, <1>9
    <2>2. ASSUME NEW t \in 0 .. MaxTime, t > now' PROVE served'[t] = {}
      <3>1. t > now /\ t # next
        BY <1>2, <1>6, <1>7, <2>2
      <3>. QED
        BY <1>4, <1>9, <3>1 DEF HistoryIsTrue
    <2>3. \A p \in Procs : cmd'[p].at \notin {"idle", "over"} => contract' \in during'[p]
      BY <1>1, <1>4 DEF HistoryIsTrue
    <2>4. ASSUME cache'.state = "whole", ~late'
          PROVE  \E t \in 0 .. now' : cache'.expires = t + TTL /\ cache'.of \in served'[t]
      <3>1. PICK t \in 0 .. now : cache.expires = t + TTL /\ cache.of \in served[t]
        BY <1>1, <1>4, <2>4 DEF HistoryIsTrue
      <3>2. t \in 0 .. now' /\ t \in 0 .. MaxTime
        BY <1>1, <1>2, <3>1
      <3>. QED
        BY <1>1, <1>9, <3>1, <3>2
    <2>. QED
      BY <2>1, <2>2, <2>3, <2>4 DEF HistoryIsTrue
  <1>13. ASSUME NEW q \in Procs PROVE WorldGoes(q)
    BY <1>1, <1>3, <1>9 DEF WorldGoes
  <1>. QED
    BY <1>1, <1>11, <1>12, <1>13, WorldStep

LEMMA ContractChangesKeeps ==
  ASSUME RunCommandInv, ContractChanges PROVE RunCommandInv'
  <1>1. /\ contract' \in Contracts
        /\ served' = [served EXCEPT ![now] = @ \cup {contract'}]
        /\ during' = [p \in Procs |->
             IF cmd[p].at \in {"idle", "over"} THEN during[p] ELSE during[p] \cup {contract'}]
        /\ UNCHANGED <<now, context, run, cache, recent, session, cmd, late>>
    BY DEF ContractChanges, files
  <1>2. now \in Nat /\ now <= MaxTime /\ MaxTime \in Nat
    BY BoundAssumption DEF RunCommandInv, CommandTypeOK
  <1>3. CommandTypeOK /\ HistoryIsTrue
    BY DEF RunCommandInv
  <1>4. /\ served \in [0 .. MaxTime -> SUBSET Contracts] /\ now \in 0 .. MaxTime
        /\ during \in [Procs -> SUBSET Contracts]
    BY <1>3 DEF CommandTypeOK
  <1>5. /\ \A t \in 0 .. MaxTime : served[t] \subseteq served'[t]
        /\ \A t \in 0 .. MaxTime : t # now => served'[t] = served[t]
        /\ contract' \in served'[now]
        /\ served' \in [0 .. MaxTime -> SUBSET Contracts]
    BY <1>1, <1>4
  <1>6. /\ \A q \in Procs : during[q] \subseteq during'[q]
        /\ during' \in [Procs -> SUBSET Contracts]
    BY <1>1, <1>4
  <1>7. CommandTypeOK'
    BY <1>1, <1>3, <1>5, <1>6 DEF CommandTypeOK
  <1>8. HistoryIsTrue'
    <2>1. contract' \in served'[now']
      BY <1>1, <1>5
    <2>2. ASSUME NEW t \in 0 .. MaxTime, t > now' PROVE served'[t] = {}
      <3>1. t > now /\ t # now
        BY <1>1, <1>2, <2>2
      <3>. QED
        BY <1>3, <1>5, <3>1 DEF HistoryIsTrue
    <2>3. \A p \in Procs : cmd'[p].at \notin {"idle", "over"} => contract' \in during'[p]
      BY <1>1
    <2>4. ASSUME cache'.state = "whole", ~late'
          PROVE  \E t \in 0 .. now' : cache'.expires = t + TTL /\ cache'.of \in served'[t]
      <3>1. PICK t \in 0 .. now : cache.expires = t + TTL /\ cache.of \in served[t]
        BY <1>1, <1>3, <2>4 DEF HistoryIsTrue
      <3>2. t \in 0 .. now' /\ t \in 0 .. MaxTime
        BY <1>1, <1>2, <3>1
      <3>. QED
        BY <1>1, <1>5, <3>1, <3>2
    <2>. QED
      BY <2>1, <2>2, <2>3, <2>4 DEF HistoryIsTrue
  <1>9. ASSUME NEW q \in Procs PROVE WorldGoes(q)
    <2>1. now <= now'
      BY <1>1, <1>2
    <2>. QED
      BY <1>1, <1>5, <1>6, <2>1 DEF WorldGoes
  <1>. QED
    BY <1>1, <1>7, <1>8, <1>9, WorldStep

\* Who is signed in, and nothing else, may have changed.
LEMMA SessionStep ==
  ASSUME RunCommandInv, session' \in Identities \cup {Nobody},
         UNCHANGED <<now, server, files, cmd, notes>>
  PROVE  RunCommandInv'
  <1>1. UNCHANGED <<now, contract, context, run, cache, recent, cmd, served, during, late>>
    BY DEF server, files, notes
  <1>2. CommandTypeOK /\ HistoryIsTrue
    BY DEF RunCommandInv
  <1>3. CommandTypeOK'
    BY <1>1, <1>2 DEF CommandTypeOK
  <1>4. HistoryIsTrue'
    BY <1>1, <1>2 DEF HistoryIsTrue
  <1>5. now \in Nat
    BY BoundAssumption DEF RunCommandInv, CommandTypeOK
  <1>6. ASSUME NEW q \in Procs PROVE WorldGoes(q)
    BY <1>1, <1>5 DEF WorldGoes
  <1>. QED
    BY <1>1, <1>3, <1>4, <1>6, WorldStep

-----------------------------------------------------------------------------
(* The commands begin so, and every step keeps it.                          *)

LEMMA CommandBegins ==
  ASSUME CommandInit PROVE RunCommandInv
  <1>1. PICK scene \in Scenes : cmd = [p \in Procs |-> Fresh(scene[p])]
    BY DEF CommandInit
  <1>2. scene \in [Procs -> Commands]
    BY <1>1, BoundAssumption
  <1>3. now = 0 /\ 0 \in 0 .. MaxTime /\ TTL \in Nat /\ 0 + TTL = TTL
    BY BoundAssumption DEF CommandInit
  <1>4. served = [t \in 0 .. MaxTime |-> IF t = 0 THEN {contract} ELSE {}]
    BY DEF CommandInit
  <1>5. ASSUME NEW p \in Procs
        PROVE  cmd[p] \in RunCommandRecord /\ Holds(p, cmd[p])
    <2>1. PICK s \in Commands : s = scene[p]
      BY <1>2
    <2>2. PICK c : c = Fresh(s) /\ c = cmd[p]
      BY <1>1, <2>1
    <2>3. c = [op |-> s.op, name |-> s.name, given |-> s.ctx, ctx |-> s.ctx, at |-> "idle",
               cached |-> NoContract, live |-> NoContract, looked |-> 0, asked |-> FALSE,
               lost |-> FALSE, type |-> s.name, who |-> Nobody, end |-> "none"]
      BY <2>2 DEF Fresh
    <2>4. s.op \in {"run", "compile", "inspect"} /\ s.name \in Names /\ s.ctx \in Contexts
      BY DEF Commands, Contexts
    <2>5. c \in RunCommandRecord
      BY <2>3, <2>4 DEF RunCommandRecord
    <2>6. /\ c.at = "idle" /\ c.live = NoContract /\ c.cached = NoContract /\ ~c.asked
          /\ c.looked = 0 /\ c.end = "none" /\ c.ctx = c.given
      BY <2>3
    <2>7. c.looked <= now
      BY <1>3, <2>6
    <2>8. HasLooked(p, c)
      BY <2>6, <2>7 DEF HasLooked
    <2>9. HasAsked(p, c)
      BY <2>6 DEF HasAsked
    <2>10. HasContext(p, c)
      BY <2>6 DEF HasContext
    <2>. QED
      BY <2>2, <2>5, <2>8, <2>9, <2>10 DEF Holds
  <1>6. CommandTypeOK
    <2>1. contract \in Contracts /\ session \in Identities /\ late = FALSE /\ recent = NoFile
      BY DEF CommandInit
    <2>2. /\ context \in [Procs -> Identities \cup {Nobody}]
          /\ run \in [Procs -> SentRun \cup {NoRun}]
          /\ during \in [Procs -> SUBSET Contracts]
      BY DEF CommandInit
    <2>3. cache \in [state : {"whole"}, of : Contracts, expires : Nat] \cup {NoFile}
      BY <1>3, <2>1 DEF CommandInit
    <2>4. cmd \in [Procs -> RunCommandRecord]
      BY <1>1, <1>5
    <2>5. served \in [0 .. MaxTime -> SUBSET Contracts]
      BY <1>4, <2>1
    <2>. QED
      BY <1>3, <2>1, <2>2, <2>3, <2>4, <2>5 DEF CommandTypeOK
  <1>7. HistoryIsTrue
    <2>1. contract \in served[now]
      BY <1>3, <1>4
    <2>2. \A t \in 0 .. MaxTime : t > now => served[t] = {}
      BY <1>3, <1>4
    <2>3. ASSUME NEW p \in Procs PROVE cmd[p].at = "idle"
      BY <1>1 DEF Fresh
    <2>4. cache = NoFile \/ cache = [state |-> "whole", of |-> contract, expires |-> TTL]
      BY DEF CommandInit
    <2>5. cache.state = "whole" => cache.expires = 0 + TTL /\ cache.of \in served[0]
      BY <1>3, <2>1, <2>4 DEF NoFile
    <2>6. 0 \in 0 .. now
      BY <1>3
    <2>. QED
      BY <2>1, <2>2, <2>3, <2>5, <2>6 DEF HistoryIsTrue
  <1>8. ASSUME NEW p \in Procs PROVE Sent(p)
    BY DEF CommandInit, NoRun, Sent
  <1>. QED
    BY <1>5, <1>6, <1>7, <1>8 DEF RunCommandInv

LEMMA RunCommandStep ==
  ASSUME RunCommandInv, [CommandNext]_commandVars PROVE RunCommandInv'
  <1>1. CASE UNCHANGED commandVars
    <2>1. UNCHANGED <<now, server, files, session, cmd, notes>>
      BY <1>1 DEF commandVars
    <2>2. session' \in Identities \cup {Nobody}
      BY <2>1 DEF RunCommandInv, CommandTypeOK
    <2>. QED
      BY <2>1, <2>2, SessionStep
  <1>2. CASE \E p \in Procs :
               \/ StartCommand(p) \/ Killed(p) \/ LoadEnvelope(p) \/ LoadResult(p)
               \/ Fetch(p) \/ OpenCache(p) \/ WriteCache(p)
    BY <1>2, StartCommandKeeps, KilledKeeps, LoadEnvelopeKeeps, LoadResultKeeps, FetchKeeps,
       OpenCacheKeeps, WriteCacheKeeps
  <1>3. CASE \E p \in Procs :
               \/ CheckRun(p) \/ FindRecent(p) \/ CheckContext(p) \/ ReadSession(p)
               \/ Compile(p) \/ OpenRecent(p) \/ WriteRecent(p) \/ Inspect(p) \/ Dispatch(p)
    BY <1>3, CheckRunKeeps, FindRecentKeeps, CheckContextKeeps, ReadSessionKeeps,
       CompileKeeps, OpenRecentKeeps, WriteRecentKeeps, InspectKeeps, DispatchKeeps
  <1>4. CASE Tick \/ ContractChanges
    BY <1>4, TickKeeps, ContractChangesKeeps
  <1>5. CASE SessionChanges
    <2>1. /\ session' \in Identities \cup {Nobody}
          /\ UNCHANGED <<now, server, files, cmd, notes>>
      BY <1>5 DEF SessionChanges
    <2>. QED
      BY <2>1, SessionStep
  <1>. QED
    BY <1>1, <1>2, <1>3, <1>4, <1>5 DEF CommandNext

LEMMA RunCommandInvariant == CommandSpec => []RunCommandInv
  <1>1. CommandInit => RunCommandInv
    BY CommandBegins
  <1>2. RunCommandInv /\ [CommandNext]_commandVars => RunCommandInv'
    BY RunCommandStep
  <1>. QED
    BY <1>1, <1>2, PTL DEF CommandSpec

(* resolve_run_type and the cache of capabilities: whatever other commands  *)
(* make of the file between the two reads of load_valid, a run that is sent *)
(* has a type that the client knows by itself, or that capabilities served  *)
(* less than TTL before the command looked resolve its name to, unless a    *)
(* snapshot was dated later than it was fetched.                            *)
THEOREM TypesWereServed == CommandSpec => []TypeWasServed
  <1>1. RunCommandInv => TypeWasServed
    BY DEF RunCommandInv, Sent, OfItsTime, TypeWasServed
  <1>. QED
    BY <1>1, RunCommandInvariant, PTL

(* The dispatch preflight: a name is refused as unrecognized only after the *)
(* server was asked, and if its answer came and was stored, only if the     *)
(* server did not know the name at some moment of the command.              *)
THEOREM RefusalsAreLive == CommandSpec => []RefusalIsLive
  <1>1. RunCommandInv => RefusalIsLive
    BY DEF RunCommandInv, Holds, HasAsked, RefusalIsLive
  <1>. QED
    BY <1>1, RunCommandInvariant, PTL

(* The context of a run: a run that is sent is bound to one, and one that   *)
(* was asked for with --context auto is bound to what the server compiled   *)
(* for this command and for the principal that the run is sent for.         *)
THEOREM RunsAreBound == CommandSpec => []RunIsBound
  <1>1. RunCommandInv => RunIsBound
    BY DEF RunCommandInv, Sent, IsOwn, RunIsBound
  <1>. QED
    BY <1>1, RunCommandInvariant, PTL
=============================================================================
