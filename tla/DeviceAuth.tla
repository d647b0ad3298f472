----------------------------- MODULE DeviceAuth -----------------------------
(***************************************************************************)
(* Device authorization logins of one process (keyhole_sdk/sdk_client_25:  *)
(* device_flow.py, auth_state.py).  Each attempt is entered in the         *)
(* AuthAttemptRegistry and polls the token endpoint in a thread of its     *)
(* own; a newer attempt supersedes it, sign_out and the user cancel it,    *)
(* and the person at the browser approves or denies it meanwhile.          *)
(*                                                                         *)
(* The clock of an attempt is the time it has left: it runs while the      *)
(* poller waits for a reply or sleeps, by whole units.                     *)
(***************************************************************************)
EXTENDS Integers

CONSTANTS
  MaxAttempts,       \* bound on logins
  WithCancelToken,   \* the attempts whose caller passes a cancel_token
  None,              \* no active attempt, no outcome yet
  Intervals,         \* what the server may say of the polling interval
  Expiries,          \* ... and of the life of a device code
  IntervalFloor,     \* 1 second
  ExpiryFloor,       \* 60 seconds
  Increment,         \* _SLOW_DOWN_INCREMENT_SECONDS
  IntervalCap,       \* 60 seconds
  RequestTimeout,    \* _POLL_REQUEST_TIMEOUT_SECONDS
  MaxFailures        \* _MAX_CONSECUTIVE_NETWORK_FAILURES

ASSUME MaxAttemptsAssumption == MaxAttempts \in Nat

\* The attempts, in the order in which they start.
Attempts == 1..MaxAttempts

Statuses == {"PENDING", "SLOW_DOWN", "APPROVED", "DENIED", "EXPIRED", "NETWORK_ERROR"}

ASSUME NoneAssumption == None \notin Attempts /\ None \notin Statuses
ASSUME CancelTokenAssumption == WithCancelToken \subseteq Attempts
ASSUME ServerAssumption == Intervals \subseteq Int /\ Expiries \subseteq Int
ASSUME LimitsAssumption ==
  /\ IntervalFloor \in Nat \ {0} /\ ExpiryFloor \in Nat \ {0}
  /\ Increment \in Nat /\ IntervalCap \in Nat \ {0}
  /\ RequestTimeout \in Nat /\ MaxFailures \in Nat \ {0}

VARIABLES
  known,       \* registry: the attempts in _attempts
  superseded,  \* registry: those that are superseded
  completed,   \* registry: those that are completed
  active,      \* registry: _active
  cancelled,   \* attempts whose CancelToken is set
  pc,          \* where the poller of each attempt stands
  interval,    \* its interval
  left,        \* the time to its deadline
  failures,    \* its consecutive_failures
  outcome,     \* the status of its last poll, or None
  grant        \* the server: what became of each device code

registry == <<known, superseded, completed, active>>
poller == <<pc, interval, left, failures, outcome>>
vars == <<registry, cancelled, poller, grant>>

Polling == {"top", "checked", "polling", "outcome"}
Ended == {"token", "cancelled", "denied", "expired", "network", "failed"}
Grants == {"pending", "approved", "denied", "expired", "spent"}

Least(x, y) == IF x <= y THEN x ELSE y
Most(x, y) == IF x >= y THEN x ELSE y

Init ==
  /\ known = {} /\ superseded = {} /\ completed = {} /\ active = None
  /\ cancelled = {}
  /\ pc = [a \in Attempts |-> "none"]
  /\ interval = [a \in Attempts |-> IntervalFloor]
  /\ left = [a \in Attempts |-> 0] /\ failures = [a \in Attempts |-> 0]
  /\ outcome = [a \in Attempts |-> None]
  /\ grant = [a \in Attempts |-> "pending"]

-----------------------------------------------------------------------------
(* AuthAttemptRegistry.  Each operation holds the lock throughout.         *)

\* start: every attempt that is not completed is superseded.
Start(a) ==
  /\ a \notin known /\ \A b \in Attempts : b < a => b \in known
  /\ superseded' = superseded \cup (known \ completed)
  /\ known' = known \cup {a} /\ active' = a
  /\ pc' = [pc EXCEPT ![a] = "requesting"]
  /\ UNCHANGED <<completed, cancelled, interval, left, failures, outcome, grant>>

\* complete, by the caller of poll_for_token once it has returned or raised.
Complete(a) ==
  /\ a \in known \ completed /\ pc[a] \in Ended
  /\ completed' = completed \cup {a}
  /\ UNCHANGED <<known, superseded, active, cancelled, poller, grant>>

\* cancel, of a login that goes on.
Cancel(a) ==
  /\ a \in known /\ pc[a] \notin Ended
  /\ superseded' = superseded \cup {a} /\ completed' = completed \cup {a}
  /\ UNCHANGED <<known, active, cancelled, poller, grant>>

\* cancel_all, which sign_out calls before it removes the credentials.
CancelAll ==
  /\ superseded' = superseded \cup (known \ completed)
  /\ completed' = known
  /\ active' = None
  /\ UNCHANGED <<known, cancelled, poller, grant>>

\* CancelToken.cancel; once the poller has ended nobody reads it.
SetCancelToken(a) ==
  /\ a \in WithCancelToken \cap known /\ pc[a] \notin Ended
  /\ cancelled' = cancelled \cup {a}
  /\ UNCHANGED <<registry, poller, grant>>

-----------------------------------------------------------------------------
(* The person at the browser, and the authorization server, as long as it  *)
(* matters to the poller.                                                  *)

Decide(a) ==
  /\ pc[a] \in Polling /\ grant[a] = "pending"
  /\ \E verdict \in {"approved", "denied"} : grant' = [grant EXCEPT ![a] = verdict]
  /\ UNCHANGED <<registry, cancelled, poller>>

Lapse(a) ==
  /\ pc[a] \in Polling /\ grant[a] \in {"pending", "approved"}
  /\ grant' = [grant EXCEPT ![a] = "expired"]
  /\ UNCHANGED <<registry, cancelled, poller>>

\* What a poll may bring back, by what became of the device code: the status
\* that _poll_once makes of the reply, and the code after it.  A token that is
\* lost on the way, or cannot be parsed, is spent all the same.
Replies(g) ==
  {r \in [status : Statuses, grant : Grants] :
     \/ r.status = "NETWORK_ERROR" /\ r.grant = g
     \/ g = "pending" /\ r.status \in {"PENDING", "SLOW_DOWN"} /\ r.grant = g
     \/ g = "approved" /\ r.status \in {"APPROVED", "NETWORK_ERROR"} /\ r.grant = "spent"
     \/ g = "denied" /\ r.status = "DENIED" /\ r.grant = g
     \/ g = "expired" /\ r.status = "EXPIRED" /\ r.grant = g}

-----------------------------------------------------------------------------
(* DeviceAuthorizationFlow.                                                *)

\* Mutant: the floors of interval and expires_in are dropped.
RequestDeviceAuthorizationUnfloored(a) ==
  /\ pc[a] = "requesting"
  /\ \/ \E i \in Intervals, e \in Expiries :
          /\ interval' = [interval EXCEPT ![a] = i]
          /\ left' = [left EXCEPT ![a] = e]
          /\ pc' = [pc EXCEPT ![a] = "top"]
     \/ pc' = [pc EXCEPT ![a] = "failed"] /\ UNCHANGED <<interval, left>>
  /\ UNCHANGED <<registry, cancelled, failures, outcome, grant>>

\* request_device_authorization, and the first lines of poll_for_token.
RequestDeviceAuthorization(a) ==
  /\ pc[a] = "requesting"
  /\ \/ \E i \in Intervals, e \in Expiries :
          /\ interval' = [interval EXCEPT ![a] = Most(IntervalFloor, i)]
          /\ left' = [left EXCEPT ![a] = Most(ExpiryFloor, e)]
          /\ pc' = [pc EXCEPT ![a] = "top"]
     \/ pc' = [pc EXCEPT ![a] = "failed"] /\ UNCHANGED <<interval, left>>
  /\ UNCHANGED <<registry, cancelled, failures, outcome, grant>>

\* The poller of a goes on at place.
Goes(a, place) == pc' = [pc EXCEPT ![a] = place] /\ UNCHANGED <<registry, cancelled>>

\* It returns or raises: its local variables are gone, and with them the cancel
\* token and what the device code was worth.
Ends(a, how) ==
  /\ pc' = [pc EXCEPT ![a] = how] /\ cancelled' = cancelled \ {a}
  /\ interval' = [interval EXCEPT ![a] = IntervalFloor]
  /\ left' = [left EXCEPT ![a] = 0] /\ failures' = [failures EXCEPT ![a] = 0]
  /\ outcome' = [outcome EXCEPT ![a] = None]
  /\ grant' = [grant EXCEPT ![a] = "pending"]
  /\ UNCHANGED registry

\* The head of the loop: the cancel token is read first, ...
CheckCancelToken(a) ==
  /\ pc[a] = "top"
  /\ IF a \in cancelled
       THEN Ends(a, "cancelled")
       ELSE Goes(a, "checked") /\ UNCHANGED <<interval, left, failures, outcome, grant>>

\* ... then the registry.
CheckSuperseded(a) ==
  /\ pc[a] = "checked"
  /\ IF a \in superseded
       THEN Ends(a, "cancelled")
       ELSE Goes(a, "polling") /\ UNCHANGED <<interval, left, failures, outcome, grant>>

\* Mutant: an error code that is not known counts as a refusal by the user.
PollOnceDenies(a) ==
  /\ pc[a] = "polling"
  /\ \E r \in Replies(grant[a]), d \in 0..RequestTimeout :
       /\ outcome' = [outcome EXCEPT ![a] =
                        IF r.status = "NETWORK_ERROR" THEN "DENIED" ELSE r.status]
       /\ grant' = [grant EXCEPT ![a] = r.grant]
       /\ left' = [left EXCEPT ![a] = @ - d]
  /\ Goes(a, "outcome")
  /\ UNCHANGED <<interval, failures>>

\* _poll_once.
PollOnce(a) ==
  /\ pc[a] = "polling"
  /\ \E r \in Replies(grant[a]), d \in 0..RequestTimeout :
       /\ outcome' = [outcome EXCEPT ![a] = r.status]
       /\ grant' = [grant EXCEPT ![a] = r.grant]
       /\ left' = [left EXCEPT ![a] = @ - d]
  /\ Goes(a, "outcome")
  /\ UNCHANGED <<interval, failures>>

\* Mutant: supersession is not looked at again after the poll.
ApprovedUnchecked(a) ==
  /\ pc[a] = "outcome" /\ outcome[a] = "APPROVED"
  /\ Ends(a, "token")

\* APPROVED: the registry is read once more, the cancel token is not.
Approved(a) ==
  /\ pc[a] = "outcome" /\ outcome[a] = "APPROVED"
  /\ Ends(a, IF a \in superseded THEN "cancelled" ELSE "token")

Refused(a) ==
  /\ pc[a] = "outcome" /\ outcome[a] \in {"DENIED", "EXPIRED"}
  /\ Ends(a, IF outcome[a] = "DENIED" THEN "denied" ELSE "expired")

\* The foot of the loop, with interval i and f failures in a row: past the
\* deadline it ends, and it never sleeps longer than to the deadline.
Wait(a, i, f) ==
  IF left[a] <= 0
    THEN Ends(a, "expired")
    ELSE /\ interval' = [interval EXCEPT ![a] = i]
         /\ failures' = [failures EXCEPT ![a] = f]
         /\ left' = [left EXCEPT ![a] = @ - Least(i, @)]
         /\ outcome' = [outcome EXCEPT ![a] = None]
         /\ Goes(a, "top") /\ UNCHANGED grant

\* PENDING and SLOW_DOWN: the server answers, so the failures are forgotten.
Pending(a) ==
  /\ pc[a] = "outcome" /\ outcome[a] = "PENDING"
  /\ Wait(a, interval[a], 0)

SlowDown(a) ==
  /\ pc[a] = "outcome" /\ outcome[a] = "SLOW_DOWN"
  /\ Wait(a, Least(interval[a] + Increment, IntervalCap), 0)

\* Mutant: a poller gives up one failure early.
NetworkErrorEarly(a) ==
  /\ pc[a] = "outcome" /\ outcome[a] = "NETWORK_ERROR"
  /\ IF failures[a] + 2 >= MaxFailures
       THEN Ends(a, "network")
       ELSE Wait(a, interval[a], failures[a] + 1)

NetworkError(a) ==
  /\ pc[a] = "outcome" /\ outcome[a] = "NETWORK_ERROR"
  /\ IF failures[a] + 1 >= MaxFailures
       THEN Ends(a, "network")
       ELSE Wait(a, interval[a], failures[a] + 1)

-----------------------------------------------------------------------------
Poller(a) ==
  \/ RequestDeviceAuthorization(a) \/ CheckCancelToken(a) \/ CheckSuperseded(a)
  \/ PollOnce(a) \/ Approved(a) \/ Refused(a) \/ Pending(a) \/ SlowDown(a) \/ NetworkError(a)

Next ==
  \/ CancelAll
  \/ \E a \in Attempts :
       \/ Start(a) \/ Complete(a) \/ Cancel(a) \/ SetCancelToken(a)
       \/ Decide(a) \/ Lapse(a)
       \/ Poller(a)

Spec == Init /\ [][Next]_vars

\* Each poller has a thread of its own, and every request has a timeout.
FairSpec == Spec /\ \A a \in Attempts : WF_vars(Poller(a))

-----------------------------------------------------------------------------
(* Properties.                                                             *)

\* The type invariant of the registry, the pollers and the server.
TypeOK ==
  /\ known \subseteq Attempts /\ superseded \subseteq known /\ completed \subseteq known
  /\ active \in Attempts \cup {None} /\ cancelled \subseteq known
  /\ pc \in [Attempts -> {"none", "requesting"} \cup Polling \cup Ended]
  /\ interval \in [Attempts -> Nat \ {0}] /\ left \in [Attempts -> Int]
  /\ failures \in [Attempts -> 0..MaxFailures]
  /\ outcome \in [Attempts -> Statuses \cup {None}]
  /\ grant \in [Attempts -> Grants]

\* An attempt that nothing has ended or superseded is the active one, so that
\* there is at most one (AuthAttemptRegistry.start, cancel_all).
PendingIsActive ==
  \A a \in known \ (superseded \cup completed) : active = a

\* Whatever happens while the approval is on its way, only the active attempt
\* gets a token: not one that a newer login, sign_out or the user has ended
\* ("only the active attempt may proceed", poll_for_token).
OnlyActiveGetsToken ==
  [][\A a \in Attempts : pc'[a] = "token" /\ pc[a] # "token" => active = a /\ a \notin completed]_vars

\* No poll is sent after the deadline ("never sleep past the deadline"), and a
\* poller is late by no more than the request that it then waited for.
PollsKeepDeadline ==
  \A a \in known :
    /\ pc[a] \in {"top", "checked", "polling"} => left[a] >= 0
    /\ pc[a] \in Polling => left[a] >= -RequestTimeout

\* What a login is told is what happened: a token was issued to it, the user
\* denied it, the code or the time ran out, or MaxFailures polls in a row
\* failed.  So a token lost on its way is never reported as a denial
\* (_poll_once, poll_for_token).
Truth(a, end) ==
  /\ end = "token" => grant[a] = "spent"
  /\ end = "denied" => grant[a] = "denied"
  /\ end = "expired" => grant[a] = "expired" \/ left[a] <= 0
  /\ end = "cancelled" => a \in superseded \cup cancelled
  /\ end = "network" => failures[a] + 1 = MaxFailures

EndsAreTrue ==
  [][\A a \in Attempts : pc'[a] # pc[a] => Truth(a, pc'[a])]_vars

\* Every login ends, whatever the server says about the interval and however
\* long it is slow or out of reach (poll_for_token).
LoginsEnd == \A a \in Attempts : pc[a] = "requesting" ~> pc[a] \in Ended
=============================================================================
