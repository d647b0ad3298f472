------------------------------- MODULE Account -------------------------------
(***************************************************************************)
(* The account of one person: keyhole register, verify, registration-      *)
(* status, the library's resend_verification, whoami and deregister, with  *)
(* answers that get lost and commands that run at once.                    *)
(*                                                                         *)
(* The server knows an account by its registration id, in one realm;       *)
(* verification codes are numbered.  Of the eleven files of the onboarding *)
(* proof bundle, written one after the other in one fixed directory, three *)
(* are kept: the core, the result of the verification and the digest of    *)
(* the core.                                                               *)
(***************************************************************************)
EXTENDS Naturals, Sequences

CONSTANTS
  AccountProcs,    \* processes that run a command
  AccountScenes,   \* the commands they may run together
  Realms,          \* the realms
  MaxAccounts,     \* bound on registrations
  MaxCodes,        \* bound on the verification codes sent for one of them
  NoDocument       \* a file of the bundle that was not written

AccountIds == 1..MaxAccounts

AccountCommands ==
  [op : {"register"}, realm : Realms, classified : BOOLEAN]
    \cup [op : {"verify"}, id : AccountIds, code : 0..MaxCodes]
    \cup [op : {"status", "resend", "whoami"}, id : AccountIds]
    \cup [op : {"deregister"}, id : AccountIds, realm : Realms, yes : BOOLEAN]

ASSUME AccountAssumption ==
  /\ MaxAccounts \in Nat /\ MaxCodes \in Nat
  /\ \A scene \in AccountScenes : scene \in [AccountProcs -> AccountCommands]

VARIABLES
  onboard,     \* per process: its command, where it is and what it holds
  accounts,    \* the server: per registration id, [realm, state, code]
  session,     \* the credential file: [is: "none", "live", "expired", of: the id]
  bundle,      \* per file of the onboarding proof: what it says
  activated    \* history: the ids that have been active

accountVars == <<onboard, accounts, session, bundle, activated>>

States == {"pending_verification", "active", "blocked", "removing", "removed"}

\* The states that verify takes for an activated identity.
ActiveStates == {"active", "verified", "activation_ready", "verified_active"}

Parts == <<"core.json", "verification_result.json", "digest.txt">>

Known(id) == id \in DOMAIN accounts

Present(id) == Known(id) /\ accounts[id].state # "removed"

-----------------------------------------------------------------------------
(***************************************************************************)
(* What the client makes of an answer: its status and what it says, where  *)
(* only a few words count.                                                 *)
(***************************************************************************)

\* Mutant: whatever mentions a verification counts as already verified.
CheckErrorLoose(answer) ==
  CASE answer.status = 409                                   -> "duplicate"
    [] answer.status = 422                                   -> "rejected"
    [] answer.status = 410                                   -> "expired"
    [] answer.status >= 400 /\ answer.says \in {"already", "verification"} -> "already"
    [] answer.status >= 400                                  -> "failed"
    [] OTHER                                                 -> "ok"

CheckError(answer) ==
  CASE answer.status = 409                                   -> "duplicate"
    [] answer.status = 422                                   -> "rejected"
    [] answer.status = 410                                   -> "expired"
    [] answer.status >= 400 /\ answer.says = "already"       -> "already"
    [] answer.status >= 400 /\ answer.says = "verification"  -> "verification_failed"
    [] answer.status >= 400                                  -> "failed"
    [] OTHER                                                 -> "ok"

\* Mutant: a refusal is not told from an acceptance.
ClassifyRemovalLoose(answer) ==
  CASE answer.says = "identity_not_found"  -> "already_deleted"
    [] answer.status >= 500                -> "failed"
    [] OTHER                               -> "accepted"

ClassifyRemoval(answer) ==
  CASE answer.says = "identity_not_found"  -> "already_deleted"
    [] answer.says = "removed"             -> "accepted"
    [] answer.status \in 400..499          -> "rejected"
    [] answer.status >= 500                -> "failed"
    [] OTHER                               -> "accepted"

-----------------------------------------------------------------------------
AccountInit ==
  /\ \E scene \in AccountScenes : onboard = [p \in AccountProcs |-> [cmd |-> scene[p], pc |-> "start"]]
  /\ accounts \in {<<>>} \cup {<<a>> : a \in [realm : Realms, code : {1},
                                             state : {"pending_verification", "active"}]}
  /\ session \in {[is |-> "none"]} \cup [is : {"live", "expired"}, of : {1}]
  /\ session.is # "none" => Known(1) /\ accounts[1].state = "active"
  /\ bundle = [f \in {Parts[i] : i \in 1..3} |-> NoDocument]
  /\ activated = {id \in DOMAIN accounts : accounts[id].state = "active"}

Is(p, op, pc) == onboard[p].cmd.op = op /\ onboard[p].pc = pc

\* The process p goes on with r, and with what else it held.
Moves(p, r) ==
  onboard' = [onboard EXCEPT ![p] =
    [x \in DOMAIN r \cup DOMAIN @ |-> IF x \in DOMAIN r THEN r[x] ELSE @[x]]]

Finishes(p, result) == Moves(p, [pc |-> "done", result |-> result])

\* A command with a bundle first writes it, file by file; an error while
\* writing is swallowed.
Concludes(p, result, verification) ==
  Moves(p, [pc |-> "bundle", next |-> 1, result |-> result, verification |-> verification])

\* generate: the core says whether the identity is active, and the digest is of
\* the core.
Document(p, part) ==
  LET v == onboard[p].verification
      success == v # NoDocument /\ v.state \in ActiveStates
  IN CASE part = "core.json" -> [by |-> p, success |-> success,
                                 of |-> IF v = NoDocument THEN 0 ELSE v.of,
                                 told |-> v # NoDocument /\ v.told]
       [] part = "verification_result.json" -> [by |-> p, activated |->
            v # NoDocument /\ v.state \in ActiveStates \ {"verified_active"}]
       [] OTHER -> [by |-> p]

WriteBundle(p) ==
  /\ onboard[p].pc = "bundle"
  /\ \/ /\ onboard[p].next <= 3
        /\ bundle' = [bundle EXCEPT ![Parts[onboard[p].next]] = Document(p, Parts[onboard[p].next])]
        /\ Moves(p, [next |-> onboard[p].next + 1])
     \/ UNCHANGED bundle /\ Moves(p, [pc |-> "done"])
  /\ UNCHANGED <<accounts, session, activated>>

\* The process is killed.
Killed(p) ==
  /\ onboard[p].pc \notin {"start", "done"}
  /\ Finishes(p, [outcome |-> "killed"])
  /\ UNCHANGED <<accounts, session, bundle, activated>>

ServerStays == UNCHANGED <<accounts, activated>>

Lost(p) == Concludes(p, [outcome |-> "network"], NoDocument)

(***************************************************************************)
(* keyhole register.                                                       *)
(***************************************************************************)
Refused(p, outcome) == Concludes(p, [outcome |-> outcome], NoDocument)

Denied(p, status) == Refused(p, CheckError([status |-> status, says |-> "other"]))

Create(realm) ==
  /\ Len(accounts) < MaxAccounts
  /\ accounts' = Append(accounts, [realm |-> realm, state |-> "pending_verification", code |-> 1])
  /\ UNCHANGED activated

\* The development realm asks for an origin and a purpose; an identity that is
\* there is a duplicate; the answer may be lost.
Register(p) ==
  LET realm == onboard[p].cmd.realm
      there == \E id \in DOMAIN accounts : Present(id) /\ accounts[id].realm = realm
  IN
  /\ Is(p, "register", "start")
  /\ IF realm = "kh-dev" /\ ~onboard[p].cmd.classified
     THEN Refused(p, "missing_classification") /\ ServerStays
     ELSE \/ ~there /\ Create(realm) /\ Lost(p)
          \/ ~there /\ Create(realm)
             /\ Concludes(p, [outcome |-> "ok", id |-> Len(accounts) + 1], NoDocument)
          \/ ServerStays /\ IF there THEN Denied(p, 409) ELSE Denied(p, 422) \/ Denied(p, 500)
          \/ Lost(p) /\ ServerStays
  /\ UNCHANGED <<session, bundle>>

(***************************************************************************)
(* keyhole verify.                                                         *)
(***************************************************************************)
Set(id, state) == accounts' = [accounts EXCEPT ![id].state = state]

Activate(id) == Set(id, "active") /\ activated' = activated \cup {id}

\* An answer with the ids and the state of the identity, or without.
Stating(status, says) == [status |-> status, says |-> says, ids |-> TRUE]
Plain(status, says) == [status |-> status, says |-> says, ids |-> FALSE]

\* What the server may say to a code for an id that it does not activate: also
\* 200 with ok false.
VerifyAnswers(id, code) ==
  {Plain(500, "other"), Plain(429, "other"), Plain(200, "other")} \cup
  IF ~Present(id) \/ accounts[id].state = "removing" THEN {Plain(404, "other")}
  ELSE
  CASE accounts[id].state = "active"  -> {Plain(400, "already"), Stating(400, "already"),
                                          Stating(200, "active")}
    [] accounts[id].state = "blocked" -> {Stating(200, "blocked"), Plain(400, "other")}
    [] code < accounts[id].code       -> {Plain(400, "verification"), Plain(410, "verification")}
    [] OTHER                          -> {Plain(400, "verification")}

\* Every state that is answered is success.  told: history, is it the server's?
Completes(p, id, state, told) ==
  Concludes(p, [outcome |-> "ok", of |-> id, state |-> state, told |-> told],
            [of |-> id, state |-> state, told |-> told])

\* Without ids, whatever the status, the client takes the identity for verified
\* already and asks for its state.  told: history, did the server say so?
AsksStatus(p, told) == Moves(p, [pc |-> "status", told |-> told])

Verify(p) ==
  LET id == onboard[p].cmd.id
      code == onboard[p].cmd.code
  IN
  /\ Is(p, "verify", "start")
  /\ \/ code = 0 /\ Finishes(p, [outcome |-> "missing_verification_artifact"]) /\ ServerStays
     \/ /\ code # 0 /\ Known(id) /\ accounts[id].state = "pending_verification"
        /\ code = accounts[id].code /\ Activate(id)
        /\ \/ Lost(p) \/ AsksStatus(p, TRUE)
           \/ \E s \in ActiveStates : Completes(p, id, s, TRUE)
     \/ code # 0 /\ Lost(p) /\ ServerStays
     \/ /\ code # 0 /\ ServerStays
        /\ \E answer \in VerifyAnswers(id, code) :
             IF CheckError(answer) \notin {"ok", "already"} THEN Refused(p, CheckError(answer))
             ELSE IF ~answer.ids THEN AsksStatus(p, answer.status >= 400)
             ELSE Completes(p, id, IF answer.says = "already" THEN "active" ELSE answer.says, TRUE)
  /\ UNCHANGED <<session, bundle>>

\* get_status has the last word, and without an answer the client takes the
\* identity for active.
FillFromStatus(p) ==
  LET id == onboard[p].cmd.id IN
  /\ Is(p, "verify", "status")
  /\ \/ Present(id) /\ accounts[id].state # "removing" /\ Completes(p, id, accounts[id].state, TRUE)
     \/ Completes(p, id, "verified_active", onboard[p].told)
  /\ ServerStays /\ UNCHANGED <<session, bundle>>

(***************************************************************************)
(* keyhole registration-status, resend_verification, keyhole whoami.       *)
(***************************************************************************)
GetStatus(p) ==
  LET id == onboard[p].cmd.id IN
  /\ Is(p, "status", "start")
  /\ \/ Finishes(p, [outcome |-> "network"])
     \/ Finishes(p, IF Present(id) THEN [outcome |-> "ok", state |-> accounts[id].state]
                    ELSE [outcome |-> CheckError([status |-> 404, says |-> "other"])])
  /\ ServerStays /\ UNCHANGED <<session, bundle>>

ResendVerification(p) ==
  LET id == onboard[p].cmd.id
      Sends == accounts' = [accounts EXCEPT ![id].code = @ + 1]
  IN
  /\ Is(p, "resend", "start")
  /\ \/ /\ Known(id) /\ accounts[id].state = "pending_verification" /\ accounts[id].code < MaxCodes
        /\ Sends /\ \E o \in {"ok", "network"} : Finishes(p, [outcome |-> o])
     \/ UNCHANGED accounts /\ \E o \in {"failed", "network"} : Finishes(p, [outcome |-> o])
  /\ UNCHANGED <<session, bundle, activated>>

\* An expired session is refreshed first.
Whoami(p) ==
  /\ Is(p, "whoami", "start")
  /\ \/ session.is # "live" /\ Finishes(p, [outcome |-> "not_authenticated"]) /\ UNCHANGED session
     \/ /\ session.is # "none" /\ Present(session.of)
        /\ Finishes(p, [outcome |-> "ok", of |-> session.of])
        /\ session' = [session EXCEPT !.is = "live"]
     \/ session.is = "live" /\ Finishes(p, [outcome |-> "failed"]) /\ UNCHANGED session
  /\ ServerStays /\ UNCHANGED bundle

(***************************************************************************)
(* keyhole deregister: the session, who it is of (which does not matter),  *)
(* the confirmation, and the request.  Its proofs have a directory each.   *)
(***************************************************************************)
LoadForRemoval(p) ==
  /\ Is(p, "deregister", "start")
  /\ CASE session.is # "live"      -> Finishes(p, [outcome |-> "not_authenticated"])
       [] ~onboard[p].cmd.yes      -> Finishes(p, [outcome |-> "confirmation_required"])
       [] OTHER                    -> Moves(p, [pc |-> "send", acting |-> session.of])
  /\ ServerStays /\ UNCHANGED <<session, bundle>>

\* The server removes what the acting user owns, at once or later; it may also
\* refuse with ok false at 200, and every 2xx is an acceptance to the client.
Remove(p) ==
  LET id == onboard[p].cmd.id
      there == Present(id) /\ accounts[id].realm = onboard[p].cmd.realm
      Classified(status, says, refusal) ==   \* known, refusal: history
        Finishes(p, [outcome |-> ClassifyRemoval([status |-> status, says |-> says]),
                     known |-> Known(id), refusal |-> refusal])
      Answered(status, says) == Classified(status, says, FALSE)
      Unreachable == Finishes(p, [outcome |-> "network"])
  IN
  /\ Is(p, "deregister", "send")
  /\ \/ ~there /\ (Answered(404, "identity_not_found") \/ Unreachable) /\ ServerStays
     \/ /\ there /\ (onboard[p].acting # id \/ accounts[id].state = "blocked")
        /\ (Answered(403, "other") \/ Unreachable) /\ ServerStays
     \/ /\ there /\ onboard[p].acting = id /\ UNCHANGED activated
        /\ \/ Set(id, "removed") /\ (Answered(200, "removed") \/ Answered(500, "other") \/ Unreachable)
           \/ Set(id, "removing") /\ (Answered(202, "other") \/ Unreachable)
     \/ there /\ (Answered(500, "other") \/ Answered(401, "other") \/ Unreachable) /\ ServerStays
     \/ Classified(200, "other", TRUE) /\ ServerStays
  /\ UNCHANGED <<session, bundle>>

(***************************************************************************)
(* The server by itself, and the person who logs in.                       *)
(***************************************************************************)
Block(id) ==
  /\ accounts[id].state \in {"pending_verification", "active"} /\ Set(id, "blocked")
  /\ UNCHANGED <<onboard, session, bundle, activated>>

CompleteRemoval(id) ==
  /\ accounts[id].state = "removing" /\ Set(id, "removed")
  /\ UNCHANGED <<onboard, session, bundle, activated>>

LogIn(id) ==
  /\ accounts[id].state = "active" /\ session' = [is |-> "live", of |-> id] /\ session' # session
  /\ UNCHANGED <<onboard, accounts, bundle, activated>>

Expire ==
  /\ session.is = "live" /\ session' = [session EXCEPT !.is = "expired"]
  /\ UNCHANGED <<onboard, accounts, bundle, activated>>

AccountNext ==
  \/ \E p \in AccountProcs :
       \/ Register(p) \/ Verify(p) \/ FillFromStatus(p) \/ GetStatus(p) \/ ResendVerification(p)
       \/ Whoami(p) \/ LoadForRemoval(p) \/ Remove(p) \/ WriteBundle(p) \/ Killed(p)
  \/ \E id \in DOMAIN accounts : Block(id) \/ CompleteRemoval(id) \/ LogIn(id)
  \/ Expire

AccountSpec == AccountInit /\ [][AccountNext]_accountVars

-----------------------------------------------------------------------------
(***************************************************************************)
(* Properties.  Both take the server at its word where it refuses with an  *)
(* error status.                                                           *)
(***************************************************************************)
Done(p, op) == onboard[p].cmd.op = op /\ onboard[p].pc = "done" /\ onboard[p].result.outcome # "killed"

\* keyhole verify reports an active state, and onboarding/proof.py a successful
\* core, only of an identity that the server has activated: also when the answer
\* to an earlier verification was lost, when the state was asked for afterwards,
\* and when two commands wrote the bundle at once.  Excepted is what nobody told
\* the client: a 200 without ids, after which the status cannot be had.
VerifiedWasActive ==
  /\ \A p \in AccountProcs :
       Done(p, "verify") /\ onboard[p].result.outcome = "ok" =>
         LET r == onboard[p].result
         IN  r.state \in ActiveStates /\ r.told => r.of \in activated
  /\ LET core == bundle["core.json"]
     IN core # NoDocument => (core.success /\ core.told => core.of \in activated)

\* _classify_outcome: what keyhole deregister reports as deleted is gone or about
\* to go, when it is of the realm that was asked and the server did not refuse at
\* 200, which counts as deleted whatever it says.  Of an id that the server did
\* not know, not found counts as deleted too, whatever is registered later.
DeletionIsTrue ==
  \A p \in AccountProcs :
    Done(p, "deregister") /\ onboard[p].result.outcome \in {"accepted", "already_deleted"} =>
      LET id == onboard[p].cmd.id
      IN onboard[p].result.known /\ ~onboard[p].result.refusal =>
           Known(id) /\ (\/ accounts[id].state \in {"removing", "removed"}
                         \/ accounts[id].realm # onboard[p].cmd.realm)
=============================================================================
