------------------------------- MODULE Login -------------------------------
(* The commands login, logout and host attest of the CLI as processes over one
   keyhole home (CLI/commands/login.py, logout.py, host_attest.py,
   SDK/auth_bootstrap/client.py, pkce.py, SDK/host).

   The credential file is one value here: how it is written is the subject of
   CredentialFile. What is asked here is who is logged in, what the guard of
   host coherence saw of it, and who is told so. *)

CONSTANTS
  None,        \* no file, no process, nobody
  Terminals,       \* command invocations, each runs once
  Principals,
  Complete,    \* principals whose identity the server returns whole
  Flows,       \* of "device", "passwordless" and "pkce", those of the instance
  Logins,      \* options of the login commands: [explicit, force, split]
  FindsPids    \* whether lsof or ss tells who listens on the callback port

ASSUME LoginAssumption ==
  /\ None \notin Principals /\ None \notin Terminals /\ None \notin Flows
  /\ None \notin Logins
  /\ None \notin [owner : Principals, flow : Flows, live : BOOLEAN]
  /\ Complete \subseteq Principals
  /\ "device" \in Flows
  /\ Logins \subseteq [explicit : BOOLEAN, force : BOOLEAN, split : BOOLEAN]
  /\ FindsPids \in BOOLEAN

VARIABLES
  creds,   \* credentials.json: owner, flow, and whether the token is still live
  ident,   \* user_id in proof_bundle/identity_context.json
  att,     \* attestation of the host: owner, and whether it is still fresh
  policy,  \* whether there is an identity policy override
  port,    \* the process that listens on the callback port
  at,      \* the commands: program counter or how it ended,
  opts,    \*   its options,
  flow,    \*   its flow,
  email,   \*   the email it was given or recovered,
  held,    \*   the session it holds,
  seen,    \*   history: who listened on the callback port when it began
  author,  \* history: the command that wrote or removed credentials.json last
  unaware  \* history: that command, if its guard did not see the attestation there is

home == <<creds, ident, att, policy>>
own == <<opts, flow, email, held, seen>>
past == <<author, unaware>>
vars == <<home, port, at, own, past>>

Places == {"idle", "reuse", "flow", "probe", "bind", "waiting", "shutdown",
           "whoami", "save", "check", "proof", "attest", "refresh"}
Ends == {"success", "failed", "blocked", "crashed", "killed"}
Running == Places \ {"idle"}

Sessions == [owner : Principals, flow : Flows, live : BOOLEAN]
Attestations == [owner : Principals, fresh : BOOLEAN]

\* The files of the keyhole home and the state of the commands keep their types.
TypeOK ==
  /\ creds \in Sessions \cup {None}
  /\ ident \in Principals \cup {None}
  /\ att \in Attestations \cup {None}
  /\ policy \in BOOLEAN
  /\ port \in Terminals \cup {None}
  /\ at \in [Terminals -> Places \cup Ends]
  /\ opts \in [Terminals -> Logins \cup {None}]
  /\ flow \in [Terminals -> Flows \cup {None}]
  /\ email \in [Terminals -> Principals \cup {None}]
  /\ held \in [Terminals -> Sessions \cup {None}]
  /\ seen \in [Terminals -> Terminals \cup {None}]
  /\ author \in Terminals \cup {None} /\ unaware \subseteq Terminals

Init ==
  /\ creds = None /\ ident = None /\ att = None /\ policy = FALSE /\ port = None
  /\ at = [p \in Terminals |-> "idle"]
  /\ opts = [p \in Terminals |-> None]
  /\ flow = [p \in Terminals |-> None]
  /\ email = [p \in Terminals |-> None]
  /\ held = [p \in Terminals |-> None]
  /\ seen = [p \in Terminals |-> None]
  /\ author = None /\ unaware = {}

\* Command p goes from one place on to another.
Goes(p, from, to) == at[p] = from /\ at' = [at EXCEPT ![p] = to]

\* What commands ps held in memory is gone.
Forget(ps) ==
  /\ opts' = [p \in Terminals |-> IF p \in ps THEN None ELSE opts[p]]
  /\ flow' = [p \in Terminals |-> IF p \in ps THEN None ELSE flow[p]]
  /\ email' = [p \in Terminals |-> IF p \in ps THEN None ELSE email[p]]
  /\ held' = [p \in Terminals |-> IF p \in ps THEN None ELSE held[p]]
  /\ seen' = [p \in Terminals |-> IF p \in ps THEN None ELSE seen[p]]

\* Command p ends with nothing done from here on.
Dies(p, from, to) == Goes(p, from, to) /\ Forget({p})

-----------------------------------------------------------------------------
\* keyhole login

\* The flow of a login that named none: passwordless once more when the stored
\* session was passwordless and an email is on record.
RecoversEmail == creds # None /\ creds.flow = "passwordless" /\ ident # None
DetectedFlow == IF RecoversEmail THEN "passwordless" ELSE "device"

\* The email of a passwordless login is given with --email, or recovered.
Emails(o, f) ==
  IF f # "passwordless" THEN {None} ELSE IF o.explicit THEN Principals ELSE {ident}

\* run_login up to client.login: a stored session that has not expired is tried
\* before anything else.
StartLogin(p, o, f) ==
  /\ LET reuses == ~o.force /\ creds # None /\ creds.live
     IN  /\ Goes(p, "idle", IF reuses THEN "reuse" ELSE "flow")
         /\ held' = [held EXCEPT ![p] = IF reuses THEN creds ELSE None]
  /\ o.explicit \/ f = DetectedFlow
  /\ email' \in {[email EXCEPT ![p] = u] : u \in Emails(o, f)}
  /\ opts' = [opts EXCEPT ![p] = o]
  /\ flow' = [flow EXCEPT ![p] = f]
  /\ UNCHANGED <<home, port, seen, past>>

\* whoami confirms the stored session, and it is saved again as it was read.
Reuse(p) ==
  /\ Goes(p, "reuse", "check")
  /\ held[p].owner \in Complete
  /\ creds' = held[p]
  /\ author' = p /\ unaware' = {}
  /\ UNCHANGED <<ident, att, policy, port, own>>

\* whoami fails, is incomplete, or saving does: a fresh login after all.
ReuseFails(p) == Goes(p, "reuse", "flow") /\ UNCHANGED <<home, port, own, past>>

\* A device or passwordless login that the person completes: the token is theirs.
Obtain(p, u) ==
  /\ Goes(p, "flow", "whoami")
  /\ flow[p] # "pkce"
  /\ flow[p] = "passwordless" => u = email[p]
  /\ held' = [held EXCEPT ![p] = [owner |-> u, flow |-> flow[p], live |-> TRUE]]
  /\ UNCHANGED <<home, port, opts, flow, email, seen, past>>

\* Denied, expired, unreachable: nothing is stored.
FlowFails(p) ==
  /\ Dies(p, "flow", "failed")
  /\ flow[p] # "pkce"
  /\ UNCHANGED <<home, port, past>>

\* The governed identity is mandatory and must be complete.
Confirm(p) ==
  /\ Goes(p, "whoami", "save")
  /\ held[p].owner \in Complete
  /\ UNCHANGED <<home, port, own, past>>

Unconfirmed(p) == Dies(p, "whoami", "failed") /\ UNCHANGED <<home, port, past>>

Save(p) ==
  /\ Goes(p, "save", "check")
  /\ creds' = held[p]
  /\ author' = p /\ unaware' = {}
  /\ UNCHANGED <<ident, att, policy, port, own>>

SaveFails(p) == Dies(p, "save", "failed") /\ UNCHANGED <<home, port, past>>

-----------------------------------------------------------------------------
\* The PKCE flow and its callback port

\* The browser is open; whoever listens on the port is to be killed.
OpenBrowser(p) ==
  /\ Goes(p, "flow", "probe")
  /\ flow[p] = "pkce"
  /\ seen' = [seen EXCEPT ![p] = port]
  /\ UNCHANGED <<home, port, opts, flow, email, held, past>>

KillStaleListener(p) ==
  /\ port # None /\ FindsPids
  /\ at[p] = "probe"
  /\ at' = [at EXCEPT ![p] = "bind", ![port] = "killed"]
  /\ Forget({port})
  /\ port' = None
  /\ UNCHANGED <<home, past>>

\* The port is free, or nobody can tell whose it is.
KillNobody(p) ==
  /\ port = None \/ ~FindsPids
  /\ Goes(p, "probe", "bind")
  /\ UNCHANGED <<home, port, own, past>>

Listen(p) ==
  /\ port = None
  /\ Goes(p, "bind", "waiting")
  /\ port' = p
  /\ UNCHANGED <<home, own, past>>

\* The address is in use: an OSError that login does not catch.
BindFails(p) ==
  /\ port # None
  /\ Dies(p, "bind", "crashed")
  /\ UNCHANGED <<home, port, past>>

\* The callback has come, of this login or of another one's browser, or the
\* deadline has: server.shutdown waits for a serve_forever that was never
\* called, and nothing behind it is reached.
StopWaiting(p) ==
  /\ Goes(p, "waiting", "shutdown")
  /\ UNCHANGED <<home, port, own, past>>

-----------------------------------------------------------------------------
\* The guard of host coherence and the end of a login

\* Attestations are confirmed: host attest writes no other.
Verdict(u) ==
  IF att = None THEN "warning_no_host_attestation"
  ELSE IF ~att.fresh THEN "warning_stale_host_attestation"
  ELSE IF att.owner = u THEN "accept_match"
  ELSE IF policy THEN "accept_intentional_split"
  ELSE "reject_host_conflict"

Rejected(p) == Verdict(held[p].owner) = "reject_host_conflict"

\* Mutant: what the attestation says is not looked at.
AcceptAnyone(p) ==
  /\ Goes(p, "check", "proof")
  /\ UNCHANGED <<home, port, own, past>>

Accept(p) ==
  /\ Goes(p, "check", "proof")
  /\ ~Rejected(p)
  /\ UNCHANGED <<home, port, own, past>>

\* Attestations or policy cannot be read: the guard lets pass whoever it is.
AcceptUnseen(p) ==
  /\ Goes(p, "check", "proof")
  /\ unaware' = unaware \cup ({p} \cap {author})
  /\ UNCHANGED <<home, port, own, author>>

\* --allow-split-identity; a policy that cannot be saved does not matter.
Split(p) ==
  /\ Goes(p, "check", "proof")
  /\ Rejected(p) /\ opts[p].split
  /\ policy' \in {policy, TRUE}
  /\ UNCHANGED <<creds, ident, att, port, own, past>>

Block(p) ==
  /\ Goes(p, "check", "blocked")
  /\ Rejected(p) /\ ~opts[p].split
  /\ UNCHANGED <<home, port, own, past>>

\* The proof bundle is written if that can be done.
WriteProof(p) ==
  /\ Goes(p, "proof", "success")
  /\ ident' \in {ident, held[p].owner}
  /\ UNCHANGED <<creds, att, policy, port, own, past>>

Login(p) ==
  \/ \E o \in Logins, f \in Flows : StartLogin(p, o, f)
  \/ Reuse(p) \/ ReuseFails(p)
  \/ \E u \in Principals : Obtain(p, u)
  \/ FlowFails(p) \/ Confirm(p) \/ Unconfirmed(p) \/ Save(p) \/ SaveFails(p)
  \/ OpenBrowser(p) \/ KillStaleListener(p) \/ KillNobody(p) \/ Listen(p) \/ BindFails(p)
  \/ StopWaiting(p)
  \/ Accept(p) \/ AcceptUnseen(p) \/ Split(p) \/ Block(p) \/ WriteProof(p)

-----------------------------------------------------------------------------
\* keyhole host attest and keyhole logout

StartAttest(p) ==
  /\ creds # None /\ creds.live
  /\ Goes(p, "idle", "attest")
  /\ held' = [held EXCEPT ![p] = creds]
  /\ UNCHANGED <<home, port, opts, flow, email, seen, past>>

\* whoami on the CLI's own token, and the attestation of whom it names.
Attest(p) ==
  /\ Goes(p, "attest", "success")
  /\ att' = [owner |-> held[p].owner, fresh |-> TRUE]
  /\ unaware' = {q \in {author} \cap Terminals : at[q] \in {"proof", "success"}}
  /\ UNCHANGED <<creds, ident, policy, port, own, author>>

AttestFails(p) == Dies(p, "attest", "failed") /\ UNCHANGED <<home, port, past>>

\* Any command, or the MCP proxy, that finds the token expired and refreshes it.
StartRefresh(p) ==
  /\ creds # None /\ ~creds.live
  /\ Goes(p, "idle", "refresh")
  /\ held' = [held EXCEPT ![p] = creds]
  /\ UNCHANGED <<home, port, opts, flow, email, seen, past>>

\* The file is written as it was read, with the new token.
Refreshed(p) ==
  /\ Goes(p, "refresh", "success")
  /\ creds' = [held[p] EXCEPT !.live = TRUE]
  /\ author' = p /\ unaware' = {}
  /\ UNCHANGED <<ident, att, policy, port, own>>

RefreshFails(p) == Dies(p, "refresh", "failed") /\ UNCHANGED <<home, port, past>>

\* Credentials and proof bundle go; attestation and override stay.
Logout(p) ==
  /\ Goes(p, "idle", "success")
  /\ creds' = None /\ ident' = None
  /\ author' = p /\ unaware' = {}
  /\ UNCHANGED <<att, policy, port, own>>

-----------------------------------------------------------------------------
\* Time, and an interrupt or a crash at any point

Expire ==
  /\ creds # None /\ creds.live
  /\ creds' = [creds EXCEPT !.live = FALSE]
  /\ UNCHANGED <<ident, att, policy, port, at, own, past>>

AttestationExpires ==
  /\ att # None /\ att.fresh
  /\ att' = [att EXCEPT !.fresh = FALSE]
  /\ UNCHANGED <<creds, ident, policy, port, at, own, past>>

Interrupt(p) ==
  /\ at[p] \in Running
  /\ Dies(p, at[p], "killed")
  /\ port' = IF port = p THEN None ELSE port
  /\ UNCHANGED <<home, past>>

Next ==
  \/ \E p \in Terminals :
       \/ Login(p)
       \/ StartAttest(p) \/ Attest(p) \/ AttestFails(p)
       \/ StartRefresh(p) \/ Refreshed(p) \/ RefreshFails(p)
       \/ Logout(p)
       \/ Interrupt(p)
  \/ Expire \/ AttestationExpires

Spec == Init /\ [][Next]_vars

\* A command that was started goes on; nobody has to interrupt it.
Fairness == \A p \in Terminals : WF_vars(at[p] # "idle" /\ Login(p))
FairSpec == Spec /\ Fairness

-----------------------------------------------------------------------------
\* Credentials are never on disk unless the server has confirmed a complete
\* identity for them (client.login, "never persisted before /whoami success").
CredsAreVerified == creds # None => creds.owner \in Complete

\* A login that reports success leaves no conflict that nobody allowed: the host
\* agrees, or the guard did not see its attestation, which came later or could
\* not be read (_check_host_coherence).
SuccessIsCoherent ==
  LET p == author IN
  p # None /\ creds # None =>
    (opts[p] # None /\ at[p] \in {"proof", "success"}
       /\ Verdict(creds.owner) = "reject_host_conflict"
     => opts[p].split \/ p \in unaware)

\* The email a later login recovers is of someone whose login was accepted, not
\* of one that the guard blocked (proof.write, _recover_email_from_state).
IdentWasAccepted ==
  ident # None =>
    \E p \in Terminals : at[p] = "success" /\ opts[p] # None /\ held[p].owner = ident

\* Who listened on the callback port before a login came does not keep it from
\* the port (_kill_stale_listener).
StaleDoesNotBlock ==
  [][\A p \in Terminals : at[p] = "bind" /\ at'[p] = "crashed" => port # seen[p]]_vars

\* Refuted: wait_for_callback returns on success and raises on timeout or error.
LoginsEnd == \A p \in Terminals : at[p] = "waiting" ~> at[p] \in Ends
=============================================================================
