-------------------------- MODULE MCCredentialFile --------------------------
(* CredentialFile, Doctor, Hosts and Account on small instances. They share no
   state, and a behaviour moves one of them: what is on the machine of one
   person who has an account. *)
EXTENDS CredentialFile, Doctor, Hosts, Account, TLC
CONSTANTS h1, h2, h3, o1, o2

VARIABLE part   \* what moves: "credentials", "doctor", "hosts", "account"

MCVars == <<vars, doctorVars, hostsVars, accountVars, part>>

\* Nothing orders the processes of CredentialFile.
Symmetry == Permutations(Processes)

MCMachines ==
  [places : {{"desktop"}, {"desktop", "remote"}, {"idea"}}, storage : {FALSE},
   cloud : {FALSE}, surfaces : BOOLEAN]
  \cup {[places |-> {"desktop"}, storage |-> TRUE, cloud |-> TRUE, surfaces |-> TRUE]}

MCHostScenes ==
  LET Install(h, force) == [op |-> "install", host |-> h, force |-> force]
      RebindTo(profile) == [op |-> "rebind", host |-> "vscode", profile |-> profile]
      On(op, h) == [op |-> op, host |-> h]
      Scene(c, d) == [p \in HostProcs |-> CASE p = h1 -> c
                                            [] p = h2 -> d
                                            [] OTHER  -> [op |-> "reconcile"]]
  IN {Scene(Install("vscode", TRUE), Install("vscode", FALSE)),
      Scene(Install("jetbrains", FALSE), Install("cloud_code", FALSE)),
      Scene(RebindTo("ann"), On("invalidate", "vscode")),
      Scene(RebindTo("bob"), On("inspect", "vscode"))}

MCAccountScenes ==
  LET Scene(c, d) == [p \in AccountProcs |-> IF p = o1 THEN c ELSE d]
      RegisterIn(realm, classified) == [op |-> "register", realm |-> realm, classified |-> classified]
      VerifyWith(code) == [op |-> "verify", id |-> 1, code |-> code]
      Deregister(realm, yes) == [op |-> "deregister", id |-> 1, realm |-> realm, yes |-> yes]
      On(op) == [op |-> op, id |-> 1]
  IN {Scene(RegisterIn("kh-prod", FALSE), RegisterIn("kh-dev", FALSE)),
      Scene(RegisterIn("kh-dev", TRUE), RegisterIn("kh-dev", TRUE)),
      Scene(RegisterIn("kh-dev", TRUE), VerifyWith(1)),
      Scene(VerifyWith(1), VerifyWith(2)),
      Scene(VerifyWith(2), On("resend")),
      Scene(VerifyWith(0), On("status")),
      Scene(VerifyWith(1), Deregister("kh-dev", TRUE)),
      Scene(Deregister("kh-dev", TRUE), Deregister("kh-prod", TRUE)),
      Scene(On("whoami"), Deregister("kh-dev", FALSE))}

\* What does not move starts anyhow.
MCDoctorInit ==
  /\ DoctorInit
  /\ part # "doctor" => doctor = [name |-> "auth"] /\ holds = {}

Installs(h) == host[h1].cmd.op = "install" /\ host[h1].cmd.host = h

\* The scenes start on the machines they tell apart.
MCHostsInit ==
  /\ HostsInit
  /\ host[h1].cmd.op = "install" => cliUser = "ann"
  /\ Installs("vscode") => "idea" \notin machine.places /\ ~machine.cloud /\ ~machine.surfaces
  /\ Installs("jetbrains") => machine.places = {"idea"}
  /\ host[h1].cmd.op = "rebind" => machine.places = {"desktop"} /\ HasEntry("desktop")
  /\ part # "hosts" => /\ Installs("jetbrains") /\ settings["idea"] = NoFile /\ machine.surfaces

MCAccountInit ==
  /\ AccountInit
  /\ part # "account" => /\ accounts = <<>> /\ onboard[o2].cmd.op = "status"

MCFileInit ==
  /\ Init
  /\ part # "credentials" => credentials = None /\ rotates

\* Nothing is claimed any more of a file that two had open at once, and of
\* sessions that are all spoiled.
MCFileNext == ~(collided /\ spoiled = Sessions) /\ Next

MCInit ==
  /\ part \in {"credentials", "doctor", "hosts", "account"}
  /\ MCFileInit /\ MCDoctorInit /\ MCHostsInit /\ MCAccountInit

\* While settings of VS Code are installed owners act; while a connection is
\* rebound identities change; in the other scene both do.
MCHostsNext ==
  \/ CommandsStep
  \/ /\ Happens /\ still' = {}
     /\ \/ ~(host[h1].cmd.op = "rebind") /\ OwnersAct
        \/ ~Installs("vscode") /\ IdentitiesChange

MCNext ==
  \/ part = "credentials" /\ MCFileNext /\ UNCHANGED <<doctorVars, hostsVars, accountVars, part>>
  \/ part = "doctor" /\ DoctorNext /\ UNCHANGED <<vars, hostsVars, accountVars, part>>
  \/ part = "hosts" /\ MCHostsNext /\ UNCHANGED <<vars, doctorVars, accountVars, part>>
  \/ part = "account" /\ AccountNext /\ UNCHANGED <<vars, doctorVars, hostsVars, part>>

MCSpec == MCInit /\ [][MCNext]_MCVars
=============================================================================
