-------------------------------- MODULE Hosts --------------------------------
(***************************************************************************)
(* Editors that reach the boundary by themselves, and what keyhole knows   *)
(* of them.  keyhole host install writes an entry into the settings of an  *)
(* editor, in place; the editor connects with a token of its own; keyhole  *)
(* connection rebind and invalidate ask the server to change whose the     *)
(* connection is; reconcile compares the user of the command line with the *)
(* user of every editor's connection and reports.                          *)
(*                                                                         *)
(* A settings file is absent, cut (anything the installer cannot parse) or *)
(* has an entry for Keyhole or not and a set of what its owner put there.  *)
(* Two of the five places of VS Code stand for all of them.  A user and    *)
(* the profile of that user are one name.                                  *)
(***************************************************************************)
EXTENDS Naturals, Sequences

CONSTANTS
  HostProcs,     \* processes that run a command
  HostScenes,    \* the commands they may run together
  Users,         \* the users of the server
  Nobody,        \* no user: signed out, or a connection that names none
  NoFile,        \* a file that is not there
  Unreadable,    \* a file that cannot be parsed
  NoConnection,  \* a host without a connection
  Machines,      \* the editors there may be at the beginning
  MaxEvents      \* bound on what users and editors do

HostIds == {"vscode", "jetbrains", "cloud_code", "sdk_local"}

HostCommands ==
  [op : {"install"}, host : HostIds, force : BOOLEAN]
    \cup [op : {"rebind"}, host : HostIds, profile : Users]
    \cup [op : {"invalidate", "inspect"}, host : HostIds]
    \cup [op : {"reconcile"}]

Settings == [entry : BOOLEAN, own : SUBSET {"early", "later"}]

ASSUME HostsAssumption ==
  /\ Nobody \notin Users /\ NoConnection \notin Users \cup {Nobody}
  /\ NoFile \notin Settings /\ Unreadable \notin Settings \cup {NoFile}
  /\ MaxEvents \in Nat
  /\ \A scene \in HostScenes : scene \in [HostProcs -> HostCommands]

VARIABLES
  host,        \* per process: its command, where it is and what it holds
  machine,     \* [places: directories of editors, storage: VS Code has an entry elsewhere,
               \*  cloud: Cloud Code has one, surfaces: the server tells of connections]
  settings,    \* per place: the settings
  backups,     \* per place: the backup of the settings
  connection,  \* per host: the user of its connection
  cliUser,     \* whose session the command line has
  events,      \* what users and editors did
  made,        \* history: per place, what its owner put there
  exposed,     \* history: per place, of that, what was there while two wrote, or no backup was made
  healed,      \* history: per host, the user of the last verified rebind, while it holds
  still        \* history: the processes since whose report was begun nothing changed

hostsVars == <<host, machine, settings, backups, connection, cliUser, events,
               made, exposed, healed, still>>

SettingsPlaces == {"desktop", "remote", "idea"}

Whole(f) == f \notin {NoFile, Unreadable}

-----------------------------------------------------------------------------
(***************************************************************************)
(* Where the settings of VS Code are, for the installer and for the        *)
(* detector: they look in different orders.                                *)
(***************************************************************************)
First(order, S) ==
  {order[i] : i \in {j \in DOMAIN order :
                       order[j] \in S /\ \A k \in 1..(j - 1) : order[k] \notin S}}

Existing == {f \in SettingsPlaces : settings[f] # NoFile}

\* The first file, else the first directory to put one in.
FindVscodeSettings ==
  IF Existing \cap {"remote", "desktop"} # {}
  THEN First(<<"remote", "desktop">>, Existing)
  ELSE First(<<"remote", "desktop">>, machine.places)

InstallPlace(h) ==
  CASE h = "vscode"    -> FindVscodeSettings
    [] h = "jetbrains" -> machine.places \cap {"idea"}
    [] OTHER           -> {}      \* no installer

DetectedSettings == First(<<"desktop", "remote">>, Existing)

HasEntry(f) == Whole(settings[f]) /\ settings[f].entry

\* What the detectors find out about a host.
Detect(h, user) ==
  CASE h = "vscode"     -> [detected |-> DetectedSettings # {}, config |-> TRUE,
                            entry |-> machine.storage \/ \E f \in DetectedSettings : HasEntry(f)]
    [] h = "jetbrains"  -> [detected |-> "idea" \in machine.places, config |-> TRUE,
                            entry |-> HasEntry("idea")]
    [] h = "cloud_code" -> [detected |-> machine.cloud, config |-> TRUE, entry |-> TRUE]
    [] h = "sdk_local"  -> [detected |-> TRUE, config |-> cliUser # Nobody, entry |-> FALSE]

(***************************************************************************)
(* The diagnosis of a host, and the summary of the report.                 *)
(***************************************************************************)
Staleness(live, user) ==
  IF live = user THEN "fresh" ELSE IF live = Nobody THEN "unknown" ELSE "stale_confirmed"

\* Mutant: a connection whose user differs from the session's counts as stale.
ClassifyStaleFirst(record, surfaces, live, user) ==
  IF ~record.detected THEN "not_detected"
  ELSE IF ~record.config THEN "host_config_unreadable"
  ELSE IF ~record.entry THEN "host_not_configured"
  ELSE IF ~surfaces THEN "surface_unavailable"
  ELSE IF live = NoConnection THEN "live_connection_missing"
  ELSE IF live = Nobody THEN "ambiguous_connection"
  ELSE IF Staleness(live, user) = "stale_confirmed" THEN "stale_host_auth"
  ELSE "aligned"

Classify(record, surfaces, live, user) ==
  IF ~record.detected THEN "not_detected"
  ELSE IF ~record.config THEN "host_config_unreadable"
  ELSE IF ~record.entry THEN "host_not_configured"
  ELSE IF ~surfaces THEN "surface_unavailable"
  ELSE IF live = NoConnection THEN "live_connection_missing"
  ELSE IF live = Nobody THEN "ambiguous_connection"
  ELSE IF live # user THEN "split_identity"
  ELSE IF Staleness(live, user) = "stale_confirmed" THEN "stale_host_auth"
  ELSE "aligned"

\* The other comparison, of the three layers of a single host.
ThreeLayer(record, surfaces, live, user) ==
  CASE ~record.detected                                           -> "not_detected"
    [] record.detected /\ ~record.config                          -> "host_config_unreadable"
    [] record.detected /\ record.config /\ ~record.entry          -> "host_not_configured"
    [] record.detected /\ record.config /\ record.entry ->
         CASE ~surfaces                                        -> "surface_unavailable"
           [] surfaces /\ live = NoConnection                  -> "live_connection_missing"
           [] surfaces /\ live = Nobody                        -> "ambiguous_connection"
           [] surfaces /\ live \in Users /\ live = user        -> "aligned"
           [] surfaces /\ live \in Users /\ live # user        -> "split_identity"

Summary(diagnoses) ==
  CASE "split_identity" \in diagnoses               -> "attention_required"
    [] diagnoses \subseteq {"aligned", "not_detected"} -> "ok"
    [] OTHER                                        -> "degraded"

-----------------------------------------------------------------------------
HostsInit ==
  /\ \E scene \in HostScenes :
       host = [p \in HostProcs |-> [cmd |-> scene[p], pc |-> "start"]]
  /\ machine \in Machines
  /\ settings \in [SettingsPlaces -> {NoFile} \cup {c \in Settings : c.own = {"early"}}]
  /\ \A f \in SettingsPlaces : settings[f] # NoFile => f \in machine.places
  /\ backups = [f \in SettingsPlaces |-> NoFile]
  /\ connection \in [HostIds -> {NoConnection}]
  /\ cliUser \in Users
  /\ events = 0
  /\ made = [f \in SettingsPlaces |-> IF Whole(settings[f]) THEN settings[f].own ELSE {}]
  /\ exposed = [f \in SettingsPlaces |-> {}]
  /\ healed = [h \in HostIds |-> Nobody]
  /\ still = {}

At(p, op, pc) == host[p].cmd.op = op /\ host[p].pc = pc

\* The process p goes on with r, and with what else it held.
HostGoes(p, r) ==
  host' = [host EXCEPT ![p] =
    [x \in DOMAIN r \cup DOMAIN @ |-> IF x \in DOMAIN r THEN r[x] ELSE @[x]]]

HostEnds(p, result) == HostGoes(p, [pc |-> "done", result |-> result])

\* Another install is between the read and the write of this file.
Installing(f) ==
  \E q \in HostProcs : /\ host[q].cmd.op = "install"
                       /\ host[q].pc \in {"backup", "copy", "open", "write"} /\ host[q].place = f

Expose(f) == exposed' = [exposed EXCEPT ![f] = made[f]]

(***************************************************************************)
(* keyhole host install.                                                   *)
(***************************************************************************)
ReadSettings(p) ==
  LET place == InstallPlace(host[p].cmd.host) IN
  /\ At(p, "install", "start")
  /\ IF place = {} THEN HostEnds(p, "no_place") /\ UNCHANGED exposed
     ELSE \E f \in place :
       LET data == IF settings[f] = NoFile THEN [entry |-> FALSE, own |-> {}] ELSE settings[f] IN
       IF settings[f] = Unreadable THEN HostEnds(p, "unreadable") /\ UNCHANGED exposed
       ELSE IF data.entry /\ ~host[p].cmd.force THEN HostEnds(p, "skipped") /\ UNCHANGED exposed
       ELSE /\ HostGoes(p, [pc |-> IF f = "idea" THEN "open" ELSE "backup",
                            place |-> f, held |-> data])
            /\ IF Installing(f) THEN Expose(f) ELSE UNCHANGED exposed
  /\ UNCHANGED <<machine, settings, backups, connection, cliUser, events, made, healed>>

\* Mutant: nothing is backed up.
NoBackup(p) ==
  /\ At(p, "install", "backup")
  /\ HostGoes(p, [pc |-> "open"])
  /\ UNCHANGED <<machine, settings, backups, connection, cliUser, events, made, exposed, healed>>

\* copy2 opens the backup and copies what the file then has. An error of it is
\* a warning.
BackUp(p) ==
  LET f == host[p].place IN
  /\ \/ At(p, "install", "backup") /\ settings[f] = NoFile
        /\ HostGoes(p, [pc |-> "open"]) /\ UNCHANGED <<backups, exposed>>
     \/ At(p, "install", "backup") /\ settings[f] # NoFile
        /\ HostGoes(p, [pc |-> "copy"])
        /\ backups' = [backups EXCEPT ![f] = Unreadable] /\ UNCHANGED exposed
     \/ At(p, "install", "copy")
        /\ HostGoes(p, [pc |-> "open"])
        /\ backups' = [backups EXCEPT ![f] = settings[f]] /\ UNCHANGED exposed
     \/ At(p, "install", "copy")
        /\ HostGoes(p, [pc |-> "open"]) /\ Expose(f) /\ UNCHANGED backups
  /\ UNCHANGED <<machine, settings, connection, cliUser, events, made, healed>>

\* write_text cuts the file and then writes it.
OpenSettings(p) ==
  /\ At(p, "install", "open")
  /\ HostGoes(p, [pc |-> "write"])
  /\ settings' = [settings EXCEPT ![host[p].place] = Unreadable]
  /\ UNCHANGED <<machine, backups, connection, cliUser, events, made, exposed, healed>>

\* A file that somebody else wrote in between is overwritten or mixed up.
WriteSettings(p) ==
  LET f == host[p].place
      mine == [host[p].held EXCEPT !.entry = TRUE]
  IN
  /\ At(p, "install", "write")
  /\ \/ settings' = [settings EXCEPT ![f] = mine]
     \/ settings[f] # Unreadable /\ settings' = [settings EXCEPT ![f] = Unreadable]
  /\ HostEnds(p, "installed")
  /\ UNCHANGED <<machine, backups, connection, cliUser, events, made, exposed, healed>>

\* The process is killed, or a write fails.
InstallDies(p) ==
  /\ host[p].cmd.op = "install" /\ host[p].pc \in {"backup", "copy", "open", "write"}
  /\ HostEnds(p, "failed")
  /\ UNCHANGED <<machine, settings, backups, connection, cliUser, events, made, exposed, healed>>

(***************************************************************************)
(* keyhole connection rebind, invalidate and inspect (whoami, lineage).    *)
(***************************************************************************)
Binds(h, user) ==
  /\ connection' = [connection EXCEPT ![h] = user]
  /\ healed' = IF user = connection[h] THEN healed ELSE [healed EXCEPT ![h] = Nobody]

Steady == UNCHANGED <<connection, healed>>

Elsewhere == UNCHANGED <<machine, settings, backups, cliUser, events, made, exposed>>

Answer(ok, status, says) == [ok |-> ok, status |-> status, says |-> says]

\* What the client makes of an answer: a word it does not know is acceptance.
ClassifyRebind(a) ==
  CASE ~a.ok \/ a.status \notin 200..202           -> "rejected"
    [] a.ok /\ a.status \in 200..202               ->
         IF a.says \in {"rebound", "replayed", "deferred", "rejected"} THEN a.says ELSE "accepted"

ClassifyInvalidate(a) ==
  CASE ~a.ok \/ a.status \notin 200..202           -> "rejected"
    [] a.ok /\ a.status \in 200..202               ->
         IF a.says \in {"already_invalidated", "rejected"} THEN a.says ELSE "accepted"

Refusals == {Answer(FALSE, 200, "forbidden"), Answer(TRUE, 404, "other"), Answer(TRUE, 500, "other")}

\* Whose the connection is, as connection_inspect tells it.
Inspected(h) ==
  CASE ~machine.surfaces                                -> "surface_unavailable"
    [] machine.surfaces /\ connection[h] = NoConnection -> "not_found"
    [] OTHER                                            -> connection[h]

\* The session, then who it is of, if whoami answers; without --yes it ends.
LoadForRebind(p) ==
  /\ At(p, "rebind", "start")
  /\ IF cliUser = Nobody THEN HostEnds(p, "not_authenticated")
     ELSE \E who \in {cliUser, Nobody} : HostGoes(p, [pc |-> "send", acting |-> cliUser, who |-> who])
  /\ Steady /\ Elsewhere

\* The server knows the profile that is asked for and the user who asks, and may
\* rebind to either or only say so; the answer may be lost.
Rebind(p) ==
  LET h == host[p].cmd.host
      there == machine.surfaces /\ connection[h] # NoConnection
      Bound == there /\ \E u \in {host[p].cmd.profile, host[p].acting} : Binds(h, u)
      Told(a) == LET status == ClassifyRebind(a) IN
        IF status \in {"accepted", "rebound", "replayed"}
        THEN HostGoes(p, [pc |-> "verify"]) ELSE HostEnds(p, status)
  IN
  /\ At(p, "rebind", "send")
  /\ \/ /\ \E says \in {"rebound", "queued"} : Told(Answer(TRUE, 200, says))
        /\ (Bound \/ (there /\ Steady))
     \/ there /\ Told(Answer(TRUE, 202, "deferred")) /\ Steady
     \/ (\E a \in Refusals : Told(a)) /\ Steady
     \/ HostEnds(p, "network") /\ (Bound \/ Steady)
  /\ Elsewhere

Verified(p) ==
  LET live == Inspected(host[p].cmd.host)
  IN live \notin {"not_found", "surface_unavailable"} /\ live \in {host[p].cmd.profile, host[p].who}

VerifyRebind(p) ==
  LET h == host[p].cmd.host IN
  /\ At(p, "rebind", "verify")
  /\ \/ HostEnds(p, "unverified") /\ UNCHANGED healed
     \/ /\ Verified(p) /\ HostEnds(p, "verified")
        /\ healed' = IF host[p].cmd.profile = host[p].acting /\ host[p].who = host[p].acting
                     THEN [healed EXCEPT ![h] = host[p].acting] ELSE healed
  /\ UNCHANGED connection /\ Elsewhere

\* An invalidation is believed; one of a connection that is gone succeeds too.
Invalidate(p) ==
  LET h == host[p].cmd.host
      Told(a) == HostEnds(p, ClassifyInvalidate(a))
  IN
  /\ At(p, "invalidate", "start")
  /\ \/ cliUser = Nobody /\ HostEnds(p, "not_authenticated") /\ Steady
     \/ /\ cliUser # Nobody /\ machine.surfaces
        /\ (Told(Answer(TRUE, 200, "queued")) \/ HostEnds(p, "network"))
        /\ (Binds(h, NoConnection) \/ Steady)
     \/ /\ cliUser # Nobody /\ machine.surfaces /\ connection[h] = NoConnection
        /\ Told(Answer(TRUE, 200, "already_invalidated")) /\ Steady
     \/ cliUser # Nobody /\ ((\E a \in Refusals : Told(a)) \/ HostEnds(p, "network")) /\ Steady
  /\ Elsewhere

Inspect(p) ==
  /\ At(p, "inspect", "start")
  /\ \/ cliUser = Nobody /\ HostEnds(p, "not_authenticated")
     \/ cliUser # Nobody /\ HostEnds(p, "network")
     \/ cliUser # Nobody /\ HostEnds(p, Inspected(host[p].cmd.host))
  /\ Steady /\ Elsewhere

(***************************************************************************)
(* reconcile: the user of the command line, the hosts of this machine, and *)
(* what the server tells of their connections.                             *)
(***************************************************************************)
DetermineProfile(p) ==
  /\ At(p, "reconcile", "start")
  /\ HostGoes(p, [pc |-> "inventory", user |-> cliUser])
  /\ still' = still \cup {p}
  /\ Steady /\ Elsewhere

DetectHosts(p) ==
  /\ At(p, "reconcile", "inventory")
  /\ HostGoes(p, [pc |-> "truth", records |-> [h \in HostIds |-> Detect(h, host[p].user)]])
  /\ Steady /\ Elsewhere /\ UNCHANGED still

Reconcile(p) ==
  LET Diagnosis(h) == Classify(host[p].records[h], machine.surfaces, connection[h], host[p].user)
      diagnoses == [h \in HostIds |-> Diagnosis(h)]
  IN
  /\ At(p, "reconcile", "truth")
  /\ HostEnds(p, [diagnoses |-> diagnoses, summary |-> Summary({diagnoses[h] : h \in HostIds})])
  /\ Steady /\ Elsewhere /\ UNCHANGED still

(***************************************************************************)
(* Users and editors.                                                      *)
(***************************************************************************)
Happens == events < MaxEvents /\ events' = events + 1 /\ UNCHANGED <<host, machine>>

\* A user changes the settings, of an editor that may have had none.
Edit(f) ==
  /\ f \in machine.places /\ settings[f] # Unreadable
  /\ LET old == IF settings[f] = NoFile THEN [entry |-> FALSE, own |-> {}] ELSE settings[f]
     IN settings' = [settings EXCEPT ![f] = [old EXCEPT !.own = @ \cup {"later"}]]
  /\ made' = [made EXCEPT ![f] = @ \cup {"later"}]
  /\ exposed' = IF Installing(f) THEN [exposed EXCEPT ![f] = @ \cup {"later"}] ELSE exposed
  /\ UNCHANGED <<backups, connection, cliUser, healed>>

\* ... or takes the entry out.
RemoveEntry(h, f) ==
  /\ HasEntry(f) /\ f \in (IF h = "jetbrains" THEN {"idea"} ELSE {"desktop", "remote"})
  /\ settings' = [settings EXCEPT ![f].entry = FALSE]
  /\ UNCHANGED <<backups, connection, cliUser, made, exposed, healed>>

\* A user copies the backup over a file that is cut.
Restore(f) ==
  /\ settings[f] = Unreadable /\ Whole(backups[f])
  /\ settings' = [settings EXCEPT ![f] = backups[f]]
  /\ exposed' = IF Installing(f) THEN [exposed EXCEPT ![f] = made[f]] ELSE exposed
  /\ UNCHANGED <<backups, connection, cliUser, made, healed>>

\* An editor with an entry connects with whatever token it has, or goes away.
Connect(h, user) ==
  /\ \/ user = NoConnection
     \/ h = "vscode" /\ (machine.storage \/ \E f \in {"desktop", "remote"} : HasEntry(f))
     \/ h = "jetbrains" /\ HasEntry("idea")
     \/ h = "cloud_code" /\ machine.cloud
  /\ user # connection[h] /\ Binds(h, user)
  /\ UNCHANGED <<settings, backups, cliUser, made, exposed>>

SignIn(user) ==
  /\ cliUser # user /\ cliUser' = user
  /\ UNCHANGED <<settings, backups, connection, made, exposed, healed>>

InstallStep(p) == ReadSettings(p) \/ BackUp(p) \/ OpenSettings(p) \/ WriteSettings(p) \/ InstallDies(p)

ConnectionStep(p) == LoadForRebind(p) \/ Rebind(p) \/ VerifyRebind(p) \/ Invalidate(p) \/ Inspect(p)

ReportStep(p) == DetermineProfile(p) \/ DetectHosts(p) \/ Reconcile(p)

OwnersAct ==
  \E f \in SettingsPlaces : Edit(f) \/ Restore(f) \/ \E h \in {"vscode", "jetbrains"} : RemoveEntry(h, f)

IdentitiesChange ==
  \/ \E h \in HostIds, u \in Users \cup {Nobody, NoConnection} : Connect(h, u)
  \/ \E u \in Users \cup {Nobody} : SignIn(u)

CommandsStep ==
  \/ \E p \in HostProcs : (InstallStep(p) \/ ConnectionStep(p)) /\ still' = {}
  \/ \E p \in HostProcs : ReportStep(p)

HostsNext ==
  \/ CommandsStep
  \/ Happens /\ (OwnersAct \/ IdentitiesChange) /\ still' = {}

HostsSpec == HostsInit /\ [][HostsNext]_hostsVars

-----------------------------------------------------------------------------
(***************************************************************************)
(* Properties.                                                             *)
(***************************************************************************)

\* install_vscode backs the settings up before it writes them in place: whatever
\* is killed, what a user put there is in the file or, when it is cut, in the
\* backup, unless two wrote at once or the backup failed.
EditsAreRecoverable ==
  \A f \in {"desktop", "remote"} :
    LET here == IF settings[f] = Unreadable THEN backups[f] ELSE settings[f]
    IN made[f] \ exposed[f] # {} => Whole(here) /\ made[f] \ exposed[f] \subseteq here.own

\* A report on which nothing changed: its process.
Reported(p) == host[p].cmd.op = "reconcile" /\ host[p].pc = "done" /\ p \in still

\* INV-SDK-CLIENT-01-C-001: a connection of another user than the command line's
\* is reported by reconcile as split, and the report asks for attention, for every
\* host in whose settings the detectors see an entry.  INV-SDK-CLIENT-01-C-004:
\* after a rebind to the profile of the user who asked that the command verified,
\* and until the connection changes, no report for that user calls the host split.
\* And reconcile_three_layer finds of each host what reconcile reports.
SplitIsTold ==
  \A p \in HostProcs : Reported(p) =>
    \A h \in HostIds :
      LET split == host[p].result.diagnoses[h] = "split_identity" IN
      /\ /\ machine.surfaces /\ connection[h] \in Users \ {cliUser}
         /\ Detect(h, cliUser).detected /\ Detect(h, cliUser).entry
         => split /\ host[p].result.summary = "attention_required"
      /\ healed[h] # Nobody /\ healed[h] = cliUser => ~split
      /\ host[p].result.diagnoses[h] =
           ThreeLayer(Detect(h, cliUser), machine.surfaces, connection[h], cliUser)
=============================================================================
