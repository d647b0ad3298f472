--------------------------- MODULE CredentialFile ---------------------------
(***************************************************************************)
(* ~/.keyhole/credentials.json (keyhole_sdk: auth_bootstrap and            *)
(* sdk_client_25/auth_state.py), shared without a lock by every CLI        *)
(* command, proxy and daemon of a user.  get_fresh_token reads it,         *)
(* exchanges the refresh token at the authorization server and writes it;  *)
(* login reads or replaces it; sign_out revokes its token and removes it.  *)
(*                                                                         *)
(* All of them write credentials.tmp, one fixed name, and rename it.  The  *)
(* model has the files as names of inodes: a rename moves a name, and a    *)
(* process that has a file open goes on writing to its inode.              *)
(***************************************************************************)
EXTENDS Naturals, FiniteSets

CONSTANTS
  Processes,
  None,          \* no file, no grant
  Cut,           \* nothing, or text that is not one JSON document
  Commands,      \* of {"refresh", "login", "logout"}
  MaxSessions,   \* bound on logins
  MaxGrants,     \* bound on grants in a session
  MaxCuts        \* bound on processes that are cut short

ASSUME CommandsAssumption == Commands \subseteq {"refresh", "login", "logout"}
ASSUME BoundsAssumption == MaxSessions \in Nat /\ MaxGrants \in Nat \ {0} /\ MaxCuts \in Nat

Sessions == 1..MaxSessions

\* The n-th access and refresh token of a session.
Grant == [session : Sessions, n : 1..MaxGrants]

\* What a file may hold.
Content == Grant \cup {Cut}

\* Two names and what each process has open.
Inodes == 0..(Cardinality(Processes) + 1)

ASSUME NoneAssumption == None \notin Inodes \cup Content \cup {"refresh", "login", "logout"}
ASSUME CutAssumption == Cut \notin Grant
ASSUME ProcessesAssumption == IsFiniteSet(Processes)

VARIABLES
  credentials,  \* the inode of credentials.json, or None
  tmp,          \* the inode of credentials.tmp, or None
  inode,        \* the content of each inode
  cmd,          \* the command each process runs, or None
  pc,           \* where it stands
  creds,        \* the credentials it has in memory, or None
  fd,           \* the inode it has open for writing, or None
  rotates,      \* the server: does it revoke a refresh token when it is used?
  issued,       \* the server: how many grants of each session
  revoked,      \* the server: sessions signed out
  cuts,         \* how many processes were cut short
  behind,       \* history: logins since whose start credentials.json was replaced
  collided,     \* history: have two processes had credentials.tmp at once?
  spoiled       \* history: sessions whose saves crossed others, or were cut short

files == <<credentials, tmp, inode>>
local == <<cmd, pc, creds, fd>>
server == <<issued, revoked>>
history == <<behind, collided, spoiled>>
vars == <<files, local, server, rotates, cuts, history>>

Saving == {"open", "write", "replace"}
Places == {"idle", "refreshing", "reusing", "verifying", "revoking", "clearing"} \cup Saving

\* Nobody has signed in yet, or a session was saved before.
Init ==
  /\ \/ /\ credentials = None /\ inode = [i \in Inodes |-> Cut]
        /\ issued = [s \in Sessions |-> 0]
     \/ \E g \in Grant :
          /\ g.session = 1 /\ g.n = 1
          /\ credentials = 0 /\ inode = [i \in Inodes |-> IF i = 0 THEN g ELSE Cut]
          /\ issued = [s \in Sessions |-> IF s = 1 THEN 1 ELSE 0]
  /\ tmp = None
  /\ cmd = [p \in Processes |-> None] /\ pc = [p \in Processes |-> "idle"]
  /\ creds = [p \in Processes |-> None] /\ fd = [p \in Processes |-> None]
  /\ rotates \in BOOLEAN /\ revoked = {}
  /\ cuts = 0 /\ behind = {} /\ collided = FALSE /\ spoiled = {}

-----------------------------------------------------------------------------
(* Helpers.                                                                *)

\* What credentials.json holds.
Stored == IF credentials = None THEN None ELSE inode[credentials]

\* The command of p starts with credentials g.
Starts(p, command, place, g) ==
  /\ cmd[p] = None /\ command \in Commands
  /\ cmd' = [cmd EXCEPT ![p] = command]
  /\ pc' = [pc EXCEPT ![p] = place]
  /\ creds' = [creds EXCEPT ![p] = g]
  /\ UNCHANGED <<files, fd, cuts, history>>

\* ... goes on.
Goes(p, place) == pc' = [pc EXCEPT ![p] = place] /\ UNCHANGED <<cmd, cuts, behind>>

\* ... ends, with a result or by an exception.
Ends(p) ==
  /\ cmd' = [cmd EXCEPT ![p] = None] /\ pc' = [pc EXCEPT ![p] = "idle"]
  /\ creds' = [creds EXCEPT ![p] = None] /\ fd' = [fd EXCEPT ![p] = None]

\* The server still takes the refresh token of g.
Usable(g) == g.session \notin revoked /\ (rotates => g.n = issued[g.session])

\* A process leaves, and no longer counts as a login that was overtaken.
Leaves(p) == Ends(p) /\ behind' = behind \ {p}

\* Those who have credentials.tmp: they have opened it and not yet renamed it.
Writers == {p \in Processes : pc[p] \in {"write", "replace"}}

-----------------------------------------------------------------------------
(* get_fresh_token.  Without a file, with one that is cut or with an access *)
(* token of use to it, it ends without a step; a token that was granted a moment *)
(* ago may be in its last minute.                                          *)

LoadExpired(p) ==
  /\ Stored \in Grant
  /\ Starts(p, "refresh", "refreshing", Stored)
  /\ UNCHANGED server

\* Mutant: a rotated refresh token is not taken over.
RefreshGrantedKeepsOld(p) ==
  /\ pc[p] = "refreshing" /\ Usable(creds[p])
  /\ LET s == creds[p].session
     IN  issued[s] < MaxGrants /\ issued' = [issued EXCEPT ![s] = @ + 1]
  /\ Goes(p, "open")
  /\ UNCHANGED <<files, creds, fd, revoked, collided, spoiled>>

\* _do_refresh: granted, the reply updates the credentials.
RefreshGranted(p) ==
  /\ pc[p] = "refreshing" /\ Usable(creds[p])
  /\ LET s == creds[p].session
     IN  /\ issued[s] < MaxGrants
         /\ issued' = [issued EXCEPT ![s] = @ + 1]
         /\ creds' = [creds EXCEPT ![p] = [session |-> s, n |-> issued[s] + 1]]
  /\ Goes(p, "open")
  /\ UNCHANGED <<files, fd, revoked, collided, spoiled>>

\* ... refused: HTTPError.
RefreshRefused(p) ==
  /\ pc[p] = "refreshing" /\ ~Usable(creds[p])
  /\ Leaves(p)
  /\ UNCHANGED <<files, server, cuts, collided, spoiled>>

-----------------------------------------------------------------------------
(* login.                                                                  *)

\* is_authenticated: the stored session is not past its end, though it may be
\* near it, and may be reused.
LoginReuses(p) ==
  /\ Stored \in Grant
  /\ Starts(p, "login", "reusing", Stored)
  /\ UNCHANGED server

\* A fresh session s, in memory only.  They are numbered as they begin.
NewSession(s) ==
  /\ issued[s] = 0 /\ \A t \in 1..(s - 1) : issued[t] # 0
  /\ issued' = [issued EXCEPT ![s] = 1]
  /\ UNCHANGED revoked

LoginAnew(p) ==
  /\ \E s \in Sessions :
       /\ NewSession(s)
       /\ Starts(p, "login", "verifying", [session |-> s, n |-> 1])

\* whoami confirms the stored session, and it is saved again.
ReuseConfirmed(p) ==
  /\ pc[p] = "reusing"
  /\ Goes(p, "open")
  /\ UNCHANGED <<files, creds, fd, server, collided, spoiled>>

\* ... or does not, and login goes on as if there were none.
ReuseFails(p) ==
  /\ pc[p] = "reusing"
  /\ \E s \in Sessions :
       /\ NewSession(s)
       /\ creds' = [creds EXCEPT ![p] = [session |-> s, n |-> 1]]
  /\ Goes(p, "verifying")
  /\ UNCHANGED <<files, fd, collided, spoiled>>

\* whoami confirms the identity of the fresh session: only now is it saved.
LoginConfirmed(p) ==
  /\ pc[p] = "verifying"
  /\ Goes(p, "open")
  /\ UNCHANGED <<files, creds, fd, server, collided, spoiled>>

-----------------------------------------------------------------------------
(* _save_creds and CredentialStore.save.                                   *)

\* The inode of a new file: the first that nothing refers to.
Unused(i) == i \notin {credentials, tmp} /\ \A q \in Processes : fd[q] # i
Fresh(i) == Unused(i) /\ \A j \in Inodes : Unused(j) => i <= j

\* Of the saves of which sessions one that begins now crosses another: those
\* of two who have credentials.tmp at once, and that of a login which saves the
\* session it was given although credentials.json was replaced since.
Crossed(p) ==
  {creds[q].session : q \in Writers}
    \cup (IF p \in behind \/ Writers # {} THEN {creds[p].session} ELSE {})

\* A file without a name that nobody has open is no more.
Gone(i) == i \notin {credentials', tmp'} /\ \A q \in Processes : fd'[q] # i
Contents(c) == inode' = [i \in Inodes |-> IF Gone(i) THEN Cut ELSE c[i]]

\* write_text opens credentials.tmp, new or truncated ...
Open(p) ==
  /\ pc[p] = "open"
  /\ \E i \in Inodes :
       /\ IF tmp = None THEN Fresh(i) ELSE i = tmp
       /\ tmp' = i /\ credentials' = credentials
       /\ inode' = [inode EXCEPT ![i] = Cut]
       /\ fd' = [fd EXCEPT ![p] = i]
  /\ Goes(p, "write")
  /\ collided' = (collided \/ Writers # {}) /\ spoiled' = spoiled \cup Crossed(p)
  /\ UNCHANGED <<creds, server>>

\* ... and writes from its beginning: over another's longer text leaves a mix.
Write(p) ==
  /\ pc[p] = "write"
  /\ fd' = [fd EXCEPT ![p] = None] /\ UNCHANGED <<credentials, tmp>>
  /\ \E c \in {creds[p]} \cup (IF inode[fd[p]] = Cut THEN {} ELSE {Cut}) :
       Contents([inode EXCEPT ![fd[p]] = c])
  /\ Goes(p, "replace")
  /\ UNCHANGED <<creds, server, collided, spoiled>>

\* chmod and rename; both raise if another process has renamed the file.
Replace(p) ==
  /\ pc[p] = "replace"
  /\ Ends(p)
  /\ IF tmp = None THEN UNCHANGED files /\ behind' = behind \ {p}
     ELSE /\ credentials' = tmp /\ tmp' = None /\ Contents(inode)
          /\ behind' = {q \in Processes \ {p} : q \in behind \/ cmd[q] = "login"}
  /\ UNCHANGED <<server, cuts, collided, spoiled>>

-----------------------------------------------------------------------------
(* sign_out.                                                               *)

\* A file that cannot be read is removed all the same.
SignOut(p) ==
  /\ Starts(p, "logout", "revoking", IF Stored \in Grant THEN Stored ELSE None)
  /\ UNCHANGED server

\* Best effort: the server may not be reached, or not know the token.
Revoke(p) ==
  /\ pc[p] = "revoking"
  /\ \/ revoked' = revoked
     \/ creds[p] # None /\ Usable(creds[p]) /\ revoked' = revoked \cup {creds[p].session}
  /\ Goes(p, "clearing")
  /\ UNCHANGED <<files, creds, fd, issued, collided, spoiled>>

Clear(p) ==
  /\ pc[p] = "clearing"
  /\ Leaves(p)
  /\ credentials' = None /\ tmp' = tmp /\ Contents(inode)
  /\ UNCHANGED <<server, cuts, collided, spoiled>>

-----------------------------------------------------------------------------
\* What is lost with p: the credentials it was about to save.
Drops(p) ==
  spoiled' = spoiled \cup (IF pc[p] \in Saving THEN {creds[p].session} ELSE {})

\* A process is killed, or ended by an exception: the connection fails before
\* or after the server acted, whoami does not confirm, the disk is full.
CutShort(p) ==
  /\ cmd[p] # None /\ cuts < MaxCuts
  /\ Leaves(p) /\ Drops(p) /\ cuts' = cuts + 1
  /\ UNCHANGED <<credentials, tmp>> /\ Contents(inode)
  /\ UNCHANGED <<server, collided>>

\* CredentialStore.save meets an OSError and removes credentials.tmp.
SaveFails(p) ==
  /\ cmd[p] = "login" /\ pc[p] \in {"write", "replace"} /\ cuts < MaxCuts
  /\ Leaves(p) /\ Drops(p) /\ cuts' = cuts + 1
  /\ tmp' = None /\ credentials' = credentials /\ Contents(inode)
  /\ UNCHANGED <<server, collided>>

\* How the server rotates is its configuration.
Next ==
  /\ UNCHANGED rotates
  /\ \E p \in Processes :
       \/ LoadExpired(p) \/ RefreshGranted(p) \/ RefreshRefused(p)
       \/ LoginReuses(p) \/ LoginAnew(p) \/ ReuseConfirmed(p) \/ ReuseFails(p)
       \/ LoginConfirmed(p)
       \/ Open(p) \/ Write(p) \/ Replace(p)
       \/ SignOut(p) \/ Revoke(p) \/ Clear(p)
       \/ CutShort(p) \/ SaveFails(p)

Spec == Init /\ [][Next]_vars

-----------------------------------------------------------------------------
(* Properties.                                                             *)

\* The type invariant of the files, the processes and the server.
TypeOK ==
  /\ credentials \in Inodes \cup {None} /\ tmp \in Inodes \cup {None}
  /\ inode \in [Inodes -> Content]
  /\ cmd \in [Processes -> Commands \cup {None}]
  /\ pc \in [Processes -> Places]
  /\ creds \in [Processes -> Grant \cup {None}]
  /\ fd \in [Processes -> Inodes \cup {None}]
  /\ issued \in [Sessions -> 0..MaxGrants]
  /\ revoked \subseteq Sessions
  /\ rotates \in BOOLEAN /\ cuts \in 0..MaxCuts
  /\ behind \subseteq Processes /\ collided \in BOOLEAN /\ spoiled \subseteq Sessions

\* However commands overlap and wherever they are cut short, credentials.json
\* is a whole document ("Atomic write (temp-file rename) to avoid partial-write
\* corruption", "concurrent calls are safe", token_refresh.py).
NeverCut == Stored # Cut

\* It is one until two processes have had credentials.tmp at the same time,
\* wherever processes are cut short (_save_creds, CredentialStore.save).
FileStaysWhole == ~collided => Stored # Cut

\* Until then credentials.json changes by a rename or a removal only: nobody
\* writes to the file that it already is (_save_creds).
AtomicWrite == [][credentials' = credentials /\ ~collided' => Stored' = Stored]_vars

\* The server takes the refresh token of g, or somebody is about to save the
\* one it takes, or the session was signed out.
Kept(g) ==
  \/ g.session \in revoked \/ Usable(g)
  \/ \E p \in Processes : /\ pc[p] \in Saving /\ creds[p].session = g.session
                          /\ creds[p].n = issued[g.session]

\* The newest refresh token is not overwritten by an older one but in three
\* ways: two processes have credentials.tmp at once, a login saves back what it
\* loaded before credentials.json was replaced, or a saver is cut short.  All
\* three spoil only the sessions of those who saved (get_fresh_token and login,
\* with no lock between loading and saving).
NewestIsKept == Stored \in Grant /\ Stored.session \notin spoiled => Kept(Stored)

Newer(g, h) == h.session = g.session /\ h.n > g.n

\* A refresh is refused only to who was overtaken: the session was signed out
\* or spoiled, its credentials are gone from credentials.json, or a newer grant
\* of it is stored or about to be.
StaleIsOvertaken ==
  \A p \in Processes : pc[p] = "refreshing" /\ ~Usable(creds[p]) =>
    \/ creds[p].session \in revoked \cup spoiled
    \/ Stored \notin Grant \/ Stored.session # creds[p].session
    \/ Newer(creds[p], Stored)
    \/ \E q \in Processes : pc[q] \in Saving /\ Newer(creds[p], creds[q])
=============================================================================
