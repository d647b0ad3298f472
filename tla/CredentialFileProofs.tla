------------------------ MODULE CredentialFileProofs ------------------------
(***************************************************************************)
(* Proofs about CredentialFile: of any processes, on a server that rotates *)
(* or not.  Who has credentials.tmp alone writes what it saves and puts it *)
(* in place (FilesInv), so the file is cut only after two had it at once;  *)
(* and what was not spoiled by such a crossing, by a save over a file that *)
(* was replaced since, or by a death, is the newest or about to be         *)
(* replaced by it (SessionInv).                                            *)
(*                                                                         *)
(* And about the other programs that share this module's run: Account      *)
(* (AccountInv), Doctor (DoctorInv) and Hosts (HostsInv), each with what a *)
(* command holds of the world at the place where it stands.                *)
(***************************************************************************)
EXTENDS CredentialFile, Doctor, Hosts, Account, FiniteSetTheorems, TLAPS

-----------------------------------------------------------------------------
(* Types, and what a process holds where it stands.                        *)

Holding == {"refreshing", "reusing", "verifying"} \cup Saving

Shape ==
  \A p \in Processes :
    /\ cmd[p] = None <=> pc[p] = "idle"
    /\ pc[p] = "refreshing" => cmd[p] = "refresh"
    /\ pc[p] \in {"reusing", "verifying"} => cmd[p] = "login"
    /\ pc[p] \in {"revoking", "clearing"} => cmd[p] = "logout"
    /\ pc[p] \in Saving => cmd[p] \in {"refresh", "login"}
    /\ pc[p] \in Holding => creds[p] \in Grant

Typed == TypeOK /\ Shape

USE NoneAssumption, CutAssumption, CommandsAssumption, BoundsAssumption

LEMMA InitTyped == Init => Typed
  <1> SUFFICES ASSUME Init PROVE Typed
    OBVIOUS
  <1>1. credentials \in Inodes \cup {None} /\ inode \in [Inodes -> Content]
        /\ issued \in [Sessions -> 0..MaxGrants]
    <2>1. 0 \in Inodes
      <3>1. Cardinality(Processes) \in Nat
        BY ProcessesAssumption, FS_CardinalityType
      <3>. QED
        BY <3>1 DEF Inodes
    <2>2. CASE credentials = None /\ inode = [i \in Inodes |-> Cut]
               /\ issued = [s \in Sessions |-> 0]
      BY <2>2 DEF Content
    <2>3. ASSUME NEW g \in Grant, credentials = 0,
                 inode = [i \in Inodes |-> IF i = 0 THEN g ELSE Cut],
                 issued = [s \in Sessions |-> IF s = 1 THEN 1 ELSE 0]
          PROVE  /\ credentials \in Inodes \cup {None} /\ inode \in [Inodes -> Content]
                 /\ issued \in [Sessions -> 0..MaxGrants]
      <3>1. 0 \in 0..MaxGrants /\ 1 \in 0..MaxGrants
        OBVIOUS
      <3>. QED
        BY <2>1, <2>3, <3>1 DEF Content
    <2>. QED
      BY <2>2, <2>3 DEF Init
  <1>0. /\ tmp = None /\ cmd = [p \in Processes |-> None] /\ pc = [p \in Processes |-> "idle"]
        /\ creds = [p \in Processes |-> None] /\ fd = [p \in Processes |-> None]
        /\ rotates \in BOOLEAN /\ revoked = {} /\ cuts = 0 /\ behind = {}
        /\ collided = FALSE /\ spoiled = {}
    BY DEF Init
  <1>2. TypeOK
    <2>1. cuts \in 0..MaxCuts
      BY <1>0
    <2>2. /\ tmp \in Inodes \cup {None} /\ cmd \in [Processes -> Commands \cup {None}]
          /\ pc \in [Processes -> Places] /\ creds \in [Processes -> Grant \cup {None}]
          /\ fd \in [Processes -> Inodes \cup {None}]
      BY <1>0 DEF Places
    <2>3. /\ revoked \subseteq Sessions /\ rotates \in BOOLEAN /\ behind \subseteq Processes
          /\ collided \in BOOLEAN /\ spoiled \subseteq Sessions
      BY <1>0
    <2>. QED
      BY <1>1, <2>1, <2>2, <2>3 DEF TypeOK
  <1>3. Shape
    BY DEF Init, Shape, Holding, Saving
  <1>. QED
    BY <1>2, <1>3 DEF Typed

\* A command that starts with credentials it may hold.
LEMMA StartsTyped ==
  ASSUME Typed, NEW p \in Processes, NEW command, NEW place \in Places, NEW g,
         Starts(p, command, place, g), rotates' = rotates,
         issued' \in [Sessions -> 0..MaxGrants], UNCHANGED revoked,
         \/ command = "refresh" /\ place = "refreshing" /\ g \in Grant
         \/ command = "login" /\ place \in {"reusing", "verifying"} /\ g \in Grant
         \/ command = "logout" /\ place = "revoking" /\ g \in Grant \cup {None}
  PROVE  Typed'
  <1>1. TypeOK'
    BY DEF Typed, TypeOK, Starts, files, history
  <1>2. Shape'
    BY DEF Typed, TypeOK, Shape, Starts, Holding, Saving
  <1>. QED
    BY <1>1, <1>2 DEF Typed

\* What a file holds is what it held, what was written to it, or nothing.
LEMMA ContentsTyped ==
  ASSUME NEW c \in [Inodes -> Content], Contents(c)
  PROVE  inode' \in [Inodes -> Content]
  BY DEF Contents, Content

\* A process that ends leaves its place and what it held.
LEMMA EndsTyped ==
  ASSUME Typed, NEW p \in Processes, Ends(p),
         credentials' \in Inodes \cup {None}, tmp' \in Inodes \cup {None},
         inode' \in [Inodes -> Content], issued' = issued, rotates' = rotates,
         cuts' \in 0..MaxCuts, UNCHANGED revoked, behind' \subseteq Processes,
         collided' = collided, spoiled' \subseteq Sessions
  PROVE  Typed'
  <1>1. TypeOK'
    BY DEF Typed, TypeOK, Ends, Places
  <1>2. Shape'
    BY DEF Typed, TypeOK, Shape, Ends, Holding, Saving
  <1>. QED
    BY <1>1, <1>2 DEF Typed

LEMMA StepTyped == Typed /\ [Next]_vars => Typed'
  <1> SUFFICES ASSUME Typed, [Next]_vars PROVE Typed'
    OBVIOUS
  <1>. TypeOK /\ Shape
    BY DEF Typed
  <1>0. rotates' = rotates
    BY DEF Next, vars
  <1>1. ASSUME NEW p \in Processes, LoadExpired(p) PROVE Typed'
    <2>1. Stored \in Grant
      BY <1>1 DEF LoadExpired
    <2>2. issued' \in [Sessions -> 0..MaxGrants] /\ UNCHANGED revoked
      BY <1>1 DEF LoadExpired, server, TypeOK
    <2>3. Starts(p, "refresh", "refreshing", Stored)
      BY <1>1 DEF LoadExpired
    <2>4. "refreshing" \in Places
      BY DEF Places
    <2>. QED
      BY <1>0, <2>1, <2>2, <2>3, <2>4, StartsTyped
  <1>2. ASSUME NEW p \in Processes, RefreshGranted(p) PROVE Typed'
    <2>1. creds[p] \in Grant /\ creds[p].session \in Sessions
      BY <1>2 DEF RefreshGranted, Shape, Holding, Grant
    <2>2. TypeOK'
      BY <1>0, <1>2, <2>1 DEF RefreshGranted, Goes, TypeOK, files, Places, Saving, Grant, Sessions
    <2>3. Shape'
      BY <1>2, <2>1 DEF RefreshGranted, Goes, TypeOK, Shape, Holding, Saving, Grant, Sessions
    <2>. QED
      BY <2>2, <2>3 DEF Typed
  <1>3. ASSUME NEW p \in Processes, RefreshRefused(p) PROVE Typed'
    BY <1>0, <1>3, EndsTyped DEF RefreshRefused, Leaves, TypeOK, files, server
  <1>4. ASSUME NEW p \in Processes, LoginReuses(p) PROVE Typed'
    <2>1. "reusing" \in Places
      BY DEF Places
    <2>2. issued' \in [Sessions -> 0..MaxGrants] /\ UNCHANGED revoked
      BY <1>4 DEF LoginReuses, server, TypeOK
    <2>. QED
      BY <1>0, <1>4, <2>1, <2>2, StartsTyped DEF LoginReuses
  <1>5. ASSUME NEW p \in Processes, LoginAnew(p) PROVE Typed'
    <2>1. PICK s \in Sessions :
            NewSession(s) /\ Starts(p, "login", "verifying", [session |-> s, n |-> 1])
      BY <1>5 DEF LoginAnew
    <2>2. [session |-> s, n |-> 1] \in Grant
      BY DEF Grant
    <2>3. issued' \in [Sessions -> 0..MaxGrants] /\ UNCHANGED revoked
      BY <2>1 DEF NewSession, TypeOK
    <2>4. "verifying" \in Places
      BY DEF Places
    <2>. QED
      BY <1>0, <2>1, <2>2, <2>3, <2>4, StartsTyped
  <1>6. ASSUME NEW p \in Processes, ReuseConfirmed(p) \/ LoginConfirmed(p) PROVE Typed'
    <2>1. TypeOK'
      BY <1>0, <1>6 DEF ReuseConfirmed, LoginConfirmed, Goes, TypeOK, files, server, Places, Saving
    <2>2. Shape'
      BY <1>6 DEF ReuseConfirmed, LoginConfirmed, Goes, TypeOK, Shape, Holding, Saving
    <2>. QED
      BY <2>1, <2>2 DEF Typed
  <1>7. ASSUME NEW p \in Processes, ReuseFails(p) PROVE Typed'
    <2>1. PICK s \in Sessions :
            NewSession(s) /\ creds' = [creds EXCEPT ![p] = [session |-> s, n |-> 1]]
      BY <1>7 DEF ReuseFails
    <2>2. [session |-> s, n |-> 1] \in Grant
      BY DEF Grant
    <2>3. issued' \in [Sessions -> 0..MaxGrants]
      BY <2>1 DEF NewSession, TypeOK
    <2>4. TypeOK'
      BY <1>0, <1>7, <2>1, <2>2, <2>3 DEF ReuseFails, NewSession, Goes, TypeOK, files, Places
    <2>5. Shape'
      BY <1>7, <2>1, <2>2 DEF ReuseFails, Goes, TypeOK, Shape, Holding, Saving
    <2>. QED
      BY <2>4, <2>5 DEF Typed
  <1>9. ASSUME NEW p \in Processes, Open(p) PROVE Typed'
    <2>1. spoiled' \subseteq Sessions
      <3>1. \A q \in Processes : pc[q] \in Saving => creds[q].session \in Sessions
        BY DEF Shape, Holding, Grant
      <3>. QED
        BY <1>9, <3>1 DEF Open, Crossed, Writers, Saving, TypeOK
    <2>2. collided' \in BOOLEAN
      BY <1>9 DEF Open
    <2>3. PICK i \in Inodes : /\ tmp' = i /\ credentials' = credentials
                              /\ inode' = [inode EXCEPT ![i] = Cut]
                              /\ fd' = [fd EXCEPT ![p] = i]
      BY <1>9 DEF Open
    <2>4. pc' = [pc EXCEPT ![p] = "write"] /\ UNCHANGED <<cmd, cuts, behind, creds, issued, revoked>>
      BY <1>9 DEF Open, Goes, server
    <2>5. TypeOK'
      BY <1>0, <2>1, <2>2, <2>3, <2>4 DEF TypeOK, Content, Places, Saving
    <2>6. Shape'
      BY <1>9, <2>4 DEF Open, TypeOK, Shape, Holding, Saving
    <2>. QED
      BY <2>5, <2>6 DEF Typed
  <1>10. ASSUME NEW p \in Processes, Write(p) PROVE Typed'
    <2>1. creds[p] \in Grant
      BY <1>10 DEF Write, Shape, Holding, Saving
    <2>2. PICK c \in Content : Contents([inode EXCEPT ![fd[p]] = c])
      BY <1>10, <2>1 DEF Write, Content
    <2>3. inode' \in [Inodes -> Content]
      BY <2>2, ContentsTyped DEF TypeOK
    <2>4. TypeOK'
      BY <1>0, <1>10, <2>3 DEF Write, Goes, TypeOK, server, Places, Saving
    <2>5. Shape'
      BY <1>10 DEF Write, Goes, TypeOK, Shape, Holding, Saving
    <2>. QED
      BY <2>4, <2>5 DEF Typed
  <1>11. ASSUME NEW p \in Processes, Replace(p) PROVE Typed'
    <2>1. inode' \in [Inodes -> Content]
      BY <1>11, ContentsTyped DEF Replace, TypeOK, files
    <2>. QED
      BY <1>0, <1>11, <2>1, EndsTyped DEF Replace, TypeOK, files, server
  <1>12. ASSUME NEW p \in Processes, SignOut(p) PROVE Typed'
    <2>1. "revoking" \in Places
      BY DEF Places
    <2>2. issued' \in [Sessions -> 0..MaxGrants] /\ UNCHANGED revoked
      BY <1>12 DEF SignOut, server, TypeOK
    <2>. QED
      BY <1>0, <1>12, <2>1, <2>2, StartsTyped DEF SignOut
  <1>13. ASSUME NEW p \in Processes, Revoke(p) PROVE Typed'
    <2>1. revoked' \subseteq Sessions
      BY <1>13 DEF Revoke, TypeOK, Grant
    <2>2. TypeOK'
      BY <1>0, <1>13, <2>1 DEF Revoke, Goes, TypeOK, files, Places
    <2>3. Shape'
      BY <1>13 DEF Revoke, Goes, TypeOK, Shape, Holding, Saving
    <2>. QED
      BY <2>2, <2>3 DEF Typed
  <1>14. ASSUME NEW p \in Processes, Clear(p) PROVE Typed'
    BY <1>0, <1>14, EndsTyped, ContentsTyped DEF Clear, Leaves, TypeOK, server
  <1>15. ASSUME NEW p \in Processes, CutShort(p) \/ SaveFails(p) PROVE Typed'
    <2>1. inode' \in [Inodes -> Content]
      BY <1>15, ContentsTyped DEF CutShort, SaveFails, TypeOK
    <2>2. spoiled' \subseteq Sessions
      <3>1. pc[p] \in Saving => creds[p].session \in Sessions
        BY DEF Shape, Holding, Grant
      <3>. QED
        BY <1>15, <3>1 DEF CutShort, SaveFails, Drops, TypeOK
    <2>3. cuts' \in 0..MaxCuts
      BY <1>15 DEF CutShort, SaveFails, TypeOK
    <2>. QED
      BY <1>0, <1>15, <2>1, <2>2, <2>3, EndsTyped DEF CutShort, SaveFails, Leaves, TypeOK, server
  <1>18. CASE UNCHANGED vars
    BY <1>18 DEF Typed, TypeOK, Shape, vars, files, local, server, history
  <1>. QED
    BY <1>1, <1>2, <1>3, <1>4, <1>5, <1>6, <1>7, <1>9, <1>10, <1>11, <1>12, <1>13,
       <1>14, <1>15, <1>18 DEF Next

\* The types of the files, the processes and the server hold whatever
\* commands overlap and wherever they are cut short.
THEOREM TypeCorrect == Spec => []TypeOK
  <1>1. Spec => []Typed
    BY InitTyped, StepTyped, PTL DEF Spec
  <1>2. Typed => TypeOK
    BY DEF Typed
  <1>. QED
    BY <1>1, <1>2, PTL

-----------------------------------------------------------------------------
(* Whose file credentials.tmp is.                                          *)

\* p is about to save, and no save has crossed its own.
Clean(p) == ~collided \/ creds[p].session \notin spoiled

\* The two names are two files, and who has credentials.tmp and was not
\* crossed has it alone.
OwnFile ==
  /\ tmp # None => tmp # credentials
  /\ \A p \in Writers : Clean(p) =>
       /\ \A q \in Writers : q = p
       /\ tmp # None
       /\ pc[p] = "write" => fd[p] = tmp /\ inode[tmp] = Cut
       /\ pc[p] = "replace" => inode[tmp] = creds[p]

\* What was written and not yet renamed is a writer's own, or spoiled.
TmpOwned ==
  tmp # None /\ inode[tmp] \in Grant /\ inode[tmp].session \notin spoiled =>
    \E p \in Writers : pc[p] = "replace" /\ creds[p] = inode[tmp]

FilesInv == OwnFile /\ TmpOwned /\ FileStaysWhole

\* Neither the files nor their writers move.
LEMMA QuietFiles ==
  ASSUME FilesInv, UNCHANGED <<files, fd, collided, spoiled>>, Writers' = Writers,
         \A p \in Writers : creds'[p] = creds[p] /\ pc'[p] = pc[p]
  PROVE  FilesInv' /\ Stored' = Stored
  <1>1. UNCHANGED <<credentials, tmp, inode>> /\ Stored' = Stored
    BY DEF files, Stored
  <1>2. OwnFile'
    BY <1>1 DEF FilesInv, OwnFile, Clean
  <1>3. TmpOwned'
    BY <1>1 DEF FilesInv, TmpOwned
  <1>4. FileStaysWhole'
    BY <1>1 DEF FilesInv, FileStaysWhole
  <1>. QED
    BY <1>1, <1>2, <1>3, <1>4 DEF FilesInv

\* Of the files that have a name the contents stay.
LEMMA ContentsOfNamed ==
  ASSUME NEW c \in [Inodes -> Content], Contents(c)
  PROVE  /\ credentials' \in Inodes => inode'[credentials'] = c[credentials']
         /\ tmp' \in Inodes => inode'[tmp'] = c[tmp']
  BY DEF Contents, Gone

\* A process leaves; the stored file or the one it had may be removed.
LEMMA LeavesFiles ==
  ASSUME Typed, FilesInv, NEW p \in Processes, Ends(p),
         Contents(inode), collided' = collided, spoiled \subseteq spoiled',
         p \in Writers => creds[p].session \in spoiled',
         credentials' \in {credentials, None}, tmp' = tmp \/ (tmp' = None /\ p \in Writers)
  PROVE  FilesInv' /\ Stored' \in {Stored, None}
  <1>. TypeOK
    BY DEF Typed
  <1>1. /\ Writers' = Writers \ {p}
        /\ \A q \in Writers' : q \in Writers /\ q # p /\ creds'[q] = creds[q] /\ pc'[q] = pc[q]
                               /\ fd'[q] = fd[q]
    BY DEF Ends, Writers, TypeOK
  <1>2. /\ credentials' # None => credentials' = credentials /\ inode'[credentials'] = inode[credentials]
        /\ tmp' # None => tmp' = tmp /\ inode'[tmp'] = inode[tmp]
    BY ContentsOfNamed DEF TypeOK
  <1>3. Stored' \in {Stored, None}
    BY <1>2 DEF Stored
  <1>4. OwnFile'
    <2>1. tmp' # None => tmp' # credentials'
      BY <1>2 DEF FilesInv, OwnFile
    <2>2. ASSUME NEW q \in Writers', Clean(q)'
          PROVE  /\ \A r \in Writers' : r = q
                 /\ tmp' # None
                 /\ pc'[q] = "write" => fd'[q] = tmp' /\ inode'[tmp'] = Cut
                 /\ pc'[q] = "replace" => inode'[tmp'] = creds'[q]
      <3>1. q \in Writers /\ q # p /\ Clean(q)
        BY <1>1, <2>2 DEF Clean
      <3>2. (\A r \in Writers : r = q) /\ tmp # None /\ p \notin Writers
        BY <3>1 DEF FilesInv, OwnFile
      <3>3. tmp' = tmp /\ inode'[tmp] = inode[tmp]
        BY <3>2, <1>2
      <3>. QED
        BY <1>1, <3>1, <3>2, <3>3 DEF FilesInv, OwnFile
    <2>. QED
      BY <2>1, <2>2 DEF OwnFile
  <1>5. TmpOwned'
    <2>. SUFFICES ASSUME tmp' # None, inode'[tmp'] \in Grant, inode'[tmp'].session \notin spoiled'
                  PROVE  \E r \in Writers' : pc'[r] = "replace" /\ creds'[r] = inode'[tmp']
      BY DEF TmpOwned
    <2>1. tmp # None /\ inode[tmp] \in Grant /\ inode[tmp].session \notin spoiled
          /\ inode'[tmp'] = inode[tmp]
      BY <1>2
    <2>2. PICK r \in Writers : pc[r] = "replace" /\ creds[r] = inode[tmp]
      BY <2>1 DEF FilesInv, TmpOwned
    <2>3. r # p
      BY <2>1, <2>2
    <2>. QED
      BY <1>1, <2>1, <2>2, <2>3 DEF Ends, TypeOK
  <1>6. FileStaysWhole'
    BY <1>3 DEF FilesInv, FileStaysWhole, Content
  <1>. QED
    BY <1>3, <1>4, <1>5, <1>6 DEF FilesInv

LEMMA OpenFiles ==
  ASSUME Typed, FilesInv, NEW p \in Processes, Open(p)
  PROVE  /\ FilesInv' /\ Stored' = Stored /\ spoiled \subseteq spoiled'
         /\ p \in behind => creds[p].session \in spoiled'
  <1>. TypeOK
    BY DEF Typed
  <1>1. PICK i \in Inodes :
          /\ i # credentials /\ tmp' = i /\ credentials' = credentials
          /\ inode' = [inode EXCEPT ![i] = Cut] /\ fd' = [fd EXCEPT ![p] = i]
    BY DEF Open, Fresh, Unused, FilesInv, OwnFile
  <1>2. Stored' = Stored
    BY <1>1 DEF Stored, TypeOK
  <1>3. pc[p] = "open" /\ pc' = [pc EXCEPT ![p] = "write"] /\ creds' = creds
    BY DEF Open, Goes
  <1>4. Writers' = Writers \cup {p} /\ pc'[p] = "write"
    BY <1>3 DEF Writers, TypeOK
  <1>5. collided' = (collided \/ Writers # {}) /\ spoiled' = spoiled \cup Crossed(p)
    BY DEF Open
  <1>6. OwnFile'
    <2>1. tmp' # None /\ tmp' # credentials'
      BY <1>1
    <2>2. CASE Writers = {}
      BY <1>1, <1>3, <1>4, <2>1, <2>2 DEF OwnFile, TypeOK
    <2>3. CASE Writers # {}
      <3>1. collided'
        BY <1>5, <2>3
      <3>2. \A q \in Writers' : creds'[q].session \in spoiled'
        BY <1>3, <1>4, <1>5, <2>3 DEF Crossed
      <3>3. \A q \in Writers' : ~Clean(q)'
        BY <3>1, <3>2 DEF Clean
      <3>. QED
        BY <2>1, <3>3 DEF OwnFile
    <2>. QED
      BY <2>2, <2>3
  <1>7. TmpOwned'
    BY <1>1 DEF TmpOwned, TypeOK
  <1>8. FileStaysWhole'
    BY <1>2, <1>5 DEF FilesInv, FileStaysWhole
  <1>. QED
    BY <1>2, <1>5, <1>6, <1>7, <1>8 DEF FilesInv, Crossed

LEMMA WriteFiles ==
  ASSUME Typed, FilesInv, NEW p \in Processes, Write(p)
  PROVE  /\ FilesInv' /\ (Clean(p) => Stored' = Stored)
         /\ Stored' = Stored \/ Stored' = Cut \/ Stored' = creds[p]
  <1>. TypeOK /\ Shape
    BY DEF Typed
  <1>1. pc[p] = "write" /\ p \in Writers /\ creds[p] \in Grant
    BY DEF Write, Writers, Shape, Holding, Saving
  <1>2. /\ fd' = [fd EXCEPT ![p] = None] /\ UNCHANGED <<credentials, tmp, creds, collided, spoiled>>
        /\ pc' = [pc EXCEPT ![p] = "replace"]
    BY DEF Write, Goes
  <1>3. PICK c : /\ c = creds[p] \/ (c = Cut /\ inode[fd[p]] # Cut)
                 /\ Contents([inode EXCEPT ![fd[p]] = c])
    BY DEF Write
  <1>. DEFINE w == [inode EXCEPT ![fd[p]] = c]
  <1>4. w \in [Inodes -> Content]
    BY <1>1, <1>3 DEF TypeOK, Content
  <1>5. /\ credentials # None => inode'[credentials] = w[credentials]
        /\ tmp # None => inode'[tmp] = w[tmp]
    BY <1>2, <1>3, <1>4, ContentsOfNamed DEF TypeOK
  <1>6. /\ credentials # None /\ credentials # fd[p] => inode'[credentials] = inode[credentials]
        /\ credentials # None /\ credentials = fd[p] => inode'[credentials] = c
        /\ tmp # None /\ tmp # fd[p] => inode'[tmp] = inode[tmp]
        /\ tmp # None /\ tmp = fd[p] => inode'[tmp] = c
    BY <1>5 DEF TypeOK
  <1>. HIDE DEF w
  <1>7. Stored' = Stored \/ Stored' = Cut \/ Stored' = creds[p]
    BY <1>2, <1>3, <1>6 DEF Stored
  <1>8. Writers' = Writers /\ \A q \in Writers : q # p => pc'[q] = pc[q]
    BY <1>1, <1>2 DEF Writers, TypeOK
  <1>9. CASE Clean(p)
    <2>1. (\A q \in Writers : q = p) /\ tmp # None /\ fd[p] = tmp /\ inode[tmp] = Cut
          /\ tmp # credentials
      BY <1>1, <1>9 DEF FilesInv, OwnFile
    <2>2. inode'[tmp] = creds[p] /\ Stored' = Stored
      BY <2>1, <1>2, <1>3, <1>6 DEF Stored
    <2>3. OwnFile' /\ TmpOwned'
      BY <1>1, <1>2, <1>8, <2>1, <2>2 DEF OwnFile, TmpOwned, TypeOK
    <2>4. FileStaysWhole'
      BY <1>2, <2>2 DEF FilesInv, FileStaysWhole
    <2>. QED
      BY <1>7, <2>2, <2>3, <2>4 DEF FilesInv
  <1>10. CASE ~Clean(p)
    <2>1. collided /\ creds[p].session \in spoiled
      BY <1>10 DEF Clean
    <2>2. \A q \in Writers : ~Clean(q)
      BY <1>1, <1>10 DEF FilesInv, OwnFile
    <2>3. OwnFile'
      BY <1>2, <1>8, <2>2 DEF FilesInv, OwnFile, Clean
    <2>4. TmpOwned'
      <3>. SUFFICES ASSUME tmp # None, inode'[tmp] \in Grant, inode'[tmp].session \notin spoiled
                    PROVE  FALSE
        BY <1>2 DEF TmpOwned
      <3>1. tmp # fd[p]
        BY <1>3, <1>6, <2>1
      <3>2. PICK r \in Writers : pc[r] = "replace" /\ creds[r] = inode[tmp]
        BY <3>1, <1>6 DEF FilesInv, TmpOwned
      <3>3. Clean(r)
        BY <3>1, <3>2, <1>6 DEF Clean
      <3>. QED
        BY <2>2, <3>3
    <2>5. FileStaysWhole'
      BY <1>2, <2>1 DEF FileStaysWhole
    <2>. QED
      BY <1>7, <1>10, <2>3, <2>4, <2>5 DEF FilesInv
  <1>. QED
    BY <1>9, <1>10

\* Who was not crossed puts its own credentials in place; of who was, they
\* are spoiled.
LEMMA ReplaceFiles ==
  ASSUME Typed, FilesInv, NEW p \in Processes, Replace(p)
  PROVE  /\ FilesInv'
         /\ Clean(p) => tmp # None /\ Stored' = creds[p] /\ credentials' # credentials
         /\ ~Clean(p) => \/ tmp = None /\ Stored' = Stored
                         \/ Stored' \in Grant => Stored'.session \in spoiled
  <1>. TypeOK /\ Shape
    BY DEF Typed
  <1>1. pc[p] = "replace" /\ p \in Writers /\ creds[p] \in Grant /\ Ends(p)
        /\ UNCHANGED <<collided, spoiled>>
    BY DEF Replace, Writers, Shape, Holding, Saving
  <1>2. /\ Writers' = Writers \ {p}
        /\ \A q \in Writers' : q \in Writers /\ q # p /\ creds'[q] = creds[q]
    BY <1>1 DEF Ends, Writers, TypeOK
  <1>3. \A q \in Writers' : ~Clean(q)'
    BY <1>1, <1>2 DEF FilesInv, OwnFile, Clean
  <1>4. CASE tmp = None
    <2>1. UNCHANGED <<credentials, tmp, inode>> /\ Stored' = Stored
      BY <1>4 DEF Replace, files, Stored
    <2>2. ~Clean(p)
      BY <1>1, <1>4 DEF FilesInv, OwnFile
    <2>3. OwnFile' /\ TmpOwned'
      BY <1>3, <1>4, <2>1 DEF OwnFile, TmpOwned
    <2>4. FileStaysWhole'
      BY <1>1, <2>1 DEF FilesInv, FileStaysWhole
    <2>. QED
      BY <1>4, <2>1, <2>2, <2>3, <2>4 DEF FilesInv
  <1>5. CASE tmp # None
    <2>1. credentials' = tmp /\ tmp' = None /\ Contents(inode)
      BY <1>5 DEF Replace
    <2>2. Stored' = inode[tmp] /\ credentials' # credentials
      BY <1>5, <2>1, ContentsOfNamed DEF Stored, TypeOK, FilesInv, OwnFile
    <2>3. Clean(p) => Stored' = creds[p]
      BY <1>1, <2>2 DEF FilesInv, OwnFile
    <2>4. ~Clean(p) => (Stored' \in Grant => Stored'.session \in spoiled)
      <3>. SUFFICES ASSUME ~Clean(p), Stored' \in Grant, Stored'.session \notin spoiled PROVE FALSE
        OBVIOUS
      <3>1. PICK r \in Writers : pc[r] = "replace" /\ creds[r] = inode[tmp]
        BY <1>5, <2>2 DEF FilesInv, TmpOwned
      <3>2. Clean(r)
        BY <3>1, <2>2 DEF Clean
      <3>. QED
        BY <1>1, <3>2 DEF FilesInv, OwnFile
    <2>5. OwnFile' /\ TmpOwned'
      BY <1>3, <2>1 DEF OwnFile, TmpOwned
    <2>6. FileStaysWhole'
      BY <1>1, <2>3, CutAssumption DEF FileStaysWhole, Clean
    <2>. QED
      BY <1>5, <2>2, <2>3, <2>4, <2>5, <2>6 DEF FilesInv
  <1>. QED
    BY <1>4, <1>5

-----------------------------------------------------------------------------
(* Who holds the newest grant.                                             *)

Counts(g) == g.n <= issued[g.session]

\* No grant is ahead of the server's count.
Counted ==
  /\ \A i \in Inodes : inode[i] \in Grant => Counts(inode[i])
  /\ \A p \in Processes : pc[p] \in Holding => Counts(creds[p])

\* A writer that was overtaken has spoiled its session.
BehindSpoiled == \A p \in Writers : p \in behind => creds[p].session \in spoiled

\* Under rotation a refresher that was granted its refresh is ahead of
\* everybody else with a grant of its session, and of the stored one.
Ahead ==
  rotates => \A p \in Processes :
    pc[p] \in Saving /\ cmd[p] = "refresh" /\ creds[p].session \notin spoiled =>
      /\ creds[p].n = issued[creds[p].session]
      /\ \A q \in Processes \ {p} :
           pc[q] \in Holding /\ creds[q].session = creds[p].session => creds[q].n < creds[p].n
      /\ Stored \in Grant /\ Stored.session = creds[p].session => Stored.n < creds[p].n

\* What a login is going to save may be saved, until it is overtaken.
LoginKept ==
  \A p \in Processes :
    cmd[p] = "login" /\ pc[p] \in Holding /\ p \notin behind /\ creds[p].session \notin spoiled =>
      Kept(creds[p])

SessionInv == BehindSpoiled /\ Ahead /\ LoginKept /\ NewestIsKept

IInv == Typed /\ FilesInv /\ Counted /\ SessionInv

LEMMA CountsType ==
  ASSUME Typed, NEW g \in Grant
  PROVE  /\ g.session \in Sessions /\ g.n \in Nat /\ g.n >= 1 /\ issued[g.session] \in Nat
         /\ Counts(g) => issued[g.session] # 0
  BY DEF Typed, TypeOK, Grant, Counts, Sessions

\* An old grant is still counted, and a file holds an old one or a holder's.
LEMMA CountedStays ==
  ASSUME Typed, Counted, Typed', \A s \in Sessions : issued[s] <= issued'[s],
         \A i \in Inodes : inode'[i] \in Grant =>
           \/ \E j \in Inodes : inode'[i] = inode[j]
           \/ \E p \in Processes : pc[p] \in Holding /\ inode'[i] = creds[p],
         \A p \in Processes : pc'[p] \in Holding =>
           \/ pc[p] \in Holding /\ creds'[p] = creds[p]
           \/ Stored \in Grant /\ creds'[p] = Stored
           \/ creds'[p].n = issued'[creds'[p].session]
  PROVE  Counted'
  <1>. TypeOK /\ Shape /\ TypeOK' /\ Shape'
    BY DEF Typed
  <1>1. ASSUME NEW g \in Grant, Counts(g) PROVE Counts(g)'
    <2>1. g.session \in Sessions /\ g.n \in Nat
      BY DEF Grant
    <2>2. issued[g.session] \in Nat /\ issued'[g.session] \in Nat
      BY <2>1 DEF TypeOK
    <2>. QED
      BY <1>1, <2>1, <2>2 DEF Counts
  <1>2. ASSUME NEW i \in Inodes, inode'[i] \in Grant PROVE Counts(inode[i])'
    <2>1. Counts(inode'[i])
      BY <1>2 DEF Counted
    <2>. QED
      BY <1>1, <1>2, <2>1 DEF Counts
  <1>3. ASSUME NEW p \in Processes, pc'[p] \in Holding PROVE Counts(creds[p])'
    <2>1. creds'[p] \in Grant
      BY <1>3 DEF Shape
    <2>2. CASE pc[p] \in Holding /\ creds'[p] = creds[p]
      BY <1>1, <2>1, <2>2 DEF Counted, Counts
    <2>3. CASE Stored \in Grant /\ creds'[p] = Stored
      <3>1. credentials \in Inodes /\ Stored = inode[credentials]
        BY <2>3 DEF Stored, TypeOK, Content
      <3>2. Counts(Stored)
        BY <2>3, <3>1 DEF Counted
      <3>. QED
        BY <1>1, <2>3, <3>2 DEF Counts
    <2>4. CASE creds'[p].n = issued'[creds'[p].session]
      <3>1. issued'[creds'[p].session] \in Nat
        BY <2>1 DEF Grant, TypeOK
      <3>. QED
        BY <2>4, <3>1 DEF Counts
    <2>. QED
      BY <1>3, <2>2, <2>3, <2>4
  <1>. QED
    BY <1>2, <1>3 DEF Counted

\* What is stored is counted, too.
LEMMA StoredCounts ==
  ASSUME Typed, Counted, Stored \in Grant
  PROVE  Counts(Stored)
  BY DEF Typed, TypeOK, Counted, Stored, Content

\* A grant is still kept if its session's count stays and its savers do.
LEMMA KeptStays ==
  ASSUME NEW g, Kept(g), rotates' = rotates, revoked \subseteq revoked',
         issued'[g.session] = issued[g.session],
         \A p \in Processes : pc[p] \in Saving /\ creds[p].session = g.session =>
                                pc'[p] \in Saving /\ creds'[p] = creds[p]
  PROVE  Kept(g)'
  BY DEF Kept, Usable

\* The count of a session is its newest grant's, which its holder will save.
LEMMA NewestIsUsable ==
  ASSUME NEW g, g.n = issued[g.session] \/ ~rotates
  PROVE  g.session \in revoked \/ Usable(g)
  BY DEF Usable

\* A process comes with the stored credentials, or moves on with its own.
LEMMA MovesSession ==
  ASSUME IInv, NEW p \in Processes, NEW command, NEW place, NEW g,
         cmd' = [cmd EXCEPT ![p] = command], pc' = [pc EXCEPT ![p] = place],
         creds' = [creds EXCEPT ![p] = g],
         UNCHANGED <<issued, rotates, behind>>, revoked \subseteq revoked',
         spoiled \subseteq spoiled', Stored' = Stored,
         Writers' = Writers \/ (pc[p] = "open" /\ Writers' = Writers \cup {p}
                                /\ (p \in behind => creds[p].session \in spoiled')),
         \/ g = creds[p] /\ command = cmd[p] /\ pc[p] \in Saving /\ place \in Saving
         \/ g = creds[p] /\ command = cmd[p] /\ cmd[p] = "login" /\ pc[p] \in Holding \ Saving
            /\ place \in Holding
         \/ g = Stored /\ g \in Grant /\ pc[p] = "idle" /\ place \in Holding \ Saving
         \/ place \notin Holding /\ pc[p] \notin Holding
  PROVE  SessionInv'
  <1>. Typed /\ TypeOK /\ Shape /\ SessionInv
    BY DEF IInv, Typed
  <1>1. /\ \A q \in Processes : q # p => pc'[q] = pc[q] /\ cmd'[q] = cmd[q] /\ creds'[q] = creds[q]
        /\ pc'[p] = place /\ cmd'[p] = command /\ creds'[p] = g
    BY DEF TypeOK
  <1>2. \A q \in Processes : pc[q] \in Saving => pc'[q] \in Saving /\ creds'[q] = creds[q]
    BY <1>1 DEF Holding, Saving
  <1>3. ASSUME NEW h, Kept(h) PROVE Kept(h)'
    BY <1>2, <1>3, KeptStays
  <1>4. BehindSpoiled'
    BY <1>1 DEF SessionInv, BehindSpoiled, Writers, Saving, Holding
  <1>5. Ahead'
    <2>. SUFFICES ASSUME rotates, NEW r \in Processes, pc'[r] \in Saving, cmd'[r] = "refresh",
                         creds'[r].session \notin spoiled'
                  PROVE  /\ creds'[r].n = issued'[creds'[r].session]
                         /\ \A q \in Processes \ {r} :
                              pc'[q] \in Holding /\ creds'[q].session = creds'[r].session =>
                                creds'[q].n < creds'[r].n
                         /\ Stored' \in Grant /\ Stored'.session = creds'[r].session =>
                              Stored'.n < creds'[r].n
      BY DEF Ahead
    <2>1. pc[r] \in Saving /\ cmd[r] = "refresh" /\ creds'[r] = creds[r]
          /\ creds[r].session \notin spoiled
      BY <1>1 DEF Holding, Saving
    <2>2. /\ creds[r].n = issued[creds[r].session]
          /\ \A q \in Processes \ {r} :
               pc[q] \in Holding /\ creds[q].session = creds[r].session => creds[q].n < creds[r].n
          /\ Stored \in Grant /\ Stored.session = creds[r].session => Stored.n < creds[r].n
      BY <2>1 DEF SessionInv, Ahead
    <2>3. ASSUME NEW q \in Processes \ {r}, pc'[q] \in Holding,
                 creds'[q].session = creds[r].session
          PROVE  creds'[q].n < creds[r].n
      BY <1>1, <2>2, <2>3 DEF Holding, Saving
    <2>. QED
      BY <2>1, <2>2, <2>3
  <1>6. LoginKept'
    <2>. SUFFICES ASSUME NEW q \in Processes, cmd'[q] = "login", pc'[q] \in Holding,
                         q \notin behind, creds'[q].session \notin spoiled
                  PROVE  Kept(creds[q])'
      BY DEF LoginKept
    <2>1. CASE creds'[q] = creds[q] /\ cmd[q] = "login" /\ pc[q] \in Holding
      <3>1. Kept(creds[q])
        BY <2>1 DEF SessionInv, LoginKept
      <3>2. \A h : h = creds[q] => Kept(h)'
        BY <1>3, <3>1
      <3>. QED
        BY <2>1, <3>2 DEF Kept, Usable
    <2>2. CASE creds'[q] = Stored /\ Stored \in Grant
      <3>1. Kept(Stored)
        BY <2>2 DEF SessionInv, NewestIsKept
      <3>2. \A h : h = Stored => Kept(h)'
        BY <1>3, <3>1
      <3>. QED
        BY <2>2, <3>2 DEF Kept, Usable
    <2>3. \/ creds'[q] = creds[q] /\ cmd[q] = "login" /\ pc[q] \in Holding
          \/ creds'[q] = Stored /\ Stored \in Grant
      BY <1>1 DEF Holding, Saving
    <2>. QED
      BY <2>1, <2>2, <2>3
  <1>7. NewestIsKept'
    <2>. SUFFICES ASSUME Stored \in Grant, Stored.session \notin spoiled PROVE Kept(Stored)'
      BY DEF NewestIsKept
    <2>1. Kept(Stored)
      BY DEF SessionInv, NewestIsKept
    <2>2. \A h : h = Stored => Kept(h)'
      BY <1>3, <2>1
    <2>. QED
      BY <2>2 DEF Kept, Usable
  <1>. QED
    BY <1>4, <1>5, <1>6, <1>7 DEF SessionInv

\* A login comes, or goes on, with a session that nobody has a grant of.
LEMMA AnewSession ==
  ASSUME IInv, NEW p \in Processes, NEW s \in Sessions, NewSession(s),
         cmd' = [cmd EXCEPT ![p] = "login"], pc' = [pc EXCEPT ![p] = "verifying"],
         creds' = [creds EXCEPT ![p] = [session |-> s, n |-> 1]], pc[p] \notin Saving,
         UNCHANGED <<files, rotates, behind, collided, spoiled>>
  PROVE  SessionInv'
  <1>. Typed /\ TypeOK /\ Shape /\ SessionInv /\ Counted
    BY DEF IInv, Typed
  <1>1. /\ \A q \in Processes : q # p => pc'[q] = pc[q] /\ cmd'[q] = cmd[q] /\ creds'[q] = creds[q]
        /\ pc'[p] = "verifying" /\ creds'[p] = [session |-> s, n |-> 1]
    BY DEF TypeOK
  <1>2. /\ issued[s] = 0 /\ issued' = [issued EXCEPT ![s] = 1] /\ revoked' = revoked
        /\ Stored' = Stored
    BY DEF NewSession, files, Stored
  <1>3. \A g \in Grant : Counts(g) => g.session # s /\ issued'[g.session] = issued[g.session]
    BY <1>2, CountsType DEF TypeOK
  <1>4. ASSUME NEW g \in Grant, Kept(g), Counts(g) PROVE Kept(g)'
    <2>1. \A q \in Processes : pc[q] \in Saving => pc'[q] \in Saving /\ creds'[q] = creds[q]
      BY <1>1
    <2>. QED
      BY <1>2, <1>3, <1>4, <2>1, KeptStays
  <1>5. \A q \in Processes : pc[q] \in Holding => creds[q] \in Grant /\ Counts(creds[q])
    BY DEF Shape, Counted
  <1>6. BehindSpoiled'
    BY <1>1 DEF SessionInv, BehindSpoiled, Writers, Saving
  <1>7. Ahead'
    <2>. SUFFICES ASSUME rotates, NEW r \in Processes, pc'[r] \in Saving, cmd'[r] = "refresh",
                         creds'[r].session \notin spoiled
                  PROVE  /\ creds'[r].n = issued'[creds'[r].session]
                         /\ \A q \in Processes \ {r} :
                              pc'[q] \in Holding /\ creds'[q].session = creds'[r].session =>
                                creds'[q].n < creds'[r].n
                         /\ Stored' \in Grant /\ Stored'.session = creds'[r].session =>
                              Stored'.n < creds'[r].n
      BY DEF Ahead
    <2>1. r # p /\ pc[r] \in Saving /\ cmd[r] = "refresh" /\ creds'[r] = creds[r]
      BY <1>1 DEF Saving
    <2>2. /\ creds[r].n = issued[creds[r].session]
          /\ \A q \in Processes \ {r} :
               pc[q] \in Holding /\ creds[q].session = creds[r].session => creds[q].n < creds[r].n
          /\ Stored \in Grant /\ Stored.session = creds[r].session => Stored.n < creds[r].n
      BY <2>1 DEF SessionInv, Ahead
    <2>3. creds[r].session # s /\ issued'[creds[r].session] = issued[creds[r].session]
      BY <1>3, <1>5, <2>1 DEF Holding
    <2>4. ASSUME NEW q \in Processes \ {r}, pc'[q] \in Holding,
                 creds'[q].session = creds[r].session
          PROVE  creds'[q].n < creds[r].n
      <3>1. q # p
        BY <1>1, <2>3, <2>4
      <3>. QED
        BY <1>1, <2>2, <2>4, <3>1
    <2>. QED
      BY <1>2, <2>1, <2>2, <2>3, <2>4
  <1>8. LoginKept'
    <2>. SUFFICES ASSUME NEW q \in Processes, cmd'[q] = "login", pc'[q] \in Holding,
                         q \notin behind, creds'[q].session \notin spoiled
                  PROVE  Kept(creds[q])'
      BY DEF LoginKept
    <2>1. CASE q # p
      <3>1. Kept(creds[q]) /\ creds[q] \in Grant /\ Counts(creds[q]) /\ creds'[q] = creds[q]
        BY <1>1, <1>5, <2>1 DEF SessionInv, LoginKept
      <3>2. \A h \in Grant : h = creds[q] => Kept(h)'
        BY <1>4, <3>1
      <3>. QED
        BY <3>1, <3>2 DEF Kept, Usable
    <2>2. CASE q = p
      BY <1>1, <1>2, <2>2 DEF Kept, Usable, TypeOK
    <2>. QED
      BY <2>1, <2>2
  <1>9. NewestIsKept'
    <2>. SUFFICES ASSUME Stored \in Grant, Stored.session \notin spoiled PROVE Kept(Stored)'
      BY <1>2 DEF NewestIsKept
    <2>1. Kept(Stored) /\ Counts(Stored)
      BY StoredCounts DEF SessionInv, NewestIsKept
    <2>2. \A h \in Grant : h = Stored => Kept(h)'
      BY <1>4, <2>1
    <2>. QED
      BY <1>2, <2>2 DEF Kept, Usable
  <1>. QED
    BY <1>6, <1>7, <1>8, <1>9 DEF SessionInv

\* The server takes a refresh token of nobody but who is not behind.
LEMMA GrantedSession ==
  ASSUME IInv, NEW p \in Processes, RefreshGranted(p), rotates' = rotates
  PROVE  SessionInv'
  <1>. Typed /\ TypeOK /\ Shape /\ SessionInv /\ Counted
    BY DEF IInv, Typed
  <1>1. PICK s \in Sessions :
          /\ s = creds[p].session /\ creds[p] \in Grant /\ cmd[p] = "refresh"
          /\ issued' = [issued EXCEPT ![s] = @ + 1]
          /\ creds' = [creds EXCEPT ![p] = [session |-> s, n |-> issued[s] + 1]]
    BY DEF RefreshGranted, Shape, Holding, Grant
  <1>2. /\ pc[p] = "refreshing" /\ pc' = [pc EXCEPT ![p] = "open"] /\ cmd' = cmd
        /\ UNCHANGED <<behind, spoiled, revoked>> /\ Stored' = Stored
    BY DEF RefreshGranted, Goes, files, Stored
  <1>3. /\ \A q \in Processes : q # p => pc'[q] = pc[q] /\ creds'[q] = creds[q]
        /\ pc'[p] = "open" /\ creds'[p] = [session |-> s, n |-> issued[s] + 1]
        /\ issued'[s] = issued[s] + 1 /\ issued[s] \in Nat
        /\ \A t \in Sessions : t # s => issued'[t] = issued[t]
    BY <1>1, <1>2 DEF TypeOK
  <1>4. ASSUME NEW g, g.session \in Sessions, Kept(g) PROVE Kept(g)'
    <2>1. CASE g.session = s
      BY <1>3, <2>1 DEF Kept, Saving
    <2>2. CASE g.session # s
      <3>1. \A q \in Processes : pc[q] \in Saving /\ creds[q].session = g.session =>
              pc'[q] \in Saving /\ creds'[q] = creds[q]
        BY <1>2, <1>3 DEF Saving
      <3>. QED
        BY <1>2, <1>3, <1>4, <2>2, <3>1, KeptStays
    <2>. QED
      BY <2>1, <2>2
  <1>5. BehindSpoiled'
    BY <1>2, <1>3 DEF SessionInv, BehindSpoiled, Writers
  <1>6. Ahead'
    <2>. SUFFICES ASSUME rotates, NEW r \in Processes, pc'[r] \in Saving, cmd'[r] = "refresh",
                         creds'[r].session \notin spoiled
                  PROVE  /\ creds'[r].n = issued'[creds'[r].session]
                         /\ \A q \in Processes \ {r} :
                              pc'[q] \in Holding /\ creds'[q].session = creds'[r].session =>
                                creds'[q].n < creds'[r].n
                         /\ Stored' \in Grant /\ Stored'.session = creds'[r].session =>
                              Stored'.n < creds'[r].n
      BY <1>2 DEF Ahead
    <2>1. CASE r = p
      <3>1. creds'[r].n = issued[s] + 1 /\ creds'[r].session = s
        BY <1>3, <2>1
      <3>2. ASSUME NEW g \in Grant, Counts(g), g.session = s PROVE g.n < issued[s] + 1
        BY <1>3, <3>2 DEF Counts, Grant
      <3>3. ASSUME NEW q \in Processes \ {r}, pc'[q] \in Holding, creds'[q].session = s
            PROVE  creds'[q].n < issued[s] + 1
        <4>1. creds'[q] = creds[q] /\ creds[q] \in Grant /\ Counts(creds[q])
          BY <1>3, <2>1, <3>3 DEF Shape, Counted
        <4>. QED
          BY <3>2, <3>3, <4>1
      <3>4. Stored' \in Grant /\ Stored'.session = s => Stored'.n < issued[s] + 1
        BY <1>2, <3>2, StoredCounts
      <3>. QED
        BY <1>3, <3>1, <3>3, <3>4
    <2>2. CASE r # p
      <3>1. pc[r] \in Saving /\ cmd[r] = "refresh" /\ creds'[r] = creds[r]
        BY <1>2, <1>3, <2>2
      <3>2. /\ creds[r].n = issued[creds[r].session]
            /\ \A q \in Processes \ {r} :
                 pc[q] \in Holding /\ creds[q].session = creds[r].session => creds[q].n < creds[r].n
            /\ Stored \in Grant /\ Stored.session = creds[r].session => Stored.n < creds[r].n
        BY <3>1 DEF SessionInv, Ahead
      <3>3. creds[p].n = issued[s] /\ pc[p] \in Holding
        BY <1>1, <1>2 DEF RefreshGranted, Usable, Holding
      <3>4. creds[r].session # s
        BY <1>1, <1>3, <2>2, <3>2, <3>3
      <3>5. creds[r].session \in Sessions
        BY <3>1 DEF Shape, Holding, Grant
      <3>6. ASSUME NEW q \in Processes \ {r}, pc'[q] \in Holding,
                   creds'[q].session = creds[r].session
            PROVE  creds'[q].n < creds[r].n
        <4>1. q # p
          BY <1>3, <3>4, <3>6
        <4>. QED
          BY <1>3, <3>2, <3>6, <4>1
      <3>. QED
        BY <1>2, <1>3, <3>1, <3>2, <3>4, <3>5, <3>6
    <2>. QED
      BY <2>1, <2>2
  <1>7. LoginKept'
    <2>. SUFFICES ASSUME NEW q \in Processes, cmd[q] = "login", pc'[q] \in Holding,
                         q \notin behind, creds'[q].session \notin spoiled
                  PROVE  Kept(creds[q])'
      BY <1>2 DEF LoginKept
    <2>1. q # p /\ creds'[q] = creds[q] /\ pc[q] \in Holding
      BY <1>1, <1>3
    <2>2. Kept(creds[q]) /\ creds[q].session \in Sessions
      BY <2>1 DEF SessionInv, LoginKept, Shape, Grant
    <2>3. \A h : h = creds[q] => Kept(h)'
      BY <1>4, <2>2
    <2>. QED
      BY <2>1, <2>3 DEF Kept, Usable
  <1>8. NewestIsKept'
    <2>. SUFFICES ASSUME Stored \in Grant, Stored.session \notin spoiled PROVE Kept(Stored)'
      BY <1>2 DEF NewestIsKept
    <2>1. Kept(Stored) /\ Stored.session \in Sessions
      BY DEF SessionInv, NewestIsKept, Grant
    <2>2. \A h : h = Stored => Kept(h)'
      BY <1>4, <2>1
    <2>. QED
      BY <1>2, <2>2 DEF Kept, Usable
  <1>. QED
    BY <1>5, <1>6, <1>7, <1>8 DEF SessionInv

\* What a write does to the stored file spoils only the writer's session, and
\* who leaves takes its grant along.
LEMMA LeavesSession ==
  ASSUME IInv, NEW p \in Processes, UNCHANGED <<issued, rotates, revoked>>,
         spoiled \subseteq spoiled',
         \A q \in Processes \ {p} : cmd'[q] = cmd[q] /\ pc'[q] = pc[q] /\ creds'[q] = creds[q],
         pc'[p] = "idle" \/ (pc[p] = "write" /\ pc'[p] = "replace" /\ creds'[p] = creds[p]
                             /\ cmd'[p] = cmd[p]),
         pc'[p] = "idle" /\ pc[p] \in Saving => creds[p].session \in spoiled',
         behind' \cup {p} = behind \cup {p}, behind' \subseteq behind,
         pc'[p] # "idle" => behind' = behind,
         \/ Stored' = Stored
         \/ Stored' \in Grant => Stored'.session \in spoiled'
  PROVE  SessionInv'
  <1>. Typed /\ TypeOK /\ Shape /\ SessionInv
    BY DEF IInv, Typed
  <1>1. \A q \in Processes :
          pc'[q] \in Holding => pc[q] \in Holding /\ creds'[q] = creds[q] /\ cmd'[q] = cmd[q]
    BY DEF Holding, Saving
  <1>2. \A q \in Processes : pc'[q] \in Saving => pc[q] \in Saving
    BY DEF Holding, Saving
  <1>3. ASSUME NEW g, Kept(g), g.session \notin spoiled' PROVE Kept(g)'
    <2>1. \A q \in Processes : pc[q] \in Saving /\ creds[q].session = g.session =>
            pc'[q] \in Saving /\ creds'[q] = creds[q]
      BY <1>3 DEF Saving
    <2>. QED
      BY <1>3, <2>1, KeptStays
  <1>4. BehindSpoiled'
    BY DEF SessionInv, BehindSpoiled, Writers
  <1>5. Ahead'
    BY <1>1, <1>2 DEF SessionInv, Ahead, Holding
  <1>6. LoginKept'
    <2>. SUFFICES ASSUME NEW q \in Processes, cmd'[q] = "login", pc'[q] \in Holding,
                         q \notin behind', creds'[q].session \notin spoiled'
                  PROVE  Kept(creds[q])'
      BY DEF LoginKept
    <2>1. pc[q] \in Holding /\ creds'[q] = creds[q] /\ cmd[q] = "login" /\ q \notin behind
      BY <1>1 DEF Holding, Saving
    <2>2. Kept(creds[q]) /\ creds[q].session \notin spoiled'
      BY <2>1 DEF SessionInv, LoginKept
    <2>3. \A h : h = creds[q] => Kept(h)'
      BY <1>3, <2>2
    <2>. QED
      BY <2>1, <2>3 DEF Kept, Usable
  <1>7. NewestIsKept'
    <2>. SUFFICES ASSUME Stored' = Stored, Stored \in Grant, Stored.session \notin spoiled'
                  PROVE  Kept(Stored)'
      BY DEF NewestIsKept
    <2>1. Kept(Stored)
      BY DEF SessionInv, NewestIsKept
    <2>2. \A h : h = Stored => Kept(h)'
      BY <1>3, <2>1
    <2>. QED
      BY <2>2 DEF Kept, Usable
  <1>. QED
    BY <1>4, <1>5, <1>6, <1>7 DEF SessionInv

LEMMA ReplaceSession ==
  ASSUME IInv, NEW p \in Processes, Replace(p), rotates' = rotates
  PROVE  SessionInv'
  <1>. Typed /\ TypeOK /\ Shape /\ SessionInv /\ FilesInv
    BY DEF IInv, Typed
  <1>1. /\ pc[p] = "replace" /\ p \in Writers /\ pc[p] \in Saving /\ pc[p] \in Holding
        /\ UNCHANGED <<issued, revoked, spoiled, collided>> /\ Ends(p)
    BY DEF Replace, server, Writers, Saving, Holding
  <1>2. /\ \A q \in Processes \ {p} : cmd'[q] = cmd[q] /\ pc'[q] = pc[q] /\ creds'[q] = creds[q]
        /\ pc'[p] = "idle"
    BY <1>1 DEF Ends, TypeOK
  <1>3. /\ Clean(p) => tmp # None /\ Stored' = creds[p]
        /\ ~Clean(p) => \/ tmp = None /\ Stored' = Stored
                        \/ Stored' \in Grant => Stored'.session \in spoiled
    BY ReplaceFiles
  <1>4. ASSUME NEW g, Kept(g), g.session # creds[p].session PROVE Kept(g)'
    <2>1. \A q \in Processes : pc[q] \in Saving /\ creds[q].session = g.session =>
            pc'[q] \in Saving /\ creds'[q] = creds[q]
      BY <1>2, <1>4
    <2>. QED
      BY <1>1, <1>4, <2>1, KeptStays
  <1>5. BehindSpoiled'
    <2>. SUFFICES ASSUME NEW q \in Writers', q \in behind' PROVE creds'[q].session \in spoiled
      BY <1>1 DEF BehindSpoiled
    <2>1. q # p /\ q \in Writers /\ creds'[q] = creds[q]
      BY <1>2 DEF Writers
    <2>2. ~Clean(q)
      BY <1>1, <2>1 DEF FilesInv, OwnFile
    <2>. QED
      BY <2>1, <2>2 DEF Clean
  <1>6. \A q \in Processes :
          pc'[q] \in Holding => q # p /\ pc[q] \in Holding /\ creds'[q] = creds[q] /\ cmd'[q] = cmd[q]
    BY <1>2 DEF Holding, Saving
  <1>7. Ahead'
    <2>. SUFFICES ASSUME rotates, NEW r \in Processes, pc'[r] \in Saving, cmd'[r] = "refresh",
                         creds'[r].session \notin spoiled
                  PROVE  /\ creds'[r].n = issued'[creds'[r].session]
                         /\ \A q \in Processes \ {r} :
                              pc'[q] \in Holding /\ creds'[q].session = creds'[r].session =>
                                creds'[q].n < creds'[r].n
                         /\ Stored' \in Grant /\ Stored'.session = creds'[r].session =>
                              Stored'.n < creds'[r].n
      BY <1>1 DEF Ahead
    <2>1. r # p /\ pc[r] \in Saving /\ cmd[r] = "refresh" /\ creds'[r] = creds[r]
      BY <1>2 DEF Saving
    <2>2. /\ creds[r].n = issued[creds[r].session]
          /\ \A q \in Processes \ {r} :
               pc[q] \in Holding /\ creds[q].session = creds[r].session => creds[q].n < creds[r].n
          /\ Stored \in Grant /\ Stored.session = creds[r].session => Stored.n < creds[r].n
      BY <2>1 DEF SessionInv, Ahead
    <2>3. Stored' \in Grant /\ Stored'.session = creds[r].session => Stored'.n < creds[r].n
      <3>1. CASE Clean(p)
        BY <1>1, <1>3, <2>1, <2>2, <3>1
      <3>2. CASE ~Clean(p)
        BY <1>3, <2>1, <2>2, <3>2
      <3>. QED
        BY <3>1, <3>2
    <2>. QED
      BY <1>1, <1>6, <2>1, <2>2, <2>3
  <1>8. LoginKept'
    <2>. SUFFICES ASSUME NEW q \in Processes, cmd'[q] = "login", pc'[q] \in Holding,
                         q \notin behind', creds'[q].session \notin spoiled
                  PROVE  Kept(creds[q])'
      BY <1>1 DEF LoginKept
    <2>1. q # p /\ pc[q] \in Holding /\ creds'[q] = creds[q] /\ cmd[q] = "login"
      BY <1>6
    <2>2. tmp = None /\ q \notin behind
      BY <2>1 DEF Replace
    <2>3. creds[p].session \in spoiled
      BY <1>3, <2>2 DEF Clean
    <2>4. Kept(creds[q]) /\ creds[q].session # creds[p].session
      BY <2>1, <2>2, <2>3 DEF SessionInv, LoginKept
    <2>5. \A h : h = creds[q] => Kept(h)'
      BY <1>4, <2>4
    <2>. QED
      BY <2>1, <2>5 DEF Kept, Usable
  <1>9. NewestIsKept'
    <2>. SUFFICES ASSUME Stored' \in Grant, Stored'.session \notin spoiled PROVE Kept(Stored)'
      BY <1>1 DEF NewestIsKept
    <2>1. CASE Clean(p)
      <3>1. Stored' = creds[p]
        BY <1>3, <2>1
      <3>2. Kept(creds[p]) \/ (rotates => creds[p].n = issued[creds[p].session])
        <4>1. CASE cmd[p] = "login"
          BY <1>1, <3>1, <4>1 DEF SessionInv, LoginKept, BehindSpoiled
        <4>2. CASE cmd[p] = "refresh"
          BY <1>1, <3>1, <4>2 DEF SessionInv, Ahead
        <4>. QED
          BY <1>1, <4>1, <4>2 DEF Shape
      <3>3. \/ creds[p].session \in revoked \/ Usable(creds[p])
            \/ \E q \in Processes \ {p} : /\ pc[q] \in Saving /\ creds[q].session = creds[p].session
                                          /\ creds[q].n = issued[creds[p].session]
        BY <3>2, NewestIsUsable DEF Kept
      <3>. QED
        BY <1>1, <1>2, <3>1, <3>3 DEF Kept, Usable
    <2>2. CASE ~Clean(p)
      <3>1. Stored' = Stored /\ creds[p].session \in spoiled
        BY <1>3, <2>2 DEF Clean
      <3>2. Kept(Stored) /\ Stored.session # creds[p].session
        BY <3>1 DEF SessionInv, NewestIsKept
      <3>3. \A h : h = Stored => Kept(h)'
        BY <1>4, <3>2
      <3>. QED
        BY <3>1, <3>3 DEF Kept, Usable
    <2>. QED
      BY <2>1, <2>2
  <1>. QED
    BY <1>5, <1>7, <1>8, <1>9 DEF SessionInv

-----------------------------------------------------------------------------
(* The inductive invariant.                                                *)

LEMMA InitInv == Init => IInv
  <1>. SUFFICES ASSUME Init PROVE IInv
    OBVIOUS
  <1>0. Typed
    BY InitTyped
  <1>1. /\ \A p \in Processes : pc[p] = "idle" /\ cmd[p] = None
        /\ tmp = None /\ revoked = {} /\ spoiled = {}
    BY DEF Init
  <1>2. /\ Stored \in Grant \cup {None}
        /\ Stored \in Grant => Stored.n = 1 /\ issued[Stored.session] = 1
        /\ \A i \in Inodes : inode[i] \in Grant => inode[i].n = 1 /\ issued[inode[i].session] = 1
    <2>1. CASE credentials = None /\ inode = [i \in Inodes |-> Cut]
      BY <2>1 DEF Stored, Content
    <2>2. CASE \E g \in Grant :
                 /\ g.session = 1 /\ g.n = 1
                 /\ credentials = 0 /\ inode = [i \in Inodes |-> IF i = 0 THEN g ELSE Cut]
                 /\ issued = [s \in Sessions |-> IF s = 1 THEN 1 ELSE 0]
      <3>1. PICK g \in Grant :
              /\ g.session = 1 /\ g.n = 1 /\ credentials = 0
              /\ inode = [i \in Inodes |-> IF i = 0 THEN g ELSE Cut]
              /\ issued = [s \in Sessions |-> IF s = 1 THEN 1 ELSE 0]
        BY <2>2
      <3>2. 0 \in Inodes /\ 1 \in Sessions
        BY <3>1, ProcessesAssumption, FS_CardinalityType DEF Inodes, Grant
      <3>. QED
        BY <3>1, <3>2 DEF Stored
    <2>. QED
      BY <2>1, <2>2 DEF Init
  <1>3. FilesInv
    BY <1>1, <1>2 DEF FilesInv, OwnFile, TmpOwned, FileStaysWhole, Writers, Content
  <1>4. Counted
    BY <1>1, <1>2 DEF Counted, Counts, Holding, Saving
  <1>5. SessionInv
    <2>1. NewestIsKept
      BY <1>1, <1>2 DEF NewestIsKept, Kept, Usable
    <2>. QED
      BY <1>1, <2>1 DEF SessionInv, BehindSpoiled, Ahead, LoginKept, Writers, Holding, Saving
  <1>. QED
    BY <1>0, <1>3, <1>4, <1>5 DEF IInv

\* The steps of a command that neither save nor leave.
Quiet(p) ==
  \/ LoadExpired(p) \/ RefreshGranted(p) \/ LoginReuses(p) \/ LoginAnew(p)
  \/ ReuseConfirmed(p) \/ ReuseFails(p) \/ LoginConfirmed(p) \/ SignOut(p) \/ Revoke(p)

LEMMA QuietStep ==
  ASSUME Typed, NEW p \in Processes, Quiet(p)
  PROVE  /\ UNCHANGED <<files, fd, collided, spoiled>> /\ Writers' = Writers
         /\ \A q \in Writers : creds'[q] = creds[q] /\ pc'[q] = pc[q]
  <1>. TypeOK /\ Shape
    BY DEF Typed
  <1>1. ASSUME NEW command, NEW place \in Places \ Saving, NEW g, Starts(p, command, place, g)
        PROVE  /\ UNCHANGED <<files, fd, collided, spoiled>> /\ Writers' = Writers
               /\ \A q \in Writers : creds'[q] = creds[q] /\ pc'[q] = pc[q]
    <2>1. pc[p] = "idle"
      BY <1>1 DEF Starts, Shape
    <2>. QED
      BY <1>1, <2>1 DEF Starts, Writers, TypeOK, history, Saving
  <1>2. CASE LoadExpired(p) \/ LoginReuses(p) \/ SignOut(p)
    <2>. {"refreshing", "reusing", "revoking"} \subseteq Places \ Saving
      BY DEF Places, Saving
    <2>. QED
      BY <1>1, <1>2 DEF LoadExpired, LoginReuses, SignOut
  <1>3. CASE LoginAnew(p)
    <2>. "verifying" \in Places \ Saving
      BY DEF Places, Saving
    <2>. QED
      BY <1>1, <1>3 DEF LoginAnew
  <1>4. CASE RefreshGranted(p)
    BY <1>4 DEF RefreshGranted, Goes, Writers, TypeOK
  <1>5. CASE ReuseConfirmed(p) \/ LoginConfirmed(p) \/ Revoke(p)
    BY <1>5 DEF ReuseConfirmed, LoginConfirmed, Revoke, Goes, Writers, TypeOK
  <1>6. CASE ReuseFails(p)
    BY <1>6 DEF ReuseFails, Goes, Writers, TypeOK
  <1>. QED
    BY <1>2, <1>3, <1>4, <1>5, <1>6 DEF Quiet

LEMMA StepFiles == IInv /\ [Next]_vars => FilesInv'
  <1>. SUFFICES ASSUME IInv, [Next]_vars PROVE FilesInv'
    OBVIOUS
  <1>0. Typed /\ FilesInv /\ TypeOK /\ Shape
    BY DEF IInv, Typed
  <1>1. ASSUME NEW p \in Processes, Quiet(p) PROVE FilesInv'
    BY <1>0, <1>1, QuietStep, QuietFiles
  <1>2. ASSUME NEW p \in Processes, RefreshRefused(p) PROVE FilesInv'
    <2>1. FilesInv' <=> FilesInv
      <3>1. Writers' = Writers /\ \A q \in Writers : creds'[q] = creds[q] /\ pc'[q] = pc[q] /\ fd'[q] = fd[q]
        BY <1>0, <1>2 DEF RefreshRefused, Leaves, Ends, Writers, TypeOK
      <3>2. UNCHANGED <<credentials, tmp, inode, collided, spoiled>> /\ Stored' = Stored
        BY <1>2 DEF RefreshRefused, files, Stored
      <3>3. OwnFile' <=> OwnFile
        BY <3>1, <3>2 DEF OwnFile, Clean
      <3>4. TmpOwned' <=> TmpOwned
        BY <3>1, <3>2 DEF TmpOwned
      <3>. QED
        BY <3>2, <3>3, <3>4 DEF FilesInv, FileStaysWhole
    <2>. QED
      BY <1>0, <2>1
  <1>3. ASSUME NEW p \in Processes, Clear(p) PROVE FilesInv'
    <2>1. p \notin Writers
      BY <1>3 DEF Clear, Writers
    <2>. QED
      BY <1>0, <1>3, <2>1, LeavesFiles DEF Clear, Leaves
  <1>4. ASSUME NEW p \in Processes, CutShort(p) \/ SaveFails(p) PROVE FilesInv'
    <2>1. /\ Ends(p) /\ Contents(inode) /\ collided' = collided /\ spoiled \subseteq spoiled'
          /\ credentials' = credentials
          /\ p \in Writers => creds[p].session \in spoiled'
      BY <1>4 DEF CutShort, SaveFails, Leaves, Drops, Writers, Saving
    <2>2. tmp' = tmp \/ (tmp' = None /\ p \in Writers)
      BY <1>4 DEF CutShort, SaveFails, Writers
    <2>. QED
      BY <1>0, <2>1, <2>2, LeavesFiles
  <1>5. ASSUME NEW p \in Processes, Open(p) \/ Write(p) \/ Replace(p) PROVE FilesInv'
    BY <1>0, <1>5, OpenFiles, WriteFiles, ReplaceFiles
  <1>6. ASSUME UNCHANGED vars PROVE FilesInv'
    <2>1. /\ UNCHANGED <<files, fd, collided, spoiled>> /\ Writers' = Writers
          /\ \A p \in Writers : creds'[p] = creds[p] /\ pc'[p] = pc[p]
      BY <1>6 DEF vars, local, history, Writers
    <2>. QED
      BY <1>0, <2>1, QuietFiles
  <1>. QED
    BY <1>1, <1>2, <1>3, <1>4, <1>5, <1>6 DEF Next, Quiet

\* The server's counts only grow.
LEMMA IssuedGrows ==
  ASSUME Typed, [Next]_vars
  PROVE  \A s \in Sessions : issued[s] <= issued'[s]
  <1>. TypeOK
    BY DEF Typed
  <1>1. \/ issued' = issued
        \/ \E p \in Processes : RefreshGranted(p)
        \/ \E s \in Sessions : NewSession(s)
    BY DEF Next, vars, server, LoadExpired, RefreshRefused, LoginReuses, LoginAnew,
           ReuseConfirmed, ReuseFails, LoginConfirmed, Open, Write, Replace, SignOut, Revoke,
           Clear, CutShort, SaveFails
  <1>2. CASE issued' = issued
    BY <1>2 DEF TypeOK
  <1>3. ASSUME NEW p \in Processes, RefreshGranted(p)
        PROVE  \A s \in Sessions : issued[s] <= issued'[s]
    BY <1>3 DEF RefreshGranted, TypeOK
  <1>4. ASSUME NEW t \in Sessions, NewSession(t)
        PROVE  \A s \in Sessions : issued[s] <= issued'[s]
    BY <1>4 DEF NewSession, TypeOK
  <1>. QED
    BY <1>1, <1>2, <1>3, <1>4

LEMMA StepCounted == IInv /\ [Next]_vars => Counted'
  <1>. SUFFICES ASSUME IInv, [Next]_vars PROVE Counted'
    OBVIOUS
  <1>0. Typed /\ TypeOK /\ Shape /\ Counted /\ Typed'
    BY StepTyped DEF IInv, Typed
  <1>. DEFINE Old(v) == \/ \E j \in Inodes : v = inode[j]
                        \/ \E p \in Processes : pc[p] \in Holding /\ v = creds[p]
              Had(p) == \/ pc[p] \in Holding /\ creds'[p] = creds[p]
                        \/ Stored \in Grant /\ creds'[p] = Stored
                        \/ creds'[p].n = issued'[creds'[p].session]
  <1>1. ASSUME NEW i \in Inodes, inode'[i] \in Grant PROVE Old(inode'[i])
    <2>1. CASE inode' = inode
      BY <2>1
    <2>2. ASSUME NEW p \in Processes, Open(p) PROVE Old(inode'[i])
      BY <1>0, <1>1, <2>2 DEF Open, TypeOK
    <2>3. ASSUME NEW p \in Processes, Write(p) PROVE Old(inode'[i])
      <3>1. PICK c \in {creds[p], Cut} : Contents([inode EXCEPT ![fd[p]] = c])
        BY <2>3 DEF Write
      <3>2. inode'[i] \in {Cut, c, inode[i]}
        BY <1>0, <3>1 DEF Contents, TypeOK
      <3>3. pc[p] \in Holding
        BY <2>3 DEF Write, Holding, Saving
      <3>. QED
        BY <1>1, <3>2, <3>3
    <2>4. CASE Contents(inode)
      BY <1>1, <2>4 DEF Contents
    <2>5. \/ inode' = inode \/ Contents(inode)
          \/ \E p \in Processes : Open(p) \/ Write(p)
      BY DEF Next, vars, files, LoadExpired, RefreshGranted, RefreshRefused, LoginReuses,
             LoginAnew, ReuseConfirmed, ReuseFails, LoginConfirmed, Replace, SignOut, Revoke,
             Clear, CutShort, SaveFails, Starts
    <2>. QED
      BY <2>1, <2>2, <2>3, <2>4, <2>5
  <1>2. ASSUME NEW q \in Processes, pc'[q] \in Holding PROVE Had(q)
    <2>1. ASSUME NEW p \in Processes, LoadExpired(p) \/ LoginReuses(p) \/ SignOut(p) PROVE Had(q)
      BY <1>0, <1>2, <2>1 DEF LoadExpired, LoginReuses, SignOut, Starts, TypeOK, Holding, Saving
    <2>2. ASSUME NEW p \in Processes, RefreshGranted(p) PROVE Had(q)
      <3>1. creds[p] \in Grant /\ creds[p].session \in Sessions
        BY <1>0, <2>2 DEF RefreshGranted, Shape, Holding, Grant
      <3>. QED
        BY <1>0, <1>2, <2>2, <3>1 DEF RefreshGranted, Goes, TypeOK
    <2>3. ASSUME NEW p \in Processes, NEW s \in Sessions, NewSession(s),
                 creds' = [creds EXCEPT ![p] = [session |-> s, n |-> 1]],
                 pc' = [pc EXCEPT ![p] = "verifying"]
          PROVE  Had(q)
      BY <1>0, <1>2, <2>3 DEF NewSession, TypeOK
    <2>4. ASSUME NEW p \in Processes, NEW place, pc' = [pc EXCEPT ![p] = place], creds' = creds,
                 pc[p] \in Holding \/ place \notin Holding
          PROVE  Had(q)
      BY <1>0, <1>2, <2>4 DEF TypeOK
    <2>5. ASSUME NEW p \in Processes, Ends(p) PROVE Had(q)
      BY <1>0, <1>2, <2>5 DEF Ends, TypeOK, Holding, Saving
    <2>6. ASSUME NEW p \in Processes, ReuseConfirmed(p) \/ LoginConfirmed(p) \/ Open(p) \/ Write(p)
          PROVE  Had(q)
      BY <2>4, <2>6 DEF ReuseConfirmed, LoginConfirmed, Open, Write, Goes, Holding, Saving
    <2>7. ASSUME NEW p \in Processes, Revoke(p) PROVE Had(q)
      BY <2>4, <2>7 DEF Revoke, Goes, Holding, Saving
    <2>8. ASSUME NEW p \in Processes, LoginAnew(p) \/ ReuseFails(p) PROVE Had(q)
      BY <2>3, <2>8 DEF LoginAnew, ReuseFails, Starts, Goes
    <2>9. ASSUME NEW p \in Processes,
                 RefreshRefused(p) \/ Replace(p) \/ Clear(p) \/ CutShort(p) \/ SaveFails(p)
          PROVE  Had(q)
      BY <2>5, <2>9 DEF RefreshRefused, Replace, Clear, CutShort, SaveFails, Leaves
    <2>10. CASE UNCHANGED vars
      BY <1>2, <2>10 DEF vars, local
    <2>. QED
      BY <2>1, <2>2, <2>6, <2>7, <2>8, <2>9, <2>10 DEF Next
  <1>. HIDE DEF Old, Had
  <1>3. \A s \in Sessions : issued[s] <= issued'[s]
    BY <1>0, IssuedGrows
  <1>. QED
    BY <1>0, <1>1, <1>2, <1>3, CountedStays DEF Old, Had

LEMMA StepSession == IInv /\ [Next]_vars => SessionInv'
  <1>. SUFFICES ASSUME IInv, [Next]_vars PROVE SessionInv'
    OBVIOUS
  <1>0. Typed /\ TypeOK /\ Shape /\ FilesInv /\ SessionInv
    BY DEF IInv, Typed
  <1>1. ASSUME NEW p \in Processes, LoadExpired(p) \/ LoginReuses(p), rotates' = rotates
        PROVE  SessionInv'
    <2>1. PICK command \in {"refresh", "login"}, place \in {"refreshing", "reusing"} :
            Starts(p, command, place, Stored) /\ Stored \in Grant /\ UNCHANGED server
      <3>1. CASE LoadExpired(p)
        BY <3>1 DEF LoadExpired
      <3>2. CASE LoginReuses(p)
        BY <3>2 DEF LoginReuses
      <3>. QED
        BY <1>1, <3>1, <3>2
    <2>2. pc[p] = "idle" /\ place \in Holding \ Saving
      BY <1>0, <2>1 DEF Starts, Shape, Holding, Saving
    <2>3. UNCHANGED <<files, fd, collided, spoiled>> /\ Writers' = Writers /\ Stored' = Stored
      BY <1>0, <1>1, QuietStep DEF Quiet, files, Stored
    <2>. QED
      BY <1>1, <2>1, <2>2, <2>3, MovesSession DEF Starts, server, history
  <1>2. ASSUME NEW p \in Processes, ReuseConfirmed(p) \/ LoginConfirmed(p), rotates' = rotates
        PROVE  SessionInv'
    <2>1. /\ pc[p] \in Holding \ Saving /\ cmd[p] = "login" /\ "open" \in Holding
          /\ cmd' = [cmd EXCEPT ![p] = cmd[p]] /\ pc' = [pc EXCEPT ![p] = "open"]
          /\ creds' = [creds EXCEPT ![p] = creds[p]]
          /\ UNCHANGED <<issued, revoked, behind>>
      BY <1>0, <1>2 DEF ReuseConfirmed, LoginConfirmed, Goes, server, Holding, Saving, Shape, TypeOK
    <2>2. UNCHANGED <<files, fd, collided, spoiled>> /\ Writers' = Writers /\ Stored' = Stored
      BY <1>0, <1>2, QuietStep DEF Quiet, files, Stored
    <2>. QED
      BY <1>2, <2>1, <2>2, MovesSession
  <1>3. ASSUME NEW p \in Processes, SignOut(p) \/ Revoke(p), rotates' = rotates PROVE SessionInv'
    <2>. DEFINE Shifts(command, place, g) ==
                  /\ cmd' = [cmd EXCEPT ![p] = command] /\ pc' = [pc EXCEPT ![p] = place]
                  /\ creds' = [creds EXCEPT ![p] = g] /\ pc[p] \in {"idle", "revoking"}
                  /\ UNCHANGED <<issued, behind>> /\ revoked \subseteq revoked'
    <2>1. PICK command \in {cmd[p], "logout"}, place \in {"revoking", "clearing"},
               g \in Grant \cup {None} : Shifts(command, place, g)
      <3>1. ASSUME NEW g, Starts(p, "logout", "revoking", g), UNCHANGED server
            PROVE  Shifts("logout", "revoking", g)
        BY <1>0, <3>1 DEF Starts, server, history, Shape
      <3>2. CASE SignOut(p)
        <4>1. \E g \in Grant \cup {None} : Shifts("logout", "revoking", g)
          BY <3>1, <3>2 DEF SignOut
        <4>. HIDE DEF Shifts
        <4>. QED
          BY <4>1
      <3>3. CASE Revoke(p)
        <4>1. Shifts(cmd[p], "clearing", creds[p])
          BY <1>0, <3>3 DEF Revoke, Goes, TypeOK
        <4>2. creds[p] \in Grant \cup {None}
          BY <1>0 DEF TypeOK
        <4>. HIDE DEF Shifts
        <4>. QED
          BY <4>1, <4>2
      <3>. QED
        BY <1>3, <3>2, <3>3
    <2>2. place \notin Holding /\ pc[p] \notin Holding
      BY <2>1 DEF Holding, Saving
    <2>3. UNCHANGED <<files, fd, collided, spoiled>> /\ Writers' = Writers /\ Stored' = Stored
      BY <1>0, <1>3, QuietStep DEF Quiet, files, Stored
    <2>. QED
      BY <1>3, <2>1, <2>2, <2>3, MovesSession
  <1>4. ASSUME NEW p \in Processes, LoginAnew(p) \/ ReuseFails(p), rotates' = rotates
        PROVE  SessionInv'
    <2>1. PICK s \in Sessions :
            /\ NewSession(s) /\ creds' = [creds EXCEPT ![p] = [session |-> s, n |-> 1]]
            /\ cmd' = [cmd EXCEPT ![p] = "login"] /\ pc' = [pc EXCEPT ![p] = "verifying"]
            /\ pc[p] \notin Saving /\ behind' = behind
      <3>1. CASE LoginAnew(p)
        BY <1>0, <3>1 DEF LoginAnew, Starts, history, Shape, Saving
      <3>2. CASE ReuseFails(p)
        <4>1. pc[p] = "reusing" /\ cmd[p] = "login" /\ cmd' = cmd
          BY <1>0, <3>2 DEF ReuseFails, Goes, Shape
        <4>2. cmd' = [cmd EXCEPT ![p] = "login"]
          BY <1>0, <4>1 DEF TypeOK
        <4>. QED
          BY <3>2, <4>1, <4>2 DEF ReuseFails, Goes, Saving
      <3>. QED
        BY <1>4, <3>1, <3>2
    <2>2. UNCHANGED <<files, collided, spoiled>>
      BY <1>0, <1>4, QuietStep DEF Quiet
    <2>. QED
      BY <1>4, <2>1, <2>2, AnewSession
  <1>5. ASSUME NEW p \in Processes, RefreshGranted(p) \/ Replace(p), rotates' = rotates
        PROVE  SessionInv'
    BY <1>5, GrantedSession, ReplaceSession
  <1>6. ASSUME NEW p \in Processes, Open(p), rotates' = rotates PROVE SessionInv'
    <2>1. /\ cmd' = [cmd EXCEPT ![p] = cmd[p]] /\ pc' = [pc EXCEPT ![p] = "write"]
          /\ creds' = [creds EXCEPT ![p] = creds[p]] /\ pc[p] = "open"
          /\ pc[p] \in Saving /\ "write" \in Saving /\ UNCHANGED <<issued, revoked, behind>>
      BY <1>0, <1>6 DEF Open, Goes, server, Saving, TypeOK
    <2>2. /\ Stored' = Stored /\ spoiled \subseteq spoiled'
          /\ p \in behind => creds[p].session \in spoiled'
      BY <1>0, <1>6, OpenFiles
    <2>3. Writers' = Writers \cup {p}
      BY <1>0, <2>1 DEF Writers, TypeOK
    <2>. QED
      BY <1>6, <2>1, <2>2, <2>3, MovesSession
  <1>7. ASSUME NEW p \in Processes, Write(p), rotates' = rotates PROVE SessionInv'
    <2>1. /\ UNCHANGED <<cmd, creds, issued, revoked, behind, spoiled, collided>>
          /\ pc' = [pc EXCEPT ![p] = "replace"] /\ pc[p] = "write"
      BY <1>7 DEF Write, Goes, server
    <2>2. /\ \A q \in Processes \ {p} : cmd'[q] = cmd[q] /\ pc'[q] = pc[q] /\ creds'[q] = creds[q]
          /\ pc'[p] = "replace" /\ creds'[p] = creds[p] /\ cmd'[p] = cmd[p]
      BY <1>0, <2>1 DEF TypeOK
    <2>3. Stored' = Stored \/ (Stored' \in Grant => Stored'.session \in spoiled')
      BY <1>0, <1>7, <2>1, WriteFiles, CutAssumption DEF Clean
    <2>. QED
      BY <1>7, <2>1, <2>2, <2>3, LeavesSession
  <1>8. ASSUME NEW p \in Processes, rotates' = rotates,
               RefreshRefused(p) \/ Clear(p) \/ CutShort(p) \/ SaveFails(p)
        PROVE  SessionInv'
    <2>1. /\ Ends(p) /\ behind' = behind \ {p} /\ UNCHANGED <<issued, revoked>>
          /\ spoiled \subseteq spoiled'
          /\ pc[p] \in Saving => creds[p].session \in spoiled'
      BY <1>8 DEF RefreshRefused, Clear, CutShort, SaveFails, Leaves, Drops, server, Saving
    <2>2. /\ \A q \in Processes \ {p} : cmd'[q] = cmd[q] /\ pc'[q] = pc[q] /\ creds'[q] = creds[q]
          /\ pc'[p] = "idle"
      BY <1>0, <2>1 DEF Ends, TypeOK
    <2>3. Stored' = Stored \/ Stored' = None
      <3>1. CASE RefreshRefused(p)
        BY <3>1 DEF RefreshRefused, files, Stored
      <3>2. CASE ~RefreshRefused(p)
        <4>1. Contents(inode) /\ credentials' \in {credentials, None}
          BY <1>8, <3>2 DEF Clear, CutShort, SaveFails
        <4>. QED
          BY <1>0, <4>1, ContentsOfNamed DEF Stored, TypeOK
      <3>. QED
        BY <3>1, <3>2
    <2>4. Stored' = Stored \/ (Stored' \in Grant => Stored'.session \in spoiled')
      BY <2>3 DEF Content
    <2>. QED
      BY <1>8, <2>1, <2>2, <2>4, LeavesSession
  <1>9. CASE UNCHANGED vars
    BY <1>0, <1>9 DEF vars, files, local, server, history, SessionInv, BehindSpoiled, Ahead,
       LoginKept, NewestIsKept, Kept, Usable, Writers, Stored
  <1>. QED
    BY <1>1, <1>2, <1>3, <1>4, <1>5, <1>6, <1>7, <1>8, <1>9 DEF Next

LEMMA StepInv == IInv /\ [Next]_vars => IInv'
  BY StepTyped, StepFiles, StepCounted, StepSession DEF IInv

LEMMA Invariant == Spec => []IInv
  BY InitInv, StepInv, PTL DEF Spec

\* Whatever commands overlap and wherever they are cut short, credentials.json
\* is a whole document until two processes have had credentials.tmp at the
\* same time.
THEOREM FileIsWhole == Spec => []FileStaysWhole
  <1>1. IInv => FileStaysWhole
    BY DEF IInv, FilesInv
  <1>. QED
    BY <1>1, Invariant, PTL

\* Until then the file changes by a rename or a removal only.
THEOREM WritesAreAtomic == Spec => AtomicWrite
  <1>1. IInv /\ [Next]_vars => [credentials' = credentials /\ ~collided' => Stored' = Stored]_vars
    <2>. SUFFICES ASSUME IInv, [Next]_vars, credentials' = credentials, ~collided'
                  PROVE  Stored' = Stored
      OBVIOUS
    <2>0. Typed /\ TypeOK /\ FilesInv /\ ~collided
      <3>1. ~collided
        BY DEF Next, vars, history, LoadExpired, RefreshGranted, RefreshRefused, LoginReuses,
           LoginAnew, ReuseConfirmed, ReuseFails, LoginConfirmed, Open, Write, Replace, SignOut,
           Revoke, Clear, CutShort, SaveFails, Starts
      <3>. QED
        BY <3>1 DEF IInv, Typed
    <2>1. ASSUME NEW p \in Processes, Open(p) \/ Write(p) PROVE Stored' = Stored
      BY <2>0, <2>1, OpenFiles, WriteFiles DEF Clean
    <2>2. ASSUME NEW p \in Processes, Replace(p) PROVE Stored' = Stored
      BY <2>0, <2>2, ReplaceFiles DEF Clean
    <2>3. CASE inode' = inode
      BY <2>3 DEF Stored
    <2>4. CASE Contents(inode)
      BY <2>0, <2>4, ContentsOfNamed DEF Stored, TypeOK
    <2>5. \/ inode' = inode \/ Contents(inode)
          \/ \E p \in Processes : Open(p) \/ Write(p) \/ Replace(p)
      BY DEF Next, vars, files, LoadExpired, RefreshGranted, RefreshRefused, LoginReuses,
             LoginAnew, ReuseConfirmed, ReuseFails, LoginConfirmed, SignOut, Revoke,
             Clear, CutShort, SaveFails, Starts
    <2>. QED
      BY <2>1, <2>2, <2>3, <2>4, <2>5
  <1>. QED
    BY <1>1, Invariant, PTL DEF Spec, AtomicWrite

\* The newest refresh token of a session that no crossing and no death spoiled
\* is stored or about to be: no save of an older one overwrites it.
THEOREM NewestIsNotLost == Spec => []NewestIsKept
  <1>1. IInv => NewestIsKept
    BY DEF IInv, SessionInv
  <1>. QED
    BY <1>1, Invariant, PTL

\* A refresh is refused only to who was overtaken.
THEOREM RefusedIsOvertaken == Spec => []StaleIsOvertaken
  <1>1. IInv => StaleIsOvertaken
    <2>. SUFFICES ASSUME IInv, NEW p \in Processes, pc[p] = "refreshing", ~Usable(creds[p]),
                         creds[p].session \notin revoked \cup spoiled,
                         Stored \in Grant, Stored.session = creds[p].session
                  PROVE  \/ Newer(creds[p], Stored)
                         \/ \E q \in Processes : pc[q] \in Saving /\ Newer(creds[p], creds[q])
      BY DEF StaleIsOvertaken
    <2>0. Typed /\ Shape /\ Counted /\ SessionInv
      BY DEF IInv, Typed
    <2>1. creds[p] \in Grant /\ Counts(creds[p]) /\ creds[p].n # issued[creds[p].session]
      BY <2>0 DEF Shape, Counted, Holding, Usable
    <2>2. creds[p].n < issued[creds[p].session]
      BY <2>0, <2>1, CountsType DEF Counts
    <2>3. Kept(Stored)
      BY <2>0 DEF SessionInv, NewestIsKept
    <2>4. \/ Stored.n = issued[Stored.session]
          \/ \E q \in Processes : /\ pc[q] \in Saving /\ creds[q].session = Stored.session
                                  /\ creds[q].n = issued[Stored.session]
      BY <2>1, <2>3 DEF Kept, Usable
    <2>. QED
      BY <2>2, <2>4 DEF Newer
  <1>. QED
    BY <1>1, Invariant, PTL

-----------------------------------------------------------------------------
(* The account.  What a command has concluded of an identity was so at the   *)
(* server, and the server takes back neither that an identity was active nor *)
(* that its removal has begun.                                               *)

AccountRecords == [realm : Realms, state : States, code : Nat]

Removing(id) == Known(id) /\ accounts[id].state \in {"removing", "removed"}

\* What a process may say that holds a; verification stands for the bundle.
VerifiesTruly(v) == v.state \in ActiveStates /\ v.told => v.of \in activated

Tells(a) ==
  /\ {"cmd", "pc"} \subseteq DOMAIN a /\ a.cmd \in AccountCommands
  /\ a.pc = "status" => a.cmd.op = "verify" /\ (a.told => a.cmd.id \in activated)
  /\ a.pc = "send" => a.cmd.op = "deregister"
  /\ a.pc \in {"bundle", "done"} =>
       /\ "result" \in DOMAIN a
       /\ a.cmd.op = "verify" /\ a.result.outcome = "ok" => VerifiesTruly(a.result)
       /\ a.cmd.op = "deregister" /\ a.result.outcome \in {"accepted", "already_deleted"}
          /\ a.result.known /\ ~a.result.refusal =>
            Known(a.cmd.id) /\ (Removing(a.cmd.id) \/ accounts[a.cmd.id].realm # a.cmd.realm)
  /\ a.pc = "bundle" =>
       /\ a.cmd.op # "deregister" /\ {"next", "verification"} \subseteq DOMAIN a
       /\ a.next \in Nat \ {0}
       /\ a.verification # NoDocument => VerifiesTruly(a.verification)

AccountInv ==
  /\ accounts \in Seq(AccountRecords)
  /\ \A id \in DOMAIN accounts : accounts[id].state = "active" => id \in activated
  /\ DOMAIN bundle = {Parts[i] : i \in 1..3}
  /\ bundle["core.json"] # NoDocument =>
       (bundle["core.json"].success /\ bundle["core.json"].told =>
          bundle["core.json"].of \in activated)
  /\ onboard = [p \in AccountProcs |-> onboard[p]]
  /\ \A p \in AccountProcs : Tells(onboard[p])

LEMMA AccountSetFacts ==
  ASSUME AccountInv, NEW id, Known(id), NEW s \in States, Set(id, s)
  PROVE  /\ accounts' \in Seq(AccountRecords) /\ DOMAIN accounts' = DOMAIN accounts
         /\ accounts'[id].state = s /\ accounts'[id].realm = accounts[id].realm
         /\ \A i \in DOMAIN accounts : i # id => accounts'[i] = accounts[i]
<1>1. accounts \in Seq(AccountRecords) /\ id \in 1..Len(accounts) /\ DOMAIN accounts = 1..Len(accounts)
  BY DEF AccountInv, Known
<1>2. accounts[id] \in AccountRecords
  BY <1>1
<1>3. [accounts[id] EXCEPT !.state = s] \in AccountRecords
  BY <1>2 DEF AccountRecords
<1>4. accounts' = [accounts EXCEPT ![id] = [accounts[id] EXCEPT !.state = s]]
  BY DEF Set
<1>. QED BY <1>1, <1>2, <1>3, <1>4 DEF AccountRecords

\* What the server does in a step.
AccountGrows ==
  /\ accounts' \in Seq(AccountRecords) /\ activated \subseteq activated'
  /\ \A id \in DOMAIN accounts :
       /\ id \in DOMAIN accounts' /\ accounts'[id].realm = accounts[id].realm
       /\ accounts[id].state \in {"removing", "removed"} =>
            accounts'[id].state \in {"removing", "removed"}
  /\ \A id \in DOMAIN accounts' : accounts'[id].state = "active" => id \in activated'

LEMMA ServerStaysGrows ==
  ASSUME AccountInv, ServerStays
  PROVE  AccountGrows
  BY DEF AccountInv, ServerStays, AccountGrows

LEMMA SetGrows ==
  ASSUME AccountInv, NEW id, Known(id), NEW s \in States \ {"active"}, Set(id, s),
         UNCHANGED activated, Removing(id) => s \in {"removing", "removed"}
  PROVE  AccountGrows
  BY AccountSetFacts DEF AccountInv, AccountGrows, Removing, Known

LEMMA TellsStill ==
  ASSUME AccountInv, AccountGrows, NEW a, Tells(a)
  PROVE  Tells(a)'
  BY DEF AccountGrows, Tells, VerifiesTruly, Removing, Known

LEMMA MovesTo ==
  ASSUME AccountInv, NEW p \in AccountProcs, NEW r, Moves(p, r)
  PROVE  /\ onboard' = [q \in AccountProcs |-> onboard'[q]]
         /\ \A q \in AccountProcs \ {p} : onboard'[q] = onboard[q]
         /\ DOMAIN onboard'[p] = DOMAIN r \cup DOMAIN onboard[p]
         /\ \A x \in DOMAIN r : onboard'[p][x] = r[x]
         /\ \A x \in DOMAIN onboard[p] \ DOMAIN r : onboard'[p][x] = onboard[p][x]
<1>. DEFINE new == [x \in DOMAIN r \cup DOMAIN onboard[p] |->
                      IF x \in DOMAIN r THEN r[x] ELSE onboard[p][x]]
<1>1. onboard' = [onboard EXCEPT ![p] = new] /\ onboard = [q \in AccountProcs |-> onboard[q]]
  BY DEF Moves, AccountInv
<1>2. /\ DOMAIN new = DOMAIN r \cup DOMAIN onboard[p]
      /\ \A x \in DOMAIN r : new[x] = r[x]
      /\ \A x \in DOMAIN onboard[p] \ DOMAIN r : new[x] = onboard[p][x]
  OBVIOUS
<1>. HIDE DEF new
<1>3. onboard'[p] = new
  BY <1>1
<1>. QED BY <1>1, <1>2, <1>3

LEMMA AccountStepOf ==
  ASSUME AccountInv, AccountGrows, NEW p \in AccountProcs, NEW r, Moves(p, r),
         NEW a, a = onboard'[p], Tells(a)',
         DOMAIN bundle' = DOMAIN bundle,
         bundle'["core.json"] = bundle["core.json"]
           \/ (bundle'["core.json"].success /\ bundle'["core.json"].told =>
                 bundle'["core.json"].of \in activated')
  PROVE  AccountInv'
<1>1. /\ onboard' = [q \in AccountProcs |-> onboard'[q]]
      /\ \A q \in AccountProcs \ {p} : onboard'[q] = onboard[q]
  BY MovesTo
<1>2. ASSUME NEW q \in AccountProcs PROVE Tells(onboard[q])'
  <2>. PICK b : b = onboard'[q]
    OBVIOUS
  <2>1. Tells(b)'
    BY <1>1, TellsStill DEF AccountInv
  <2>. QED BY <2>1 DEF Tells, VerifiesTruly, Removing, Known
<1>. QED BY <1>1, <1>2 DEF AccountInv, AccountGrows

LEMMA FinishStep ==
  ASSUME AccountInv, AccountGrows, NEW p \in AccountProcs, NEW result, Finishes(p, result),
         UNCHANGED bundle, NEW c, c = onboard[p].cmd,
         c.op = "verify" /\ result.outcome = "ok" => VerifiesTruly(result)',
         c.op = "deregister" /\ result.outcome \in {"accepted", "already_deleted"}
         /\ result.known /\ ~result.refusal =>
           (Known(c.id) /\ (Removing(c.id) \/ accounts[c.id].realm # c.realm))'
  PROVE  AccountInv'
<1>. DEFINE r == [pc |-> "done", result |-> result]
<1>1. DOMAIN r = {"pc", "result"} /\ r.pc = "done" /\ r.result = result /\ Moves(p, r)
  BY DEF Finishes
<1>. HIDE DEF r
<1>. PICK a : a = onboard'[p]
  OBVIOUS
<1>2. Tells(onboard[p])
  BY DEF AccountInv
<1>3. /\ {"cmd", "pc", "result"} \subseteq DOMAIN a
      /\ a.pc = "done" /\ a.result = result /\ a.cmd = c /\ c \in AccountCommands
  BY <1>1, <1>2, MovesTo DEF Tells
<1>4. Tells(a)'
  BY <1>3 DEF Tells
<1>. QED BY <1>1, <1>4, AccountStepOf

LEMMA ConcludeStep ==
  ASSUME AccountInv, AccountGrows, NEW p \in AccountProcs, NEW result, NEW v,
         Concludes(p, result, v), UNCHANGED bundle, onboard[p].cmd.op # "deregister",
         onboard[p].cmd.op = "verify" /\ result.outcome = "ok" => VerifiesTruly(result)',
         v # NoDocument => VerifiesTruly(v)'
  PROVE  AccountInv'
<1>. DEFINE r == [pc |-> "bundle", next |-> 1, result |-> result, verification |-> v]
<1>1. /\ DOMAIN r = {"pc", "next", "result", "verification"} /\ r.pc = "bundle" /\ r.next = 1
      /\ r.result = result /\ r.verification = v /\ Moves(p, r)
  BY DEF Concludes
<1>. HIDE DEF r
<1>. PICK a : a = onboard'[p]
  OBVIOUS
<1>2. Tells(onboard[p])
  BY DEF AccountInv
<1>. PICK c : c = onboard[p].cmd
  OBVIOUS
<1>3. /\ {"cmd", "pc", "next", "result", "verification"} \subseteq DOMAIN a
      /\ a.pc = "bundle" /\ a.next = 1 /\ a.result = result /\ a.verification = v
      /\ a.cmd = c /\ c \in AccountCommands
  BY <1>1, <1>2, MovesTo DEF Tells
<1>4. Tells(a)'
  BY <1>3 DEF Tells
<1>. QED BY <1>1, <1>4, AccountStepOf

\* Nothing but an outcome, which is not success.
LEMMA RefusedStep ==
  ASSUME AccountInv, AccountGrows, NEW p \in AccountProcs, NEW outcome, outcome # "ok",
         Refused(p, outcome), UNCHANGED bundle, onboard[p].cmd.op # "deregister"
  PROVE  AccountInv'
  BY ConcludeStep DEF Refused

LEMMA LostStep ==
  ASSUME AccountInv, AccountGrows, NEW p \in AccountProcs, Lost(p), UNCHANGED bundle,
         onboard[p].cmd.op # "deregister"
  PROVE  AccountInv'
  BY ConcludeStep DEF Lost

LEMMA RegisterStep ==
  ASSUME AccountInv, NEW p \in AccountProcs, Register(p)
  PROVE  AccountInv'
<1>1. /\ onboard[p].cmd.op = "register" /\ onboard[p].cmd.realm \in Realms
      /\ UNCHANGED bundle
  BY DEF AccountInv, Register, Is, Tells, AccountCommands
<1>2. CASE ServerStays /\ Lost(p)
  BY <1>1, <1>2, LostStep, ServerStaysGrows
<1>4. ASSUME ServerStays, NEW outcome, outcome # "ok", Refused(p, outcome) PROVE AccountInv'
  BY <1>1, <1>4, RefusedStep, ServerStaysGrows
<1>3. CASE /\ Create(onboard[p].cmd.realm)
           /\ \/ Lost(p)
              \/ \E result : Concludes(p, result, NoDocument)
  <2>. DEFINE new == [realm |-> onboard[p].cmd.realm, state |-> "pending_verification", code |-> 1]
  <2>1. new \in AccountRecords /\ new.state = "pending_verification"
    BY <1>1 DEF AccountRecords, States
  <2>2. accounts' = Append(accounts, new) /\ activated' = activated
    BY <1>3 DEF Create
  <2>. HIDE DEF new
  <2>3. AccountGrows
    BY <2>1, <2>2 DEF AccountInv, AccountGrows
  <2>4. CASE Lost(p)
    BY <1>1, <2>3, <2>4, LostStep
  <2>5. ASSUME NEW result, Concludes(p, result, NoDocument) PROVE AccountInv'
    BY <1>1, <2>3, <2>5, ConcludeStep
  <2>. QED BY <1>3, <2>4, <2>5
<1>6. CASE ServerStays /\ Refused(p, "missing_classification")
  BY <1>4, <1>6
<1>7. ASSUME ServerStays, NEW status \in {409, 422, 500}, Denied(p, status)
      PROVE  AccountInv'
  <2>1. CheckError([status |-> status, says |-> "other"]) # "ok"
    BY DEF CheckError
  <2>. QED BY <1>4, <1>7, <2>1 DEF Denied
<1>. QED BY <1>2, <1>3, <1>6, <1>7 DEF Register

\* What is told of an identity that is not activated by this verification.
LEMMA AnswerFacts ==
  ASSUME AccountInv, NEW id, NEW code \in Nat, NEW answer \in VerifyAnswers(id, code)
  PROVE  /\ CheckError(answer) = "ok" /\ answer.ids =>
              (answer.says \in ActiveStates => id \in activated)
         /\ CheckError(answer) = "already" => id \in activated
         /\ CheckError(answer) = "ok" => answer.status < 400 /\ answer.says # "already"
         /\ answer.status \in Nat
<1>. DEFINE active == Known(id) /\ accounts[id].state = "active"
<1>1. \/ answer \in {Plain(s, "other") : s \in {500, 429, 404, 400, 200}}
                    \cup {Plain(s, "verification") : s \in {400, 410}}
                    \cup {Stating(200, "blocked")}
      \/ /\ active
         /\ answer \in {Plain(400, "already"), Stating(400, "already"), Stating(200, "active")}
  BY DEF VerifyAnswers, Present
<1>2. active => id \in activated
  BY DEF AccountInv, Known
<1>. HIDE DEF active
<1>3. ~active => /\ CheckError(answer) # "already"
                 /\ CheckError(answer) = "ok" /\ answer.ids => answer.says = "blocked"
  BY <1>1 DEF CheckError, Plain, Stating
<1>4. CheckError(answer) = "ok" => answer.status < 400 /\ answer.says # "already"
  BY <1>1 DEF CheckError, Plain, Stating
<1>5. answer.status \in Nat
  <2>1. ASSUME NEW s \in Nat, NEW says, answer \in {Plain(s, says), Stating(s, says)}
        PROVE  answer.status \in Nat
    BY <2>1 DEF Plain, Stating
  <2>. QED BY <1>1, <2>1
<1>. QED BY <1>2, <1>3, <1>4, <1>5 DEF ActiveStates

LEMMA CompletesStep ==
  ASSUME AccountInv, AccountGrows, NEW p \in AccountProcs, NEW id, NEW state, NEW told,
         Completes(p, id, state, told), UNCHANGED bundle, onboard[p].cmd.op = "verify",
         state \in ActiveStates /\ told => id \in activated'
  PROVE  AccountInv'
<1>. DEFINE result == [outcome |-> "ok", of |-> id, state |-> state, told |-> told]
            v == [of |-> id, state |-> state, told |-> told]
<1>1. /\ result.of = id /\ result.state = state /\ result.told = told
      /\ v.of = id /\ v.state = state /\ v.told = told
  OBVIOUS
<1>2. Concludes(p, result, v)
  BY DEF Completes
<1>. HIDE DEF result, v
<1>3. VerifiesTruly(result)' /\ VerifiesTruly(v)'
  BY <1>1 DEF VerifiesTruly
<1>. QED BY <1>2, <1>3, ConcludeStep

LEMMA AsksStatusStep ==
  ASSUME AccountInv, AccountGrows, NEW p \in AccountProcs, NEW told, AsksStatus(p, told),
         UNCHANGED bundle, onboard[p].cmd.op = "verify",
         told => onboard[p].cmd.id \in activated'
  PROVE  AccountInv'
<1>. PICK a : a = onboard'[p]
  OBVIOUS
<1>. PICK c : c = onboard[p].cmd
  OBVIOUS
<1>1. Tells(onboard[p])
  BY DEF AccountInv
<1>. DEFINE r == [pc |-> "status", told |-> told]
<1>2. DOMAIN r = {"pc", "told"} /\ r.pc = "status" /\ r.told = told /\ Moves(p, r)
  BY DEF AsksStatus
<1>. HIDE DEF r
<1>3. {"cmd", "pc"} \subseteq DOMAIN a /\ a.pc = "status" /\ a.cmd = c /\ a.told = told
  BY <1>1, <1>2, MovesTo DEF Tells
<1>4. c \in AccountCommands /\ c.op = "verify" /\ (told => c.id \in activated')
  BY <1>1 DEF Tells
<1>5. Tells(a)'
  BY <1>3, <1>4 DEF Tells
<1>. QED BY <1>2, <1>5, AccountStepOf

LEMMA VerifyStep ==
  ASSUME AccountInv, NEW p \in AccountProcs, Verify(p)
  PROVE  AccountInv'
<1>. DEFINE id == onboard[p].cmd.id
            code == onboard[p].cmd.code
            Takes(answer) ==
              IF CheckError(answer) \notin {"ok", "already"} THEN Refused(p, CheckError(answer))
              ELSE IF ~answer.ids THEN AsksStatus(p, answer.status >= 400)
              ELSE Completes(p, id, IF answer.says = "already" THEN "active" ELSE answer.says, TRUE)
            Activates == /\ Known(id) /\ accounts[id].state = "pending_verification"
                         /\ Activate(id)
                         /\ \/ Lost(p) \/ AsksStatus(p, TRUE)
                            \/ \E s \in ActiveStates : Completes(p, id, s, TRUE)
<1>1. /\ onboard[p].cmd.op = "verify" /\ onboard[p].pc = "start" /\ code \in Nat
      /\ UNCHANGED bundle
  BY AccountAssumption DEF AccountInv, Verify, Is, Tells, AccountCommands
<1>2. CASE ServerStays
  <2>1. AccountGrows
    BY <1>2, ServerStaysGrows
  <2>2. CASE Lost(p)
    BY <1>1, <2>1, <2>2, LostStep
  <2>3. CASE Finishes(p, [outcome |-> "missing_verification_artifact"])
    BY <1>1, <2>1, <2>3, FinishStep
  <2>4. ASSUME NEW answer \in VerifyAnswers(id, code), Takes(answer) PROVE AccountInv'
    <3>. PICK kind : kind = CheckError(answer)
      OBVIOUS
    <3>0. /\ kind = "already" => id \in activated
          /\ kind = "ok" => answer.status < 400 /\ answer.says # "already"
          /\ kind = "ok" /\ answer.ids => (answer.says \in ActiveStates => id \in activated)
          /\ answer.status \in Nat
      BY <1>1, <2>4, AnswerFacts
    <3>1. CASE kind \notin {"ok", "already"}
      <4>1. Refused(p, kind)
        BY <2>4, <3>1
      <4>. QED BY <1>1, <2>1, <3>1, <4>1, RefusedStep
    <3>2. CASE kind \in {"ok", "already"} /\ ~answer.ids
      <4>1. AsksStatus(p, answer.status >= 400)
        BY <2>4, <3>2
      <4>2. answer.status >= 400 => id \in activated
        BY <3>0, <3>2
      <4>. QED BY <1>1, <2>1, <4>1, <4>2, AsksStatusStep DEF AccountGrows
    <3>3. CASE kind \in {"ok", "already"} /\ answer.ids /\ answer.says = "already"
      <4>1. Completes(p, id, "active", TRUE)
        BY <2>4, <3>3
      <4>. QED BY <1>1, <2>1, <3>0, <3>3, <4>1, CompletesStep DEF AccountGrows
    <3>4. CASE kind \in {"ok", "already"} /\ answer.ids /\ answer.says # "already"
      <4>1. Completes(p, id, answer.says, TRUE)
        BY <2>4, <3>4
      <4>. QED BY <1>1, <2>1, <3>0, <3>4, <4>1, CompletesStep DEF AccountGrows
    <3>. QED BY <3>0, <3>1, <3>2, <3>3, <3>4
  <2>5. CASE Activates
    <3>1. accounts' # accounts
      BY <2>5, AccountSetFacts DEF Activate, States
    <3>. QED BY <1>2, <3>1 DEF ServerStays
  <2>. HIDE DEF Takes, Activates
  <2>6. \/ Lost(p) \/ Finishes(p, [outcome |-> "missing_verification_artifact"])
        \/ Activates \/ \E answer \in VerifyAnswers(id, code) : Takes(answer)
    BY DEF Verify, Takes, Activates
  <2>. QED BY <2>2, <2>3, <2>4, <2>5, <2>6
<1>3. CASE Activates
  <2>1. AccountGrows /\ id \in activated'
    BY <1>3, AccountSetFacts DEF Activate, States, AccountInv, AccountGrows, Known
  <2>2. CASE Lost(p)
    BY <1>1, <2>1, <2>2, LostStep
  <2>3. ASSUME NEW s, Completes(p, id, s, TRUE) PROVE AccountInv'
    BY <1>1, <2>1, <2>3, CompletesStep
  <2>4. CASE AsksStatus(p, TRUE)
    BY <1>1, <2>1, <2>4, AsksStatusStep
  <2>. QED BY <1>3, <2>2, <2>3, <2>4
<1>. QED BY <1>2, <1>3 DEF Verify

LEMMA FillFromStatusStep ==
  ASSUME AccountInv, NEW p \in AccountProcs, FillFromStatus(p)
  PROVE  AccountInv'
<1>. DEFINE id == onboard[p].cmd.id
<1>1. /\ onboard[p].cmd.op = "verify" /\ (onboard[p].told => id \in activated)
      /\ UNCHANGED bundle /\ AccountGrows
  BY ServerStaysGrows DEF AccountInv, FillFromStatus, Is, Tells
<1>2. CASE Present(id) /\ Completes(p, id, accounts[id].state, TRUE)
  <2>1. Known(id) /\ accounts[id] \in AccountRecords
    BY <1>2 DEF Present, Known, AccountInv
  <2>2. accounts[id].state \in ActiveStates => id \in activated
    BY <2>1 DEF AccountInv, AccountRecords, States, ActiveStates, Known
  <2>. QED BY <1>1, <1>2, <2>2, CompletesStep DEF AccountGrows
<1>3. CASE Completes(p, id, "verified_active", onboard[p].told)
  BY <1>1, <1>3, CompletesStep DEF AccountGrows
<1>. QED BY <1>2, <1>3 DEF FillFromStatus

LEMMA AskingStep ==
  ASSUME AccountInv, NEW p \in AccountProcs,
         GetStatus(p) \/ ResendVerification(p) \/ Whoami(p) \/ Killed(p)
  PROVE  AccountInv'
<1>1. UNCHANGED bundle /\ (GetStatus(p) \/ ResendVerification(p) \/ Whoami(p) =>
        onboard[p].cmd.op \in {"status", "resend", "whoami"})
  BY DEF GetStatus, ResendVerification, Whoami, Killed, Is
<1>2. AccountGrows
  <2>1. CASE ServerStays
    BY <2>1, ServerStaysGrows
  <2>2. CASE ~ServerStays
    <3>. DEFINE id == onboard[p].cmd.id
    <3>1. /\ Known(id) /\ accounts' = [accounts EXCEPT ![id].code = @ + 1]
          /\ UNCHANGED activated
      BY <2>2 DEF ServerStays, GetStatus, ResendVerification, Whoami, Killed
    <3>2. accounts \in Seq(AccountRecords) /\ id \in 1..Len(accounts)
          /\ DOMAIN accounts = 1..Len(accounts)
      BY <3>1 DEF AccountInv, Known
    <3>. HIDE DEF id
    <3>3. accounts[id] \in AccountRecords
      BY <3>2
    <3>4. /\ [accounts[id] EXCEPT !.code = @ + 1] \in AccountRecords
          /\ [accounts[id] EXCEPT !.code = @ + 1].realm = accounts[id].realm
          /\ [accounts[id] EXCEPT !.code = @ + 1].state = accounts[id].state
      BY <3>3 DEF AccountRecords
    <3>5. accounts' = [accounts EXCEPT ![id] = [accounts[id] EXCEPT !.code = @ + 1]]
      BY <3>1
    <3>. QED BY <3>1, <3>2, <3>4, <3>5 DEF AccountInv, AccountGrows
  <2>. QED BY <2>1, <2>2
<1>3. ASSUME NEW result, Finishes(p, result),
             onboard[p].cmd.op \in {"status", "resend", "whoami"} \/ result.outcome = "killed"
      PROVE  AccountInv'
  BY <1>1, <1>2, <1>3, FinishStep
<1>4. CASE GetStatus(p)
  BY <1>1, <1>3, <1>4 DEF GetStatus
<1>5. CASE ResendVerification(p)
  BY <1>1, <1>3, <1>5 DEF ResendVerification
<1>6. CASE Whoami(p)
  BY <1>1, <1>3, <1>6 DEF Whoami
<1>7. CASE Killed(p)
  BY <1>3, <1>7 DEF Killed
<1>. QED BY <1>4, <1>5, <1>6, <1>7

LEMMA LoadForRemovalStep ==
  ASSUME AccountInv, NEW p \in AccountProcs, LoadForRemoval(p)
  PROVE  AccountInv'
<1>1. /\ onboard[p].cmd.op = "deregister" /\ UNCHANGED bundle /\ AccountGrows
  BY ServerStaysGrows DEF LoadForRemoval, Is
<1>2. ASSUME NEW result, Finishes(p, result), result.outcome \notin {"accepted", "already_deleted"}
      PROVE  AccountInv'
  BY <1>1, <1>2, FinishStep
<1>3. CASE Moves(p, [pc |-> "send", acting |-> session.of])
  <2>. PICK a : a = onboard'[p]
    OBVIOUS
  <2>. PICK c : c = onboard[p].cmd
    OBVIOUS
  <2>1. Tells(onboard[p])
    BY DEF AccountInv
  <2>. DEFINE r == [pc |-> "send", acting |-> session.of]
  <2>2. DOMAIN r = {"pc", "acting"} /\ r.pc = "send" /\ Moves(p, r)
    BY <1>3
  <2>. HIDE DEF r
  <2>3. /\ {"cmd", "pc"} \subseteq DOMAIN a /\ a.pc = "send" /\ a.cmd = c
        /\ c \in AccountCommands /\ c.op = "deregister"
    BY <1>1, <2>1, <2>2, MovesTo DEF Tells
  <2>4. Tells(a)'
    BY <2>3 DEF Tells
  <2>. QED BY <1>1, <2>2, <2>4, AccountStepOf
<1>. QED BY <1>2, <1>3 DEF LoadForRemoval

LEMMA RemoveStep ==
  ASSUME AccountInv, NEW p \in AccountProcs, Remove(p)
  PROVE  AccountInv'
<1>. DEFINE id == onboard[p].cmd.id
            there == Present(id) /\ accounts[id].realm = onboard[p].cmd.realm
            Classified(status, says, refusal) ==
              Finishes(p, [outcome |-> ClassifyRemoval([status |-> status, says |-> says]),
                           known |-> Known(id), refusal |-> refusal])
            Answered(status, says) == Classified(status, says, FALSE)
            Unreachable == Finishes(p, [outcome |-> "network"])
<1>1. onboard[p].cmd.op = "deregister" /\ UNCHANGED bundle
  BY DEF Remove, Is
<1>2. ASSUME AccountGrows, NEW result, Finishes(p, result),
             result.outcome \notin {"accepted", "already_deleted"}
      PROVE  AccountInv'
  BY <1>1, <1>2, FinishStep
<1>3. ASSUME AccountGrows, NEW status \in {401, 403, 500}, Answered(status, "other")
      PROVE  AccountInv'
  <2>1. ClassifyRemoval([status |-> status, says |-> "other"]) \in {"rejected", "failed"}
    BY DEF ClassifyRemoval
  <2>. QED BY <1>2, <1>3, <2>1
<1>4. CASE Unreachable /\ AccountGrows
  BY <1>2, <1>4
<1>6. CASE ~there /\ Answered(404, "identity_not_found") /\ ServerStays
  <2>. PICK c : c = onboard[p].cmd
    OBVIOUS
  <2>1. Known(c.id) => (Removing(c.id) \/ accounts[c.id].realm # c.realm)
    BY <1>6 DEF Present, Removing
  <2>. DEFINE result == [outcome |-> ClassifyRemoval([status |-> 404, says |-> "identity_not_found"]),
                         known |-> Known(id), refusal |-> FALSE]
  <2>2. result.known => Known(c.id)
    OBVIOUS
  <2>3. Finishes(p, result)
    BY <1>6
  <2>. HIDE DEF result
  <2>4. result.known =>
          (Known(c.id) /\ (Removing(c.id) \/ accounts[c.id].realm # c.realm))'
    BY <1>6, <2>1, <2>2 DEF ServerStays, Known, Removing
  <2>5. AccountGrows
    BY <1>6, ServerStaysGrows
  <2>. QED BY <1>1, <2>3, <2>4, <2>5, FinishStep
<1>7. ASSUME there, NEW s \in {"removing", "removed"}, Set(id, s), UNCHANGED activated,
             NEW result, Finishes(p, result)
      PROVE  AccountInv'
  <2>1. Known(id) /\ s \in States \ {"active"}
    BY <1>7 DEF Present, States
  <2>2. AccountGrows
    BY <1>7, <2>1, SetGrows
  <2>. PICK i : i = id
    OBVIOUS
  <2>3. accounts'[i].state = s /\ i \in DOMAIN accounts'
    BY <1>7, <2>1, AccountSetFacts DEF Known
  <2>. PICK c : c = onboard[p].cmd
    OBVIOUS
  <2>4. Known(c.id)' /\ Removing(c.id)'
    BY <2>3 DEF Known, Removing
  <2>. QED BY <1>1, <1>7, <2>2, <2>4, FinishStep
<1>8. ServerStays => AccountGrows
  BY ServerStaysGrows
<1>9. CASE ~there /\ (Answered(404, "identity_not_found") \/ Unreachable) /\ ServerStays
  BY <1>4, <1>6, <1>8, <1>9
<1>10. CASE (Answered(403, "other") \/ Answered(500, "other") \/ Answered(401, "other")
             \/ Unreachable) /\ ServerStays
  BY <1>3, <1>4, <1>8, <1>10
<1>11. CASE /\ there /\ UNCHANGED activated
            /\ \/ /\ Set(id, "removed")
                  /\ Answered(200, "removed") \/ Answered(500, "other") \/ Unreachable
               \/ Set(id, "removing") /\ (Answered(202, "other") \/ Unreachable)
  BY <1>7, <1>11
<1>12. CASE Classified(200, "other", TRUE) /\ ServerStays
  <2>. DEFINE result == [outcome |-> ClassifyRemoval([status |-> 200, says |-> "other"]),
                         known |-> Known(id), refusal |-> TRUE]
  <2>1. result.refusal /\ Finishes(p, result)
    BY <1>12
  <2>. HIDE DEF result
  <2>. QED BY <1>1, <1>8, <1>12, <2>1, FinishStep
<1>. QED BY <1>9, <1>10, <1>11, <1>12 DEF Remove

LEMMA WriteBundleStep ==
  ASSUME AccountInv, NEW p \in AccountProcs, WriteBundle(p)
  PROVE  AccountInv'
<1>1. /\ Tells(onboard[p]) /\ onboard[p].pc = "bundle" /\ AccountGrows
      /\ UNCHANGED <<accounts, activated>>
  BY ServerStaysGrows DEF AccountInv, WriteBundle, ServerStays
<1>. PICK a : a = onboard'[p]
  OBVIOUS
<1>. PICK b : b = onboard[p]
  OBVIOUS
<1>2. ASSUME NEW r, Moves(p, r), DOMAIN r \in {{"next"}, {"pc"}},
             DOMAIN r = {"next"} => r.next \in Nat \ {0}, DOMAIN r = {"pc"} => r.pc = "done"
      PROVE  Tells(a)'
  <2>1. /\ a.cmd = b.cmd /\ a.result = b.result /\ {"cmd", "pc", "result"} \subseteq DOMAIN a
        /\ \/ a.pc = "done"
           \/ /\ a.pc = "bundle" /\ a.next \in Nat \ {0} /\ a.verification = b.verification
              /\ {"next", "verification"} \subseteq DOMAIN a
    BY <1>1, <1>2, MovesTo DEF Tells
  <2>2. Tells(b) /\ b.pc = "bundle"
    BY <1>1
  <2>3. Tells(a)
    BY <2>1, <2>2 DEF Tells
  <2>. QED BY <1>1, <2>3, TellsStill
<1>3. CASE UNCHANGED bundle /\ Moves(p, [pc |-> "done"])
  <2>. DEFINE r == [pc |-> "done"]
  <2>1. DOMAIN r = {"pc"} /\ r.pc = "done" /\ Moves(p, r) /\ {"pc"} # {"next"}
    BY <1>3
  <2>. HIDE DEF r
  <2>. QED BY <1>1, <1>2, <1>3, <2>1, AccountStepOf
<1>4. CASE /\ onboard[p].next <= 3
           /\ bundle' = [bundle EXCEPT ![Parts[onboard[p].next]] =
                           Document(p, Parts[onboard[p].next])]
           /\ Moves(p, [next |-> onboard[p].next + 1])
  <2>1. onboard[p].next \in 1..3
    BY <1>1, <1>4 DEF Tells
  <2>2. Parts[1] = "core.json" /\ Parts[2] # "core.json" /\ Parts[3] # "core.json"
    BY DEF Parts
  <2>3. DOMAIN bundle' = DOMAIN bundle /\ "core.json" \in DOMAIN bundle
    <3>1. DOMAIN bundle = {Parts[i] : i \in 1..3}
      BY DEF AccountInv
    <3>. QED BY <1>4, <2>2, <3>1
  <2>4. \/ bundle'["core.json"] = bundle["core.json"]
        \/ bundle'["core.json"] = Document(p, "core.json")
    BY <1>4, <2>1, <2>2, <2>3
  <2>5. Document(p, "core.json").success /\ Document(p, "core.json").told =>
          Document(p, "core.json").of \in activated
    BY <1>1 DEF Tells, Document, VerifiesTruly
  <2>. DEFINE r == [next |-> onboard[p].next + 1]
  <2>6. DOMAIN r = {"next"} /\ r.next \in Nat \ {0} /\ Moves(p, r) /\ {"pc"} # {"next"}
    BY <1>4, <2>1
  <2>. HIDE DEF r
  <2>7. Tells(a)'
    BY <1>2, <2>6
  <2>. QED BY <1>1, <2>3, <2>4, <2>5, <2>6, <2>7, AccountStepOf
<1>. QED BY <1>3, <1>4 DEF WriteBundle

\* What happens without a command.
LEMMA ServerStep ==
  ASSUME AccountInv, UNCHANGED <<onboard, bundle>>, AccountGrows
  PROVE  AccountInv'
<1>1. ASSUME NEW p \in AccountProcs PROVE Tells(onboard[p])'
  <2>. PICK a : a = onboard[p]
    OBVIOUS
  <2>1. Tells(a)'
    BY TellsStill DEF AccountInv
  <2>. QED BY <2>1
<1>. QED BY <1>1 DEF AccountInv, AccountGrows

LEMMA AccountInit0 == AccountInit => AccountInv
<1>. SUFFICES ASSUME AccountInit PROVE AccountInv
  OBVIOUS
<1>1. PICK scene \in AccountScenes :
        onboard = [p \in AccountProcs |-> [cmd |-> scene[p], pc |-> "start"]]
  BY DEF AccountInit
<1>2. \A p \in AccountProcs : scene[p] \in AccountCommands
  BY AccountAssumption
<1>3. \A p \in AccountProcs : Tells(onboard[p])
  BY <1>1, <1>2 DEF Tells
<1>4. accounts \in Seq(AccountRecords)
  <2>1. [realm : Realms, code : {1}, state : {"pending_verification", "active"}]
          \subseteq AccountRecords
    BY DEF AccountRecords, States
  <2>. DEFINE Oldest == [realm : Realms, code : {1}, state : {"pending_verification", "active"}]
  <2>2. accounts \in {<<>>} \cup {<<a>> : a \in Oldest}
    BY DEF AccountInit
  <2>. HIDE DEF Oldest
  <2>3. Oldest \subseteq AccountRecords
    BY <2>1 DEF Oldest
  <2>4. ASSUME NEW a \in AccountRecords PROVE <<a>> \in Seq(AccountRecords)
    OBVIOUS
  <2>5. <<>> \in Seq(AccountRecords)
    OBVIOUS
  <2>6. accounts = <<>> \/ \E a \in Oldest : accounts = <<a>>
    BY <2>2, Zenon
  <2>. QED BY <2>3, <2>4, <2>5, <2>6, Zenon
<1>5. DOMAIN bundle = {Parts[i] : i \in 1..3} /\ bundle["core.json"] = NoDocument
  <2>1. "core.json" = Parts[1]
    BY DEF Parts
  <2>. QED BY <2>1 DEF AccountInit
<1>. QED BY <1>1, <1>3, <1>4, <1>5 DEF AccountInv, AccountInit

LEMMA AccountStep ==
  ASSUME AccountInv, [AccountNext]_accountVars
  PROVE  AccountInv'
<1>1. CASE UNCHANGED accountVars
  BY <1>1, ServerStep, ServerStaysGrows DEF accountVars, ServerStays
<1>2. ASSUME NEW p \in AccountProcs,
             Register(p) \/ Verify(p) \/ FillFromStatus(p) \/ GetStatus(p) \/ ResendVerification(p)
               \/ Whoami(p) \/ LoadForRemoval(p) \/ Remove(p) \/ WriteBundle(p) \/ Killed(p)
      PROVE  AccountInv'
  BY <1>2, RegisterStep, VerifyStep, FillFromStatusStep, AskingStep, LoadForRemovalStep,
     RemoveStep, WriteBundleStep
<1>3. ASSUME NEW id \in DOMAIN accounts, Block(id) \/ CompleteRemoval(id) PROVE AccountInv'
  <2>1. PICK s \in {"blocked", "removed"} :
          Set(id, s) /\ UNCHANGED <<onboard, bundle, activated>> /\ (Removing(id) => s = "removed")
    BY <1>3 DEF Block, CompleteRemoval, Removing
  <2>2. AccountGrows
    BY <2>1, SetGrows DEF States, Known
  <2>. QED BY <2>1, <2>2, ServerStep
<1>4. ASSUME NEW id \in DOMAIN accounts, LogIn(id) PROVE AccountInv'
  BY <1>4, ServerStep, ServerStaysGrows DEF LogIn, ServerStays
<1>5. CASE Expire
  BY <1>5, ServerStep, ServerStaysGrows DEF Expire, ServerStays
<1>. QED BY <1>1, <1>2, <1>3, <1>4, <1>5 DEF AccountNext

\* What keyhole verify and its bundle call active was activated by the server,
\* unless it is what they make of a 200 without ids and a status without answer.
THEOREM VerifiedIsActive == AccountSpec => []VerifiedWasActive
<1>1. AccountInv => VerifiedWasActive
  BY DEF AccountInv, Tells, VerifiesTruly, VerifiedWasActive, Done
<1>. QED BY AccountInit0, AccountStep, <1>1, PTL DEF AccountSpec

\* What keyhole deregister reports as deleted is going or gone, unless the server
\* refused it at 200.
THEOREM DeletedIsGone == AccountSpec => []DeletionIsTrue
<1>1. AccountInv => DeletionIsTrue
  BY DEF AccountInv, Tells, Removing, DeletionIsTrue, Done
<1>. QED BY AccountInit0, AccountStep, <1>1, PTL DEF AccountSpec

-----------------------------------------------------------------------------
(***************************************************************************)
(* Doctor.  A run has learnt exactly what holds of what it has probed, as  *)
(* long as nothing changed beside it, and what a step of a plan brought    *)
(* about holds until something changes.                                    *)
(***************************************************************************)
AsksFacts == doctor.name \in {"environment", "library"}

Seen == UNION {Probes(doctor.name)[i] : i \in 1..probed}

Learned ==
  /\ probed \in 0..Len(Probes(doctor.name))
  /\ AsksFacts => facts = Seen \cap (holds \ Hidden(doctor))
  /\ ~AsksFacts => /\ facts \subseteq holds \cap Seen
                   /\ Conditions(doctor.name) \subseteq holds => Seen \subseteq facts

\* The groups are those of the failures.
Grouped ==
  /\ report.fails \subseteq Checks /\ todo \subseteq report.plan
  /\ report.groups = [r \in Roots(report.fails) |-> Downstream(r, report.fails)]

DoctorInv ==
  /\ doctor.name \in {"environment", "library", "launch", "auth"} /\ "name" \in DOMAIN doctor
  /\ AsksFacts => holds \subseteq Conditions("library")
  /\ \A c \in followed : Repaired(c) \subseteq holds
  /\ report = NoReport /\ ~quiet => followed = {}
  /\ report = NoReport /\ quiet => Learned
  /\ todo \subseteq Checks \ {"mcp_boundary"}
  /\ EnvironmentReport => Grouped
  /\ PlanIsNotRepeated
  /\ VerdictIsOfTheWorld

(***************************************************************************)
(* What is probed.                                                         *)
(***************************************************************************)
LEMMA LibraryKnows ==
  /\ Conditions("library") = {"python", "version", "cli", "docker", "compose", "running",
                              "reachable", "config", "boundary", "compatible"}
  /\ Len(Probes("library")) = 1
<1>1. Probes("library") = Given
  BY DEF Probes
<1>2. Len(Given) = 1 /\ Given[1] = {"python", "version", "cli", "docker", "compose", "running",
                                    "reachable", "config", "boundary", "compatible"}
  BY DEF Given
<1>3. 1..1 = {1}
  OBVIOUS
<1>. QED BY <1>1, <1>2, <1>3 DEF Conditions

LEMMA EnvironmentProbes ==
  /\ Conditions("environment") = {"cli", "docker", "compose", "running", "reachable", "config",
                                  "boundary"}
  /\ Len(Probes("environment")) = 6
<1>1. Probes("environment") = Collected
  BY DEF Probes
<1>2. /\ Len(Collected) = 6
      /\ Collected[1] = {"docker"} /\ Collected[2] = {"compose"} /\ Collected[3] = {"cli"}
      /\ Collected[4] = {"config"} /\ Collected[5] = {"running", "reachable"}
      /\ Collected[6] = {"boundary"}
  BY DEF Collected
<1>3. 1..6 = {1, 2, 3, 4, 5, 6}
  OBVIOUS
<1>4. UNION {Collected[i] : i \in 1..6}
        = Collected[1] \cup Collected[2] \cup Collected[3] \cup Collected[4] \cup Collected[5]
            \cup Collected[6]
  BY <1>3
<1>. QED BY <1>1, <1>2, <1>4 DEF Conditions

LEMMA LaunchProbes ==
  /\ Len(Probes("launch")) = 7
  /\ "login" \in Probes("launch")[1] /\ "declaration" \in Probes("launch")[3]
  /\ \A i \in 1..7 : /\ Probes("launch")[i] # {"dependencies"}
                     /\ Probes("launch")[i] = {"gap"} => i = 7
<1>1. Probes("launch") = Launch
  BY DEF Probes
<1>2. /\ Len(Launch) = 7
      /\ Launch[1] = {"login"} /\ Launch[2] = {"files"}
      /\ Launch[3] = {"declaration", "dependencies"} /\ Launch[4] = {"valid"}
      /\ Launch[5] = {"writable"} /\ Launch[6] = {"ignored"} /\ Launch[7] = {"gap"}
  BY DEF Launch
<1>3. \A i \in 1..7 : i = 1 \/ i = 2 \/ i = 3 \/ i = 4 \/ i = 5 \/ i = 6 \/ i = 7
  OBVIOUS
<1>. QED BY <1>1, <1>2, <1>3

LEMMA AuthProbes ==
  /\ Len(Probes("auth")) = 2
  /\ "session" \in Probes("auth")[1]
  /\ \A i \in 1..2 : Probes("auth")[i] # {"dependencies"}
<1>1. Probes("auth") = Auth
  BY DEF Probes
<1>2. /\ Len(Auth) = 2
      /\ Auth[1] = {"session", "fresh", "brokered"} /\ Auth[2] = {"answers", "envelope", "realms"}
  BY DEF Auth
<1>3. \A i \in 1..2 : i = 1 \/ i = 2
  OBVIOUS
<1>. QED BY <1>1, <1>2, <1>3

LEMMA FactsAreOfTheLibrary ==
  ASSUME NEW name \in {"environment", "library"}
  PROVE  /\ Conditions(name) \subseteq Conditions("library")
         /\ Conditions("library") = Conditions(name) \cup Granted(name)
BY LibraryKnows, EnvironmentProbes DEF Granted

LEMMA OneMoreIsSeen ==
  ASSUME NEW name, NEW n \in Nat
  PROVE  UNION {Probes(name)[i] : i \in 1..(n + 1)}
           = (UNION {Probes(name)[i] : i \in 1..n}) \cup Probes(name)[n + 1]
<1>1. 1..(n + 1) = 1..n \cup {n + 1}
  OBVIOUS
<1>. QED BY <1>1

(***************************************************************************)
(* A probe learns what holds.                                              *)
(***************************************************************************)
LEMMA ProbeStep ==
  ASSUME DoctorInv, Probe
  PROVE  DoctorInv'
<1>. DEFINE name == doctor.name
            next == Probes(name)[probed + 1]
<1>1. /\ report = NoReport /\ report' = NoReport /\ probed < Len(Probes(name))
      /\ facts' = facts \cup Learnt(name, probed + 1) /\ probed' = probed + 1
      /\ UNCHANGED <<doctor, holds, todo, quiet, followed>>
  BY DEF Probe
<1>2. ASSUME quiet PROVE Learned'
  <2>1. Learned
    BY <1>1, <1>2 DEF DoctorInv
  <2>2. Len(Probes(name)) \in Nat /\ probed \in Nat
    <3>1. Len(Probes(name)) \in Nat
      BY LibraryKnows, EnvironmentProbes, LaunchProbes, AuthProbes DEF DoctorInv
    <3>. QED BY <2>1, <3>1 DEF Learned
  <2>3. probed' \in 0..Len(Probes(name)) /\ probed + 1 \in 1..Len(Probes(name))
    BY <1>1, <2>2
  <2>4. Seen' = Seen \cup next
    BY <1>1, <2>2, OneMoreIsSeen DEF Seen
  <2>5. next \subseteq Conditions(name)
    BY <2>3 DEF Conditions
  <2>6. CASE AsksFacts
    <3>1. "dependencies" \notin next /\ name # "launch"
      <4>1. "dependencies" \notin Conditions("library")
        BY LibraryKnows
      <4>. QED BY <2>5, <2>6, <4>1, FactsAreOfTheLibrary DEF AsksFacts
    <3>2. Learnt(name, probed + 1) = next \cap (holds \ Hidden(doctor))
      BY <3>1 DEF Learnt
    <3>3. facts' = Seen' \cap (holds \ Hidden(doctor))
      BY <1>1, <2>1, <2>4, <2>6, <3>2 DEF Learned
    <3>4. Hidden(doctor)' = Hidden(doctor) /\ AsksFacts' = AsksFacts
      BY <1>1 DEF Hidden, AsksFacts
    <3>. QED BY <1>1, <2>3, <2>6, <3>3, <3>4 DEF Learned
  <2>7. CASE ~AsksFacts
    <3>1. Learnt(name, probed + 1) \subseteq next \cap holds
      BY DEF Learnt
    <3>2. Hidden(doctor) = {}
      BY <2>7 DEF Hidden, AsksFacts
    <3>3. next # {"dependencies"}
      BY <2>3, <2>7, LaunchProbes, AuthProbes DEF DoctorInv, AsksFacts
    <3>4. ASSUME Conditions(name) \subseteq holds PROVE next \subseteq Learnt(name, probed + 1)
      <4>1. next \cap (holds \ Hidden(doctor)) = next
        BY <2>5, <3>2, <3>4
      <4>2. CASE name = "launch" /\ next = {"gap"}
        <5>1. probed = 6
          <6>1. probed + 1 \in 1..7 /\ Probes("launch")[probed + 1] = {"gap"}
            BY <2>3, <4>2, LaunchProbes
          <6>2. probed + 1 = 7
            BY <6>1, LaunchProbes, Zenon
          <6>. QED BY <2>2, <6>2
        <5>2. Probes("launch")[1] \subseteq Seen /\ Probes("launch")[3] \subseteq Seen
          BY <4>2, <5>1 DEF Seen
        <5>3. {"login", "declaration"} \subseteq facts
          BY <2>1, <2>7, <3>4, <5>2, LaunchProbes DEF Learned
        <5>. QED BY <3>3, <4>1, <5>3 DEF Learnt
      <4>3. CASE ~(name = "launch" /\ next = {"gap"})
        BY <3>3, <4>1, <4>3 DEF Learnt
      <4>. QED BY <4>2, <4>3
    <3>5. facts' \subseteq holds \cap Seen'
      BY <1>1, <2>1, <2>4, <2>7, <3>1 DEF Learned
    <3>6. Conditions(name) \subseteq holds => Seen' \subseteq facts'
      BY <1>1, <2>1, <2>4, <2>7, <3>4 DEF Learned
    <3>7. AsksFacts' = AsksFacts
      BY <1>1 DEF AsksFacts
    <3>. QED BY <1>1, <2>3, <2>7, <3>5, <3>6, <3>7 DEF Learned
  <2>. QED BY <2>6, <2>7
<1>. QED
  BY <1>1, <1>2
  DEF DoctorInv, AsksFacts, EnvironmentReport, PlanIsNotRepeated, VerdictIsOfTheWorld

(***************************************************************************)
(* What fails, and what a plan asks for.                                   *)
(***************************************************************************)
LEMMA ReadyWhenNoneFails ==
  ASSUME NEW h, NEW mode, NEW url
  PROVE  EnvironmentReady(mode, url, h) <=> Failed(h, EffectiveMode(mode, h), url) = {}
<1>. DEFINE isLocal == EffectiveMode(mode, h) = "local_only"
<1>1. Local(mode, h) <=> isLocal
  BY DEF Local, EffectiveMode
<1>2. Failed(h, EffectiveMode(mode, h), url) = {}
        <=> \A c \in Checks : CheckResult(c, h, EffectiveMode(mode, h), url) # "fail"
  BY DEF Failed
<1>3. (\A c \in Checks : CheckResult(c, h, EffectiveMode(mode, h), url) # "fail")
        <=> /\ PythonAvailable(h) # "fail" /\ PythonVersion(h) # "fail"
            /\ CliInstalled(h) # "fail" /\ DockerAvailable(h) # "fail"
            /\ ComposeAvailable(h) # "fail"
            /\ RuntimeRunning(h, EffectiveMode(mode, h), url) # "fail"
            /\ RuntimeReachable(h, EffectiveMode(mode, h), url) # "fail"
            /\ McpConfig(h, EffectiveMode(mode, h)) # "fail"
            /\ McpBoundary(h, EffectiveMode(mode, h)) # "fail"
            /\ SdkCompatibility(h) # "fail"
  BY DEF Checks, CheckResult
<1>4. /\ PythonAvailable(h) # "fail" <=> "python" \in h
      /\ PythonVersion(h) # "fail" <=> {"python", "version"} \subseteq h
      /\ CliInstalled(h) # "fail" <=> "cli" \in h
      /\ DockerAvailable(h) # "fail" <=> "docker" \in h
      /\ ComposeAvailable(h) # "fail" <=> {"docker", "compose"} \subseteq h
      /\ SdkCompatibility(h) # "fail" <=> "compatible" \in h
  BY DEF PythonAvailable, PythonVersion, CliInstalled, DockerAvailable, ComposeAvailable,
         SdkCompatibility
<1>5. /\ McpConfig(h, EffectiveMode(mode, h)) # "fail"
           <=> isLocal \/ "config" \in h \/ "boundary" \in h
      /\ McpBoundary(h, EffectiveMode(mode, h)) # "fail"
           <=> isLocal \/ "config" \in h \/ "boundary" \in h
  BY DEF McpConfig, McpBoundary
<1>6. RuntimeRunning(h, EffectiveMode(mode, h), url) # "fail"
        <=> \/ "boundary" \in h
            \/ /\ ~("docker" \notin h /\ isLocal)
               /\ "running" \in h \/ (isLocal /\ ~url)
  BY DEF RuntimeRunning
<1>7. RuntimeReachable(h, EffectiveMode(mode, h), url) # "fail"
        <=> \/ "boundary" \in h
            \/ "running" \notin h /\ isLocal /\ ~url
            \/ {"running", "reachable"} \subseteq h
  BY DEF RuntimeReachable
<1>. HIDE DEF isLocal
<1>. QED BY <1>1, <1>2, <1>3, <1>4, <1>5, <1>6, <1>7 DEF EnvironmentReady

\* A step of a plan brings about what its check looks for, unless the command
\* cannot see it.
LEMMA RepairedIsNotRoot ==
  ASSUME NEW d, NEW f, NEW h, NEW mode, NEW url, NEW c \in Checks \ {"mcp_boundary"},
         Repaired(c) \subseteq h, h \ Hidden(d) \subseteq f, f \cap Hidden(d) = {},
         c \in Roots(Failed(f, mode, url))
  PROVE  c = "runtime_running" /\ d.name = "environment" /\ ~d.url
<1>. DEFINE fails == Failed(f, mode, url)
<1>1. c \in fails /\ \A r \in DOMAIN DependencyMap : r \in fails => c \notin DependencyMap[r]
  BY DEF Roots, Causes
<1>2. /\ DOMAIN DependencyMap = {"python_available", "docker_available", "runtime_running"}
      /\ DependencyMap["python_available"] = {"python_version", "cli_installed"}
      /\ DependencyMap["docker_available"] = {"compose_available", "runtime_running"}
      /\ DependencyMap["runtime_running"] = {"runtime_reachable"}
  BY DEF DependencyMap
<1>3. \A k \in Checks : k \in fails <=> CheckResult(k, f, mode, url) = "fail"
  BY DEF Failed
<1>4. /\ "python_available" \in fails <=> PythonAvailable(f) = "fail"
      /\ "python_version" \in fails <=> PythonVersion(f) = "fail"
      /\ "cli_installed" \in fails <=> CliInstalled(f) = "fail"
      /\ "docker_available" \in fails <=> DockerAvailable(f) = "fail"
      /\ "compose_available" \in fails <=> ComposeAvailable(f) = "fail"
      /\ "runtime_running" \in fails <=> RuntimeRunning(f, mode, url) = "fail"
      /\ "runtime_reachable" \in fails <=> RuntimeReachable(f, mode, url) = "fail"
      /\ "mcp_config" \in fails <=> McpConfig(f, mode) = "fail"
      /\ "sdk_runtime_compatibility" \in fails <=> SdkCompatibility(f) = "fail"
  BY <1>3 DEF Checks, CheckResult
<1>. HIDE DEF fails
<1>5. Hidden(d) \subseteq {"running", "reachable"}
  BY DEF Hidden
<1>6. Hidden(d) # {} => d.name = "environment" /\ ~d.url
  BY DEF Hidden
<1>7. CASE c = "python_available"
  BY <1>1, <1>4, <1>5, <1>7 DEF Repaired, PythonAvailable
<1>8. CASE c = "python_version"
  BY <1>1, <1>2, <1>4, <1>5, <1>8 DEF Repaired, PythonAvailable, PythonVersion
<1>9. CASE c = "cli_installed"
  BY <1>1, <1>4, <1>5, <1>9 DEF Repaired, CliInstalled
<1>10. CASE c = "docker_available"
  BY <1>1, <1>4, <1>5, <1>10 DEF Repaired, DockerAvailable
<1>11. CASE c = "compose_available"
  BY <1>1, <1>2, <1>4, <1>5, <1>11 DEF Repaired, DockerAvailable, ComposeAvailable
<1>12. CASE c = "runtime_running"
  <2>1. CASE Hidden(d) = {}
    <3>1. "running" \in f
      BY <1>12, <2>1 DEF Repaired
    <3>2. "docker_available" \notin fails
      BY <1>1, <1>2, <1>12
    <3>. QED BY <1>1, <1>4, <1>12, <3>1, <3>2 DEF RuntimeRunning, DockerAvailable
  <2>. QED BY <1>6, <1>12, <2>1
<1>13. CASE c = "runtime_reachable"
  <2>1. RuntimeReachable(f, mode, url) = "fail"
    BY <1>1, <1>4, <1>13
  <2>2. RuntimeRunning(f, mode, url) # "fail"
    BY <1>1, <1>2, <1>4, <1>13
  <2>3. "running" \in f /\ "reachable" \notin f
    BY <2>1, <2>2 DEF RuntimeReachable, RuntimeRunning
  <2>4. "reachable" \in h
    BY <1>13 DEF Repaired
  <2>. QED BY <2>3, <2>4 DEF Hidden
<1>14. CASE c = "mcp_config"
  BY <1>1, <1>4, <1>5, <1>14 DEF Repaired, McpConfig
<1>15. CASE c = "sdk_runtime_compatibility"
  BY <1>1, <1>4, <1>5, <1>15 DEF Repaired, SdkCompatibility
<1>. QED
  BY <1>7, <1>8, <1>9, <1>10, <1>11, <1>12, <1>13, <1>14, <1>15 DEF Checks

\* The groups of the failures partition them.
LEMMA GroupsPartition ==
  ASSUME NEW fails \in SUBSET Checks
  PROVE  LET Group(r) == {r} \cup Downstream(r, fails) IN
         /\ (UNION {Group(r) : r \in Roots(fails)}) = fails
         /\ \A r, s \in Roots(fails) : r # s => Group(r) \cap Group(s) = {}
<1>. DEFINE Group(r) == {r} \cup Downstream(r, fails)
            Under(r) == {c \in fails : r \in Causes(c, fails)}
<1>1. \A c \in Checks : \A r :
        r \in Causes(c, fails)
          <=> \/ r = "python_available" /\ r \in fails /\ c \in {"python_version", "cli_installed"}
              \/ r = "docker_available" /\ r \in fails /\ c \in {"compose_available", "runtime_running"}
              \/ r = "runtime_running" /\ r \in fails /\ c = "runtime_reachable"
  BY DEF Causes, DependencyMap
<1>2. \A r : Downstream(r, fails) = Under(r) \cup (UNION {Under(c) : c \in Under(r)})
  BY DEF Downstream
<1>. HIDE DEF Under
<1>3. \A r, c : c \in Downstream(r, fails)
        <=> c \in Under(r) \/ \E b \in Under(r) : c \in Under(b)
  BY <1>2
<1>4. \A r, c : c \in Under(r) <=> c \in fails /\ r \in Causes(c, fails)
  BY DEF Under
<1>5. \A r, c : c \in Downstream(r, fails)
        <=> c \in fails /\ \/ r \in Causes(c, fails)
                           \/ \E b \in fails : r \in Causes(b, fails) /\ b \in Causes(c, fails)
  BY <1>3, <1>4
<1>6. \A c \in fails : \E r \in Roots(fails) : c \in Group(r)
  <2>1. SUFFICES ASSUME NEW c \in fails PROVE \E r \in Roots(fails) : c \in Group(r)
    OBVIOUS
  <2>2. CASE Causes(c, fails) = {}
    BY <2>2 DEF Roots
  <2>3. CASE Causes(c, fails) # {}
    <3>1. PICK r : r \in Causes(c, fails)
      BY <2>3
    <3>2. r \in fails
      BY <1>1, <3>1
    <3>3. CASE Causes(r, fails) = {}
      <4>1. r \in Roots(fails) /\ c \in Downstream(r, fails)
        BY <1>5, <3>1, <3>2, <3>3 DEF Roots
      <4>. QED BY <4>1
    <3>4. CASE Causes(r, fails) # {}
      <4>1. PICK q : q \in Causes(r, fails)
        BY <3>4
      <4>2. q \in fails /\ q = "docker_available"
        BY <1>1, <3>1, <3>2, <4>1
      <4>3. Causes(q, fails) = {}
        BY <1>1, <4>2
      <4>4. q \in Roots(fails) /\ c \in Downstream(q, fails)
        BY <1>5, <3>1, <3>2, <4>1, <4>2, <4>3 DEF Roots
      <4>. QED BY <4>4
    <3>. QED BY <3>3, <3>4
  <2>. QED BY <2>2, <2>3
<1>7. \A r \in Roots(fails) : Group(r) \subseteq fails
  BY <1>5 DEF Roots
<1>8. (UNION {Group(r) : r \in Roots(fails)}) = fails
  BY <1>6, <1>7
<1>9. ASSUME NEW r \in Roots(fails), NEW s \in Roots(fails), NEW c,
             c \in Group(r), c \in Group(s)
      PROVE  r = s
  <2>1. Causes(r, fails) = {} /\ Causes(s, fails) = {} /\ r \in fails /\ s \in fails
    BY DEF Roots
  <2>2. c = r \/ c \in Downstream(r, fails)
    BY <1>9
  <2>3. c = s \/ c \in Downstream(s, fails)
    BY <1>9
  <2>4. CASE c = r \/ c = s
    BY <1>5, <2>1, <2>2, <2>3, <2>4
  <2>5. CASE c \in Downstream(r, fails) /\ c \in Downstream(s, fails)
    <3>1. \A b1, b2, k : b1 \in Causes(k, fails) /\ b2 \in Causes(k, fails) /\ k \in fails => b1 = b2
      BY <1>1
    <3>. QED BY <1>5, <2>1, <2>5, <3>1
  <2>. QED BY <2>2, <2>3, <2>4, <2>5
<1>. QED BY <1>8, <1>9

(***************************************************************************)
(* The other steps.                                                        *)
(***************************************************************************)
LEMMA ReportEnvironmentStep ==
  ASSUME DoctorInv, ReportEnvironment
  PROVE  DoctorInv'
<1>. DEFINE f == facts \cup Granted(doctor.name)
            m == EffectiveMode(doctor.mode, f)
            fails == Failed(f, m, doctor.url)
            plan == IF doctor.verify THEN {} ELSE RepairPlan(fails)
            ready == Ready(doctor, holds)
<1>1. /\ doctor.name \in {"environment", "library"}
      /\ report = NoReport /\ probed = Len(Probes(doctor.name))
      /\ UNCHANGED <<doctor, holds, probed, facts, quiet, followed>>
  BY DEF ReportEnvironment
<1>2. /\ report'.fails = fails /\ report'.ok = (fails = {}) /\ report'.plan = plan
      /\ report'.groups = [r \in Roots(fails) |-> Downstream(r, fails)]
      /\ report'.ready = ready /\ todo' = plan
  BY DEF ReportEnvironment, Evaluation
<1>3. fails \subseteq Checks /\ plan \subseteq Checks \ {"mcp_boundary"}
  BY DEF Failed, RepairPlan, Roots
<1>4. ASSUME quiet PROVE f = (holds \cup Granted(doctor.name)) \ Hidden(doctor)
  <2>1. Learned /\ AsksFacts
    BY <1>1, <1>4 DEF DoctorInv, AsksFacts
  <2>2. Seen = Conditions(doctor.name)
    BY <1>1 DEF Seen, Conditions
  <2>3. facts = Conditions(doctor.name) \cap (holds \ Hidden(doctor))
    BY <2>1, <2>2 DEF Learned
  <2>4. holds \subseteq Conditions(doctor.name) \cup Granted(doctor.name)
    BY <1>1, <2>1, FactsAreOfTheLibrary DEF DoctorInv
  <2>5. Granted(doctor.name) \cap Hidden(doctor) = {}
    BY DEF Granted, Hidden
  <2>. QED BY <2>3, <2>4, <2>5
<1>5. ASSUME quiet PROVE fails = {} <=> ready
  <2>1. ready <=> EnvironmentReady(doctor.mode, doctor.url, f)
    BY <1>1, <1>4, <1>5 DEF Ready
  <2>2. EnvironmentReady(doctor.mode, doctor.url, f) <=> fails = {}
    BY ReadyWhenNoneFails
  <2>. QED BY <2>1, <2>2
<1>6. ASSUME NEW c \in plan \cap followed
      PROVE  c = "runtime_running" /\ doctor.name = "environment" /\ ~doctor.url
  <2>1. quiet
    BY <1>1, <1>6 DEF DoctorInv
  <2>2. Repaired(c) \subseteq holds
    BY <1>6 DEF DoctorInv
  <2>3. c \in Roots(fails) /\ c \in Checks \ {"mcp_boundary"}
    BY <1>3, <1>6 DEF RepairPlan
  <2>4. holds \ Hidden(doctor) \subseteq f /\ f \cap Hidden(doctor) = {}
    BY <1>4, <2>1
  <2>. HIDE DEF f, m
  <2>. QED BY <2>2, <2>3, <2>4, RepairedIsNotRoot
<1>. HIDE DEF fails, plan, ready, f, m
<1>7. Grouped'
  BY <1>2, <1>3 DEF Grouped
<1>8. PlanIsNotRepeated'
  BY <1>1, <1>2, <1>6 DEF PlanIsNotRepeated
<1>9. VerdictIsOfTheWorld'
  BY <1>1, <1>2, <1>5 DEF VerdictIsOfTheWorld
<1>10. Learned' <=> Learned
  BY <1>1 DEF Learned, AsksFacts, Seen
<1>. QED
  BY <1>1, <1>2, <1>3, <1>7, <1>8, <1>9, <1>10 DEF DoctorInv, AsksFacts

LEMMA ReportChecksStep ==
  ASSUME DoctorInv, ReportChecks
  PROVE  DoctorInv'
<1>1. /\ doctor.name \in {"launch", "auth"} /\ report = NoReport
      /\ \/ probed = Len(Probes(doctor.name))
         \/ doctor.name = "auth" /\ probed = 1 /\ "session" \notin facts
      /\ report'.ok = (Conditions(doctor.name) \subseteq facts)
      /\ report'.ready = Ready(doctor, holds)
      /\ UNCHANGED <<doctor, holds, probed, facts, todo, quiet, followed>>
  BY DEF ReportChecks
<1>2. ~AsksFacts
  BY <1>1 DEF AsksFacts
<1>3. ASSUME quiet PROVE Conditions(doctor.name) \subseteq facts <=> Ready(doctor, holds)
  <2>1. /\ facts \subseteq holds
        /\ Conditions(doctor.name) \subseteq holds => Seen \subseteq facts
    BY <1>1, <1>2, <1>3 DEF DoctorInv, Learned
  <2>2. Ready(doctor, holds) <=> Conditions(doctor.name) \subseteq holds
    BY <1>1 DEF Ready
  <2>3. CASE probed = Len(Probes(doctor.name))
    <3>1. Seen = Conditions(doctor.name)
      BY <2>3 DEF Seen, Conditions
    <3>. QED BY <2>1, <2>2, <3>1
  <2>4. CASE doctor.name = "auth" /\ probed = 1 /\ "session" \notin facts
    <3>1. Probes("auth")[1] \subseteq Seen
      BY <2>4 DEF Seen
    <3>2. Probes("auth")[1] \subseteq Conditions("auth")
      BY AuthProbes DEF Conditions
    <3>. QED BY <2>1, <2>2, <2>4, <3>1, <3>2, AuthProbes
  <2>. QED BY <1>1, <2>3, <2>4
<1>4. VerdictIsOfTheWorld'
  BY <1>1, <1>3 DEF VerdictIsOfTheWorld
<1>5. ~EnvironmentReport' /\ ~AsksFacts'
  BY <1>1 DEF EnvironmentReport, AsksFacts
<1>6. Learned' <=> Learned
  BY <1>1 DEF Learned, AsksFacts, Seen
<1>. QED BY <1>1, <1>4, <1>5, <1>6 DEF DoctorInv, PlanIsNotRepeated

LEMMA FollowStepStep ==
  ASSUME DoctorInv, FollowStep
  PROVE  DoctorInv'
<1>1. PICK i \in DOMAIN RepairOrder :
        /\ RepairOrder[i] \in todo
        /\ holds' = holds \cup Repaired(RepairOrder[i])
        /\ followed' = followed \cup {RepairOrder[i]}
        /\ todo' = todo \ {RepairOrder[i]}
  BY DEF FollowStep
<1>2. report # NoReport /\ UNCHANGED <<doctor, report, quiet>>
  BY DEF FollowStep
<1>. DEFINE c == RepairOrder[i]
<1>3. c \in Checks \ {"mcp_boundary"}
  BY <1>1 DEF DoctorInv
<1>4. Repaired(c) \subseteq Conditions("library")
  <2>. HIDE DEF c
  <2>. QED BY <1>3, LibraryKnows DEF Repaired, Checks
<1>5. EnvironmentReport' <=> EnvironmentReport
  BY <1>2 DEF EnvironmentReport
<1>6. EnvironmentReport => Grouped' /\ todo' # report.plan
  BY <1>1, <1>2 DEF DoctorInv, Grouped
<1>7. PlanIsNotRepeated' /\ VerdictIsOfTheWorld'
  BY <1>2, <1>5, <1>6 DEF DoctorInv, PlanIsNotRepeated, VerdictIsOfTheWorld
<1>8. \A k \in followed' : Repaired(k) \subseteq holds'
  BY <1>1 DEF DoctorInv
<1>. HIDE DEF c
<1>. QED
  BY <1>1, <1>2, <1>4, <1>5, <1>6, <1>7, <1>8 DEF DoctorInv, AsksFacts, c

LEMMA RunAgainStep ==
  ASSUME DoctorInv, RunAgain
  PROVE  DoctorInv'
<1>1. /\ report' = NoReport /\ probed' = 0 /\ facts' = {} /\ quiet' = TRUE
      /\ UNCHANGED <<holds, todo, followed>>
  BY DEF RunAgain
<1>2. doctor'.name = doctor.name /\ "name" \in DOMAIN doctor'
  BY DEF RunAgain, DoctorInv
<1>3. Seen' = {}
  BY <1>1 DEF Seen
<1>4. Len(Probes(doctor.name)) \in Nat
  BY LibraryKnows, EnvironmentProbes, LaunchProbes, AuthProbes DEF DoctorInv
<1>5. Learned'
  BY <1>1, <1>2, <1>3, <1>4 DEF Learned
<1>. QED
  BY <1>1, <1>2, <1>5
  DEF DoctorInv, AsksFacts, EnvironmentReport, PlanIsNotRepeated, VerdictIsOfTheWorld

LEMMA ChangesStep ==
  ASSUME DoctorInv, Changes
  PROVE  DoctorInv'
<1>1. /\ quiet' = (quiet /\ probed = 0) /\ followed' = {}
      /\ UNCHANGED <<doctor, probed, facts, report, todo>>
  BY DEF Changes
<1>2. AsksFacts' = AsksFacts
  BY <1>1 DEF AsksFacts
<1>3. ASSUME AsksFacts PROVE holds' \subseteq Conditions("library")
  <2>1. PICK c \in Conditions(doctor.name) :
          LET group == IF c \in {"running", "reachable"} /\ doctor.name = "environment"
                       THEN {"running", "reachable"} ELSE {c}
          IN holds' = IF c \in holds THEN holds \ group ELSE holds \cup group
    BY DEF Changes
  <2>2. c \in Conditions("library")
    BY <1>3, FactsAreOfTheLibrary DEF AsksFacts
  <2>. QED BY <1>3, <2>1, <2>2, LibraryKnows DEF DoctorInv
<1>4. ASSUME report = NoReport, quiet, probed = 0 PROVE Learned'
  <2>1. Learned
    BY <1>4 DEF DoctorInv
  <2>2. Seen = {} /\ Seen' = {}
    BY <1>1, <1>4 DEF Seen
  <2>3. facts = {}
    BY <2>1, <2>2 DEF Learned
  <2>. QED BY <1>1, <1>2, <2>1, <2>2, <2>3 DEF Learned
<1>5. EnvironmentReport' = EnvironmentReport /\ Grouped' = Grouped
  BY <1>1 DEF EnvironmentReport, Grouped
<1>6. PlanIsNotRepeated' /\ VerdictIsOfTheWorld'
  BY <1>1 DEF DoctorInv, PlanIsNotRepeated, VerdictIsOfTheWorld
<1>. QED BY <1>1, <1>2, <1>3, <1>4, <1>5, <1>6 DEF DoctorInv

LEMMA DoctorInit0 == DoctorInit => DoctorInv
<1>. SUFFICES ASSUME DoctorInit PROVE DoctorInv
  OBVIOUS
<1>1. doctor.name \in {"environment", "library", "launch", "auth"} /\ "name" \in DOMAIN doctor
  <2>1. CASE doctor \in [name : Doctors \cap {"environment", "library"}, mode : DoctorModes,
                         url : BOOLEAN, verify : {FALSE}]
    BY <2>1
  <2>2. CASE doctor \in [name : Doctors \cap {"launch", "auth"}]
    BY <2>2
  <2>. QED BY <2>1, <2>2 DEF DoctorInit
<1>2. AsksFacts => holds \subseteq Conditions("library")
  BY FactsAreOfTheLibrary DEF DoctorInit, AsksFacts
<1>3. Seen = {}
  BY DEF DoctorInit, Seen
<1>4. Len(Probes(doctor.name)) \in Nat
  BY <1>1, LibraryKnows, EnvironmentProbes, LaunchProbes, AuthProbes
<1>5. Learned
  BY <1>3, <1>4 DEF DoctorInit, Learned
<1>. QED
  BY <1>1, <1>2, <1>5
  DEF DoctorInit, DoctorInv, EnvironmentReport, PlanIsNotRepeated, VerdictIsOfTheWorld

LEMMA DoctorStep ==
  ASSUME DoctorInv, [DoctorNext]_doctorVars
  PROVE  DoctorInv'
<1>1. CASE UNCHANGED doctorVars
  <2>1. UNCHANGED <<doctor, holds, probed, facts, report, todo, quiet, followed>>
    BY <1>1 DEF doctorVars
  <2>. QED
    BY <2>1
    DEF DoctorInv, AsksFacts, Seen, Learned, Grouped, EnvironmentReport, PlanIsNotRepeated,
        VerdictIsOfTheWorld
<1>. QED
  BY <1>1, ProbeStep, ReportEnvironmentStep, ReportChecksStep, FollowStepStep, RunAgainStep,
     ChangesStep
  DEF DoctorNext

\* compute_root_failures: whatever the doctor finds, its groups of failures
\* partition the failures, each with the one root that is behind them.
THEOREM FailuresHaveOneRoot == DoctorSpec => []FailuresAreAttributed
<1>1. DoctorInv => FailuresAreAttributed
  <2>. SUFFICES ASSUME DoctorInv, EnvironmentReport PROVE FailuresAreAttributed
    BY DEF FailuresAreAttributed
  <2>1. report.fails \in SUBSET Checks
        /\ report.groups = [r \in Roots(report.fails) |-> Downstream(r, report.fails)]
    BY DEF DoctorInv, Grouped
  <2>2. DOMAIN report.groups = Roots(report.fails)
        /\ \A r \in Roots(report.fails) : report.groups[r] = Downstream(r, report.fails)
    BY <2>1
  <2>3. {{r} \cup report.groups[r] : r \in Roots(report.fails)}
          = {{r} \cup Downstream(r, report.fails) : r \in Roots(report.fails)}
    BY <2>2
  <2>. QED BY <2>1, <2>2, <2>3, GroupsPartition DEF FailuresAreAttributed
<1>. QED BY DoctorInit0, DoctorStep, <1>1, PTL DEF DoctorSpec

\* compute_repair_plan: a step that was followed is asked for again only when
\* something else changed, or when the runtime is one the commands are not told of.
THEOREM FollowedPlansHelp == DoctorSpec => []PlanIsNotRepeated
<1>1. DoctorInv => PlanIsNotRepeated
  BY DEF DoctorInv
<1>. QED BY DoctorInit0, DoctorStep, <1>1, PTL DEF DoctorSpec

\* run_diagnostics, run_launch_doctor and run_auth_doctor: a run beside which
\* nothing changed passes exactly when what its command stands for holds.
THEOREM QuietVerdictsAreTrue == DoctorSpec => []VerdictIsOfTheWorld
<1>1. DoctorInv => VerdictIsOfTheWorld
  BY DEF DoctorInv
<1>. QED BY DoctorInit0, DoctorStep, <1>1, PTL DEF DoctorSpec

-----------------------------------------------------------------------------
(***************************************************************************)
(* Hosts.  What nobody put at risk is in the settings an install is about  *)
(* to cut and in what it holds, then in the backup; and a report is of one *)
(* state for as long as nothing changed since it was begun.                *)
(***************************************************************************)
USE HostsAssumption

BackedUp == {"desktop", "remote"}

Underway == {"backup", "copy", "open", "write"}

\* What the owner of f put there and nothing put at risk.
Due(f) == made[f] \ exposed[f]

\* It is in x, a file.
Keeps(x, f) == Due(f) # {} => x \in Settings /\ Due(f) \subseteq x.own

Recovers(f) == Keeps(IF settings[f] = Unreadable THEN backups[f] ELSE settings[f], f)

InstallsAt(x, f) == x.cmd.op = "install" /\ x.pc \in Underway /\ x.place = f

InstallSafe(x) ==
  x.cmd.op = "install" /\ x.pc \in Underway =>
    /\ {"place", "held"} \subseteq DOMAIN x
    /\ x.place \in SettingsPlaces /\ x.held \in Settings
    /\ x.place \in BackedUp =>
         /\ Due(x.place) \subseteq x.held.own
         /\ x.pc \in {"backup", "copy", "open"} => Keeps(settings[x.place], x.place)
         /\ x.pc \in {"open", "write"} => Keeps(backups[x.place], x.place)

FilesTyped ==
  /\ settings \in [SettingsPlaces -> Settings \cup {NoFile, Unreadable}]
  /\ backups \in [SettingsPlaces -> Settings \cup {NoFile, Unreadable}]
  /\ made \in [SettingsPlaces -> SUBSET {"early", "later"}]
  /\ exposed \in [SettingsPlaces -> SUBSET {"early", "later"}]

\* Of two who install at one place nothing is due.
InstallInv ==
  /\ FilesTyped
  /\ \A p \in HostProcs : InstallSafe(host[p])
  /\ \A p, q \in HostProcs : \A f \in BackedUp :
       p # q /\ InstallsAt(host[p], f) /\ InstallsAt(host[q], f) => Due(f) = {}
  /\ \A f \in BackedUp : Recovers(f)

RebindSafe(x) ==
  x.cmd.op = "rebind" /\ x.pc \in {"send", "verify"} =>
    /\ {"acting", "who"} \subseteq DOMAIN x
    /\ x.acting \in Users /\ x.who \in Users \cup {Nobody}

ConnectionInv ==
  /\ connection \in [HostIds -> Users \cup {Nobody, NoConnection}]
  /\ healed \in [HostIds -> Users \cup {Nobody}]
  /\ cliUser \in Users \cup {Nobody}
  /\ \A h \in HostIds : healed[h] # Nobody => connection[h] = healed[h]
  /\ \A p \in HostProcs : RebindSafe(host[p])

\* What SplitIsTold says of one report.
TellsSplit(x) ==
  \A h \in HostIds :
    LET split == x.result.diagnoses[h] = "split_identity" IN
    /\ /\ machine.surfaces /\ connection[h] \in Users \ {cliUser}
       /\ Detect(h, cliUser).detected /\ Detect(h, cliUser).entry
       => split /\ x.result.summary = "attention_required"
    /\ healed[h] # Nobody /\ healed[h] = cliUser => ~split
    /\ x.result.diagnoses[h] =
         ThreeLayer(Detect(h, cliUser), machine.surfaces, connection[h], cliUser)

ReportSafe(x) ==
  /\ x.cmd.op = "reconcile" /\ x.pc \in {"inventory", "truth", "done"}
  /\ x.pc # "done" => "user" \in DOMAIN x /\ x.user = cliUser
  /\ x.pc = "truth" => /\ "records" \in DOMAIN x
                       /\ x.records = [h \in HostIds |-> Detect(h, cliUser)]
  /\ x.pc = "done" => TellsSplit(x)

ReportInv == still \subseteq HostProcs /\ \A p \in still : ReportSafe(host[p])

HostShape ==
  /\ DOMAIN host = HostProcs
  /\ \A p \in HostProcs : host[p].cmd \in HostCommands /\ {"cmd", "pc"} \subseteq DOMAIN host[p]

HostsInv == HostShape /\ InstallInv /\ ConnectionInv /\ ReportInv

(***************************************************************************)
(* How a process goes on.                                                  *)
(***************************************************************************)
LEMMA GoesOn ==
  ASSUME HostShape, NEW p \in HostProcs, NEW r, HostGoes(p, r),
         "cmd" \notin DOMAIN r, "pc" \in DOMAIN r
  PROVE  /\ HostShape'
         /\ \A q \in HostProcs : q # p => host'[q] = host[q]
         /\ DOMAIN host'[p] = DOMAIN r \cup DOMAIN host[p]
         /\ \A x \in DOMAIN r : host'[p][x] = r[x]
         /\ \A x \in DOMAIN host[p] : x \notin DOMAIN r => host'[p][x] = host[p][x]
         /\ host'[p].cmd = host[p].cmd /\ host'[p].pc = r.pc
<1>1. host'[p] = [x \in DOMAIN r \cup DOMAIN host[p] |->
                    IF x \in DOMAIN r THEN r[x] ELSE host[p][x]]
  BY DEF HostGoes, HostShape
<1>2. DOMAIN host' = HostProcs /\ \A q \in HostProcs : q # p => host'[q] = host[q]
  BY DEF HostGoes, HostShape
<1>3. "cmd" \in DOMAIN host[p] /\ host[p].cmd \in HostCommands
  BY DEF HostShape
<1>4. host'[p].cmd = host[p].cmd /\ host'[p].pc = r.pc
  BY <1>1, <1>3
<1>. QED BY <1>1, <1>2, <1>3, <1>4 DEF HostShape

LEMMA Ending ==
  ASSUME HostShape, NEW p \in HostProcs, NEW result, HostEnds(p, result)
  PROVE  /\ HostShape'
         /\ \A q \in HostProcs : q # p => host'[q] = host[q]
         /\ host'[p].cmd = host[p].cmd /\ host'[p].pc = "done" /\ host'[p].result = result
<1>. DEFINE r == [pc |-> "done", result |-> result]
<1>1. HostGoes(p, r) /\ DOMAIN r = {"pc", "result"} /\ r.pc = "done" /\ r.result = result
  BY DEF HostEnds
<1>. HIDE DEF r
<1>. QED BY <1>1, GoesOn

\* Whoever is not installing does not bear on InstallInv, and so on.
LEMMA InstallStays ==
  ASSUME InstallInv, UNCHANGED <<settings, backups, made, exposed>>,
         \A q \in HostProcs : \/ host'[q] = host[q]
                              \/ host'[q].cmd.op # "install" \/ host'[q].pc \notin Underway
  PROVE  InstallInv'
<1>1. FilesTyped'
  BY DEF InstallInv, FilesTyped
<1>2. \A f : Due(f)' = Due(f) /\ \A x : Keeps(x, f)' <=> Keeps(x, f)
  BY DEF Due, Keeps
<1>3. ASSUME NEW f \in BackedUp PROVE Recovers(f)'
  BY <1>2 DEF InstallInv, Recovers
<1>4. ASSUME NEW p \in HostProcs PROVE InstallSafe(host[p])'
  <2>1. CASE host'[p] = host[p]
    <3>. PICK x : x = host[p]
      OBVIOUS
    <3>1. InstallSafe(x)
      BY DEF InstallInv
    <3>2. InstallSafe(x)'
      BY <1>2, <3>1 DEF InstallSafe
    <3>. QED BY <2>1, <3>2
  <2>2. CASE host'[p].cmd.op # "install" \/ host'[p].pc \notin Underway
    BY <2>2 DEF InstallSafe
  <2>. QED BY <2>1, <2>2
<1>5. ASSUME NEW p \in HostProcs, NEW f, InstallsAt(host'[p], f) PROVE InstallsAt(host[p], f)
  BY <1>5 DEF InstallsAt
<1>6. ASSUME NEW p \in HostProcs, NEW q \in HostProcs, NEW f \in BackedUp, p # q,
             InstallsAt(host'[p], f), InstallsAt(host'[q], f)
      PROVE  Due(f)' = {}
  BY <1>2, <1>5, <1>6 DEF InstallInv
<1>. QED BY <1>1, <1>3, <1>4, <1>6 DEF InstallInv, InstallsAt

LEMMA ConnectionStays ==
  ASSUME ConnectionInv, UNCHANGED <<connection, healed, cliUser>>,
         \A q \in HostProcs : \/ host'[q] = host[q]
                              \/ host'[q].cmd.op # "rebind" \/ host'[q].pc \notin {"send", "verify"}
  PROVE  ConnectionInv'
<1>1. ASSUME NEW p \in HostProcs PROVE RebindSafe(host[p])'
  BY DEF ConnectionInv, RebindSafe
<1>. QED BY <1>1 DEF ConnectionInv

LEMMA NoReport0 == still' = {} => ReportInv'
  BY DEF ReportInv

(***************************************************************************)
(* keyhole host install.                                                   *)
(***************************************************************************)
\* What p does to the place f, at which no less is put at risk, and of which
\* nothing is due any more if another installs there.
LEMMA InstallMove ==
  ASSUME InstallInv, NEW p \in HostProcs, NEW f \in SettingsPlaces,
         \A q \in HostProcs : q # p => host'[q] = host[q],
         FilesTyped', made' = made,
         \A g \in SettingsPlaces : g # f =>
           settings'[g] = settings[g] /\ backups'[g] = backups[g] /\ exposed'[g] = exposed[g],
         exposed[f] \subseteq exposed'[f] \/ Due(f)' = {},
         \A q \in HostProcs : q # p /\ InstallsAt(host[q], f) /\ f \in BackedUp => Due(f)' = {},
         \A g : InstallsAt(host'[p], g) => g = f,
         InstallSafe(host[p])', f \in BackedUp => Recovers(f)'
  PROVE  InstallInv'
<1>1. \A g \in SettingsPlaces : g # f =>
        Due(g)' = Due(g) /\ \A x : Keeps(x, g)' <=> Keeps(x, g)
  BY DEF Due, Keeps
<1>2. Due(f)' \subseteq Due(f)
  BY DEF Due
<1>3. ASSUME NEW g \in BackedUp PROVE Recovers(g)'
  <2>1. CASE g = f
    BY <2>1
  <2>2. CASE g # f
    <3>1. Recovers(g) /\ g \in SettingsPlaces
      BY DEF InstallInv, BackedUp, SettingsPlaces
    <3>. QED BY <1>1, <2>2, <3>1 DEF Recovers
  <2>. QED BY <2>1, <2>2
<1>4. ASSUME NEW q \in HostProcs PROVE InstallSafe(host[q])'
  <2>1. CASE q = p
    BY <2>1
  <2>2. CASE q # p
    <3>. PICK x : x = host[q]
      OBVIOUS
    <3>1. InstallSafe(x) /\ host'[q] = x
      BY <2>2 DEF InstallInv
    <3>2. CASE x.place = f
      <4>1. InstallsAt(x, f) /\ f \in BackedUp => Due(f)' = {}
        BY <2>2
      <4>2. Due(f)' = {} => \A k : Keeps(k, f)'
        BY DEF Keeps
      <4>3. InstallSafe(x)'
        BY <3>1, <3>2, <4>1, <4>2 DEF InstallSafe, InstallsAt
      <4>. QED BY <3>1, <4>3
    <3>3. CASE x.place # f
      <4>1. InstallSafe(x)'
        BY <1>1, <3>1, <3>3 DEF InstallSafe
      <4>. QED BY <3>1, <4>1
    <3>. QED BY <3>2, <3>3
  <2>. QED BY <2>1, <2>2
<1>5. ASSUME NEW a \in HostProcs, NEW b \in HostProcs, NEW g \in BackedUp, a # b,
             InstallsAt(host'[a], g), InstallsAt(host'[b], g)
      PROVE  Due(g)' = {}
  <2>1. CASE a = p
    BY <1>5, <2>1
  <2>2. CASE b = p
    BY <1>5, <2>2
  <2>3. CASE a # p /\ b # p
    <3>1. Due(g) = {} /\ g \in SettingsPlaces
      BY <1>5, <2>3 DEF InstallInv, BackedUp, SettingsPlaces
    <3>. QED BY <1>1, <1>2, <3>1
  <2>. QED BY <2>1, <2>2, <2>3
<1>. QED BY <1>3, <1>4, <1>5 DEF InstallInv, InstallsAt

\* While two install at one place nothing is due there.
LEMMA TwoInstall ==
  ASSUME InstallInv, NEW p \in HostProcs, NEW q \in HostProcs, q # p, NEW f \in BackedUp,
         InstallsAt(host[p], f), InstallsAt(host[q], f)
  PROVE  Due(f) = {}
BY DEF InstallInv

LEMMA ReadSettingsStep ==
  ASSUME HostShape, InstallInv, NEW p \in HostProcs, ReadSettings(p)
  PROVE  /\ HostShape' /\ InstallInv' /\ host'[p].cmd = host[p].cmd
         /\ \A q \in HostProcs : q # p => host'[q] = host[q]
<1>1. UNCHANGED <<settings, backups, made>> /\ At(p, "install", "start")
  BY DEF ReadSettings
<1>2. ASSUME UNCHANGED exposed, NEW result, HostEnds(p, result)
      PROVE  /\ HostShape' /\ InstallInv' /\ host'[p].cmd = host[p].cmd
             /\ \A q \in HostProcs : q # p => host'[q] = host[q]
  <2>1. /\ HostShape' /\ host'[p].cmd = host[p].cmd /\ host'[p].pc = "done"
        /\ \A q \in HostProcs : q # p => host'[q] = host[q]
    BY <1>2, Ending
  <2>2. InstallInv'
    BY <1>1, <1>2, <2>1, InstallStays DEF Underway
  <2>. QED BY <2>1, <2>2
<1>3. ASSUME NEW f \in InstallPlace(host[p].cmd.host),
             settings[f] # Unreadable,
             HostGoes(p, [pc |-> IF f = "idea" THEN "open" ELSE "backup", place |-> f,
                          held |-> IF settings[f] = NoFile THEN [entry |-> FALSE, own |-> {}]
                                   ELSE settings[f]]),
             IF Installing(f) THEN Expose(f) ELSE UNCHANGED exposed
      PROVE  /\ HostShape' /\ InstallInv' /\ host'[p].cmd = host[p].cmd
             /\ \A q \in HostProcs : q # p => host'[q] = host[q]
  <2>1. f \in SettingsPlaces
    <3>1. \A S : First(<<"remote", "desktop">>, S) \subseteq SettingsPlaces
      BY DEF First, SettingsPlaces
    <3>2. host[p].cmd.host \in HostIds
      BY <1>1 DEF HostShape, HostCommands, At
    <3>. QED BY <1>3, <3>1, <3>2 DEF InstallPlace, HostIds, FindVscodeSettings, SettingsPlaces
  <2>. DEFINE data == IF settings[f] = NoFile THEN [entry |-> FALSE, own |-> {}] ELSE settings[f]
              place == IF f = "idea" THEN "open" ELSE "backup"
              r == [pc |-> place, place |-> f, held |-> data]
  <2>2. DOMAIN r = {"pc", "place", "held"} /\ r.pc = place /\ r.place = f /\ r.held = data
    OBVIOUS
  <2>3. HostGoes(p, r)
    BY <1>3
  <2>4. data \in Settings
    BY <1>3, <2>1 DEF InstallInv, FilesTyped, Settings
  <2>5. f \in BackedUp => place = "backup"
    BY DEF BackedUp
  <2>6. f \in BackedUp => Due(f) \subseteq data.own /\ Keeps(settings[f], f)
    <3>1. f \in BackedUp => Keeps(settings[f], f)
      BY <1>3 DEF InstallInv, Recovers
    <3>2. f \in BackedUp /\ settings[f] = NoFile => Due(f) = {}
      BY <3>1 DEF Keeps
    <3>. QED BY <3>1, <3>2 DEF Keeps
  <2>. HIDE DEF data, place, r
  <2>7. /\ HostShape' /\ host'[p].cmd = host[p].cmd /\ host'[p].pc = place
        /\ host'[p].place = f /\ host'[p].held = data
        /\ {"place", "held"} \subseteq DOMAIN host'[p]
        /\ \A q \in HostProcs : q # p => host'[q] = host[q]
    BY <2>2, <2>3, GoesOn
  <2>8. /\ exposed' \in [SettingsPlaces -> SUBSET {"early", "later"}]
        /\ \A g \in SettingsPlaces : g # f => exposed'[g] = exposed[g]
        /\ exposed'[f] = exposed[f] \/ exposed'[f] = made[f]
        /\ Installing(f) => exposed'[f] = made[f]
    BY <1>3, <2>1 DEF Expose, InstallInv, FilesTyped
  <2>9. FilesTyped'
    BY <1>1, <2>8 DEF InstallInv, FilesTyped
  <2>10. Due(f)' = Due(f) \/ Due(f)' = {}
    BY <1>1, <2>8 DEF Due
  <2>11. exposed[f] \subseteq exposed'[f] \/ Due(f)' = {}
    BY <1>1, <2>8 DEF Due
  <2>12. ASSUME NEW q \in HostProcs, InstallsAt(host[q], f) PROVE Due(f)' = {}
    <3>1. Installing(f)
      BY <2>12 DEF InstallsAt, Installing, Underway
    <3>. QED BY <1>1, <2>8, <3>1 DEF Due
  <2>13. \A x : Keeps(x, f) => Keeps(x, f)'
    BY <2>10 DEF Keeps
  <2>14. f \in BackedUp => Recovers(f)'
    BY <1>1, <2>13 DEF InstallInv, Recovers
  <2>15. f \in BackedUp => Keeps(settings[f], f)' /\ Due(f)' \subseteq data.own
    BY <1>1, <2>6, <2>10, <2>13
  <2>16. InstallSafe(host[p])'
    <3>. PICK y : y = host'[p]
      OBVIOUS
    <3>1. InstallSafe(y)'
      BY <2>1, <2>4, <2>5, <2>7, <2>15 DEF InstallSafe
    <3>. QED BY <3>1
  <2>17. \A g : InstallsAt(host'[p], g) => g = f
    BY <2>7 DEF InstallsAt
  <2>18. InstallInv'
    BY <1>1, <2>1, <2>7, <2>8, <2>9, <2>11, <2>12, <2>14, <2>16, <2>17, InstallMove
  <2>. QED BY <2>7, <2>18
<1>4. \/ UNCHANGED exposed /\ \E result : HostEnds(p, result)
      \/ \E f \in InstallPlace(host[p].cmd.host) :
           /\ settings[f] # Unreadable
           /\ HostGoes(p, [pc |-> IF f = "idea" THEN "open" ELSE "backup", place |-> f,
                           held |-> IF settings[f] = NoFile THEN [entry |-> FALSE, own |-> {}]
                                    ELSE settings[f]])
           /\ IF Installing(f) THEN Expose(f) ELSE UNCHANGED exposed
  BY DEF ReadSettings
<1>. QED BY <1>2, <1>3, <1>4

\* Where p stands in an install, and what is so there.
LEMMA InstallPlaces ==
  ASSUME HostShape, InstallInv, NEW p \in HostProcs, NEW here \in Underway, At(p, "install", here)
  PROVE  /\ host[p].place \in SettingsPlaces /\ host[p].held \in Settings
         /\ InstallsAt(host[p], host[p].place) /\ {"place", "held"} \subseteq DOMAIN host[p]
         /\ \A q \in HostProcs : q # p /\ InstallsAt(host[q], host[p].place)
              /\ host[p].place \in BackedUp => Due(host[p].place) = {}
BY TwoInstall DEF At, InstallInv, InstallSafe, InstallsAt

\* What is left when p changes at most one file of its place, and goes on to pc.
LEMMA InstallGoesOn ==
  ASSUME HostShape, InstallInv, NEW p \in HostProcs, NEW f, f = host[p].place,
         NEW here \in Underway, At(p, "install", here),
         NEW to \in Underway, HostGoes(p, [pc |-> to]), UNCHANGED made, FilesTyped',
         \A g \in SettingsPlaces : g # f =>
           settings'[g] = settings[g] /\ backups'[g] = backups[g] /\ exposed'[g] = exposed[g],
         exposed'[f] = exposed[f] \/ exposed'[f] = made[f],
         f \in BackedUp /\ Due(f)' # {} =>
           /\ to \in {"backup", "copy", "open"} => Keeps(settings'[f], f)
           /\ to \in {"open", "write"} => Keeps(backups'[f], f)
           /\ Keeps(IF settings'[f] = Unreadable THEN backups'[f] ELSE settings'[f], f)
  PROVE  /\ HostShape' /\ InstallInv' /\ host'[p].cmd = host[p].cmd
         /\ \A q \in HostProcs : q # p => host'[q] = host[q]
<1>1. /\ f \in SettingsPlaces /\ host[p].held \in Settings /\ InstallsAt(host[p], f)
      /\ {"place", "held"} \subseteq DOMAIN host[p]
      /\ \A q \in HostProcs : q # p /\ InstallsAt(host[q], f) /\ f \in BackedUp => Due(f) = {}
  BY InstallPlaces
<1>. DEFINE r == [pc |-> to]
<1>2. DOMAIN r = {"pc"} /\ r.pc = to /\ HostGoes(p, r)
  OBVIOUS
<1>. HIDE DEF r
<1>3. /\ HostShape' /\ host'[p].cmd = host[p].cmd /\ host'[p].pc = to
      /\ \A q \in HostProcs : q # p => host'[q] = host[q]
      /\ \A x \in DOMAIN host[p] : x # "pc" => host'[p][x] = host[p][x]
      /\ {"place", "held"} \subseteq DOMAIN host'[p]
  BY <1>1, <1>2, GoesOn
<1>4. host'[p].place = f /\ host'[p].held = host[p].held
  BY <1>1, <1>3
<1>5. Due(f)' = Due(f) \/ Due(f)' = {}
  BY DEF Due
<1>6. \A x : Keeps(x, f) => Keeps(x, f)'
  BY <1>5 DEF Keeps
<1>7. Due(f)' = {} => \A x : Keeps(x, f)'
  BY DEF Keeps
<1>8. f \in BackedUp =>
        /\ Due(f)' \subseteq host[p].held.own
        /\ to \in {"backup", "copy", "open"} => Keeps(settings[f], f)'
        /\ to \in {"open", "write"} => Keeps(backups[f], f)'
        /\ Recovers(f)'
  <2>1. f \in BackedUp => Due(f) \subseteq host[p].held.own
    BY <1>1 DEF InstallInv, InstallSafe, InstallsAt
  <2>. QED BY <1>5, <1>6, <1>7, <2>1 DEF Recovers
<1>9. InstallSafe(host[p])'
  <2>. PICK y : y = host'[p]
    OBVIOUS
  <2>1. InstallSafe(y)'
    BY <1>1, <1>3, <1>4, <1>8 DEF InstallSafe
  <2>. QED BY <2>1
<1>10. exposed[f] \subseteq exposed'[f] \/ Due(f)' = {}
  BY DEF Due
<1>11. \A q \in HostProcs : q # p /\ InstallsAt(host[q], f) /\ f \in BackedUp => Due(f)' = {}
  BY <1>1, <1>5
<1>12. \A g : InstallsAt(host'[p], g) => g = f
  BY <1>4 DEF InstallsAt
<1>13. InstallInv'
  BY <1>1, <1>3, <1>8, <1>9, <1>10, <1>11, <1>12, InstallMove
<1>. QED BY <1>3, <1>13

LEMMA BackUpStep ==
  ASSUME HostShape, InstallInv, NEW p \in HostProcs, BackUp(p)
  PROVE  /\ HostShape' /\ InstallInv' /\ host'[p].cmd = host[p].cmd
         /\ \A q \in HostProcs : q # p => host'[q] = host[q]
<1>. PICK f : f = host[p].place
  OBVIOUS
<1>1. UNCHANGED <<settings, made>>
  BY DEF BackUp
<1>2. CASE /\ At(p, "install", "backup") /\ settings[f] = NoFile
           /\ HostGoes(p, [pc |-> "open"]) /\ UNCHANGED <<backups, exposed>>
  <2>1. f \in SettingsPlaces /\ (f \in BackedUp => Keeps(settings[f], f))
    BY <1>2, InstallPlaces DEF Underway, At, InstallInv, InstallSafe
  <2>2. f \in BackedUp => Due(f) = {}
    BY <1>2, <2>1 DEF Keeps
  <2>3. Due(f)' = Due(f) /\ FilesTyped'
    BY <1>1, <1>2 DEF Due, InstallInv, FilesTyped
  <2>. QED BY <1>1, <1>2, <2>2, <2>3, InstallGoesOn DEF Underway
<1>3. CASE /\ At(p, "install", "backup") /\ settings[f] # NoFile /\ HostGoes(p, [pc |-> "copy"])
           /\ backups' = [backups EXCEPT ![f] = Unreadable] /\ UNCHANGED exposed
  <2>1. f \in SettingsPlaces /\ (f \in BackedUp => Keeps(settings[f], f))
    BY <1>3, InstallPlaces DEF Underway, At, InstallInv, InstallSafe
  <2>2. FilesTyped'
    BY <1>1, <1>3, <2>1 DEF InstallInv, FilesTyped
  <2>3. \A g \in SettingsPlaces : g # f => backups'[g] = backups[g]
    BY <1>3 DEF InstallInv, FilesTyped
  <2>4. Due(f)' = Due(f)
    BY <1>1, <1>3 DEF Due
  <2>5. f \in BackedUp /\ Due(f)' # {} => settings[f] # Unreadable
    BY <2>1, <2>4 DEF Keeps
  <2>. QED BY <1>1, <1>3, <2>1, <2>2, <2>3, <2>5, InstallGoesOn DEF Underway
<1>4. CASE /\ At(p, "install", "copy") /\ HostGoes(p, [pc |-> "open"])
           /\ backups' = [backups EXCEPT ![f] = settings[f]] /\ UNCHANGED exposed
  <2>1. f \in SettingsPlaces /\ (f \in BackedUp => Keeps(settings[f], f))
    BY <1>4, InstallPlaces DEF Underway, At, InstallInv, InstallSafe
  <2>2. FilesTyped'
    BY <1>1, <1>4, <2>1 DEF InstallInv, FilesTyped
  <2>3. backups'[f] = settings[f] /\ \A g \in SettingsPlaces : g # f => backups'[g] = backups[g]
    BY <1>4, <2>1 DEF InstallInv, FilesTyped
  <2>. QED BY <1>1, <1>4, <2>1, <2>2, <2>3, InstallGoesOn DEF Underway
<1>5. CASE At(p, "install", "copy") /\ HostGoes(p, [pc |-> "open"]) /\ Expose(f) /\ UNCHANGED backups
  <2>1. f \in SettingsPlaces
    BY <1>5, InstallPlaces DEF Underway
  <2>2. FilesTyped' /\ exposed'[f] = made[f]
        /\ \A g \in SettingsPlaces : g # f => exposed'[g] = exposed[g]
    BY <1>1, <1>5, <2>1 DEF InstallInv, FilesTyped, Expose
  <2>3. Due(f)' = {}
    BY <1>1, <2>2 DEF Due
  <2>. QED BY <1>1, <1>5, <2>2, <2>3, InstallGoesOn DEF Underway
<1>. QED BY <1>2, <1>3, <1>4, <1>5 DEF BackUp

LEMMA OpenSettingsStep ==
  ASSUME HostShape, InstallInv, NEW p \in HostProcs, OpenSettings(p)
  PROVE  /\ HostShape' /\ InstallInv' /\ host'[p].cmd = host[p].cmd
         /\ \A q \in HostProcs : q # p => host'[q] = host[q]
<1>. PICK f : f = host[p].place
  OBVIOUS
<1>1. /\ UNCHANGED <<backups, made, exposed>> /\ At(p, "install", "open")
      /\ HostGoes(p, [pc |-> "write"]) /\ settings' = [settings EXCEPT ![f] = Unreadable]
  BY DEF OpenSettings
<1>2. f \in SettingsPlaces /\ (f \in BackedUp => Keeps(backups[f], f))
  BY <1>1, InstallPlaces DEF Underway, At, InstallInv, InstallSafe
<1>3. FilesTyped'
  BY <1>1, <1>2 DEF InstallInv, FilesTyped
<1>4. settings'[f] = Unreadable /\ \A g \in SettingsPlaces : g # f => settings'[g] = settings[g]
  BY <1>1, <1>2 DEF InstallInv, FilesTyped
<1>. QED BY <1>1, <1>2, <1>3, <1>4, InstallGoesOn DEF Underway

LEMMA WriteSettingsStep ==
  ASSUME HostShape, InstallInv, NEW p \in HostProcs, WriteSettings(p)
  PROVE  /\ HostShape' /\ InstallInv' /\ host'[p].cmd = host[p].cmd
         /\ \A q \in HostProcs : q # p => host'[q] = host[q]
<1>. PICK f : f = host[p].place
  OBVIOUS
<1>. DEFINE mine == [host[p].held EXCEPT !.entry = TRUE]
<1>1. /\ UNCHANGED <<backups, made, exposed>> /\ At(p, "install", "write")
      /\ HostEnds(p, "installed")
      /\ settings' = [settings EXCEPT ![f] = mine] \/ settings' = [settings EXCEPT ![f] = Unreadable]
  BY DEF WriteSettings
<1>2. /\ f \in SettingsPlaces /\ host[p].held \in Settings
      /\ \A q \in HostProcs : q # p /\ InstallsAt(host[q], f) /\ f \in BackedUp => Due(f) = {}
  BY <1>1, InstallPlaces DEF Underway
<1>3. f \in BackedUp => Keeps(backups[f], f) /\ Due(f) \subseteq host[p].held.own
  BY <1>1, <1>2 DEF Underway, At, InstallInv, InstallSafe
<1>4. mine \in Settings /\ mine.own = host[p].held.own
  BY <1>2 DEF Settings
<1>. HIDE DEF mine
<1>5. /\ settings'[f] = mine \/ settings'[f] = Unreadable
      /\ \A g \in SettingsPlaces : g # f => settings'[g] = settings[g]
  BY <1>1, <1>2 DEF InstallInv, FilesTyped
<1>6. FilesTyped'
  BY <1>1, <1>2, <1>4 DEF InstallInv, FilesTyped
<1>7. Due(f)' = Due(f) /\ \A x : Keeps(x, f)' <=> Keeps(x, f)
  BY <1>1 DEF Due, Keeps
<1>8. f \in BackedUp => Recovers(f)'
  <2>1. f \in BackedUp => Keeps(mine, f)
    BY <1>3, <1>4 DEF Keeps
  <2>. QED BY <1>1, <1>3, <1>4, <1>5, <1>7, <2>1 DEF Recovers
<1>9. /\ HostShape' /\ host'[p].cmd = host[p].cmd /\ host'[p].pc = "done"
      /\ \A q \in HostProcs : q # p => host'[q] = host[q]
  BY <1>1, Ending
<1>10. InstallSafe(host[p])' /\ \A g : ~InstallsAt(host'[p], g)
  BY <1>9 DEF InstallSafe, InstallsAt, Underway
<1>11. InstallInv'
  BY <1>1, <1>2, <1>5, <1>6, <1>7, <1>8, <1>9, <1>10, InstallMove
<1>. QED BY <1>9, <1>11

LEMMA InstallDiesStep ==
  ASSUME HostShape, InstallInv, NEW p \in HostProcs, InstallDies(p)
  PROVE  /\ HostShape' /\ InstallInv' /\ host'[p].cmd = host[p].cmd
         /\ \A q \in HostProcs : q # p => host'[q] = host[q]
<1>1. HostEnds(p, "failed") /\ UNCHANGED <<settings, backups, made, exposed>>
  BY DEF InstallDies
<1>2. /\ HostShape' /\ host'[p].cmd = host[p].cmd /\ host'[p].pc = "done"
      /\ \A q \in HostProcs : q # p => host'[q] = host[q]
  BY <1>1, Ending
<1>3. InstallInv'
  BY <1>1, <1>2, InstallStays DEF Underway
<1>. QED BY <1>2, <1>3

(***************************************************************************)
(* keyhole connection rebind, invalidate and inspect.                      *)
(***************************************************************************)
\* Whose a verified rebind is told to be, the connection is.
LEMMA Bound ==
  ASSUME ConnectionInv, NEW h \in HostIds, NEW u \in Users \cup {Nobody, NoConnection}, Binds(h, u)
  PROVE  /\ connection' \in [HostIds -> Users \cup {Nobody, NoConnection}]
         /\ healed' \in [HostIds -> Users \cup {Nobody}]
         /\ \A g \in HostIds : healed'[g] # Nobody => connection'[g] = healed'[g]
<1>1. connection' \in [HostIds -> Users \cup {Nobody, NoConnection}] /\ connection'[h] = u
      /\ \A g \in HostIds : g # h => connection'[g] = connection[g]
  BY DEF Binds, ConnectionInv
<1>2. CASE u = connection[h]
  BY <1>1, <1>2 DEF Binds, ConnectionInv
<1>3. CASE u # connection[h]
  <2>1. healed' = [healed EXCEPT ![h] = Nobody]
    BY <1>3 DEF Binds
  <2>2. healed'[h] = Nobody /\ \A g \in HostIds : g # h => healed'[g] = healed[g]
    BY <2>1 DEF ConnectionInv
  <2>. QED BY <1>1, <2>1, <2>2 DEF ConnectionInv
<1>. QED BY <1>2, <1>3

\* p goes on, and the server may have bound the connection of h to u.
LEMMA ConnectionMove ==
  ASSUME ConnectionInv, NEW p \in HostProcs,
         \A q \in HostProcs : q # p => host'[q] = host[q], RebindSafe(host'[p]),
         UNCHANGED cliUser,
         connection' \in [HostIds -> Users \cup {Nobody, NoConnection}],
         healed' \in [HostIds -> Users \cup {Nobody}],
         \A g \in HostIds : healed'[g] # Nobody => connection'[g] = healed'[g]
  PROVE  ConnectionInv'
<1>1. ASSUME NEW q \in HostProcs PROVE RebindSafe(host'[q])
  BY DEF ConnectionInv
<1>. QED BY <1>1 DEF ConnectionInv, RebindSafe

\* Once p goes on, of the files nothing has changed.
LEMMA NotInstalling ==
  ASSUME InstallInv, NEW p \in HostProcs, Elsewhere,
         \A q \in HostProcs : q # p => host'[q] = host[q], host'[p].cmd.op # "install"
  PROVE  InstallInv'
BY InstallStays DEF Elsewhere

LEMMA LoadForRebindStep ==
  ASSUME HostShape, InstallInv, ConnectionInv, NEW p \in HostProcs, LoadForRebind(p)
  PROVE  HostShape' /\ InstallInv' /\ ConnectionInv'
<1>1. At(p, "rebind", "start") /\ Steady /\ Elsewhere
  BY DEF LoadForRebind
<1>2. CASE HostEnds(p, "not_authenticated")
  <2>1. /\ HostShape' /\ host'[p].cmd = host[p].cmd /\ host'[p].pc = "done"
        /\ \A q \in HostProcs : q # p => host'[q] = host[q]
    BY <1>2, Ending
  <2>2. InstallInv'
    BY <1>1, <2>1, NotInstalling DEF At
  <2>3. ConnectionInv'
    BY <1>1, <2>1, ConnectionStays DEF Steady, Elsewhere
  <2>. QED BY <2>1, <2>2, <2>3
<1>3. ASSUME cliUser # Nobody, NEW w \in {cliUser, Nobody},
             HostGoes(p, [pc |-> "send", acting |-> cliUser, who |-> w])
      PROVE  HostShape' /\ InstallInv' /\ ConnectionInv'
  <2>. DEFINE r == [pc |-> "send", acting |-> cliUser, who |-> w]
  <2>1. /\ DOMAIN r = {"pc", "acting", "who"} /\ r.pc = "send" /\ r.acting = cliUser /\ r.who = w
        /\ HostGoes(p, r)
    BY <1>3
  <2>. HIDE DEF r
  <2>2. /\ HostShape' /\ host'[p].cmd = host[p].cmd
        /\ \A q \in HostProcs : q # p => host'[q] = host[q]
        /\ {"acting", "who"} \subseteq DOMAIN host'[p]
        /\ host'[p].acting = cliUser /\ host'[p].who = w
    BY <2>1, GoesOn
  <2>3. RebindSafe(host'[p])
    BY <1>3, <2>2 DEF RebindSafe, ConnectionInv
  <2>4. InstallInv'
    BY <1>1, <2>2, NotInstalling DEF At
  <2>5. ConnectionInv'
    BY <1>1, <2>2, <2>3, ConnectionMove DEF Steady, Elsewhere, ConnectionInv
  <2>. QED BY <2>2, <2>4, <2>5
<1>. QED BY <1>2, <1>3 DEF LoadForRebind

LEMMA RebindStep ==
  ASSUME HostShape, InstallInv, ConnectionInv, NEW p \in HostProcs, Rebind(p)
  PROVE  HostShape' /\ InstallInv' /\ ConnectionInv'
<1>. PICK h : h = host[p].cmd.host
  OBVIOUS
<1>1. At(p, "rebind", "send") /\ Elsewhere
  BY DEF Rebind
<1>2. h \in HostIds /\ host[p].cmd.profile \in Users
  BY <1>1 DEF At, HostShape, HostCommands
<1>3. /\ {"acting", "who"} \subseteq DOMAIN host[p]
      /\ host[p].acting \in Users /\ host[p].who \in Users \cup {Nobody}
  BY <1>1 DEF At, ConnectionInv, RebindSafe
<1>4. HostGoes(p, [pc |-> "verify"]) \/ \E result : HostEnds(p, result)
  BY DEF Rebind
<1>5. Steady \/ \E u \in {host[p].cmd.profile, host[p].acting} : Binds(h, u)
  BY DEF Rebind
<1>6. /\ connection' \in [HostIds -> Users \cup {Nobody, NoConnection}]
      /\ healed' \in [HostIds -> Users \cup {Nobody}]
      /\ \A g \in HostIds : healed'[g] # Nobody => connection'[g] = healed'[g]
  <2>1. CASE Steady
    BY <2>1 DEF Steady, ConnectionInv
  <2>2. CASE \E u \in {host[p].cmd.profile, host[p].acting} : Binds(h, u)
    BY <1>2, <1>3, <2>2, Bound
  <2>. QED BY <1>5, <2>1, <2>2
<1>7. /\ HostShape' /\ host'[p].cmd = host[p].cmd /\ RebindSafe(host'[p])
      /\ \A q \in HostProcs : q # p => host'[q] = host[q]
  <2>1. CASE HostGoes(p, [pc |-> "verify"])
    <3>. DEFINE r == [pc |-> "verify"]
    <3>1. DOMAIN r = {"pc"} /\ r.pc = "verify" /\ HostGoes(p, r)
      BY <2>1
    <3>. HIDE DEF r
    <3>2. /\ HostShape' /\ host'[p].cmd = host[p].cmd
          /\ \A q \in HostProcs : q # p => host'[q] = host[q]
          /\ \A x \in DOMAIN host[p] : x # "pc" => host'[p][x] = host[p][x]
          /\ {"acting", "who"} \subseteq DOMAIN host'[p]
      BY <1>3, <3>1, GoesOn
    <3>3. host'[p].acting = host[p].acting /\ host'[p].who = host[p].who
      BY <1>3, <3>2
    <3>4. RebindSafe(host'[p])
      BY <1>3, <3>2, <3>3 DEF RebindSafe
    <3>. QED BY <3>2, <3>4
  <2>2. CASE \E result : HostEnds(p, result)
    <3>1. /\ HostShape' /\ host'[p].cmd = host[p].cmd /\ host'[p].pc = "done"
          /\ \A q \in HostProcs : q # p => host'[q] = host[q]
      BY <2>2, Ending
    <3>2. RebindSafe(host'[p])
      BY <3>1 DEF RebindSafe
    <3>. QED BY <3>1, <3>2
  <2>. QED BY <1>4, <2>1, <2>2
<1>8. InstallInv'
  BY <1>1, <1>7, NotInstalling DEF At
<1>9. ConnectionInv'
  BY <1>1, <1>6, <1>7, ConnectionMove DEF Elsewhere
<1>. QED BY <1>7, <1>8, <1>9

LEMMA VerifyRebindStep ==
  ASSUME HostShape, InstallInv, ConnectionInv, NEW p \in HostProcs, VerifyRebind(p)
  PROVE  HostShape' /\ InstallInv' /\ ConnectionInv'
<1>. PICK h : h = host[p].cmd.host
  OBVIOUS
<1>1. /\ At(p, "rebind", "verify") /\ Elsewhere /\ UNCHANGED connection
      /\ \E result : HostEnds(p, result)
  BY DEF VerifyRebind
<1>2. h \in HostIds
  BY <1>1 DEF At, HostShape, HostCommands
<1>3. /\ host[p].acting \in Users /\ host[p].who \in Users \cup {Nobody}
  BY <1>1 DEF At, ConnectionInv, RebindSafe
<1>4. UNCHANGED healed \/ (healed' = [healed EXCEPT ![h] = host[p].acting]
                           /\ connection[h] = host[p].acting)
  <2>1. ASSUME Verified(p), host[p].cmd.profile = host[p].acting, host[p].who = host[p].acting
        PROVE  connection[h] = host[p].acting
    <3>1. Inspected(h) \notin {"not_found", "surface_unavailable"} /\ Inspected(h) = host[p].acting
      BY <2>1 DEF Verified
    <3>. QED BY <3>1 DEF Inspected
  <2>. QED BY <2>1 DEF VerifyRebind
<1>5. /\ healed' \in [HostIds -> Users \cup {Nobody}]
      /\ \A g \in HostIds : healed'[g] # Nobody => connection'[g] = healed'[g]
  BY <1>1, <1>2, <1>3, <1>4 DEF ConnectionInv
<1>6. /\ HostShape' /\ host'[p].cmd = host[p].cmd /\ host'[p].pc = "done"
      /\ \A q \in HostProcs : q # p => host'[q] = host[q]
  BY <1>1, Ending
<1>7. RebindSafe(host'[p])
  BY <1>6 DEF RebindSafe
<1>8. InstallInv'
  BY <1>1, <1>6, NotInstalling DEF At
<1>9. ConnectionInv'
  BY <1>1, <1>5, <1>6, <1>7, ConnectionMove DEF Elsewhere, ConnectionInv
<1>. QED BY <1>6, <1>8, <1>9

LEMMA AskingServerStep ==
  ASSUME HostShape, InstallInv, ConnectionInv, NEW p \in HostProcs, Invalidate(p) \/ Inspect(p)
  PROVE  HostShape' /\ InstallInv' /\ ConnectionInv'
<1>. PICK h : h = host[p].cmd.host
  OBVIOUS
<1>1. /\ host[p].cmd.op \in {"invalidate", "inspect"} /\ Elsewhere
      /\ \E result : HostEnds(p, result)
      /\ Steady \/ Binds(h, NoConnection)
  BY DEF Invalidate, Inspect, At
<1>2. h \in HostIds
  BY <1>1 DEF HostShape, HostCommands
<1>3. /\ connection' \in [HostIds -> Users \cup {Nobody, NoConnection}]
      /\ healed' \in [HostIds -> Users \cup {Nobody}]
      /\ \A g \in HostIds : healed'[g] # Nobody => connection'[g] = healed'[g]
  <2>1. CASE Steady
    BY <2>1 DEF Steady, ConnectionInv
  <2>2. CASE Binds(h, NoConnection)
    BY <1>2, <2>2, Bound
  <2>. QED BY <1>1, <2>1, <2>2
<1>4. /\ HostShape' /\ host'[p].cmd = host[p].cmd /\ host'[p].pc = "done"
      /\ \A q \in HostProcs : q # p => host'[q] = host[q]
  BY <1>1, Ending
<1>5. RebindSafe(host'[p])
  BY <1>4 DEF RebindSafe
<1>6. InstallInv'
  BY <1>1, <1>4, NotInstalling
<1>7. ConnectionInv'
  BY <1>1, <1>3, <1>4, <1>5, ConnectionMove DEF Elsewhere
<1>. QED BY <1>4, <1>6, <1>7

(***************************************************************************)
(* reconcile.                                                              *)
(***************************************************************************)
LEMMA ClassifyHere ==
  ASSUME ConnectionInv, NEW h \in HostIds, NEW d
  PROVE  /\ Classify(d, machine.surfaces, connection[h], cliUser)
              = ThreeLayer(d, machine.surfaces, connection[h], cliUser)
         /\ Classify(d, machine.surfaces, connection[h], cliUser) = "split_identity"
              => connection[h] # cliUser
<1>. PICK surfaces, live, user :
       surfaces = machine.surfaces /\ live = connection[h] /\ user = cliUser
  OBVIOUS
<1>0. live \in Users \cup {Nobody, NoConnection}
  BY DEF ConnectionInv
<1>1. Classify(d, surfaces, live, user) =
        IF ~d.detected THEN "not_detected"
        ELSE IF ~d.config THEN "host_config_unreadable"
        ELSE IF ~d.entry THEN "host_not_configured"
        ELSE IF ~surfaces THEN "surface_unavailable"
        ELSE IF live = NoConnection THEN "live_connection_missing"
        ELSE IF live = Nobody THEN "ambiguous_connection"
        ELSE IF live # user THEN "split_identity" ELSE "aligned"
  BY DEF Classify, Staleness
<1>2. ASSUME d.detected /\ d.config /\ d.entry
      PROVE  Classify(d, surfaces, live, user) = ThreeLayer(d, surfaces, live, user)
  <2>1. CASE surfaces
    <3>1. CASE live \in Users
      BY <1>1, <1>2, <2>1, <3>1 DEF ThreeLayer
    <3>2. CASE live = NoConnection
      BY <1>1, <1>2, <2>1, <3>2 DEF ThreeLayer
    <3>3. CASE live = Nobody
      BY <1>1, <1>2, <2>1, <3>3 DEF ThreeLayer
    <3>. QED BY <1>0, <3>1, <3>2, <3>3
  <2>2. CASE ~surfaces
    BY <1>1, <1>2, <2>2 DEF ThreeLayer
  <2>. QED BY <2>1, <2>2
<1>3. ASSUME ~(d.detected /\ d.config /\ d.entry)
      PROVE  Classify(d, surfaces, live, user) = ThreeLayer(d, surfaces, live, user)
  BY <1>1, <1>3 DEF ThreeLayer
<1>4. /\ Classify(d, surfaces, live, user) = ThreeLayer(d, surfaces, live, user)
      /\ Classify(d, surfaces, live, user) = "split_identity" => live # user
  <2>1. Classify(d, surfaces, live, user) = "split_identity" => live # user
    BY <1>1
  <2>. QED BY <1>2, <1>3, <2>1
<1>. QED BY <1>4

LEMMA DetectStays ==
  ASSUME Steady, Elsewhere
  PROVE  \A h, user : Detect(h, user)' = Detect(h, user)
BY DEF Elsewhere, Steady, Detect, DetectedSettings, Existing, HasEntry

\* A step of a report leaves alone what the others tell of.
LEMMA ReportMove ==
  ASSUME ReportInv, NEW p \in HostProcs, Steady, Elsewhere,
         \A q \in HostProcs : q # p => host'[q] = host[q],
         still' \subseteq HostProcs, \A q \in still' : q # p => q \in still,
         p \in still' => ReportSafe(host[p])'
  PROVE  ReportInv'
<1>1. ASSUME NEW q \in still' PROVE ReportSafe(host[q])'
  <2>1. CASE q = p
    BY <2>1
  <2>2. CASE q # p
    <3>. PICK x : x = host[q]
      OBVIOUS
    <3>1. ReportSafe(x) /\ host'[q] = x
      BY <2>2 DEF ReportInv
    <3>2. \A h, user : Detect(h, user)' = Detect(h, user)
      BY DetectStays
    <3>3. ReportSafe(x)'
      BY <3>1, <3>2 DEF ReportSafe, TellsSplit, Elsewhere, Steady
    <3>. QED BY <3>1, <3>3
  <2>. QED BY <2>1, <2>2
<1>. QED BY <1>1 DEF ReportInv

\* What a report leaves alone.
LEMMA ReportApart ==
  ASSUME InstallInv, ConnectionInv, NEW p \in HostProcs, Steady, Elsewhere,
         host'[p].cmd.op = "reconcile", \A q \in HostProcs : q # p => host'[q] = host[q]
  PROVE  InstallInv' /\ ConnectionInv'
BY InstallStays, ConnectionStays DEF Steady, Elsewhere

LEMMA DetermineProfileStep ==
  ASSUME HostsInv, NEW p \in HostProcs, DetermineProfile(p)
  PROVE  HostsInv'
<1>1. /\ At(p, "reconcile", "start") /\ Steady /\ Elsewhere /\ still' = still \cup {p}
      /\ HostGoes(p, [pc |-> "inventory", user |-> cliUser])
  BY DEF DetermineProfile
<1>. DEFINE r == [pc |-> "inventory", user |-> cliUser]
<1>2. DOMAIN r = {"pc", "user"} /\ r.pc = "inventory" /\ r.user = cliUser /\ HostGoes(p, r)
  BY <1>1
<1>. HIDE DEF r
<1>3. /\ HostShape' /\ host'[p].cmd = host[p].cmd /\ host'[p].pc = "inventory"
      /\ host'[p].user = cliUser /\ "user" \in DOMAIN host'[p]
      /\ \A q \in HostProcs : q # p => host'[q] = host[q]
  BY <1>2, GoesOn DEF HostsInv
<1>4. ReportSafe(host[p])'
  BY <1>1, <1>3 DEF ReportSafe, At, Elsewhere
<1>5. ReportInv'
  BY <1>1, <1>3, <1>4, ReportMove DEF HostsInv, ReportInv
<1>. QED BY <1>1, <1>3, <1>5, ReportApart DEF HostsInv, At

LEMMA DetectHostsStep ==
  ASSUME HostsInv, NEW p \in HostProcs, DetectHosts(p)
  PROVE  HostsInv'
<1>1. At(p, "reconcile", "inventory") /\ Steady /\ Elsewhere /\ UNCHANGED still
  BY DEF DetectHosts
<1>. DEFINE records == [h \in HostIds |-> Detect(h, host[p].user)]
            r == [pc |-> "truth", records |-> records]
<1>2. DOMAIN r = {"pc", "records"} /\ r.pc = "truth" /\ r.records = records /\ HostGoes(p, r)
  BY DEF DetectHosts
<1>. HIDE DEF r
<1>3. /\ HostShape' /\ host'[p].cmd = host[p].cmd /\ host'[p].pc = "truth"
      /\ host'[p].records = records /\ "records" \in DOMAIN host'[p]
      /\ \A x \in DOMAIN host[p] : x \notin DOMAIN r => host'[p][x] = host[p][x]
      /\ DOMAIN host[p] \subseteq DOMAIN host'[p]
      /\ \A q \in HostProcs : q # p => host'[q] = host[q]
  BY <1>2, GoesOn DEF HostsInv
<1>4. ASSUME p \in still' PROVE ReportSafe(host[p])'
  <2>1. ReportSafe(host[p])
    BY <1>1, <1>4 DEF HostsInv, ReportInv
  <2>2. "user" \in DOMAIN host[p] /\ host[p].user = cliUser
    BY <1>1, <2>1 DEF ReportSafe, At
  <2>3. "user" \in DOMAIN host'[p] /\ host'[p].user = cliUser
    BY <1>2, <1>3, <2>2
  <2>4. host'[p].records = [h \in HostIds |-> Detect(h, cliUser)]
    BY <1>3, <2>2
  <2>5. [h \in HostIds |-> Detect(h, cliUser)]' = [h \in HostIds |-> Detect(h, cliUser)]
    <3>1. cliUser' = cliUser
      BY <1>1 DEF Elsewhere
    <3>2. \A h \in HostIds : Detect(h, cliUser)' = Detect(h, cliUser)
      BY <1>1, <3>1, DetectStays
    <3>. QED BY <3>2
  <2>. QED BY <1>1, <1>3, <2>3, <2>4, <2>5 DEF ReportSafe, At, Elsewhere
<1>5. ReportInv'
  BY <1>1, <1>3, <1>4, ReportMove DEF HostsInv, ReportInv
<1>. QED BY <1>1, <1>3, <1>5, ReportApart DEF HostsInv, At

LEMMA ReconcileStep ==
  ASSUME HostsInv, NEW p \in HostProcs, Reconcile(p)
  PROVE  HostsInv'
<1>1. At(p, "reconcile", "truth") /\ Steady /\ Elsewhere /\ UNCHANGED still
  BY DEF Reconcile
<1>. DEFINE Diagnosis(h) == Classify(host[p].records[h], machine.surfaces, connection[h], host[p].user)
            diagnoses == [h \in HostIds |-> Diagnosis(h)]
            summary == Summary({diagnoses[h] : h \in HostIds})
            result == [diagnoses |-> diagnoses, summary |-> summary]
<1>2. HostEnds(p, result)
  BY DEF Reconcile
<1>3. result.diagnoses = diagnoses /\ result.summary = summary
  OBVIOUS
<1>4. \A h \in HostIds : diagnoses[h] = Diagnosis(h)
  OBVIOUS
<1>5. ASSUME NEW h \in HostIds, diagnoses[h] = "split_identity" PROVE summary = "attention_required"
  <2>1. "split_identity" \in {diagnoses[k] : k \in HostIds}
    BY <1>5, Zenon
  <2>. HIDE DEF diagnoses
  <2>. QED BY <2>1 DEF Summary
<1>. HIDE DEF result, diagnoses, summary
<1>6. /\ HostShape' /\ host'[p].cmd = host[p].cmd /\ host'[p].pc = "done" /\ host'[p].result = result
      /\ \A q \in HostProcs : q # p => host'[q] = host[q]
  BY <1>2, Ending DEF HostsInv
<1>7. ASSUME p \in still' PROVE ReportSafe(host[p])'
  <2>1. ReportSafe(host[p])
    BY <1>1, <1>7 DEF HostsInv, ReportInv
  <2>2. host[p].user = cliUser /\ host[p].records = [h \in HostIds |-> Detect(h, cliUser)]
    BY <1>1, <2>1 DEF ReportSafe, At
  <2>3. \A h \in HostIds :
          diagnoses[h] = Classify(Detect(h, cliUser), machine.surfaces, connection[h], cliUser)
    BY <1>4, <2>2
  <2>4. \A h \in HostIds : Detect(h, cliUser).entry => Detect(h, cliUser).config
    BY DEF HostIds, Detect
  <2>5. ASSUME NEW h \in HostIds
        PROVE  /\ /\ machine.surfaces /\ connection[h] \in Users \ {cliUser}
                  /\ Detect(h, cliUser).detected /\ Detect(h, cliUser).entry
                  => diagnoses[h] = "split_identity" /\ summary = "attention_required"
               /\ healed[h] # Nobody /\ healed[h] = cliUser => diagnoses[h] # "split_identity"
               /\ diagnoses[h] =
                    ThreeLayer(Detect(h, cliUser), machine.surfaces, connection[h], cliUser)
    <3>1. connection[h] \in Users \cup {Nobody, NoConnection}
          /\ (healed[h] # Nobody => connection[h] = healed[h])
      BY DEF HostsInv, ConnectionInv
    <3>. PICK d : d = Detect(h, cliUser)
      OBVIOUS
    <3>2. diagnoses[h] = Classify(d, machine.surfaces, connection[h], cliUser)
      BY <2>3
    <3>4. /\ diagnoses[h] = ThreeLayer(d, machine.surfaces, connection[h], cliUser)
          /\ diagnoses[h] = "split_identity" => connection[h] # cliUser
      BY <3>2, ClassifyHere DEF HostsInv
    <3>3. d.entry => d.config
      BY <2>4
    <3>5. ASSUME d.detected, d.entry, machine.surfaces, connection[h] \in Users \ {cliUser}
          PROVE  diagnoses[h] = "split_identity"
      BY <3>2, <3>3, <3>5 DEF Classify
    <3>. QED BY <1>5, <3>1, <3>4, <3>5
  <2>6. TellsSplit(host'[p])
    BY <1>3, <1>6, <2>5 DEF TellsSplit
  <2>. PICK y : y = host'[p]
    OBVIOUS
  <2>7. TellsSplit(y)'
    <3>1. \A h, user : Detect(h, user)' = Detect(h, user)
      BY <1>1, DetectStays
    <3>. QED BY <1>1, <2>6, <3>1 DEF TellsSplit, Elsewhere, Steady
  <2>8. ReportSafe(y)'
    BY <1>1, <1>6, <2>7 DEF ReportSafe, At
  <2>. QED BY <2>8
<1>8. ReportInv'
  BY <1>1, <1>6, <1>7, ReportMove DEF HostsInv, ReportInv
<1>. QED BY <1>1, <1>6, <1>8, ReportApart DEF HostsInv, At

(***************************************************************************)
(* Users and editors.                                                      *)
(***************************************************************************)
\* An owner changes the file f while nobody, or somebody, is installing there.
LEMMA FileChanges ==
  ASSUME InstallInv, UNCHANGED <<host, backups>>, FilesTyped', NEW f \in SettingsPlaces,
         \A g \in SettingsPlaces : g # f =>
           settings'[g] = settings[g] /\ made'[g] = made[g] /\ exposed'[g] = exposed[g],
         f \in BackedUp => Recovers(f)',
         Installing(f) =>
           /\ Due(f)' \subseteq Due(f)
           /\ Keeps(settings[f], f) => Keeps(settings'[f], f) \/ Due(f)' = {}
  PROVE  InstallInv'
<1>1. \A g \in SettingsPlaces : g # f =>
        Due(g)' = Due(g) /\ \A x : Keeps(x, g)' <=> Keeps(x, g)
  BY DEF Due, Keeps
<1>2. ASSUME NEW g \in BackedUp PROVE Recovers(g)'
  <2>1. CASE g = f
    BY <2>1
  <2>2. CASE g # f
    <3>1. Recovers(g) /\ g \in SettingsPlaces
      BY DEF InstallInv, BackedUp, SettingsPlaces
    <3>. QED BY <1>1, <2>2, <3>1 DEF Recovers
  <2>. QED BY <2>1, <2>2
<1>3. ASSUME NEW q \in HostProcs PROVE InstallSafe(host[q])'
  <2>. PICK x : x = host[q]
    OBVIOUS
  <2>1. InstallSafe(x) /\ host'[q] = x
    BY DEF InstallInv
  <2>2. CASE InstallsAt(x, f)
    <3>1. Installing(f)
      BY <2>2 DEF InstallsAt, Installing, Underway
    <3>2. \A k : Keeps(k, f) => Keeps(k, f)'
      BY <3>1 DEF Keeps
    <3>3. Due(f)' = {} => \A k : Keeps(k, f)'
      BY DEF Keeps
    <3>4. Keeps(settings[f], f) => Keeps(settings[f], f)'
      BY <3>1, <3>2, <3>3
    <3>5. InstallSafe(x)'
      BY <2>1, <2>2, <3>1, <3>2, <3>4 DEF InstallSafe, InstallsAt
    <3>. QED BY <2>1, <3>5
  <2>3. CASE ~InstallsAt(x, f)
    <3>1. InstallSafe(x)'
      BY <1>1, <2>1, <2>3 DEF InstallSafe, InstallsAt
    <3>. QED BY <2>1, <3>1
  <2>. QED BY <2>2, <2>3
<1>4. ASSUME NEW a \in HostProcs, NEW b \in HostProcs, NEW g \in BackedUp, a # b,
             InstallsAt(host'[a], g), InstallsAt(host'[b], g)
      PROVE  Due(g)' = {}
  <2>1. InstallsAt(host[a], g) /\ InstallsAt(host[b], g) /\ Due(g) = {}
    BY <1>4 DEF InstallInv, InstallsAt
  <2>2. CASE g = f
    <3>1. Installing(f)
      BY <2>1, <2>2 DEF InstallsAt, Installing, Underway
    <3>. QED BY <2>1, <2>2, <3>1
  <2>3. CASE g # f
    BY <1>1, <2>1, <2>3 DEF BackedUp, SettingsPlaces
  <2>. QED BY <2>2, <2>3
<1>. QED BY <1>2, <1>3, <1>4 DEF InstallInv, InstallsAt

LEMMA EditStep ==
  ASSUME InstallInv, NEW f \in SettingsPlaces, Edit(f), UNCHANGED host
  PROVE  InstallInv'
<1>. PICK old : old = IF settings[f] = NoFile THEN [entry |-> FALSE, own |-> {}] ELSE settings[f]
  OBVIOUS
<1>. PICK new : new = [old EXCEPT !.own = @ \cup {"later"}]
  OBVIOUS
<1>1. /\ settings[f] # Unreadable /\ settings' = [settings EXCEPT ![f] = new]
      /\ made' = [made EXCEPT ![f] = @ \cup {"later"}]
      /\ exposed' = IF Installing(f) THEN [exposed EXCEPT ![f] = @ \cup {"later"}] ELSE exposed
      /\ UNCHANGED backups
  BY DEF Edit
<1>2. old \in Settings
  BY <1>1 DEF InstallInv, FilesTyped, Settings
<1>3. new \in Settings /\ new.own = old.own \cup {"later"}
  BY <1>2 DEF Settings
<1>4. settings'[f] = new /\ \A g \in SettingsPlaces : g # f => settings'[g] = settings[g]
  BY <1>1 DEF InstallInv, FilesTyped
<1>5. made'[f] = made[f] \cup {"later"} /\ \A g \in SettingsPlaces : g # f => made'[g] = made[g]
  BY <1>1 DEF InstallInv, FilesTyped
<1>6. /\ exposed'[f] = IF Installing(f) THEN exposed[f] \cup {"later"} ELSE exposed[f]
      /\ \A g \in SettingsPlaces : g # f => exposed'[g] = exposed[g]
  BY <1>1 DEF InstallInv, FilesTyped
<1>7. FilesTyped'
  BY <1>1, <1>3 DEF InstallInv, FilesTyped
<1>8. Due(f)' \subseteq Due(f) \cup {"later"} /\ (Installing(f) => Due(f)' \subseteq Due(f))
  BY <1>5, <1>6 DEF Due
<1>9. Keeps(settings[f], f) => Due(f) \subseteq old.own
  BY <1>1 DEF Keeps
<1>10. Keeps(settings[f], f) => Keeps(new, f)' /\ (Installing(f) => Keeps(new, f))
  BY <1>3, <1>8, <1>9 DEF Keeps
<1>11. f \in BackedUp => Keeps(settings[f], f)
  BY <1>1 DEF InstallInv, Recovers
<1>12. f \in BackedUp => Recovers(f)'
  <2>1. settings'[f] # Unreadable
    BY <1>3, <1>4
  <2>. QED BY <1>4, <1>10, <1>11, <2>1 DEF Recovers
<1>13. Keeps(settings[f], f) /\ Installing(f) => Keeps(settings'[f], f)
  BY <1>4, <1>10
<1>14. \A g \in SettingsPlaces : g # f =>
         settings'[g] = settings[g] /\ made'[g] = made[g] /\ exposed'[g] = exposed[g]
  BY <1>4, <1>5, <1>6
<1>15. UNCHANGED <<host, backups>>
  BY <1>1
<1>. QED BY <1>7, <1>8, <1>12, <1>13, <1>14, <1>15, FileChanges

LEMMA RemoveEntryStep ==
  ASSUME InstallInv, NEW h, NEW f \in SettingsPlaces, RemoveEntry(h, f), UNCHANGED host
  PROVE  InstallInv'
<1>1. /\ HasEntry(f) /\ settings' = [settings EXCEPT ![f].entry = FALSE]
      /\ UNCHANGED <<backups, made, exposed>>
  BY DEF RemoveEntry
<1>2. settings[f] \in Settings
  BY <1>1 DEF HasEntry, Whole, InstallInv, FilesTyped
<1>. PICK new : new = [settings[f] EXCEPT !.entry = FALSE]
  OBVIOUS
<1>3. new \in Settings /\ new.own = settings[f].own /\ settings' = [settings EXCEPT ![f] = new]
  BY <1>1, <1>2 DEF Settings, InstallInv, FilesTyped
<1>4. settings'[f] = new /\ \A g \in SettingsPlaces : g # f => settings'[g] = settings[g]
  BY <1>3 DEF InstallInv, FilesTyped
<1>5. FilesTyped'
  BY <1>1, <1>3 DEF InstallInv, FilesTyped
<1>6. Due(f)' = Due(f) /\ (Keeps(settings[f], f) => Keeps(new, f) /\ Keeps(new, f)')
  BY <1>1, <1>3 DEF Due, Keeps
<1>7. f \in BackedUp => Recovers(f)'
  BY <1>2, <1>3, <1>4, <1>6 DEF InstallInv, Recovers
<1>. QED BY <1>1, <1>4, <1>5, <1>6, <1>7, FileChanges

LEMMA RestoreStep ==
  ASSUME InstallInv, NEW f \in SettingsPlaces, Restore(f), UNCHANGED host
  PROVE  InstallInv'
<1>1. /\ settings[f] = Unreadable /\ Whole(backups[f])
      /\ settings' = [settings EXCEPT ![f] = backups[f]]
      /\ exposed' = IF Installing(f) THEN [exposed EXCEPT ![f] = made[f]] ELSE exposed
      /\ UNCHANGED <<backups, made>>
  BY DEF Restore
<1>2. backups[f] \in Settings
  BY <1>1 DEF Whole, InstallInv, FilesTyped
<1>3. settings'[f] = backups[f] /\ \A g \in SettingsPlaces : g # f => settings'[g] = settings[g]
  BY <1>1 DEF InstallInv, FilesTyped
<1>4. /\ exposed'[f] = IF Installing(f) THEN made[f] ELSE exposed[f]
      /\ \A g \in SettingsPlaces : g # f => exposed'[g] = exposed[g]
  BY <1>1 DEF InstallInv, FilesTyped
<1>5. FilesTyped'
  BY <1>1, <1>2 DEF InstallInv, FilesTyped
<1>6. Due(f)' = (IF Installing(f) THEN {} ELSE Due(f))
  BY <1>1, <1>4 DEF Due
<1>7. \A x : Keeps(x, f) => Keeps(x, f)'
  BY <1>6 DEF Keeps
<1>8. f \in BackedUp => Recovers(f)'
  <2>1. f \in BackedUp => Keeps(backups[f], f)
    BY <1>1 DEF InstallInv, Recovers
  <2>. QED BY <1>1, <1>2, <1>3, <1>7, <2>1 DEF Recovers
<1>. QED BY <1>1, <1>3, <1>4, <1>5, <1>6, <1>8, FileChanges

LEMMA HostsInit0 == HostsInit => HostsInv
<1>. SUFFICES ASSUME HostsInit PROVE HostsInv
  OBVIOUS
<1>1. PICK scene \in HostScenes : host = [p \in HostProcs |-> [cmd |-> scene[p], pc |-> "start"]]
  BY DEF HostsInit
<1>2. \A p \in HostProcs : scene[p] \in HostCommands
  OBVIOUS
<1>3. HostShape /\ \A p \in HostProcs : host[p].pc = "start"
  BY <1>1, <1>2 DEF HostShape
<1>4. FilesTyped
  <2>1. settings \in [SettingsPlaces -> Settings \cup {NoFile, Unreadable}]
    BY DEF HostsInit
  <2>2. \A f \in SettingsPlaces : Whole(settings[f]) => settings[f].own \in SUBSET {"early", "later"}
    BY <2>1 DEF Whole, Settings
  <2>. QED BY <2>1, <2>2 DEF HostsInit, FilesTyped
<1>5. \A f \in BackedUp : Recovers(f)
  <2>. SUFFICES ASSUME NEW f \in BackedUp PROVE Recovers(f)
    OBVIOUS
  <2>1. f \in SettingsPlaces
    BY DEF BackedUp, SettingsPlaces
  <2>2. settings[f] \in Settings \cup {NoFile}
    BY <2>1 DEF HostsInit
  <2>3. made[f] = (IF Whole(settings[f]) THEN settings[f].own ELSE {}) /\ exposed[f] = {}
    BY <2>1 DEF HostsInit
  <2>. QED BY <2>2, <2>3 DEF Recovers, Keeps, Due, Whole
<1>6. InstallInv
  BY <1>3, <1>4, <1>5 DEF InstallInv, InstallSafe, InstallsAt, Underway
<1>7. ConnectionInv /\ ReportInv
  BY <1>3 DEF HostsInit, ConnectionInv, RebindSafe, ReportInv
<1>. QED BY <1>3, <1>6, <1>7 DEF HostsInv

LEMMA HostsStep ==
  ASSUME HostsInv, [HostsNext]_hostsVars
  PROVE  HostsInv'
<1>1. CASE UNCHANGED hostsVars
  <2>1. Steady /\ Elsewhere /\ UNCHANGED <<host, still>>
    BY <1>1 DEF hostsVars, Steady, Elsewhere
  <2>2. InstallInv' /\ ConnectionInv'
    BY <2>1, InstallStays, ConnectionStays DEF HostsInv, Steady, Elsewhere
  <2>3. ReportInv'
    <3>1. ASSUME NEW p \in still PROVE ReportSafe(host[p])'
      <4>. PICK x : x = host[p]
        OBVIOUS
      <4>1. ReportSafe(x)'
        BY <2>1, DetectStays DEF HostsInv, ReportInv, ReportSafe, TellsSplit, Steady, Elsewhere
      <4>. QED BY <2>1, <4>1
    <3>. QED BY <2>1, <3>1 DEF HostsInv, ReportInv
  <2>. QED BY <2>1, <2>2, <2>3 DEF HostsInv, HostShape
<1>2. ASSUME NEW p \in HostProcs, InstallStep(p), still' = {} PROVE HostsInv'
  <2>1. /\ HostShape' /\ InstallInv' /\ host'[p].cmd = host[p].cmd
        /\ \A q \in HostProcs : q # p => host'[q] = host[q]
    BY <1>2, ReadSettingsStep, BackUpStep, OpenSettingsStep, WriteSettingsStep, InstallDiesStep
    DEF HostsInv, InstallStep
  <2>2. UNCHANGED <<connection, healed, cliUser>> /\ host[p].cmd.op = "install"
    BY <1>2 DEF InstallStep, ReadSettings, BackUp, OpenSettings, WriteSettings, InstallDies, At
  <2>3. ConnectionInv'
    BY <2>1, <2>2, ConnectionStays DEF HostsInv
  <2>. QED BY <1>2, <2>1, <2>3, NoReport0 DEF HostsInv
<1>3. ASSUME NEW p \in HostProcs, ConnectionStep(p), still' = {} PROVE HostsInv'
  <2>1. HostShape' /\ InstallInv' /\ ConnectionInv'
    BY <1>3, LoadForRebindStep, RebindStep, VerifyRebindStep, AskingServerStep
    DEF HostsInv, ConnectionStep
  <2>. QED BY <1>3, <2>1, NoReport0 DEF HostsInv
<1>4. ASSUME NEW p \in HostProcs, ReportStep(p) PROVE HostsInv'
  BY <1>4, DetermineProfileStep, DetectHostsStep, ReconcileStep DEF ReportStep
<1>5. ASSUME Happens, OwnersAct, still' = {} PROVE HostsInv'
  <2>1. UNCHANGED <<host, machine, connection, cliUser, healed>>
    BY <1>5 DEF Happens, OwnersAct, Edit, Restore, RemoveEntry
  <2>2. InstallInv'
    BY <1>5, <2>1, EditStep, RestoreStep, RemoveEntryStep DEF OwnersAct, HostsInv
  <2>3. ConnectionInv' /\ HostShape'
    BY <2>1, ConnectionStays DEF HostsInv, HostShape
  <2>. QED BY <1>5, <2>2, <2>3, NoReport0 DEF HostsInv
<1>6. ASSUME Happens, IdentitiesChange, still' = {} PROVE HostsInv'
  <2>1. UNCHANGED <<host, machine, settings, backups, made, exposed>>
    BY <1>6 DEF Happens, IdentitiesChange, Connect, SignIn
  <2>2. InstallInv' /\ HostShape'
    BY <2>1, InstallStays DEF HostsInv, HostShape
  <2>3. /\ connection' \in [HostIds -> Users \cup {Nobody, NoConnection}]
        /\ healed' \in [HostIds -> Users \cup {Nobody}]
        /\ \A g \in HostIds : healed'[g] # Nobody => connection'[g] = healed'[g]
        /\ cliUser' \in Users \cup {Nobody}
    <3>1. ASSUME NEW h \in HostIds, NEW u \in Users \cup {Nobody, NoConnection}, Connect(h, u)
          PROVE  <2>3!1 /\ <2>3!2 /\ <2>3!3 /\ <2>3!4
      BY <3>1, Bound DEF Connect, HostsInv, ConnectionInv
    <3>2. ASSUME NEW u \in Users \cup {Nobody}, SignIn(u)
          PROVE  <2>3!1 /\ <2>3!2 /\ <2>3!3 /\ <2>3!4
      BY <3>2 DEF SignIn, HostsInv, ConnectionInv
    <3>. QED BY <1>6, <3>1, <3>2 DEF IdentitiesChange
  <2>4. ConnectionInv'
    BY <2>1, <2>3 DEF HostsInv, ConnectionInv, RebindSafe
  <2>. QED BY <1>6, <2>2, <2>4, NoReport0 DEF HostsInv
<1>. QED BY <1>1, <1>2, <1>3, <1>4, <1>5, <1>6 DEF HostsNext, CommandsStep

\* install_vscode: whatever processes install, die and edit, what an owner put
\* into the settings of VS Code, and nothing put at risk, is in the file or in
\* the backup.
THEOREM OwnEditsSurvive == HostsSpec => []EditsAreRecoverable
<1>1. HostsInv => EditsAreRecoverable
  BY DEF HostsInv, InstallInv, Recovers, Keeps, Due, EditsAreRecoverable, BackedUp, Whole
<1>. QED BY HostsInit0, HostsStep, <1>1, PTL DEF HostsSpec

\* reconcile, classify_host_diagnosis and reconcile_three_layer: a report beside
\* which nothing changed tells of every split, and of none after a verified rebind.
THEOREM SplitsAreTold == HostsSpec => []SplitIsTold
<1>1. HostsInv => SplitIsTold
  <2>. SUFFICES ASSUME HostsInv, NEW p \in HostProcs, Reported(p)
                PROVE  TellsSplit(host[p])
    BY Zenon DEF SplitIsTold, TellsSplit
  <2>. QED BY DEF HostsInv, ReportInv, ReportSafe, Reported
<1>. QED BY HostsInit0, HostsStep, <1>1, PTL DEF HostsSpec
=============================================================================
