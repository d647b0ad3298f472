----------------------------- MODULE LoginProofs -----------------------------
(* Proofs about Login: credentials are verified, a login that reports success has
   seen the attestation there was, what later logins recover was accepted, and a
   stale listener does not keep a login from its port. And about McpProxy, which
   shares the credential file with it: messages reach their own session, and only
   the client whose stream the thread relays has one.                           *)
EXTENDS Login, McpProxy, TLAPS

\* A command that has options is a login, and only logins and the three short
\* commands hold a session; from whoami on its owner is complete.
LoginPlaces == {"reuse", "flow", "probe", "bind", "waiting", "shutdown", "whoami",
                "save", "check", "proof", "blocked"}
Verified == {"reuse", "save", "check", "proof", "attest", "refresh"}

Shape ==
  \A p \in Terminals :
    /\ at[p] \in LoginPlaces => opts[p] # None /\ flow[p] # None
    /\ at[p] \in {"idle", "attest", "refresh"} => opts[p] = None
    /\ at[p] \in Verified \cup {"whoami"} => held[p] # None
    /\ at[p] \in Verified => held[p].owner \in Complete

\* The owner of the callback port waits for a callback, and nobody else does.
PortHeld == \A p \in Terminals : at[p] \in {"waiting", "shutdown"} <=> port = p

\* Who listened when a login began still does, or has ended; and has ended when
\* the login comes to listen.
StaleEnds ==
  \A p \in Terminals : seen[p] # None =>
    /\ at[p] = "probe" => at[seen[p]] \in {"waiting", "shutdown"} \cup Ends
    /\ at[p] = "bind" /\ FindsPids => at[seen[p]] \in Ends

\* A login that is past saving, and was the last to write, wrote its own session.
OwnSession ==
  author # None /\ creds # None =>
    (opts[author] # None /\ at[author] \in {"check", "proof", "success"}
     => creds.owner = held[author].owner)

\* A refresh writes the session it read.
LEMMA RefreshedSession ==
  ASSUME TypeOK, Shape, NEW p \in Terminals, Refreshed(p)
  PROVE  /\ creds' \in Sessions
         /\ creds'.owner = held[p].owner
         /\ creds' # None
  <1>1. held[p] \in Sessions
    BY DEF TypeOK, Shape, Verified, Refreshed, Goes
  <1>. QED
    BY <1>1, LoginAssumption DEF Sessions, Refreshed

\* Every step of a command keeps the types.
LEMMA TypeStep ==
  ASSUME TypeOK, Shape, [Next]_vars
  PROVE  TypeOK'
  <1>. USE LoginAssumption DEF TypeOK, Shape, Verified, LoginPlaces, Sessions,
        Attestations, Places, Ends
  <1>0. CASE UNCHANGED vars
    BY <1>0 DEF vars, home, own, past
  <1>1. ASSUME NEW p \in Terminals, NEW o \in Logins, NEW f \in Flows, StartLogin(p, o, f)
        PROVE  TypeOK'
    BY <1>1 DEF StartLogin, Emails, DetectedFlow, RecoversEmail, Goes, home, past
  <1>2. ASSUME NEW p \in Terminals, Reuse(p) PROVE TypeOK'
    BY <1>2 DEF Reuse, Goes, own
  <1>3. ASSUME NEW p \in Terminals, ReuseFails(p) PROVE TypeOK'
    BY <1>3 DEF ReuseFails, Goes, home, own, past
  <1>4. ASSUME NEW p \in Terminals, NEW u \in Principals, Obtain(p, u) PROVE TypeOK'
    BY <1>4 DEF Obtain, Goes, home, past
  <1>5. ASSUME NEW p \in Terminals, FlowFails(p) PROVE TypeOK'
    BY <1>5 DEF FlowFails, Dies, Goes, Forget, home, past
  <1>6. ASSUME NEW p \in Terminals, Confirm(p) PROVE TypeOK'
    BY <1>6 DEF Confirm, Goes, home, own, past
  <1>7. ASSUME NEW p \in Terminals, Unconfirmed(p) PROVE TypeOK'
    BY <1>7 DEF Unconfirmed, Dies, Goes, Forget, home, past
  <1>8. ASSUME NEW p \in Terminals, Save(p) PROVE TypeOK'
    BY <1>8 DEF Save, Goes, own
  <1>9. ASSUME NEW p \in Terminals, SaveFails(p) PROVE TypeOK'
    BY <1>9 DEF SaveFails, Dies, Goes, Forget, home, past
  <1>10. ASSUME NEW p \in Terminals, OpenBrowser(p) PROVE TypeOK'
    BY <1>10 DEF OpenBrowser, Goes, home, past
  <1>11. ASSUME NEW p \in Terminals, KillStaleListener(p) PROVE TypeOK'
    BY <1>11 DEF KillStaleListener, Forget, home, past
  <1>12. ASSUME NEW p \in Terminals, KillNobody(p) PROVE TypeOK'
    BY <1>12 DEF KillNobody, Goes, home, own, past
  <1>13. ASSUME NEW p \in Terminals, Listen(p) PROVE TypeOK'
    BY <1>13 DEF Listen, Goes, home, own, past
  <1>14. ASSUME NEW p \in Terminals, BindFails(p) PROVE TypeOK'
    BY <1>14 DEF BindFails, Dies, Goes, Forget, home, past
  <1>15. ASSUME NEW p \in Terminals, StopWaiting(p) PROVE TypeOK'
    BY <1>15 DEF StopWaiting, Goes, home, own, past
  <1>16. ASSUME NEW p \in Terminals, Accept(p) PROVE TypeOK'
    BY <1>16 DEF Accept, Goes, Rejected, home, own, past
  <1>30. ASSUME NEW p \in Terminals, AcceptUnseen(p) PROVE TypeOK'
    BY <1>30 DEF AcceptUnseen, Goes, home, own
  <1>17. ASSUME NEW p \in Terminals, Split(p) PROVE TypeOK'
    BY <1>17 DEF Split, Goes, Rejected, own, past
  <1>18. ASSUME NEW p \in Terminals, Block(p) PROVE TypeOK'
    BY <1>18 DEF Block, Goes, home, own, past
  <1>19. ASSUME NEW p \in Terminals, WriteProof(p) PROVE TypeOK'
    BY <1>19 DEF WriteProof, Goes, own, past
  <1>20. ASSUME NEW p \in Terminals, StartAttest(p) PROVE TypeOK'
    BY <1>20 DEF StartAttest, Goes, home, past
  <1>21. ASSUME NEW p \in Terminals, Attest(p) PROVE TypeOK'
    BY <1>21 DEF Attest, Goes, own
  <1>22. ASSUME NEW p \in Terminals, AttestFails(p) PROVE TypeOK'
    BY <1>22 DEF AttestFails, Dies, Goes, Forget, home, past
  <1>23. ASSUME NEW p \in Terminals, StartRefresh(p) PROVE TypeOK'
    BY <1>23 DEF StartRefresh, Goes, home, past
  <1>24. ASSUME NEW p \in Terminals, Refreshed(p) PROVE TypeOK'
    BY <1>24, RefreshedSession DEF Refreshed, Goes, own
  <1>25. ASSUME NEW p \in Terminals, RefreshFails(p) PROVE TypeOK'
    BY <1>25 DEF RefreshFails, Dies, Goes, Forget, home, past
  <1>26. ASSUME NEW p \in Terminals, Logout(p) PROVE TypeOK'
    BY <1>26 DEF Logout, Goes, own
  <1>27. ASSUME NEW p \in Terminals, Interrupt(p) PROVE TypeOK'
    BY <1>27 DEF Interrupt, Dies, Goes, Forget, home, past
  <1>28. ASSUME Expire PROVE TypeOK'
    BY <1>28 DEF Expire, own, past
  <1>29. ASSUME AttestationExpires PROVE TypeOK'
    BY <1>29 DEF AttestationExpires, own, past
  <1>. QED
    BY <1>0, <1>1, <1>2, <1>3, <1>4, <1>5, <1>6, <1>7, <1>8, <1>9, <1>10,
       <1>11, <1>12, <1>13, <1>14, <1>15, <1>16, <1>17, <1>18, <1>19,
       <1>20, <1>21, <1>22, <1>23, <1>24, <1>25, <1>26, <1>27, <1>28,
       <1>29, <1>30 DEF Next, Login

\* Sessions are where they belong.
LEMMA ShapeStep ==
  ASSUME TypeOK, Shape, CredsAreVerified, PortHeld, [Next]_vars
  PROVE  Shape' /\ CredsAreVerified'
  <1>. USE LoginAssumption DEF TypeOK, Shape, CredsAreVerified, PortHeld,
        LoginPlaces, Verified, Sessions
  <1>0. CASE UNCHANGED vars
    BY <1>0 DEF vars, home, own, past
  <1>1. ASSUME NEW p \in Terminals, NEW o \in Logins, NEW f \in Flows, StartLogin(p, o, f)
        PROVE  Shape' /\ CredsAreVerified'
    BY <1>1 DEF StartLogin, Emails, DetectedFlow, RecoversEmail, Goes, home, past
  <1>2. ASSUME NEW p \in Terminals, Reuse(p) PROVE Shape' /\ CredsAreVerified'
    BY <1>2 DEF Reuse, Goes, own
  <1>3. ASSUME NEW p \in Terminals, ReuseFails(p) PROVE Shape' /\ CredsAreVerified'
    BY <1>3 DEF ReuseFails, Goes, home, own, past
  <1>4. ASSUME NEW p \in Terminals, NEW u \in Principals, Obtain(p, u)
        PROVE  Shape' /\ CredsAreVerified'
    <2>1. held' = [held EXCEPT ![p] = [owner |-> u, flow |-> flow[p], live |-> TRUE]]
      BY <1>4 DEF Obtain
    <2>2. held'[p] # None
      <3>1. held'[p] = [owner |-> u, flow |-> flow[p], live |-> TRUE]
        BY <2>1
      <3>2. flow[p] \in Flows
        BY <1>4 DEF Obtain, Goes
      <3>3. held'[p] \in [owner : Principals, flow : Flows, live : BOOLEAN]
        BY <3>1, <3>2
      <3>. QED
        BY <3>3
    <2>. QED
      BY <1>4, <2>2 DEF Obtain, Goes, home, past
  <1>5. ASSUME NEW p \in Terminals, FlowFails(p) PROVE Shape' /\ CredsAreVerified'
    BY <1>5 DEF FlowFails, Dies, Goes, Forget, home, past
  <1>6. ASSUME NEW p \in Terminals, Confirm(p) PROVE Shape' /\ CredsAreVerified'
    BY <1>6 DEF Confirm, Goes, home, own, past
  <1>7. ASSUME NEW p \in Terminals, Unconfirmed(p) PROVE Shape' /\ CredsAreVerified'
    BY <1>7 DEF Unconfirmed, Dies, Goes, Forget, home, past
  <1>8. ASSUME NEW p \in Terminals, Save(p) PROVE Shape' /\ CredsAreVerified'
    BY <1>8 DEF Save, Goes, own
  <1>9. ASSUME NEW p \in Terminals, SaveFails(p) PROVE Shape' /\ CredsAreVerified'
    BY <1>9 DEF SaveFails, Dies, Goes, Forget, home, past
  <1>10. ASSUME NEW p \in Terminals, OpenBrowser(p) PROVE Shape' /\ CredsAreVerified'
    BY <1>10 DEF OpenBrowser, Goes, home, past
  <1>11. ASSUME NEW p \in Terminals, KillStaleListener(p)
         PROVE  Shape' /\ CredsAreVerified'
    BY <1>11 DEF KillStaleListener, Forget, home, past
  <1>12. ASSUME NEW p \in Terminals, KillNobody(p) PROVE Shape' /\ CredsAreVerified'
    BY <1>12 DEF KillNobody, Goes, home, own, past
  <1>13. ASSUME NEW p \in Terminals, Listen(p) PROVE Shape' /\ CredsAreVerified'
    BY <1>13 DEF Listen, Goes, home, own, past
  <1>14. ASSUME NEW p \in Terminals, BindFails(p) PROVE Shape' /\ CredsAreVerified'
    BY <1>14 DEF BindFails, Dies, Goes, Forget, home, past
  <1>15. ASSUME NEW p \in Terminals, StopWaiting(p) PROVE Shape' /\ CredsAreVerified'
    BY <1>15 DEF StopWaiting, Goes, home, own, past
  <1>16. ASSUME NEW p \in Terminals, Accept(p) PROVE Shape' /\ CredsAreVerified'
    BY <1>16 DEF Accept, Goes, Rejected, home, own, past
  <1>30. ASSUME NEW p \in Terminals, AcceptUnseen(p) PROVE Shape' /\ CredsAreVerified'
    BY <1>30 DEF AcceptUnseen, Goes, home, own
  <1>17. ASSUME NEW p \in Terminals, Split(p) PROVE Shape' /\ CredsAreVerified'
    BY <1>17 DEF Split, Goes, Rejected, own, past
  <1>18. ASSUME NEW p \in Terminals, Block(p) PROVE Shape' /\ CredsAreVerified'
    BY <1>18 DEF Block, Goes, home, own, past
  <1>19. ASSUME NEW p \in Terminals, WriteProof(p) PROVE Shape' /\ CredsAreVerified'
    BY <1>19 DEF WriteProof, Goes, own, past
  <1>20. ASSUME NEW p \in Terminals, StartAttest(p) PROVE Shape' /\ CredsAreVerified'
    BY <1>20 DEF StartAttest, Goes, home, past
  <1>21. ASSUME NEW p \in Terminals, Attest(p) PROVE Shape' /\ CredsAreVerified'
    BY <1>21 DEF Attest, Goes, own
  <1>22. ASSUME NEW p \in Terminals, AttestFails(p) PROVE Shape' /\ CredsAreVerified'
    BY <1>22 DEF AttestFails, Dies, Goes, Forget, home, past
  <1>23. ASSUME NEW p \in Terminals, StartRefresh(p) PROVE Shape' /\ CredsAreVerified'
    BY <1>23 DEF StartRefresh, Goes, home, past
  <1>24. ASSUME NEW p \in Terminals, Refreshed(p) PROVE Shape' /\ CredsAreVerified'
    BY <1>24, RefreshedSession DEF Refreshed, Goes, own
  <1>25. ASSUME NEW p \in Terminals, RefreshFails(p) PROVE Shape' /\ CredsAreVerified'
    BY <1>25 DEF RefreshFails, Dies, Goes, Forget, home, past
  <1>26. ASSUME NEW p \in Terminals, Logout(p) PROVE Shape' /\ CredsAreVerified'
    BY <1>26 DEF Logout, Goes, own
  <1>27. ASSUME NEW p \in Terminals, Interrupt(p) PROVE Shape' /\ CredsAreVerified'
    BY <1>27 DEF Interrupt, Dies, Goes, Forget, home, past
  <1>28. ASSUME Expire PROVE Shape' /\ CredsAreVerified'
    BY <1>28 DEF Expire, own, past
  <1>29. ASSUME AttestationExpires PROVE Shape' /\ CredsAreVerified'
    BY <1>29 DEF AttestationExpires, own, past
  <1>. QED
    BY <1>0, <1>1, <1>2, <1>3, <1>4, <1>5, <1>6, <1>7, <1>8, <1>9, <1>10,
       <1>11, <1>12, <1>13, <1>14, <1>15, <1>16, <1>17, <1>18, <1>19,
       <1>20, <1>21, <1>22, <1>23, <1>24, <1>25, <1>26, <1>27, <1>28,
       <1>29, <1>30 DEF Next, Login

\* One command has the port.
LEMMA PortStep ==
  ASSUME TypeOK, PortHeld, [Next]_vars
  PROVE  PortHeld'
  <1>. USE LoginAssumption DEF TypeOK, PortHeld, Running, Places
  <1>0. CASE UNCHANGED vars
    BY <1>0 DEF vars, home, own, past
  <1>1. ASSUME NEW p \in Terminals, NEW o \in Logins, NEW f \in Flows, StartLogin(p, o, f)
        PROVE  PortHeld'
    BY <1>1 DEF StartLogin, Emails, DetectedFlow, RecoversEmail, Goes, home, past
  <1>2. ASSUME NEW p \in Terminals, Reuse(p) PROVE PortHeld'
    BY <1>2 DEF Reuse, Goes, own
  <1>3. ASSUME NEW p \in Terminals, ReuseFails(p) PROVE PortHeld'
    BY <1>3 DEF ReuseFails, Goes, home, own, past
  <1>4. ASSUME NEW p \in Terminals, NEW u \in Principals, Obtain(p, u) PROVE PortHeld'
    BY <1>4 DEF Obtain, Goes, home, past
  <1>5. ASSUME NEW p \in Terminals, FlowFails(p) PROVE PortHeld'
    BY <1>5 DEF FlowFails, Dies, Goes, Forget, home, past
  <1>6. ASSUME NEW p \in Terminals, Confirm(p) PROVE PortHeld'
    BY <1>6 DEF Confirm, Goes, home, own, past
  <1>7. ASSUME NEW p \in Terminals, Unconfirmed(p) PROVE PortHeld'
    BY <1>7 DEF Unconfirmed, Dies, Goes, Forget, home, past
  <1>8. ASSUME NEW p \in Terminals, Save(p) PROVE PortHeld'
    BY <1>8 DEF Save, Goes, own
  <1>9. ASSUME NEW p \in Terminals, SaveFails(p) PROVE PortHeld'
    BY <1>9 DEF SaveFails, Dies, Goes, Forget, home, past
  <1>10. ASSUME NEW p \in Terminals, OpenBrowser(p) PROVE PortHeld'
    BY <1>10 DEF OpenBrowser, Goes, home, past
  <1>11. ASSUME NEW p \in Terminals, KillStaleListener(p) PROVE PortHeld'
    BY <1>11 DEF KillStaleListener, Forget, home, past
  <1>12. ASSUME NEW p \in Terminals, KillNobody(p) PROVE PortHeld'
    BY <1>12 DEF KillNobody, Goes, home, own, past
  <1>13. ASSUME NEW p \in Terminals, Listen(p) PROVE PortHeld'
    BY <1>13 DEF Listen, Goes, home, own, past
  <1>14. ASSUME NEW p \in Terminals, BindFails(p) PROVE PortHeld'
    BY <1>14 DEF BindFails, Dies, Goes, Forget, home, past
  <1>15. ASSUME NEW p \in Terminals, StopWaiting(p) PROVE PortHeld'
    BY <1>15 DEF StopWaiting, Goes, home, own, past
  <1>16. ASSUME NEW p \in Terminals, Accept(p) PROVE PortHeld'
    BY <1>16 DEF Accept, Goes, Rejected, home, own, past
  <1>30. ASSUME NEW p \in Terminals, AcceptUnseen(p) PROVE PortHeld'
    BY <1>30 DEF AcceptUnseen, Goes, home, own
  <1>17. ASSUME NEW p \in Terminals, Split(p) PROVE PortHeld'
    BY <1>17 DEF Split, Goes, Rejected, own, past
  <1>18. ASSUME NEW p \in Terminals, Block(p) PROVE PortHeld'
    BY <1>18 DEF Block, Goes, home, own, past
  <1>19. ASSUME NEW p \in Terminals, WriteProof(p) PROVE PortHeld'
    BY <1>19 DEF WriteProof, Goes, own, past
  <1>20. ASSUME NEW p \in Terminals, StartAttest(p) PROVE PortHeld'
    BY <1>20 DEF StartAttest, Goes, home, past
  <1>21. ASSUME NEW p \in Terminals, Attest(p) PROVE PortHeld'
    BY <1>21 DEF Attest, Goes, own
  <1>22. ASSUME NEW p \in Terminals, AttestFails(p) PROVE PortHeld'
    BY <1>22 DEF AttestFails, Dies, Goes, Forget, home, past
  <1>23. ASSUME NEW p \in Terminals, StartRefresh(p) PROVE PortHeld'
    BY <1>23 DEF StartRefresh, Goes, home, past
  <1>24. ASSUME NEW p \in Terminals, Refreshed(p) PROVE PortHeld'
    BY <1>24 DEF Refreshed, Goes, own
  <1>25. ASSUME NEW p \in Terminals, RefreshFails(p) PROVE PortHeld'
    BY <1>25 DEF RefreshFails, Dies, Goes, Forget, home, past
  <1>26. ASSUME NEW p \in Terminals, Logout(p) PROVE PortHeld'
    BY <1>26 DEF Logout, Goes, own
  <1>27. ASSUME NEW p \in Terminals, Interrupt(p) PROVE PortHeld'
    BY <1>27 DEF Interrupt, Dies, Goes, Forget, home, past
  <1>28. ASSUME Expire PROVE PortHeld'
    BY <1>28 DEF Expire, own, past
  <1>29. ASSUME AttestationExpires PROVE PortHeld'
    BY <1>29 DEF AttestationExpires, own, past
  <1>. QED
    BY <1>0, <1>1, <1>2, <1>3, <1>4, <1>5, <1>6, <1>7, <1>8, <1>9, <1>10,
       <1>11, <1>12, <1>13, <1>14, <1>15, <1>16, <1>17, <1>18, <1>19,
       <1>20, <1>21, <1>22, <1>23, <1>24, <1>25, <1>26, <1>27, <1>28,
       <1>29, <1>30 DEF Next, Login

\* Who listened before does not come back to the port.
LEMMA StaleStep ==
  ASSUME TypeOK, PortHeld, StaleEnds, [Next]_vars
  PROVE  StaleEnds'
  <1>. USE LoginAssumption DEF TypeOK, PortHeld, StaleEnds, Running, Places, Ends
  <1>0. CASE UNCHANGED vars
    BY <1>0 DEF vars, home, own, past
  <1>1. ASSUME NEW p \in Terminals, NEW o \in Logins, NEW f \in Flows, StartLogin(p, o, f)
        PROVE  StaleEnds'
    BY <1>1 DEF StartLogin, Emails, DetectedFlow, RecoversEmail, Goes, home, past
  <1>2. ASSUME NEW p \in Terminals, Reuse(p) PROVE StaleEnds'
    BY <1>2 DEF Reuse, Goes, own
  <1>3. ASSUME NEW p \in Terminals, ReuseFails(p) PROVE StaleEnds'
    BY <1>3 DEF ReuseFails, Goes, home, own, past
  <1>4. ASSUME NEW p \in Terminals, NEW u \in Principals, Obtain(p, u)
        PROVE  StaleEnds'
    BY <1>4 DEF Obtain, Goes, home, past
  <1>5. ASSUME NEW p \in Terminals, FlowFails(p) PROVE StaleEnds'
    BY <1>5 DEF FlowFails, Dies, Goes, Forget, home, past
  <1>6. ASSUME NEW p \in Terminals, Confirm(p) PROVE StaleEnds'
    BY <1>6 DEF Confirm, Goes, home, own, past
  <1>7. ASSUME NEW p \in Terminals, Unconfirmed(p) PROVE StaleEnds'
    BY <1>7 DEF Unconfirmed, Dies, Goes, Forget, home, past
  <1>8. ASSUME NEW p \in Terminals, Save(p) PROVE StaleEnds'
    BY <1>8 DEF Save, Goes, own
  <1>9. ASSUME NEW p \in Terminals, SaveFails(p) PROVE StaleEnds'
    BY <1>9 DEF SaveFails, Dies, Goes, Forget, home, past
  <1>10. ASSUME NEW p \in Terminals, OpenBrowser(p) PROVE StaleEnds'
    BY <1>10 DEF OpenBrowser, Goes, home, past
  <1>11. ASSUME NEW p \in Terminals, KillStaleListener(p) PROVE StaleEnds'
    BY <1>11 DEF KillStaleListener, Forget, home, past
  <1>12. ASSUME NEW p \in Terminals, KillNobody(p) PROVE StaleEnds'
    BY <1>12 DEF KillNobody, Goes, home, own, past
  <1>13. ASSUME NEW p \in Terminals, Listen(p) PROVE StaleEnds'
    BY <1>13 DEF Listen, Goes, home, own, past
  <1>14. ASSUME NEW p \in Terminals, BindFails(p) PROVE StaleEnds'
    BY <1>14 DEF BindFails, Dies, Goes, Forget, home, past
  <1>15. ASSUME NEW p \in Terminals, StopWaiting(p) PROVE StaleEnds'
    BY <1>15 DEF StopWaiting, Goes, home, own, past
  <1>16. ASSUME NEW p \in Terminals, Accept(p) PROVE StaleEnds'
    BY <1>16 DEF Accept, Goes, Rejected, home, own, past
  <1>30. ASSUME NEW p \in Terminals, AcceptUnseen(p) PROVE StaleEnds'
    BY <1>30 DEF AcceptUnseen, Goes, home, own
  <1>17. ASSUME NEW p \in Terminals, Split(p) PROVE StaleEnds'
    BY <1>17 DEF Split, Goes, Rejected, own, past
  <1>18. ASSUME NEW p \in Terminals, Block(p) PROVE StaleEnds'
    BY <1>18 DEF Block, Goes, home, own, past
  <1>19. ASSUME NEW p \in Terminals, WriteProof(p) PROVE StaleEnds'
    BY <1>19 DEF WriteProof, Goes, own, past
  <1>20. ASSUME NEW p \in Terminals, StartAttest(p) PROVE StaleEnds'
    BY <1>20 DEF StartAttest, Goes, home, past
  <1>21. ASSUME NEW p \in Terminals, Attest(p) PROVE StaleEnds'
    BY <1>21 DEF Attest, Goes, own
  <1>22. ASSUME NEW p \in Terminals, AttestFails(p) PROVE StaleEnds'
    BY <1>22 DEF AttestFails, Dies, Goes, Forget, home, past
  <1>23. ASSUME NEW p \in Terminals, StartRefresh(p) PROVE StaleEnds'
    BY <1>23 DEF StartRefresh, Goes, home, past
  <1>24. ASSUME NEW p \in Terminals, Refreshed(p) PROVE StaleEnds'
    BY <1>24 DEF Refreshed, Goes, own
  <1>25. ASSUME NEW p \in Terminals, RefreshFails(p) PROVE StaleEnds'
    BY <1>25 DEF RefreshFails, Dies, Goes, Forget, home, past
  <1>26. ASSUME NEW p \in Terminals, Logout(p) PROVE StaleEnds'
    BY <1>26 DEF Logout, Goes, own
  <1>27. ASSUME NEW p \in Terminals, Interrupt(p) PROVE StaleEnds'
    BY <1>27 DEF Interrupt, Dies, Goes, Forget, home, past
  <1>28. ASSUME Expire PROVE StaleEnds'
    BY <1>28 DEF Expire, own, past
  <1>29. ASSUME AttestationExpires PROVE StaleEnds'
    BY <1>29 DEF AttestationExpires, own, past
  <1>. QED
    BY <1>0, <1>1, <1>2, <1>3, <1>4, <1>5, <1>6, <1>7, <1>8, <1>9, <1>10,
       <1>11, <1>12, <1>13, <1>14, <1>15, <1>16, <1>17, <1>18, <1>19,
       <1>20, <1>21, <1>22, <1>23, <1>24, <1>25, <1>26, <1>27, <1>28,
       <1>29, <1>30 DEF Next, Login

\* The guard of the last writer has seen what there was to see.
LEMMA CoherentStep ==
  ASSUME TypeOK, Shape, PortHeld, OwnSession, SuccessIsCoherent, [Next]_vars
  PROVE  OwnSession' /\ SuccessIsCoherent'
  <1>. USE LoginAssumption DEF TypeOK, Shape, OwnSession, SuccessIsCoherent,
        PortHeld, Verdict, LoginPlaces, Verified, Places, Running
  <1>0. CASE UNCHANGED vars
    BY <1>0 DEF vars, home, own, past
  <1>1. ASSUME NEW p \in Terminals, NEW o \in Logins, NEW f \in Flows, StartLogin(p, o, f)
        PROVE  OwnSession' /\ SuccessIsCoherent'
    BY <1>1 DEF StartLogin, Emails, DetectedFlow, RecoversEmail, Goes, home, past
  <1>2. ASSUME NEW p \in Terminals, Reuse(p) PROVE OwnSession' /\ SuccessIsCoherent'
    BY <1>2 DEF Reuse, Goes, own
  <1>3. ASSUME NEW p \in Terminals, ReuseFails(p)
        PROVE  OwnSession' /\ SuccessIsCoherent'
    BY <1>3 DEF ReuseFails, Goes, home, own, past
  <1>4. ASSUME NEW p \in Terminals, NEW u \in Principals, Obtain(p, u)
        PROVE  OwnSession' /\ SuccessIsCoherent'
    BY <1>4 DEF Obtain, Goes, home, past
  <1>5. ASSUME NEW p \in Terminals, FlowFails(p)
        PROVE  OwnSession' /\ SuccessIsCoherent'
    BY <1>5 DEF FlowFails, Dies, Goes, Forget, home, past
  <1>6. ASSUME NEW p \in Terminals, Confirm(p) PROVE OwnSession' /\ SuccessIsCoherent'
    BY <1>6 DEF Confirm, Goes, home, own, past
  <1>7. ASSUME NEW p \in Terminals, Unconfirmed(p)
        PROVE  OwnSession' /\ SuccessIsCoherent'
    BY <1>7 DEF Unconfirmed, Dies, Goes, Forget, home, past
  <1>8. ASSUME NEW p \in Terminals, Save(p) PROVE OwnSession' /\ SuccessIsCoherent'
    BY <1>8 DEF Save, Goes, own
  <1>9. ASSUME NEW p \in Terminals, SaveFails(p)
        PROVE  OwnSession' /\ SuccessIsCoherent'
    BY <1>9 DEF SaveFails, Dies, Goes, Forget, home, past
  <1>10. ASSUME NEW p \in Terminals, OpenBrowser(p)
         PROVE  OwnSession' /\ SuccessIsCoherent'
    BY <1>10 DEF OpenBrowser, Goes, home, past
  <1>11. ASSUME NEW p \in Terminals, KillStaleListener(p)
         PROVE  OwnSession' /\ SuccessIsCoherent'
    BY <1>11 DEF KillStaleListener, Forget, home, past
  <1>12. ASSUME NEW p \in Terminals, KillNobody(p)
         PROVE  OwnSession' /\ SuccessIsCoherent'
    BY <1>12 DEF KillNobody, Goes, home, own, past
  <1>13. ASSUME NEW p \in Terminals, Listen(p) PROVE OwnSession' /\ SuccessIsCoherent'
    BY <1>13 DEF Listen, Goes, home, own, past
  <1>14. ASSUME NEW p \in Terminals, BindFails(p)
         PROVE  OwnSession' /\ SuccessIsCoherent'
    BY <1>14 DEF BindFails, Dies, Goes, Forget, home, past
  <1>15. ASSUME NEW p \in Terminals, StopWaiting(p)
         PROVE  OwnSession' /\ SuccessIsCoherent'
    BY <1>15 DEF StopWaiting, Goes, home, own, past
  <1>16. ASSUME NEW p \in Terminals, Accept(p) PROVE OwnSession' /\ SuccessIsCoherent'
    BY <1>16 DEF Accept, Goes, Rejected, home, own, past
  <1>30. ASSUME NEW p \in Terminals, AcceptUnseen(p) PROVE OwnSession' /\ SuccessIsCoherent'
    BY <1>30 DEF AcceptUnseen, Goes, home, own
  <1>17. ASSUME NEW p \in Terminals, Split(p) PROVE OwnSession' /\ SuccessIsCoherent'
    BY <1>17 DEF Split, Goes, Rejected, own, past
  <1>18. ASSUME NEW p \in Terminals, Block(p) PROVE OwnSession' /\ SuccessIsCoherent'
    BY <1>18 DEF Block, Goes, home, own, past
  <1>19. ASSUME NEW p \in Terminals, WriteProof(p)
         PROVE  OwnSession' /\ SuccessIsCoherent'
    BY <1>19 DEF WriteProof, Goes, own, past
  <1>20. ASSUME NEW p \in Terminals, StartAttest(p)
         PROVE  OwnSession' /\ SuccessIsCoherent'
    BY <1>20 DEF StartAttest, Goes, home, past
  <1>21. ASSUME NEW p \in Terminals, Attest(p) PROVE OwnSession' /\ SuccessIsCoherent'
    BY <1>21 DEF Attest, Goes, own
  <1>22. ASSUME NEW p \in Terminals, AttestFails(p)
         PROVE  OwnSession' /\ SuccessIsCoherent'
    BY <1>22 DEF AttestFails, Dies, Goes, Forget, home, past
  <1>23. ASSUME NEW p \in Terminals, StartRefresh(p)
         PROVE  OwnSession' /\ SuccessIsCoherent'
    BY <1>23 DEF StartRefresh, Goes, home, past
  <1>24. ASSUME NEW p \in Terminals, Refreshed(p)
         PROVE  OwnSession' /\ SuccessIsCoherent'
    BY <1>24 DEF Refreshed, Goes, own
  <1>25. ASSUME NEW p \in Terminals, RefreshFails(p)
         PROVE  OwnSession' /\ SuccessIsCoherent'
    BY <1>25 DEF RefreshFails, Dies, Goes, Forget, home, past
  <1>26. ASSUME NEW p \in Terminals, Logout(p) PROVE OwnSession' /\ SuccessIsCoherent'
    BY <1>26 DEF Logout, Goes, own
  <1>27. ASSUME NEW p \in Terminals, Interrupt(p)
         PROVE  OwnSession' /\ SuccessIsCoherent'
    BY <1>27 DEF Interrupt, Dies, Goes, Forget, home, past
  <1>28. ASSUME Expire PROVE OwnSession' /\ SuccessIsCoherent'
    BY <1>28 DEF Expire, own, past
  <1>29. ASSUME AttestationExpires PROVE OwnSession' /\ SuccessIsCoherent'
    BY <1>29 DEF AttestationExpires, own, past
  <1>. QED
    BY <1>0, <1>1, <1>2, <1>3, <1>4, <1>5, <1>6, <1>7, <1>8, <1>9, <1>10,
       <1>11, <1>12, <1>13, <1>14, <1>15, <1>16, <1>17, <1>18, <1>19,
       <1>20, <1>21, <1>22, <1>23, <1>24, <1>25, <1>26, <1>27, <1>28,
       <1>29, <1>30 DEF Next, Login

\* A successful login stays one.
LEMMA IdentStep ==
  ASSUME TypeOK, Shape, PortHeld, IdentWasAccepted, [Next]_vars
  PROVE  IdentWasAccepted'
  <1>. USE LoginAssumption DEF TypeOK, Shape, PortHeld, IdentWasAccepted,
        LoginPlaces, Verified, Running, Places
  <1>0. CASE UNCHANGED vars
    BY <1>0 DEF vars, home, own, past
  <1>1. ASSUME NEW p \in Terminals, NEW o \in Logins, NEW f \in Flows, StartLogin(p, o, f)
        PROVE  IdentWasAccepted'
    BY <1>1 DEF StartLogin, Emails, DetectedFlow, RecoversEmail, Goes, home, past
  <1>2. ASSUME NEW p \in Terminals, Reuse(p) PROVE IdentWasAccepted'
    BY <1>2 DEF Reuse, Goes, own
  <1>3. ASSUME NEW p \in Terminals, ReuseFails(p) PROVE IdentWasAccepted'
    BY <1>3 DEF ReuseFails, Goes, home, own, past
  <1>4. ASSUME NEW p \in Terminals, NEW u \in Principals, Obtain(p, u)
        PROVE  IdentWasAccepted'
    BY <1>4 DEF Obtain, Goes, home, past
  <1>5. ASSUME NEW p \in Terminals, FlowFails(p) PROVE IdentWasAccepted'
    BY <1>5 DEF FlowFails, Dies, Goes, Forget, home, past
  <1>6. ASSUME NEW p \in Terminals, Confirm(p) PROVE IdentWasAccepted'
    BY <1>6 DEF Confirm, Goes, home, own, past
  <1>7. ASSUME NEW p \in Terminals, Unconfirmed(p) PROVE IdentWasAccepted'
    BY <1>7 DEF Unconfirmed, Dies, Goes, Forget, home, past
  <1>8. ASSUME NEW p \in Terminals, Save(p) PROVE IdentWasAccepted'
    BY <1>8 DEF Save, Goes, own
  <1>9. ASSUME NEW p \in Terminals, SaveFails(p) PROVE IdentWasAccepted'
    BY <1>9 DEF SaveFails, Dies, Goes, Forget, home, past
  <1>10. ASSUME NEW p \in Terminals, OpenBrowser(p) PROVE IdentWasAccepted'
    BY <1>10 DEF OpenBrowser, Goes, home, past
  <1>11. ASSUME NEW p \in Terminals, KillStaleListener(p) PROVE IdentWasAccepted'
    BY <1>11 DEF KillStaleListener, Forget, home, past
  <1>12. ASSUME NEW p \in Terminals, KillNobody(p) PROVE IdentWasAccepted'
    BY <1>12 DEF KillNobody, Goes, home, own, past
  <1>13. ASSUME NEW p \in Terminals, Listen(p) PROVE IdentWasAccepted'
    BY <1>13 DEF Listen, Goes, home, own, past
  <1>14. ASSUME NEW p \in Terminals, BindFails(p) PROVE IdentWasAccepted'
    BY <1>14 DEF BindFails, Dies, Goes, Forget, home, past
  <1>15. ASSUME NEW p \in Terminals, StopWaiting(p) PROVE IdentWasAccepted'
    BY <1>15 DEF StopWaiting, Goes, home, own, past
  <1>16. ASSUME NEW p \in Terminals, Accept(p) PROVE IdentWasAccepted'
    BY <1>16 DEF Accept, Goes, Rejected, home, own, past
  <1>30. ASSUME NEW p \in Terminals, AcceptUnseen(p) PROVE IdentWasAccepted'
    BY <1>30 DEF AcceptUnseen, Goes, home, own
  <1>17. ASSUME NEW p \in Terminals, Split(p) PROVE IdentWasAccepted'
    BY <1>17 DEF Split, Goes, Rejected, own, past
  <1>18. ASSUME NEW p \in Terminals, Block(p) PROVE IdentWasAccepted'
    BY <1>18 DEF Block, Goes, home, own, past
  <1>19. ASSUME NEW p \in Terminals, WriteProof(p) PROVE IdentWasAccepted'
    BY <1>19 DEF WriteProof, Goes, own, past
  <1>20. ASSUME NEW p \in Terminals, StartAttest(p) PROVE IdentWasAccepted'
    BY <1>20 DEF StartAttest, Goes, home, past
  <1>21. ASSUME NEW p \in Terminals, Attest(p) PROVE IdentWasAccepted'
    BY <1>21 DEF Attest, Goes, own
  <1>22. ASSUME NEW p \in Terminals, AttestFails(p) PROVE IdentWasAccepted'
    BY <1>22 DEF AttestFails, Dies, Goes, Forget, home, past
  <1>23. ASSUME NEW p \in Terminals, StartRefresh(p) PROVE IdentWasAccepted'
    BY <1>23 DEF StartRefresh, Goes, home, past
  <1>24. ASSUME NEW p \in Terminals, Refreshed(p) PROVE IdentWasAccepted'
    BY <1>24 DEF Refreshed, Goes, own
  <1>25. ASSUME NEW p \in Terminals, RefreshFails(p) PROVE IdentWasAccepted'
    BY <1>25 DEF RefreshFails, Dies, Goes, Forget, home, past
  <1>26. ASSUME NEW p \in Terminals, Logout(p) PROVE IdentWasAccepted'
    BY <1>26 DEF Logout, Goes, own
  <1>27. ASSUME NEW p \in Terminals, Interrupt(p) PROVE IdentWasAccepted'
    BY <1>27 DEF Interrupt, Dies, Goes, Forget, home, past
  <1>28. ASSUME Expire PROVE IdentWasAccepted'
    BY <1>28 DEF Expire, own, past
  <1>29. ASSUME AttestationExpires PROVE IdentWasAccepted'
    BY <1>29 DEF AttestationExpires, own, past
  <1>. QED
    BY <1>0, <1>1, <1>2, <1>3, <1>4, <1>5, <1>6, <1>7, <1>8, <1>9, <1>10,
       <1>11, <1>12, <1>13, <1>14, <1>15, <1>16, <1>17, <1>18, <1>19,
       <1>20, <1>21, <1>22, <1>23, <1>24, <1>25, <1>26, <1>27, <1>28,
       <1>29, <1>30 DEF Next, Login

\* A login that crashes at the port has found it taken.
LEMMA CrashedFound ==
  ASSUME TypeOK, [Next]_vars
  PROVE  \A q \in Terminals : at[q] = "bind" /\ at'[q] = "crashed" => port # None
  <1>. USE LoginAssumption DEF TypeOK, Places
  <1>0. CASE UNCHANGED vars
    BY <1>0 DEF vars, home, own, past
  <1>1. ASSUME NEW p \in Terminals, NEW o \in Logins, NEW f \in Flows, StartLogin(p, o, f)
        PROVE  \A q \in Terminals : at[q] = "bind" /\ at'[q] = "crashed" => port # None
    BY <1>1 DEF StartLogin, Emails, DetectedFlow, RecoversEmail, Goes, home, past
  <1>2. ASSUME NEW p \in Terminals, Reuse(p)
        PROVE  \A q \in Terminals : at[q] = "bind" /\ at'[q] = "crashed" => port # None
    BY <1>2 DEF Reuse, Goes, own
  <1>3. ASSUME NEW p \in Terminals, ReuseFails(p)
        PROVE  \A q \in Terminals : at[q] = "bind" /\ at'[q] = "crashed" => port # None
    BY <1>3 DEF ReuseFails, Goes, home, own, past
  <1>4. ASSUME NEW p \in Terminals, NEW u \in Principals, Obtain(p, u)
        PROVE  \A q \in Terminals : at[q] = "bind" /\ at'[q] = "crashed" => port # None
    BY <1>4 DEF Obtain, Goes, home, past
  <1>5. ASSUME NEW p \in Terminals, FlowFails(p)
        PROVE  \A q \in Terminals : at[q] = "bind" /\ at'[q] = "crashed" => port # None
    BY <1>5 DEF FlowFails, Dies, Goes, Forget, home, past
  <1>6. ASSUME NEW p \in Terminals, Confirm(p)
        PROVE  \A q \in Terminals : at[q] = "bind" /\ at'[q] = "crashed" => port # None
    BY <1>6 DEF Confirm, Goes, home, own, past
  <1>7. ASSUME NEW p \in Terminals, Unconfirmed(p)
        PROVE  \A q \in Terminals : at[q] = "bind" /\ at'[q] = "crashed" => port # None
    BY <1>7 DEF Unconfirmed, Dies, Goes, Forget, home, past
  <1>8. ASSUME NEW p \in Terminals, Save(p)
        PROVE  \A q \in Terminals : at[q] = "bind" /\ at'[q] = "crashed" => port # None
    BY <1>8 DEF Save, Goes, own
  <1>9. ASSUME NEW p \in Terminals, SaveFails(p)
        PROVE  \A q \in Terminals : at[q] = "bind" /\ at'[q] = "crashed" => port # None
    BY <1>9 DEF SaveFails, Dies, Goes, Forget, home, past
  <1>10. ASSUME NEW p \in Terminals, OpenBrowser(p)
         PROVE  \A q \in Terminals : at[q] = "bind" /\ at'[q] = "crashed" => port # None
    BY <1>10 DEF OpenBrowser, Goes, home, past
  <1>11. ASSUME NEW p \in Terminals, KillStaleListener(p)
         PROVE  \A q \in Terminals : at[q] = "bind" /\ at'[q] = "crashed" => port # None
    BY <1>11 DEF KillStaleListener, Forget, home, past
  <1>12. ASSUME NEW p \in Terminals, KillNobody(p)
         PROVE  \A q \in Terminals : at[q] = "bind" /\ at'[q] = "crashed" => port # None
    BY <1>12 DEF KillNobody, Goes, home, own, past
  <1>13. ASSUME NEW p \in Terminals, Listen(p)
         PROVE  \A q \in Terminals : at[q] = "bind" /\ at'[q] = "crashed" => port # None
    BY <1>13 DEF Listen, Goes, home, own, past
  <1>14. ASSUME NEW p \in Terminals, BindFails(p)
         PROVE  \A q \in Terminals : at[q] = "bind" /\ at'[q] = "crashed" => port # None
    BY <1>14 DEF BindFails, Dies, Goes, Forget, home, past
  <1>15. ASSUME NEW p \in Terminals, StopWaiting(p)
         PROVE  \A q \in Terminals : at[q] = "bind" /\ at'[q] = "crashed" => port # None
    BY <1>15 DEF StopWaiting, Goes, home, own, past
  <1>16. ASSUME NEW p \in Terminals, Accept(p)
         PROVE  \A q \in Terminals : at[q] = "bind" /\ at'[q] = "crashed" => port # None
    BY <1>16 DEF Accept, Goes, Rejected, home, own, past
  <1>30. ASSUME NEW p \in Terminals, AcceptUnseen(p)
         PROVE  \A q \in Terminals : at[q] = "bind" /\ at'[q] = "crashed" => port # None
    BY <1>30 DEF AcceptUnseen, Goes, home, own
  <1>17. ASSUME NEW p \in Terminals, Split(p)
         PROVE  \A q \in Terminals : at[q] = "bind" /\ at'[q] = "crashed" => port # None
    BY <1>17 DEF Split, Goes, Rejected, own, past
  <1>18. ASSUME NEW p \in Terminals, Block(p)
         PROVE  \A q \in Terminals : at[q] = "bind" /\ at'[q] = "crashed" => port # None
    BY <1>18 DEF Block, Goes, home, own, past
  <1>19. ASSUME NEW p \in Terminals, WriteProof(p)
         PROVE  \A q \in Terminals : at[q] = "bind" /\ at'[q] = "crashed" => port # None
    BY <1>19 DEF WriteProof, Goes, own, past
  <1>20. ASSUME NEW p \in Terminals, StartAttest(p)
         PROVE  \A q \in Terminals : at[q] = "bind" /\ at'[q] = "crashed" => port # None
    BY <1>20 DEF StartAttest, Goes, home, past
  <1>21. ASSUME NEW p \in Terminals, Attest(p)
         PROVE  \A q \in Terminals : at[q] = "bind" /\ at'[q] = "crashed" => port # None
    BY <1>21 DEF Attest, Goes, own
  <1>22. ASSUME NEW p \in Terminals, AttestFails(p)
         PROVE  \A q \in Terminals : at[q] = "bind" /\ at'[q] = "crashed" => port # None
    BY <1>22 DEF AttestFails, Dies, Goes, Forget, home, past
  <1>23. ASSUME NEW p \in Terminals, StartRefresh(p)
         PROVE  \A q \in Terminals : at[q] = "bind" /\ at'[q] = "crashed" => port # None
    BY <1>23 DEF StartRefresh, Goes, home, past
  <1>24. ASSUME NEW p \in Terminals, Refreshed(p)
         PROVE  \A q \in Terminals : at[q] = "bind" /\ at'[q] = "crashed" => port # None
    BY <1>24 DEF Refreshed, Goes, own
  <1>25. ASSUME NEW p \in Terminals, RefreshFails(p)
         PROVE  \A q \in Terminals : at[q] = "bind" /\ at'[q] = "crashed" => port # None
    BY <1>25 DEF RefreshFails, Dies, Goes, Forget, home, past
  <1>26. ASSUME NEW p \in Terminals, Logout(p)
         PROVE  \A q \in Terminals : at[q] = "bind" /\ at'[q] = "crashed" => port # None
    BY <1>26 DEF Logout, Goes, own
  <1>27. ASSUME NEW p \in Terminals, Interrupt(p)
         PROVE  \A q \in Terminals : at[q] = "bind" /\ at'[q] = "crashed" => port # None
    BY <1>27 DEF Interrupt, Dies, Goes, Forget, home, past
  <1>28. ASSUME Expire
         PROVE  \A q \in Terminals : at[q] = "bind" /\ at'[q] = "crashed" => port # None
    BY <1>28 DEF Expire, own, past
  <1>29. ASSUME AttestationExpires
         PROVE  \A q \in Terminals : at[q] = "bind" /\ at'[q] = "crashed" => port # None
    BY <1>29 DEF AttestationExpires, own, past
  <1>. QED
    BY <1>0, <1>1, <1>2, <1>3, <1>4, <1>5, <1>6, <1>7, <1>8, <1>9, <1>10,
       <1>11, <1>12, <1>13, <1>14, <1>15, <1>16, <1>17, <1>18, <1>19,
       <1>20, <1>21, <1>22, <1>23, <1>24, <1>25, <1>26, <1>27, <1>28,
       <1>29, <1>30 DEF Next, Login

-----------------------------------------------------------------------------
IInv ==
  /\ TypeOK /\ Shape /\ CredsAreVerified
  /\ PortHeld /\ StaleEnds
  /\ OwnSession /\ SuccessIsCoherent
  /\ IdentWasAccepted

\* The commands run_login, run_logout and host attest, and refreshes, however they
\* interleave and wherever they are cut, keep all of this.
THEOREM InductiveInvariant == Spec => []IInv
  <1>1. Init => IInv
    BY LoginAssumption DEF Init, IInv, TypeOK, Shape, CredsAreVerified, PortHeld, StaleEnds,
       OwnSession, SuccessIsCoherent, IdentWasAccepted, Places, LoginPlaces, Verified
  <1>2. IInv /\ [Next]_vars => IInv'
    BY TypeStep, ShapeStep, PortStep, StaleStep, CoherentStep, IdentStep DEF IInv
  <1>. QED
    BY <1>1, <1>2, PTL DEF Spec

\* The keyhole home and the commands keep their types.
THEOREM TypeCorrect == Spec => []TypeOK
  <1>1. IInv => TypeOK
    BY DEF IInv
  <1>. QED
    BY <1>1, InductiveInvariant, PTL

\* client.login: what is stored was confirmed, for any number of commands that
\* log in, refresh, attest, sign out or are killed.
THEOREM OnlyVerifiedCredentials == Spec => []CredsAreVerified
  <1>1. IInv => CredsAreVerified
    BY DEF IInv
  <1>. QED
    BY <1>1, InductiveInvariant, PTL

\* _check_host_coherence: a login that is told it succeeded has not passed over an
\* attestation that was there.
THEOREM ReportedLoginsAreCoherent == Spec => []SuccessIsCoherent
  <1>1. IInv => SuccessIsCoherent
    BY DEF IInv
  <1>. QED
    BY <1>1, InductiveInvariant, PTL

\* _recover_email_from_state finds only principals whose login was accepted.
THEOREM RecoveredWasAccepted == Spec => []IdentWasAccepted
  <1>1. IInv => IdentWasAccepted
    BY DEF IInv
  <1>. QED
    BY <1>1, InductiveInvariant, PTL

\* _kill_stale_listener: where the listener can be found, one that was there first
\* is not in the way.
THEOREM StaleIsNotInTheWay ==
  ASSUME FindsPids PROVE Spec => StaleDoesNotBlock
  <1>1. IInv /\ [Next]_vars =>
          \A p \in Terminals : at[p] = "bind" /\ at'[p] = "crashed" => port # seen[p]
    <2> SUFFICES ASSUME IInv, [Next]_vars, NEW p \in Terminals,
                        at[p] = "bind", at'[p] = "crashed", port = seen[p]
                 PROVE  FALSE
      OBVIOUS
    <2>1. port # None
      BY CrashedFound DEF IInv
    <2>2. at[port] \in Ends
      BY <2>1 DEF IInv, StaleEnds
    <2>3. at[port] \in {"waiting", "shutdown"}
      BY <2>1 DEF IInv, TypeOK, PortHeld
    <2>. QED
      BY <2>2, <2>3 DEF Ends
  <1>2. IInv /\ [Next]_vars => [\A p \in Terminals : at[p] = "bind" /\ at'[p] = "crashed" => port # seen[p]]_vars
    BY <1>1
  <1>. QED
    BY <1>2, InductiveInvariant, PTL DEF Spec, StaleDoesNotBlock

-----------------------------------------------------------------------------
(* The MCP proxy                                                            *)

\* A GET that waits, or is handled, is the only one of its client, which waits
\* for it; the thread knows whose request it has; and a message has a session.
OneConnectEach ==
  /\ \A i \in 1..Len(backlog) : backlog[i].session = Nobody =>
       /\ client[backlog[i].client] = "connects"
       /\ thread = "get" => request.client # backlog[i].client
       /\ \A j \in 1..Len(backlog) :
            backlog[j].session = Nobody /\ backlog[j].client = backlog[i].client => i = j
  /\ thread = "get" => client[request.client] = "connects" /\ request.session = Nobody
  /\ thread = "post" => request.session \in Ids
  /\ thread # "idle" => request \in Requests
  /\ \A c \in Clients : client[c] \in {"off", "connects"} => session[c] = Nobody

\* The table sends a message nowhere else.
OwnUrls == \A s \in Ids : urls[s] \in {s, Nobody}

ProxyInv ==
  ProxyTypeOK /\ OneConnectEach /\ OpenIsStreamed /\ OwnUrls /\ RoutedToOwnSession

LEMMA BacklogFacts ==
  ASSUME ProxyTypeOK, backlog # <<>>
  PROVE  /\ Head(backlog) = backlog[1] /\ Head(backlog) \in Requests
         /\ 1 \in 1..Len(backlog) /\ Tail(backlog) \in Seq(Requests)
         /\ Len(Tail(backlog)) = Len(backlog) - 1
         /\ \A i \in 1..Len(Tail(backlog)) :
              i + 1 \in 1..Len(backlog) /\ Tail(backlog)[i] = backlog[i + 1]
  BY DEF ProxyTypeOK

LEMMA ProxyTypeStep ==
  ASSUME ProxyTypeOK, OneConnectEach, OpenIsStreamed, [ProxyNext]_proxyVars
  PROVE  ProxyTypeOK'
  <1>. USE ProxyAssumption DEF ProxyTypeOK, Requests, Ids
  <1>1. CASE UNCHANGED proxyVars
    BY <1>1 DEF proxyVars
  <1>2. ASSUME NEW c \in Clients, Connect(c) PROVE ProxyTypeOK'
    BY <1>2 DEF Connect
  <1>3. ASSUME NEW c \in Clients, Post(c) PROVE ProxyTypeOK'
    BY <1>3 DEF Post
  <1>4. ASSUME NEW c \in Clients, Disconnect(c) PROVE ProxyTypeOK'
    BY <1>4 DEF Disconnect
  <1>5. CASE AcceptConnection
    <2>1. /\ request' \in Requests /\ backlog' \in Seq(Requests)
          /\ thread' \in {"get", "post"}
          /\ UNCHANGED <<urls, client, session, sessions, posts, relayed>>
      BY <1>5, BacklogFacts DEF AcceptConnection
    <2>. QED
      BY <2>1
  <1>6. CASE Refuse
    BY <1>6 DEF Refuse, Answered
  <1>7. ASSUME NEW named \in BOOLEAN, OpenStream(named) PROVE ProxyTypeOK'
    <2>1. sessions + 1 \in Ids /\ sessions' = sessions + 1 /\ sessions' \in 0..MaxSessions
      BY <1>7 DEF OpenStream
    <2>. QED
      BY <1>7, <2>1 DEF OpenStream
  <1>8. CASE StreamEnds
    BY <1>8 DEF StreamEnds
  <1>9. CASE Relay
    BY <1>9 DEF Relay, Answered, OneConnectEach
  <1>10. CASE Restart
    BY <1>10 DEF Restart
  <1>. QED
    BY <1>1, <1>2, <1>3, <1>4, <1>5, <1>6, <1>7, <1>8, <1>9, <1>10
    DEF ProxyNext, Serve

LEMMA OneConnectStep ==
  ASSUME ProxyTypeOK, OneConnectEach, OpenIsStreamed, [ProxyNext]_proxyVars
  PROVE  OneConnectEach' /\ OpenIsStreamed'
  <1>. USE ProxyAssumption DEF ProxyTypeOK, Requests, Ids, OneConnectEach, OpenIsStreamed
  <1>1. CASE UNCHANGED proxyVars
    BY <1>1 DEF proxyVars
  <1>2. ASSUME NEW c \in Clients, Connect(c) PROVE OneConnectEach' /\ OpenIsStreamed'
    BY <1>2 DEF Connect
  <1>3. ASSUME NEW c \in Clients, Post(c) PROVE OneConnectEach' /\ OpenIsStreamed'
    BY <1>3 DEF Post
  <1>4. ASSUME NEW c \in Clients, Disconnect(c) PROVE OneConnectEach' /\ OpenIsStreamed'
    BY <1>4 DEF Disconnect
  <1>5. CASE AcceptConnection
    <2>1. /\ thread = "idle" /\ backlog # <<>> /\ UNCHANGED <<client, session>>
          /\ request' = backlog[1] /\ backlog[1] \in Requests
          /\ backlog' = Tail(backlog)
          /\ thread' = IF backlog[1].session = Nobody THEN "get" ELSE "post"
      BY <1>5, BacklogFacts DEF AcceptConnection
    <2>2. \A i \in 1..Len(backlog') :
            i + 1 \in 1..Len(backlog) /\ backlog'[i] = backlog[i + 1] /\ i + 1 # 1
      BY <2>1, BacklogFacts
    <2>3. 1 \in 1..Len(backlog)
      BY <2>1, BacklogFacts
    <2>4. \A i \in 1..Len(backlog') : backlog'[i].session = Nobody =>
            /\ client'[backlog'[i].client] = "connects"
            /\ request'.session = Nobody => request'.client # backlog'[i].client
            /\ \A j \in 1..Len(backlog') :
                 backlog'[j].session = Nobody /\ backlog'[j].client = backlog'[i].client
                   => i = j
      BY <2>1, <2>2, <2>3
    <2>5. /\ request'.session = Nobody => client'[request'.client] = "connects"
          /\ request'.session # Nobody => request'.session \in Ids
      BY <2>1, <2>3
    <2>6. OpenIsStreamed'
      BY <2>1
    <2>. QED
      BY <2>1, <2>4, <2>5, <2>6
  <1>6. CASE Refuse
    <2>1. CASE thread = "get"
      <3>1. /\ request \in Requests /\ client[request.client] = "connects"
            /\ client' = [client EXCEPT ![request.client] = "off"]
            /\ thread' = "idle" /\ UNCHANGED <<backlog, session>>
        BY <1>6, <2>1 DEF Refuse, Answered
      <3>2. \A c \in Clients : client'[c] \notin {"open", "posts"}
        BY <2>1, <3>1
      <3>. QED
        BY <2>1, <3>1, <3>2
    <2>2. CASE thread = "post"
      BY <1>6, <2>2 DEF Refuse, Answered
    <2>. QED
      BY <1>6, <2>1, <2>2 DEF Refuse
  <1>7. ASSUME NEW named \in BOOLEAN, OpenStream(named)
        PROVE OneConnectEach' /\ OpenIsStreamed'
    BY <1>7 DEF OpenStream
  <1>8. CASE StreamEnds
    <2>1. /\ thread = "stream" /\ thread' = "idle" /\ request \in Requests
          /\ UNCHANGED backlog
      BY <1>8 DEF StreamEnds
    <2>2. CASE session[request.client] = Nobody
      <3>1. UNCHANGED <<client, session>>
        BY <1>8, <2>2 DEF StreamEnds
      <3>. QED
        BY <2>1, <2>2, <3>1
    <2>3. CASE session[request.client] # Nobody
      <3>1. /\ client' = [client EXCEPT ![request.client] = "off"]
            /\ session' = [session EXCEPT ![request.client] = Nobody]
        BY <1>8, <2>3 DEF StreamEnds
      <3>. QED
        BY <2>1, <2>3, <3>1
    <2>. QED
      BY <2>2, <2>3
  <1>9. CASE Relay
    BY <1>9 DEF Relay, Answered
  <1>10. CASE Restart
    BY <1>10 DEF Restart
  <1>. QED
    BY <1>1, <1>2, <1>3, <1>4, <1>5, <1>6, <1>7, <1>8, <1>9, <1>10
    DEF ProxyNext, Serve

LEMMA RoutedStep ==
  ASSUME ProxyInv, [ProxyNext]_proxyVars
  PROVE  OwnUrls' /\ RoutedToOwnSession'
  <1>. USE ProxyAssumption DEF ProxyInv, OwnUrls, RoutedToOwnSession
  <1>1. ASSUME NEW named \in BOOLEAN, OpenStream(named)
        PROVE  OwnUrls' /\ RoutedToOwnSession'
    BY <1>1 DEF OpenStream, ProxyTypeOK
  <1>2. CASE Relay
    BY <1>2 DEF Relay, OneConnectEach
  <1>3. CASE Restart
    BY <1>3 DEF Restart
  <1>4. CASE UNCHANGED <<urls, relayed>>
    BY <1>4
  <1>. QED
    BY <1>1, <1>2, <1>3, <1>4 DEF ProxyNext, Serve, Connect, Post, Disconnect,
       AcceptConnection, Refuse, StreamEnds, proxyVars

THEOREM ProxyInvariant == ProxySpec => []ProxyInv
  <1>1. ProxyInit => ProxyInv
    BY ProxyAssumption DEF ProxyInit, ProxyInv, ProxyTypeOK, OneConnectEach, OpenIsStreamed,
       OwnUrls, RoutedToOwnSession
  <1>2. ProxyInv /\ [ProxyNext]_proxyVars => ProxyInv'
    BY ProxyTypeStep, OneConnectStep, RoutedStep DEF ProxyInv
  <1>. QED
    BY <1>1, <1>2, PTL DEF ProxySpec

\* _upstream_message_urls: for any clients that come and go and any restarts, a
\* message is relayed to the session it was posted to.
THEOREM MessagesReachTheirSession == ProxySpec => []RoutedToOwnSession
  <1>1. ProxyInv => RoutedToOwnSession
    BY DEF ProxyInv
  <1>. QED
    BY <1>1, ProxyInvariant, PTL

\* _handle_sse holds the only thread: a client with a session is the one whose
\* stream is relayed.
THEOREM OneClientIsStreamed == ProxySpec => []OpenIsStreamed
  <1>1. ProxyInv => OpenIsStreamed
    BY DEF ProxyInv
  <1>. QED
    BY <1>1, ProxyInvariant, PTL
=============================================================================
