--------------------------- MODULE MCTestRuntime ---------------------------
(* Instances of TestRuntime for TLC.                                       *)
EXTENDS TestRuntime

\* Every reply the bridge can tell apart; a reply that is not ok carries nothing.
AllReplies == {p \in Reply : ~p.ok => p = [ok |-> FALSE, verdict |-> "", drift |-> "",
                                            context |-> FALSE, event |-> FALSE]}

\* One reply for each way a handler can end.
FewReplies ==
  {[ok |-> FALSE, verdict |-> "", drift |-> "", context |-> FALSE, event |-> FALSE],
   [ok |-> TRUE, verdict |-> "ACCEPT", drift |-> "in_sync", context |-> TRUE, event |-> TRUE],
   [ok |-> TRUE, verdict |-> "", drift |-> "", context |-> FALSE, event |-> TRUE]}

AllModes == {"local-only", "governed", "misconfigured"}


=============================================================================
