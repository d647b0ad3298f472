------------------------------ MODULE Dispatch ------------------------------
(***************************************************************************)
(* Answers of the MCP boundary to POST /mcp/v1/runs/start, and what the     *)
(* run dispatcher makes of one: an exception of the transport, or the       *)
(* classification of the answer.                                            *)
(***************************************************************************)

(* code 0 is an answer that never arrived, word the status of the payload,  *)
(* named whether data.run_id is there, body what else the payload says.     *)
Answer(code, word, ok, named, body) ==
  [code |-> code, word |-> word, ok |-> ok, named |-> named, body |-> body]
NoReply    == Answer(0, "none", FALSE, FALSE, "none")
Done(body) == Answer(200, "completed", TRUE, FALSE, body)
Queued     == {Answer(202, "none", TRUE, named, "none") : named \in BOOLEAN}
                \cup {Answer(200, "accepted", TRUE, TRUE, "none")}
Refusals   == {Answer(200, "rejected", TRUE, FALSE, "none"),
               Answer(200, "deferred", TRUE, FALSE, "none"),
               Answer(200, "none", FALSE, FALSE, "none"),
               Answer(400, "none", FALSE, FALSE, "none")}

Raises(r) == r.code \notin {200, 202}

handle_transport_exception(r) ==
  IF r.code = 0 THEN "TRANSPORT_ERROR" ELSE "FAILED"

(* Mutant: the words of a refusal are not looked for.                       *)
ClassifyByCode(r) ==
  IF r.code = 202 \/ r.word = "accepted" THEN "ACCEPTED" ELSE "SUCCESS"

(* ok is not looked at.                                                     *)
classify_outcome(r) ==
  IF r.code = 202 \/ r.word = "accepted" THEN "ACCEPTED"
  ELSE IF r.word = "deferred" THEN "DEFERRED"
  ELSE IF r.word = "rejected" THEN "REJECTED"
  ELSE "SUCCESS"

dispatch_run(r) ==
  IF Raises(r) THEN handle_transport_exception(r) ELSE classify_outcome(r)
=============================================================================
