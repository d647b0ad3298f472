----------------------------- MODULE RunRecords -----------------------------
(***************************************************************************)
(* Governed runs and their local records (keyhole_sdk/run_lifecycle/ and   *)
(* the commands keyhole run and keyhole runs status, wait, tail, resume).  *)
(* A run goes on at the server by itself.  The record of it in             *)
(* .keyhole/state/runs/, written in place and without a lock, connects the *)
(* run to the request that started it, so that a later command can take    *)
(* the run up again.                                                       *)
(*                                                                         *)
(* Commands are processes that may overlap and may end at any point; the   *)
(* server is external.                                                     *)
(***************************************************************************)
EXTENDS Naturals

CONSTANTS
  Runs,   \* submissions of keyhole run, each with a request id and a run id
  Procs,  \* processes, each executes one command after another
  None,   \* no identifier
  MaxCommands  \* bound on the number of commands

\* What a command may be given to find a run.  A request id stands for the
\* correlation id too.
Ids == [of : Runs, by : {"run", "request"}]
RunId(r) == [of |-> r, by |-> "run"]
RequestId(r) == [of |-> r, by |-> "request"]

ASSUME NoneAssumption == None \notin Ids
ASSUME BoundAssumption == MaxCommands \in Nat

\* RunStatus: accepted stands for running and deferred too, failed for
\* rejected, denied and cancelled.
Terminal == {"success", "failed"}
Statuses == Terminal \cup {"accepted", "unknown"}

\* The request id stands for all that only keyhole run knows of the run:
\* proof path, mode, time of submission, correlation id.
RunRecord == [run_id : Ids \cup {None}, request_id : Ids \cup {None}, status : Statuses]
NoRecord == [run_id |-> None, request_id |-> None, status |-> "unknown"]

VARIABLES
  server,      \* the status of each run, "none" before its submission
  file,        \* each file: "none", "empty" (truncated for a write), "whole", "garbled"
  record,      \* the record last written whole to it
  proc,        \* the command of each process
  commands,    \* how many commands were started
  recorded,    \* history: runs whose record keyhole run has written whole
  missed,      \* history: runs that have a file which a resume did not find
  overlapped   \* history: processes whose command ran beside another

vars == <<server, file, record, proc, commands, recorded, missed, overlapped>>
history == <<commands, recorded, missed, overlapped>>

Commands == {"run", "status", "wait", "resume"}

\* doc is the record the command has found or will write, st the status it
\* has observed and not yet put into doc.
Process == [cmd : Commands \cup {"none"}, id : Ids \cup {None}, doc : RunRecord, st : Statuses,
            pc : {"idle", "reply", "find", "fetch", "load", "write", "writing"}]

Idle == [cmd |-> "none", id |-> None, doc |-> NoRecord, st |-> "unknown", pc |-> "idle"]

Init ==
  /\ server = [r \in Runs |-> "none"]
  /\ file = [i \in Ids |-> "none"]
  /\ record = [i \in Ids |-> NoRecord]
  /\ proc = [p \in Procs |-> Idle]
  /\ commands = 0 /\ recorded = {} /\ missed = {} /\ overlapped = {}

-----------------------------------------------------------------------------
(* The store.                                                              *)

\* The file a record is saved in.
KeyOf(d) == IF d.run_id # None THEN d.run_id ELSE d.request_id

\* load: the record of the file named i, if it can be read; without such a
\* file a record that mentions i.
Loaded(i) ==
  IF file[i] = "none"
  THEN {record[k] : k \in {k \in Ids :
          /\ file[k] = "whole"
          /\ i \in {record[k].run_id, record[k].request_id}}}
  ELSE {record[k] : k \in {i} \cap {k \in Ids : file[k] = "whole"}}

\* The record that update_status saves.
Updated(d, s) == [d EXCEPT !.status = s]

\* Mutant: a failed retrieval is a failed run.
ReportsLost(r) == {server[r], "unknown", "failed"}

\* The status that fetch_run_status returns, if it returns one: an answer
\* whose status has no class is unknown.
Reports(r) == {server[r], "unknown"}

Goes(p, new) == proc' = [proc EXCEPT ![p] = new]

-----------------------------------------------------------------------------
(* Commands start.                                                         *)

Busy == {p \in Procs : proc[p].pc # "idle"}

Starts(p, new) ==
  /\ p \notin Busy
  /\ commands < MaxCommands /\ commands' = commands + 1
  /\ Goes(p, new)
  /\ overlapped' = IF Busy = {} THEN {} ELSE overlapped \cup Busy \cup {p}
  /\ UNCHANGED <<file, record, recorded, missed>>

\* keyhole run dispatches r, and the server accepts it.
Submit(p, r) ==
  /\ server[r] = "none"
  /\ server' = [server EXCEPT ![r] = "accepted"]
  /\ Starts(p, [Idle EXCEPT !.cmd = "run", !.id = RequestId(r), !.pc = "reply"])

Submitting(r) == \E p \in Procs : proc[p].cmd = "run" /\ proc[p].id = RequestId(r)

\* keyhole runs status, wait, tail (the same as wait, but for its output) and
\* resume.  An identifier is known once keyhole run has printed it.
Follow(p, c, i) ==
  /\ server[i.of] # "none" /\ ~Submitting(i.of)
  /\ Starts(p, [Idle EXCEPT !.cmd = c, !.id = i, !.pc = IF c = "resume" THEN "find" ELSE "fetch"])
  /\ UNCHANGED server

-----------------------------------------------------------------------------
(* Steps of a command.                                                     *)

\* The outcome is accepted or deferred, with or without a run id.
Accepted(p) ==
  /\ proc[p].pc = "reply"
  /\ \E i \in {RunId(proc[p].id.of), None} :
       Goes(p, [proc[p] EXCEPT !.pc = "write",
                  !.doc = [run_id |-> i, request_id |-> proc[p].id, status |-> "accepted"]])
  /\ UNCHANGED <<server, file, record, history>>

\* resume_run, step 1.
FindRecord(p) ==
  /\ proc[p].pc = "find"
  /\ \E d \in Loaded(proc[p].id) : Goes(p, [proc[p] EXCEPT !.doc = d, !.pc = "fetch"])
  /\ UNCHANGED <<server, file, record, history>>

\* No record, a cut one, or one that does not mention the identifier.
FindNothing(p) ==
  /\ proc[p].pc = "find"
  /\ Loaded(proc[p].id) = {}
  /\ Goes(p, [proc[p] EXCEPT !.pc = "fetch"])
  /\ missed' = IF \E i \in Ids : i.of = proc[p].id.of /\ file[i] # "none"
               THEN missed \cup {proc[p].id.of} ELSE missed
  /\ UNCHANGED <<server, file, record, commands, recorded, overlapped>>

\* The command has a record in its hands.
HasRecord(p) == KeyOf(proc[p].doc) # None

\* The run whose status the command asks for.
Target(p) == IF proc[p].doc.run_id # None THEN proc[p].doc.run_id ELSE proc[p].id

\* fetch_run_status succeeds.  wait and tail go on polling, which changes
\* nothing, until the status is terminal.
Observe(p) ==
  /\ proc[p].pc = "fetch" /\ (proc[p].cmd = "resume" => HasRecord(p))
  /\ \E s \in Reports(Target(p).of) :
       /\ proc[p].cmd = "wait" => s \in Terminal
       /\ Goes(p, [proc[p] EXCEPT !.st = s, !.pc = "load"])
  /\ UNCHANGED <<server, file, record, history>>

\* resume_run, step 2: a run that is found at the server only gets a record
\* with what the answer tells of it, which may lack its run id.
ObserveUnrecorded(p) ==
  /\ proc[p].pc = "fetch" /\ proc[p].cmd = "resume" /\ ~HasRecord(p)
  /\ \E s \in Reports(proc[p].id.of), i \in {RunId(proc[p].id.of), proc[p].id} :
       Goes(p, [proc[p] EXCEPT !.pc = "write",
                  !.doc = [run_id |-> i, request_id |-> None, status |-> s]])
  /\ UNCHANGED <<server, file, record, history>>

\* update_status loads the record, whatever was loaded before.
LoadId(p) == IF proc[p].cmd = "resume" THEN KeyOf(proc[p].doc) ELSE proc[p].id

LoadRecord(p) ==
  /\ proc[p].pc = "load"
  /\ \E d \in Loaded(LoadId(p)) :
       Goes(p, [proc[p] EXCEPT !.doc = Updated(d, proc[p].st), !.st = "unknown",
                                                !.pc = "write"])
  /\ UNCHANGED <<server, file, record, history>>

LoadNothing(p) ==
  /\ proc[p].pc = "load"
  /\ Loaded(LoadId(p)) = {}
  /\ Goes(p, Idle)
  /\ UNCHANGED <<server, file, record, history>>

\* write_text opens the file, which truncates it, ...
OpenFile(p) ==
  /\ proc[p].pc = "write"
  /\ file' = [file EXCEPT ![KeyOf(proc[p].doc)] = "empty"]
  /\ Goes(p, [proc[p] EXCEPT !.pc = "writing"])
  /\ UNCHANGED <<server, record, history>>

\* ... and writes it.
WriteFile(p) ==
  LET k == KeyOf(proc[p].doc) IN
  /\ proc[p].pc = "writing"
  /\ file' = [file EXCEPT ![k] = "whole"]
  /\ record' = [record EXCEPT ![k] = proc[p].doc]
  /\ recorded' = IF proc[p].cmd = "run" THEN recorded \cup {k.of} ELSE recorded
  /\ Goes(p, Idle)
  /\ UNCHANGED <<server, commands, missed, overlapped>>

\* A longer text written since the file was opened shows behind this one.
GarbleFile(p) ==
  LET k == KeyOf(proc[p].doc) IN
  /\ proc[p].pc = "writing"
  /\ file[k] # "empty"
  /\ file' = [file EXCEPT ![k] = "garbled"]
  /\ Goes(p, Idle)
  /\ UNCHANGED <<server, record, history>>

\* The command ends early: it is killed or interrupted, the status cannot be
\* retrieved, the polls are used up, a run has its result at once, or its
\* outcome is an error of the transport.  Nothing is written then.
End(p) ==
  /\ proc[p].pc # "idle"
  /\ Goes(p, Idle)
  /\ UNCHANGED <<server, file, record, history>>

-----------------------------------------------------------------------------
\* The server completes a run.
Proceed(r, s) ==
  /\ server[r] = "accepted"
  /\ server' = [server EXCEPT ![r] = s]
  /\ UNCHANGED <<file, record, proc, history>>

Step(p) ==
  \/ \E r \in Runs : Submit(p, r)
  \/ \E c \in {"status", "wait", "resume"}, i \in Ids : Follow(p, c, i)
  \/ Accepted(p) \/ FindRecord(p) \/ FindNothing(p)
  \/ Observe(p) \/ ObserveUnrecorded(p) \/ LoadRecord(p) \/ LoadNothing(p)
  \/ OpenFile(p) \/ WriteFile(p) \/ GarbleFile(p) \/ End(p)

Next ==
  \/ \E p \in Procs : Step(p)
  \/ \E r \in Runs, s \in Terminal : Proceed(r, s)

Spec == Init /\ [][Next]_vars

-----------------------------------------------------------------------------
(* Properties.                                                             *)

\* The type invariant of the run lifecycle: the server's runs, the files of
\* .keyhole/state/runs and the commands at work.
TypeOK ==
  /\ server \in [Runs -> {"none"} \cup (Statuses \ {"unknown"})]
  /\ file \in [Ids -> {"none", "empty", "whole", "garbled"}]
  /\ record \in [Ids -> RunRecord]
  /\ proc \in [Procs -> Process]
  /\ commands \in 0..MaxCommands
  /\ recorded \subseteq Runs /\ missed \subseteq Runs /\ overlapped \subseteq Procs

Mentions(d) == {d.run_id, d.request_id} \ {None}

\* No record mixes two runs, and a command that has a record in its hands
\* has one of the run it was asked for: "reconnect to the same governed
\* execution", never a guess (resume_run, update_status).
CommandsStayWithTheirRun ==
  /\ \A k \in Ids : \A i \in Mentions(record[k]) : i.of = k.of
  /\ \A p \in Procs : \A i \in Mentions(proc[p].doc) : i.of = proc[p].id.of

\* A record does not run ahead of the server: a terminal status in it is the
\* outcome of its run, however old the observation and whatever failed in
\* between ("Observation failure does not mean execution failed").
RecordIsNotAhead ==
  \A k \in Ids : record[k].status \in Terminal => server[k.of] = record[k].status

Lineage(r) ==
  \E k \in Ids :
    /\ k.of = r /\ file[k] # "none"
    /\ record[k].request_id = RequestId(r)
    /\ \A i \in Ids \ {k} : i.of = r => file[i] = "none"

\* The record of a run stays one record and keeps what keyhole run wrote of
\* its request, through all status updates, lost writes and overlaps, unless
\* a resume looked for it and did not find it (update_status, resume_run).
LineageIsKeptUnlessMissed ==
  \A r \in recorded \ missed : Lineage(r)

GoesBack(k) ==
  /\ record[k].status \in Terminal
  /\ record'[k].status \notin {record[k].status, "unknown"}

\* An outcome, once recorded, is replaced by an older status only by a
\* command that ran beside another (update_status compares nothing and takes
\* no lock).
OutcomeIsOverwrittenByOverlapOnly ==
  [][\A k \in Ids : GoesBack(k) =>
       \E p \in overlapped : proc[p].pc = "writing" /\ KeyOf(proc[p].doc) = k]_vars
=============================================================================
