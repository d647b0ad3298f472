-------------------------- MODULE RunRecordsProofs --------------------------
(***************************************************************************)
(* Proofs about RunRecords, for any number of runs, processes and          *)
(* commands.  The invariants build on each other: what a command holds     *)
(* where it stands and of which run (Typed), that the outcomes it holds    *)
(* are its run's (Faithful), and that the commands on a run leave keyhole  *)
(* run alone until it has written the record (Linked).  On all of them     *)
(* rests that a command without another beside it saves what is latest     *)
(* (Undisturbed).                                                          *)
(*                                                                         *)
(* And about two programs that share no state with it: Declarations        *)
(* (DeclAlone, Scaffolds, Validates) and Adoption (Settled, Ingests,       *)
(* CitesTruly, ReadsFresh).                                                *)
(***************************************************************************)
EXTENDS RunRecords, Adoption, TLAPS

\* The places of a command that is about to save what it holds.
Saving == {"write", "writing"}

Shape ==
  \A p \in Procs :
    /\ proc[p].pc = "idle" => proc[p] = Idle
    /\ proc[p].pc # "idle" => /\ proc[p].id \in Ids /\ proc[p].cmd # "none"
                              /\ server[proc[p].id.of] # "none"
    /\ proc[p].pc = "reply" => proc[p].cmd = "run"
    /\ proc[p].cmd = "run" => /\ proc[p].pc \in {"reply"} \cup Saving
                              /\ proc[p].id = RequestId(proc[p].id.of)
    /\ proc[p].pc \in Saving => HasRecord(p)
    /\ proc[p].pc = "load" /\ proc[p].cmd = "resume" => HasRecord(p)

\* A readable record is in the file that it is saved in.
Keyed == \A k \in Ids : file[k] = "whole" => KeyOf(record[k]) = k

Typed == TypeOK /\ Shape /\ Keyed /\ CommandsStayWithTheirRun

\* What a command holds is an outcome only if it is the outcome of its run.
HoldsOutcome ==
  \A p \in Procs :
    /\ proc[p].st \in Terminal => server[proc[p].id.of] = proc[p].st
    /\ proc[p].doc.status \in Terminal => server[proc[p].id.of] = proc[p].doc.status

Faithful == RecordIsNotAhead /\ HoldsOutcome

On(p, r) == proc[p].pc # "idle" /\ proc[p].id.of = r

\* Before its submission nothing knows of a run.
Fresh ==
  \A r \in Runs : server[r] = "none" =>
    /\ r \notin recorded
    /\ \A i \in Ids : i.of = r => file[i] = "none"
    /\ \A p \in Procs : ~On(p, r)

\* While keyhole run is at work on a run, no other command is, and the only
\* file of the run is the one it writes.
RunsAlone ==
  \A p \in Procs : proc[p].cmd = "run" =>
    /\ \A q \in Procs : On(q, proc[p].id.of) => q = p
    /\ \A i \in Ids : i.of = proc[p].id.of /\ file[i] # "none" =>
         proc[p].pc = "writing" /\ i = KeyOf(proc[p].doc)
    /\ proc[p].pc \in Saving => proc[p].doc.request_id = proc[p].id

\* The commands on a run that is recorded and was not missed hold its record
\* or none.
HoldsLineage ==
  \A r \in recorded \ missed, p \in Procs : On(p, r) =>
    /\ HasRecord(p) => /\ file[KeyOf(proc[p].doc)] # "none"
                       /\ proc[p].doc.request_id = RequestId(r)
    /\ proc[p].pc = "fetch" /\ proc[p].cmd = "resume" => HasRecord(p)

Linked == Fresh /\ RunsAlone /\ LineageIsKeptUnlessMissed /\ HoldsLineage

\* A command that overlaps no other is the only one at work.
Alone ==
  \A p, q \in Procs :
    p \notin overlapped /\ proc[p].pc # "idle" /\ proc[q].pc # "idle" => q = p

\* Until keyhole run has written it, no record of a run has an outcome.
Blank ==
  /\ \A i \in Ids : file[i] = "none" => record[i].status \notin Terminal
  /\ \A p \in Procs, i \in Ids :
       proc[p].cmd = "run" /\ i.of = proc[p].id.of => record[i].status \notin Terminal

\* What such a command saves of a run does not go back behind its records.
HoldsLatest ==
  \A p \in Procs \ overlapped, i \in Ids :
    On(p, i.of) /\ record[i].status \in Terminal =>
      /\ proc[p].pc = "load" => proc[p].st \in {record[i].status, "unknown"}
      /\ proc[p].pc \in Saving => proc[p].doc.status \in {record[i].status, "unknown"}

Undisturbed == Alone /\ Blank /\ HoldsLatest

-----------------------------------------------------------------------------
(* Facts about identifiers, records and loading.                           *)

USE NoneAssumption, BoundAssumption

LEMMA IdFacts ==
  ASSUME NEW r \in Runs
  PROVE  /\ RunId(r) \in Ids /\ RunId(r).of = r
         /\ RequestId(r) \in Ids /\ RequestId(r).of = r
  BY DEF Ids, RunId, RequestId

LEMMA IdleFacts ==
  /\ NoRecord \in RunRecord /\ KeyOf(NoRecord) = None /\ Mentions(NoRecord) = {}
  /\ Idle \in Process /\ Idle.pc = "idle" /\ Idle.cmd = "none"
  /\ Idle.doc = NoRecord /\ Idle.st = "unknown"
  BY DEF NoRecord, RunRecord, Statuses, KeyOf, Mentions, Idle, Process

LEMMA KeyFacts ==
  ASSUME NEW d \in RunRecord
  PROVE  /\ KeyOf(d) \in Ids \cup {None}
         /\ KeyOf(d) # None => KeyOf(d) \in Mentions(d)
  BY DEF RunRecord, KeyOf, Mentions

\* A command loads only a readable record, of the file that the identifier
\* names or that mentions it.
LEMMA LoadedFacts ==
  ASSUME Typed, NEW i \in Ids, NEW d \in Loaded(i)
  PROVE  \E k \in Ids : /\ file[k] = "whole" /\ d = record[k] /\ KeyOf(d) = k
                        /\ i = k \/ i \in Mentions(d)
  BY DEF Typed, Keyed, Loaded, Mentions

-----------------------------------------------------------------------------
(* Typed.                                                                  *)

LEMMA InitTyped == Init => Typed
  <1> SUFFICES ASSUME Init PROVE Typed
    OBVIOUS
  <1>1. TypeOK
    BY IdleFacts DEF Init, TypeOK
  <1>2. Shape
    BY IdleFacts DEF Init, Shape, Saving, HasRecord
  <1>3. Keyed
    BY DEF Init, Keyed
  <1>4. CommandsStayWithTheirRun
    BY IdleFacts DEF Init, CommandsStayWithTheirRun
  <1>. QED
    BY <1>1, <1>2, <1>3, <1>4 DEF Typed

\* What a process has to be after a step.
Fits(new) ==
  \/ new = Idle
  \/ /\ new.pc # "idle" /\ new.id \in Ids /\ new.cmd # "none" /\ server'[new.id.of] # "none"
     /\ new.pc = "reply" => new.cmd = "run"
     /\ new.cmd = "run" => new.pc \in {"reply"} \cup Saving /\ new.id = RequestId(new.id.of)
     /\ new.pc \in Saving => KeyOf(new.doc) # None
     /\ new.pc = "load" /\ new.cmd = "resume" => KeyOf(new.doc) # None
     /\ \A i \in Mentions(new.doc) : i.of = new.id.of

\* A command changes its process only.
LEMMA GoesTyped ==
  ASSUME Typed, NEW p \in Procs, NEW new \in Process, Goes(p, new), Fits(new),
         \A r \in Runs : server[r] # "none" => server'[r] # "none"
  PROVE  /\ proc' \in [Procs -> Process] /\ Shape'
         /\ \A q \in Procs : \A i \in Mentions(proc'[q].doc) : i.of = proc'[q].id.of
  <1>1. proc' \in [Procs -> Process] /\ proc'[p] = new
    BY DEF Typed, TypeOK, Goes
  <1>2. \A q \in Procs \ {p} : proc'[q] = proc[q]
    BY DEF Typed, TypeOK, Goes
  <1>. HIDE DEF Goes
  <1>3. \A q \in Procs : proc[q].pc # "idle" => server'[proc[q].id.of] # "none"
    BY DEF Typed, Shape, Ids
  <1>4. ASSUME NEW q \in Procs
        PROVE  /\ proc'[q].pc = "idle" => proc'[q] = Idle
               /\ proc'[q].pc # "idle" => /\ proc'[q].id \in Ids /\ proc'[q].cmd # "none"
                                          /\ server'[proc'[q].id.of] # "none"
               /\ proc'[q].pc = "reply" => proc'[q].cmd = "run"
               /\ proc'[q].cmd = "run" => /\ proc'[q].pc \in {"reply"} \cup Saving
                                          /\ proc'[q].id = RequestId(proc'[q].id.of)
               /\ proc'[q].pc \in Saving => KeyOf(proc'[q].doc) # None
               /\ proc'[q].pc = "load" /\ proc'[q].cmd = "resume" => KeyOf(proc'[q].doc) # None
               /\ \A i \in Mentions(proc'[q].doc) : i.of = proc'[q].id.of
    <2>1. CASE q = p
      BY <1>1, <2>1, IdleFacts DEF Saving, Fits
    <2>2. CASE q # p
      BY <1>2, <1>3, <2>2 DEF Typed, Shape, HasRecord, CommandsStayWithTheirRun
    <2>. QED
      BY <2>1, <2>2
  <1>. QED
    BY <1>1, <1>4 DEF Shape, HasRecord

\* What Typed says of one process and what it may load.
LEMMA TypedFacts ==
  ASSUME Typed, NEW p \in Procs
  PROVE  /\ proc[p] \in Process
         /\ proc[p].pc # "idle" => proc[p].id \in Ids /\ proc[p].id.of \in Runs
         /\ HasRecord(p) => KeyOf(proc[p].doc) \in Ids /\ KeyOf(proc[p].doc).of \in Runs
         /\ proc[p].pc = "load" => LoadId(p) \in Ids
         /\ proc[p].pc = "fetch" => Target(p).of = proc[p].id.of
  <1>1. proc[p] \in Process
    BY DEF Typed, TypeOK
  <1>2. proc[p].doc \in RunRecord
    BY <1>1 DEF Process
  <1>3. proc[p].pc # "idle" => proc[p].id \in Ids
    BY DEF Typed, Shape
  <1>4. HasRecord(p) => KeyOf(proc[p].doc) \in Ids
    BY <1>2, KeyFacts DEF HasRecord
  <1>5. proc[p].pc = "load" => LoadId(p) \in Ids
    BY <1>3, <1>4 DEF Typed, Shape, LoadId
  <1>6. proc[p].pc = "fetch" => Target(p).of = proc[p].id.of
    BY DEF Target, Typed, CommandsStayWithTheirRun, Mentions
  <1>7. \A i \in Ids : i.of \in Runs
    BY DEF Ids
  <1>. QED
    BY <1>1, <1>3, <1>4, <1>5, <1>6, <1>7

\* The status that is reported of a submitted run is a status.
LEMMA ReportFacts ==
  ASSUME TypeOK, NEW r \in Runs, server[r] # "none", NEW s \in Reports(r)
  PROVE  s \in Statuses
  BY DEF TypeOK, Reports, Statuses

\* A command starts.
LEMMA StartTyped ==
  ASSUME Typed, NEW p \in Procs, NEW new \in Process, Starts(p, new), Fits(new),
         server' \in [Runs -> {"none"} \cup (Statuses \ {"unknown"})],
         \A r \in Runs : server[r] # "none" => server'[r] # "none"
  PROVE  Typed'
  <1>1. /\ proc' \in [Procs -> Process] /\ Shape'
        /\ \A q \in Procs : \A i \in Mentions(proc'[q].doc) : i.of = proc'[q].id.of
    BY GoesTyped DEF Starts
  <1>2. commands' \in 0..MaxCommands
    BY DEF Starts, Typed, TypeOK
  <1>3. overlapped' \subseteq Procs
    BY DEF Starts, Typed, TypeOK, Busy
  <1>. QED
    BY <1>1, <1>2, <1>3 DEF Starts, Typed, TypeOK, Keyed, CommandsStayWithTheirRun

\* A command takes a step without a file.
LEMMA StepTyped ==
  ASSUME Typed, NEW p \in Procs, NEW new \in Process, Goes(p, new), Fits(new),
         UNCHANGED <<server, file, record, commands, recorded, overlapped>>,
         missed' \subseteq Runs
  PROVE  Typed'
  <1>1. /\ proc' \in [Procs -> Process] /\ Shape'
        /\ \A q \in Procs : \A i \in Mentions(proc'[q].doc) : i.of = proc'[q].id.of
    BY GoesTyped
  <1>. QED
    BY <1>1 DEF Typed, TypeOK, Keyed, CommandsStayWithTheirRun

\* A command changes one file.
LEMMA FileTyped ==
  ASSUME Typed, NEW p \in Procs, NEW new \in Process, Goes(p, new), Fits(new),
         NEW k \in Ids, NEW content \in {"empty", "whole", "garbled"}, NEW d \in RunRecord,
         file' = [file EXCEPT ![k] = content], record' = [record EXCEPT ![k] = d],
         content = "whole" => KeyOf(d) = k,
         \A i \in Mentions(d) : i.of = k.of,
         UNCHANGED <<server, commands, missed, overlapped>>, recorded' \subseteq Runs
  PROVE  Typed'
  <1>1. /\ proc' \in [Procs -> Process] /\ Shape'
        /\ \A q \in Procs : \A i \in Mentions(proc'[q].doc) : i.of = proc'[q].id.of
    BY GoesTyped
  <1>2. file' \in [Ids -> {"none", "empty", "whole", "garbled"}] /\ record' \in [Ids -> RunRecord]
    BY DEF Typed, TypeOK
  <1>3. Keyed'
    BY DEF Typed, TypeOK, Keyed
  <1>4. \A j \in Ids : \A i \in Mentions(record'[j]) : i.of = j.of
    BY DEF Typed, TypeOK, CommandsStayWithTheirRun
  <1>. QED
    BY <1>1, <1>2, <1>3, <1>4 DEF Typed, TypeOK, CommandsStayWithTheirRun

LEMMA NextTyped == Typed /\ [Next]_vars => Typed'
  <1> SUFFICES ASSUME Typed, [Next]_vars PROVE Typed'
    OBVIOUS
  <1>a. ASSUME NEW p \in Procs, NEW r \in Runs, Submit(p, r) PROVE Typed'
    <2>. DEFINE new == [Idle EXCEPT !.cmd = "run", !.id = RequestId(r), !.pc = "reply"]
    <2>1. server' = [server EXCEPT ![r] = "accepted"] /\ Starts(p, new)
      BY <1>a DEF Submit
    <2>2. new \in Process /\ new.doc = NoRecord /\ new.cmd = "run" /\ new.pc = "reply"
          /\ new.id = RequestId(r)
      BY IdFacts, IdleFacts DEF Process, Commands, Idle
    <2>3. /\ server' \in [Runs -> {"none"} \cup (Statuses \ {"unknown"})]
          /\ server'[r] = "accepted" /\ \A q \in Runs : server[q] # "none" => server'[q] # "none"
      BY <2>1 DEF Typed, TypeOK, Statuses
    <2>. HIDE DEF new
    <2>4. Fits(new)
      BY <2>2, <2>3, IdFacts, IdleFacts DEF Fits, Saving
    <2>. QED
      BY <2>1, <2>2, <2>3, <2>4, StartTyped
  <1>b. ASSUME NEW p \in Procs, NEW c \in {"status", "wait", "resume"}, NEW i \in Ids,
               Follow(p, c, i)
        PROVE  Typed'
    <2>. DEFINE new == [Idle EXCEPT !.cmd = c, !.id = i, !.pc = IF c = "resume" THEN "find" ELSE "fetch"]
    <2>1. UNCHANGED server /\ Starts(p, new) /\ server[i.of] # "none"
      BY <1>b DEF Follow
    <2>2. new \in Process /\ new.doc = NoRecord /\ new.cmd = c /\ new.pc \in {"find", "fetch"}
          /\ new.id = i
      BY IdleFacts DEF Process, Commands, Idle
    <2>. HIDE DEF new
    <2>4. Fits(new)
      BY <2>1, <2>2, IdleFacts DEF Fits, Saving
    <2>. QED
      BY <2>1, <2>2, <2>4, StartTyped DEF Typed, TypeOK
  <1>c. ASSUME NEW p \in Procs, Accepted(p) PROVE Typed'
    <2>1. PICK i \in {RunId(proc[p].id.of), None} :
            Goes(p, [proc[p] EXCEPT !.pc = "write",
                       !.doc = [run_id |-> i, request_id |-> proc[p].id, status |-> "accepted"]])
      BY <1>c DEF Accepted
    <2>. DEFINE d == [run_id |-> i, request_id |-> proc[p].id, status |-> "accepted"]
                new == [proc[p] EXCEPT !.pc = "write", !.doc = d]
    <2>2. proc[p].pc = "reply" /\ proc[p].cmd = "run"
      BY <1>c DEF Accepted, Typed, Shape
    <2>3. d \in RunRecord /\ KeyOf(d) # None /\ \A j \in Mentions(d) : j.of = proc[p].id.of
      BY <2>2, TypedFacts, IdFacts DEF RunRecord, Statuses, KeyOf, Mentions
    <2>. HIDE DEF d
    <2>4. new \in Process /\ Fits(new)
      BY <1>c, <2>2, <2>3, TypedFacts DEF Accepted, Process, Fits, Saving, Typed, Shape
    <2>. QED
      BY <1>c, <2>1, <2>4, StepTyped DEF Accepted, history, Typed, TypeOK, d
  <1>d. ASSUME NEW p \in Procs, FindRecord(p) PROVE Typed'
    <2>1. PICK d \in Loaded(proc[p].id) : Goes(p, [proc[p] EXCEPT !.doc = d, !.pc = "fetch"])
      BY <1>d DEF FindRecord
    <2>2. proc[p].pc = "find" /\ proc[p].id \in Ids
      BY <1>d, TypedFacts DEF FindRecord
    <2>3. PICK k \in Ids : d = record[k] /\ (proc[p].id = k \/ proc[p].id \in Mentions(d))
      BY <2>2, LoadedFacts
    <2>4. d \in RunRecord /\ \A j \in Mentions(d) : j.of = proc[p].id.of
      BY <2>3 DEF Typed, TypeOK, CommandsStayWithTheirRun
    <2>5. [proc[p] EXCEPT !.doc = d, !.pc = "fetch"] \in Process
          /\ Fits([proc[p] EXCEPT !.doc = d, !.pc = "fetch"])
      BY <1>d, <2>2, <2>4, TypedFacts DEF FindRecord, Process, Fits, Saving, Typed, Shape
    <2>. QED
      BY <1>d, <2>1, <2>5, StepTyped DEF FindRecord, history, Typed, TypeOK
  <1>e. ASSUME NEW p \in Procs, FindNothing(p) PROVE Typed'
    <2>1. proc[p].pc = "find" /\ Goes(p, [proc[p] EXCEPT !.pc = "fetch"])
      BY <1>e DEF FindNothing
    <2>2. [proc[p] EXCEPT !.pc = "fetch"] \in Process /\ Fits([proc[p] EXCEPT !.pc = "fetch"])
      BY <1>e, <2>1, TypedFacts
      DEF FindNothing, Process, Fits, Saving, Typed, Shape, CommandsStayWithTheirRun
    <2>3. missed' \subseteq Runs
      BY <1>e, <2>1, TypedFacts DEF FindNothing, Typed, TypeOK
    <2>. QED
      BY <1>e, <2>1, <2>2, <2>3, StepTyped DEF FindNothing
  <1>f. ASSUME NEW p \in Procs, Observe(p) PROVE Typed'
    <2>1. PICK s \in Reports(Target(p).of) : Goes(p, [proc[p] EXCEPT !.st = s, !.pc = "load"])
      BY <1>f DEF Observe
    <2>2. proc[p].pc = "fetch" /\ (proc[p].cmd = "resume" => HasRecord(p))
      BY <1>f DEF Observe
    <2>3. s \in Statuses
      BY <2>1, <2>2, TypedFacts, ReportFacts DEF Typed, Shape
    <2>4. [proc[p] EXCEPT !.st = s, !.pc = "load"] \in Process
          /\ Fits([proc[p] EXCEPT !.st = s, !.pc = "load"])
      BY <1>f, <2>2, <2>3, TypedFacts
      DEF Observe, Process, Fits, Saving, Typed, Shape, CommandsStayWithTheirRun, HasRecord
    <2>. QED
      BY <1>f, <2>1, <2>4, StepTyped DEF Observe, history, Typed, TypeOK
  <1>g. ASSUME NEW p \in Procs, ObserveUnrecorded(p) PROVE Typed'
    <2>1. PICK s \in Reports(proc[p].id.of), i \in {RunId(proc[p].id.of), proc[p].id} :
            Goes(p, [proc[p] EXCEPT !.pc = "write",
                       !.doc = [run_id |-> i, request_id |-> None, status |-> s]])
      BY <1>g DEF ObserveUnrecorded
    <2>. DEFINE d == [run_id |-> i, request_id |-> None, status |-> s]
                new == [proc[p] EXCEPT !.pc = "write", !.doc = d]
    <2>2. proc[p].pc = "fetch" /\ proc[p].cmd = "resume"
      BY <1>g DEF ObserveUnrecorded
    <2>3. s \in Statuses
      BY <2>1, <2>2, TypedFacts, ReportFacts DEF Typed, Shape
    <2>4. d \in RunRecord /\ KeyOf(d) # None /\ \A j \in Mentions(d) : j.of = proc[p].id.of
      BY <2>2, <2>3, TypedFacts, IdFacts DEF RunRecord, KeyOf, Mentions
    <2>. HIDE DEF d
    <2>5. new \in Process /\ Fits(new)
      BY <1>g, <2>2, <2>4, TypedFacts DEF ObserveUnrecorded, Process, Fits, Saving, Typed, Shape
    <2>. QED
      BY <1>g, <2>1, <2>5, StepTyped DEF ObserveUnrecorded, history, Typed, TypeOK, d
  <1>h. ASSUME NEW p \in Procs, LoadRecord(p) PROVE Typed'
    <2>1. PICK l \in Loaded(LoadId(p)) :
            Goes(p, [proc[p] EXCEPT !.doc = Updated(l, proc[p].st), !.st = "unknown", !.pc = "write"])
      BY <1>h DEF LoadRecord
    <2>. DEFINE d == Updated(l, proc[p].st)
                new == [proc[p] EXCEPT !.doc = d, !.st = "unknown", !.pc = "write"]
    <2>2. proc[p].pc = "load" /\ LoadId(p) \in Ids
      BY <1>h, TypedFacts DEF LoadRecord
    <2>3. PICK k \in Ids : l = record[k] /\ KeyOf(l) = k /\ (LoadId(p) = k \/ LoadId(p) \in Mentions(l))
      BY <2>2, LoadedFacts
    <2>4. LoadId(p).of = proc[p].id.of
      BY <2>2, TypedFacts, KeyFacts DEF LoadId, Typed, Shape, CommandsStayWithTheirRun, HasRecord, Process
    <2>5. l \in RunRecord /\ \A j \in Mentions(l) : j.of = proc[p].id.of
      BY <2>3, <2>4 DEF Typed, TypeOK, CommandsStayWithTheirRun
    <2>6. d \in RunRecord /\ KeyOf(d) = KeyOf(l) /\ Mentions(d) = Mentions(l)
      BY <2>5, TypedFacts DEF Updated, RunRecord, KeyOf, Mentions, Process
    <2>. HIDE DEF d
    <2>7. new \in Process
      BY <2>6, TypedFacts DEF Process, Statuses
    <2>8. new.id = proc[p].id /\ new.cmd = proc[p].cmd /\ new.pc = "write" /\ new.doc = d
      BY TypedFacts DEF Process
    <2>9. KeyOf(d) # None /\ \A j \in Mentions(d) : j.of = proc[p].id.of
      BY <2>3, <2>5, <2>6
    <2>10. server' = server
      BY <1>h DEF LoadRecord
    <2>. HIDE DEF new
    <2>11. Fits(new)
      BY <2>2, <2>8, <2>9, <2>10 DEF Fits, Saving, Typed, Shape
    <2>. QED
      BY <1>h, <2>1, <2>7, <2>11, StepTyped DEF LoadRecord, history, Typed, TypeOK, d, new
  <1>i. ASSUME NEW p \in Procs, LoadNothing(p) \/ End(p) PROVE Typed'
    BY <1>i, IdleFacts, StepTyped DEF LoadNothing, End, history, Fits, Typed, TypeOK
  <1>j. ASSUME NEW p \in Procs, OpenFile(p) PROVE Typed'
    <2>. DEFINE new == [proc[p] EXCEPT !.pc = "writing"]
                k == KeyOf(proc[p].doc)
    <2>1. proc[p].pc = "write" /\ k \in Ids
      BY <1>j, TypedFacts DEF OpenFile, Typed, Shape, Saving
    <2>2. new \in Process /\ Fits(new)
      BY <1>j, <2>1, TypedFacts
      DEF OpenFile, Process, Fits, Saving, Typed, Shape, HasRecord, CommandsStayWithTheirRun
    <2>3. record' = [record EXCEPT ![k] = record[k]] /\ record[k] \in RunRecord
      BY <1>j, <2>1 DEF OpenFile, Typed, TypeOK
    <2>4. \A i \in Mentions(record[k]) : i.of = k.of
      BY <2>1 DEF Typed, CommandsStayWithTheirRun
    <2>5. Goes(p, new) /\ file' = [file EXCEPT ![k] = "empty"]
          /\ UNCHANGED <<server, commands, missed, overlapped, recorded>>
      BY <1>j DEF OpenFile, history
    <2>. HIDE DEF new, k
    <2>. QED
      BY <2>1, <2>2, <2>3, <2>4, <2>5, FileTyped DEF Typed, TypeOK
  <1>k. ASSUME NEW p \in Procs, WriteFile(p) PROVE Typed'
    <2>. DEFINE k == KeyOf(proc[p].doc)
    <2>1. proc[p].pc = "writing" /\ k \in Ids /\ k.of \in Runs /\ proc[p].doc \in RunRecord
      BY <1>k, TypedFacts DEF WriteFile, Typed, Shape, Saving, Process
    <2>2. Goes(p, Idle) /\ file' = [file EXCEPT ![k] = "whole"]
          /\ record' = [record EXCEPT ![k] = proc[p].doc]
          /\ UNCHANGED <<server, commands, missed, overlapped>>
      BY <1>k DEF WriteFile
    <2>3. recorded' \subseteq Runs
      BY <1>k, <2>1 DEF WriteFile, Typed, TypeOK
    <2>4. \A i \in Mentions(proc[p].doc) : i.of = k.of
      BY <2>1, KeyFacts DEF Typed, CommandsStayWithTheirRun
    <2>. QED
      BY <2>1, <2>2, <2>3, <2>4, IdleFacts, FileTyped DEF Fits
  <1>l. ASSUME NEW p \in Procs, GarbleFile(p) PROVE Typed'
    <2>. DEFINE k == KeyOf(proc[p].doc)
    <2>1. proc[p].pc = "writing" /\ k \in Ids
      BY <1>l, TypedFacts DEF GarbleFile, Typed, Shape, Saving
    <2>2. Goes(p, Idle) /\ file' = [file EXCEPT ![k] = "garbled"]
          /\ UNCHANGED <<server, record, commands, missed, overlapped, recorded>>
      BY <1>l DEF GarbleFile, history
    <2>3. record' = [record EXCEPT ![k] = record[k]] /\ record[k] \in RunRecord
      BY <2>1, <2>2 DEF Typed, TypeOK
    <2>4. \A i \in Mentions(record[k]) : i.of = k.of
      BY <2>1 DEF Typed, CommandsStayWithTheirRun
    <2>. HIDE DEF k
    <2>. QED
      BY <2>1, <2>2, <2>3, <2>4, IdleFacts, FileTyped DEF Fits, Typed, TypeOK
  <1>m. ASSUME NEW r \in Runs, NEW s \in Terminal, Proceed(r, s) PROVE Typed'
    <2>1. /\ server' \in [Runs -> {"none"} \cup (Statuses \ {"unknown"})]
          /\ \A q \in Runs : server[q] # "none" => server'[q] # "none"
      BY <1>m DEF Proceed, Typed, TypeOK, Statuses, Terminal
    <2>2. \A p \in Procs : proc[p].pc # "idle" => proc[p].id.of \in Runs
      BY TypedFacts
    <2>3. Shape'
      BY <1>m, <2>1, <2>2 DEF Proceed, Typed, Shape, HasRecord
    <2>. QED
      BY <1>m, <2>1, <2>3 DEF Proceed, history, Typed, TypeOK, Keyed, CommandsStayWithTheirRun
  <1>n. CASE UNCHANGED vars
    BY <1>n DEF vars, Typed, TypeOK, Shape, Keyed, HasRecord, CommandsStayWithTheirRun
  <1>. QED
    BY <1>a, <1>b, <1>c, <1>d, <1>e, <1>f, <1>g, <1>h, <1>i, <1>j, <1>k, <1>l, <1>m, <1>n
    DEF Next, Step

\* The run lifecycle is typed, for any number of runs, processes and commands.
THEOREM TypeCorrect == Spec => []TypeOK
  <1>1. Spec => []Typed
    BY InitTyped, NextTyped, PTL DEF Spec
  <1>. QED
    BY <1>1, PTL DEF Typed

\* No record mixes two runs, and resume, status, wait and tail never come to
\* hold the record of another run than the one they were asked for.
THEOREM SameRun == Spec => []CommandsStayWithTheirRun
  <1>1. Spec => []Typed
    BY InitTyped, NextTyped, PTL DEF Spec
  <1>. QED
    BY <1>1, PTL DEF Typed

-----------------------------------------------------------------------------
(* Faithful.                                                               *)

\* An outcome is final.
LEMMA OutcomeStays ==
  ASSUME Typed, [Next]_vars, NEW r \in Runs, server[r] \in Terminal
  PROVE  server'[r] = server[r]
  <1>1. server[r] # "none" /\ server[r] # "accepted"
    BY DEF Terminal
  <1>2. ASSUME NEW q \in Runs, NEW s, server[q] = "none" \/ server[q] = "accepted",
               server' = [server EXCEPT ![q] = s]
        PROVE  server'[r] = server[r]
    BY <1>1, <1>2 DEF Typed, TypeOK
  <1>3. ASSUME NEW p \in Procs, NEW q \in Runs, Submit(p, q) PROVE server'[r] = server[r]
    BY <1>2, <1>3 DEF Submit
  <1>4. ASSUME NEW q \in Runs, NEW s \in Terminal, Proceed(q, s) PROVE server'[r] = server[r]
    BY <1>2, <1>4 DEF Proceed
  <1>. QED
    BY <1>3, <1>4 DEF Next, Step, vars, Follow, Accepted, FindRecord, FindNothing, Observe,
       ObserveUnrecorded, LoadRecord, LoadNothing, OpenFile, WriteFile, GarbleFile, End

\* A command takes a step to new, which holds outcomes of its run only.
LEMMA GoesFaithful ==
  ASSUME Typed, Faithful, [Next]_vars, NEW p \in Procs, NEW new, Goes(p, new),
         new.st \in Terminal => server'[new.id.of] = new.st,
         new.doc.status \in Terminal => server'[new.id.of] = new.doc.status,
         UNCHANGED record
  PROVE  Faithful'
  <1>1. proc' = [proc EXCEPT ![p] = new] /\ proc \in [Procs -> Process]
    BY DEF Goes, Typed, TypeOK
  <1>2. \A k \in Ids : record'[k].status \in Terminal => server'[k.of] = record'[k].status
    BY OutcomeStays DEF Faithful, RecordIsNotAhead, Ids
  <1>3. ASSUME NEW q \in Procs
        PROVE  /\ proc'[q].st \in Terminal => server'[proc'[q].id.of] = proc'[q].st
               /\ proc'[q].doc.status \in Terminal => server'[proc'[q].id.of] = proc'[q].doc.status
    <2>1. CASE q = p
      BY <1>1, <2>1
    <2>2. CASE q # p /\ proc[q].pc = "idle"
      BY <1>1, <2>2, IdleFacts DEF Typed, Shape, Terminal, NoRecord
    <2>3. CASE q # p /\ proc[q].pc # "idle"
      BY <1>1, <2>3, TypedFacts, OutcomeStays DEF Faithful, HoldsOutcome
    <2>. QED
      BY <2>1, <2>2, <2>3
  <1>. QED
    BY <1>2, <1>3 DEF Faithful, RecordIsNotAhead, HoldsOutcome

LEMMA InitFaithful == Init => Faithful
  BY IdleFacts DEF Init, Faithful, RecordIsNotAhead, HoldsOutcome, NoRecord, Terminal

LEMMA NextFaithful == Typed /\ Faithful /\ [Next]_vars => Faithful'
  <1> SUFFICES ASSUME Typed, Faithful, [Next]_vars PROVE Faithful'
    OBVIOUS
  <1>0. "unknown" \notin Terminal /\ "accepted" \notin Terminal /\ NoRecord.status = "unknown"
    BY DEF Terminal, NoRecord
  <1>1. ASSUME NEW p \in Procs, NEW new, Goes(p, new), UNCHANGED record,
               new.doc = NoRecord, new.st = "unknown"
        PROVE  Faithful'
    BY <1>0, <1>1, GoesFaithful
  <1>a. ASSUME NEW p \in Procs, NEW r \in Runs, Submit(p, r) PROVE Faithful'
    BY <1>a, <1>1, IdleFacts DEF Submit, Starts, Idle
  <1>b. ASSUME NEW p \in Procs, NEW c \in {"status", "wait", "resume"}, NEW i \in Ids,
               Follow(p, c, i)
        PROVE  Faithful'
    BY <1>b, <1>1, IdleFacts DEF Follow, Starts, Idle
  <1>c. ASSUME NEW p \in Procs, Accepted(p) PROVE Faithful'
    <2>1. PICK i \in {RunId(proc[p].id.of), None} :
            Goes(p, [proc[p] EXCEPT !.pc = "write",
                       !.doc = [run_id |-> i, request_id |-> proc[p].id, status |-> "accepted"]])
      BY <1>c DEF Accepted
    <2>. DEFINE new == [proc[p] EXCEPT !.pc = "write",
                          !.doc = [run_id |-> i, request_id |-> proc[p].id, status |-> "accepted"]]
    <2>2. new.id = proc[p].id /\ new.st = proc[p].st /\ new.doc.status = "accepted"
      BY TypedFacts DEF Process
    <2>3. UNCHANGED <<server, record>>
      BY <1>c DEF Accepted
    <2>. HIDE DEF new
    <2>. QED
      BY <1>0, <2>1, <2>2, <2>3, GoesFaithful DEF Faithful, HoldsOutcome, new
  <1>d. ASSUME NEW p \in Procs, FindRecord(p) PROVE Faithful'
    <2>1. PICK d \in Loaded(proc[p].id) : Goes(p, [proc[p] EXCEPT !.doc = d, !.pc = "fetch"])
      BY <1>d DEF FindRecord
    <2>2. proc[p].id \in Ids /\ UNCHANGED <<server, record>>
      BY <1>d, TypedFacts DEF FindRecord
    <2>3. PICK k \in Ids : d = record[k] /\ (proc[p].id = k \/ proc[p].id \in Mentions(d))
      BY <2>2, LoadedFacts
    <2>4. d.status \in Terminal => server[proc[p].id.of] = d.status
      BY <2>3 DEF Faithful, RecordIsNotAhead, Typed, CommandsStayWithTheirRun
    <2>. DEFINE new == [proc[p] EXCEPT !.doc = d, !.pc = "fetch"]
    <2>5. new.id = proc[p].id /\ new.st = proc[p].st /\ new.doc = d
      BY TypedFacts DEF Process
    <2>. HIDE DEF new
    <2>. QED
      BY <2>1, <2>2, <2>4, <2>5, GoesFaithful DEF Faithful, HoldsOutcome, new
  <1>e. ASSUME NEW p \in Procs, FindNothing(p) PROVE Faithful'
    <2>. DEFINE new == [proc[p] EXCEPT !.pc = "fetch"]
    <2>1. new.id = proc[p].id /\ new.st = proc[p].st /\ new.doc = proc[p].doc
      BY TypedFacts DEF Process
    <2>2. Goes(p, new) /\ UNCHANGED <<server, record>>
      BY <1>e DEF FindNothing
    <2>. HIDE DEF new
    <2>. QED
      BY <2>1, <2>2, GoesFaithful DEF Faithful, HoldsOutcome
  <1>f. ASSUME NEW p \in Procs, Observe(p) PROVE Faithful'
    <2>1. PICK s \in Reports(Target(p).of) : Goes(p, [proc[p] EXCEPT !.st = s, !.pc = "load"])
      BY <1>f DEF Observe
    <2>2. Target(p).of = proc[p].id.of /\ UNCHANGED <<server, record>>
      BY <1>f, TypedFacts DEF Observe
    <2>. DEFINE new == [proc[p] EXCEPT !.st = s, !.pc = "load"]
    <2>3. new.id = proc[p].id /\ new.st = s /\ new.doc = proc[p].doc
      BY TypedFacts DEF Process
    <2>4. s \in Terminal => server[proc[p].id.of] = s
      BY <1>0, <2>1, <2>2 DEF Reports
    <2>. HIDE DEF new
    <2>. QED
      BY <2>1, <2>2, <2>3, <2>4, GoesFaithful DEF Faithful, HoldsOutcome, new
  <1>g. ASSUME NEW p \in Procs, ObserveUnrecorded(p) PROVE Faithful'
    <2>1. PICK s \in Reports(proc[p].id.of), i \in {RunId(proc[p].id.of), proc[p].id} :
            Goes(p, [proc[p] EXCEPT !.pc = "write",
                       !.doc = [run_id |-> i, request_id |-> None, status |-> s]])
      BY <1>g DEF ObserveUnrecorded
    <2>. DEFINE new == [proc[p] EXCEPT !.pc = "write",
                          !.doc = [run_id |-> i, request_id |-> None, status |-> s]]
    <2>2. new.id = proc[p].id /\ new.st = proc[p].st /\ new.doc.status = s
      BY TypedFacts DEF Process
    <2>3. UNCHANGED <<server, record>>
      BY <1>g DEF ObserveUnrecorded
    <2>4. s \in Terminal => server[proc[p].id.of] = s
      BY <1>0, <2>1 DEF Reports
    <2>. HIDE DEF new
    <2>. QED
      BY <2>1, <2>2, <2>3, <2>4, GoesFaithful DEF Faithful, HoldsOutcome, new
  <1>h. ASSUME NEW p \in Procs, LoadRecord(p) PROVE Faithful'
    <2>1. PICK l \in Loaded(LoadId(p)) :
            Goes(p, [proc[p] EXCEPT !.doc = Updated(l, proc[p].st), !.st = "unknown", !.pc = "write"])
      BY <1>h DEF LoadRecord
    <2>. DEFINE new == [proc[p] EXCEPT !.doc = Updated(l, proc[p].st), !.st = "unknown", !.pc = "write"]
    <2>2. LoadId(p) \in Ids /\ UNCHANGED <<server, record>>
      BY <1>h, TypedFacts DEF LoadRecord
    <2>3. l \in RunRecord
      BY <2>2, LoadedFacts DEF Typed, TypeOK
    <2>4. new.id = proc[p].id /\ new.st = "unknown" /\ new.doc.status = proc[p].st
      BY <2>3, TypedFacts DEF Process, Updated, RunRecord
    <2>. HIDE DEF new
    <2>. QED
      BY <1>0, <2>1, <2>2, <2>4, GoesFaithful DEF Faithful, HoldsOutcome, new
  <1>i. ASSUME NEW p \in Procs, LoadNothing(p) \/ End(p) \/ GarbleFile(p) PROVE Faithful'
    BY <1>i, <1>1, IdleFacts DEF LoadNothing, End, GarbleFile
  <1>j. ASSUME NEW p \in Procs, OpenFile(p) PROVE Faithful'
    <2>. DEFINE new == [proc[p] EXCEPT !.pc = "writing"]
    <2>1. new.id = proc[p].id /\ new.st = proc[p].st /\ new.doc = proc[p].doc
      BY TypedFacts DEF Process
    <2>2. Goes(p, new) /\ UNCHANGED <<server, record>>
      BY <1>j DEF OpenFile
    <2>. HIDE DEF new
    <2>. QED
      BY <2>1, <2>2, GoesFaithful DEF Faithful, HoldsOutcome
  <1>k. ASSUME NEW p \in Procs, WriteFile(p) PROVE Faithful'
    <2>. DEFINE k == KeyOf(proc[p].doc)
    <2>1. k \in Ids /\ k.of = proc[p].id.of
      BY <1>k, TypedFacts, KeyFacts
      DEF WriteFile, Typed, Shape, Saving, CommandsStayWithTheirRun, Process, HasRecord
    <2>2. record' = [record EXCEPT ![k] = proc[p].doc] /\ proc' = [proc EXCEPT ![p] = Idle]
          /\ UNCHANGED server
      BY <1>k DEF WriteFile, Goes
    <2>3. RecordIsNotAhead'
      BY <2>1, <2>2 DEF Faithful, RecordIsNotAhead, HoldsOutcome, Typed, TypeOK
    <2>4. HoldsOutcome'
      BY <1>0, <2>2, IdleFacts DEF Faithful, HoldsOutcome, Typed, TypeOK
    <2>. QED
      BY <2>3, <2>4 DEF Faithful
  <1>m. ASSUME UNCHANGED <<record, proc>> PROVE Faithful'
    <2>1. RecordIsNotAhead'
      BY <1>m, OutcomeStays DEF Faithful, RecordIsNotAhead, Ids
    <2>2. ASSUME NEW q \in Procs
          PROVE  /\ proc[q].st \in Terminal => server'[proc[q].id.of] = proc[q].st
                 /\ proc[q].doc.status \in Terminal => server'[proc[q].id.of] = proc[q].doc.status
      <3>1. CASE proc[q].pc = "idle"
        BY <1>0, <3>1, IdleFacts DEF Typed, Shape
      <3>2. CASE proc[q].pc # "idle"
        BY <3>2, TypedFacts, OutcomeStays DEF Faithful, HoldsOutcome
      <3>. QED
        BY <3>1, <3>2
    <2>. QED
      BY <1>m, <2>1, <2>2 DEF Faithful, HoldsOutcome
  <1>. QED
    BY <1>a, <1>b, <1>c, <1>d, <1>e, <1>f, <1>g, <1>h, <1>i, <1>j, <1>k, <1>m
    DEF Next, Step, Proceed, vars

\* A recorded outcome is the outcome of the run, whatever observations fail
\* and however late a command writes what it saw.
THEOREM NotAhead == Spec => []RecordIsNotAhead
  <1>1. Init => Typed /\ Faithful
    BY InitTyped, InitFaithful
  <1>2. Typed /\ Faithful /\ [Next]_vars => (Typed /\ Faithful)'
    BY NextTyped, NextFaithful
  <1>. QED
    BY <1>1, <1>2, PTL DEF Spec, Faithful

-----------------------------------------------------------------------------
(* Linked.                                                                 *)

LEMMA InitLinked == Init => Linked
  BY IdleFacts DEF Init, Linked, Fresh, RunsAlone, LineageIsKeptUnlessMissed, HoldsLineage, On

\* While keyhole run waits for the outcome of a run, the run is not recorded.
LEMMA ReplyIsUnrecorded ==
  ASSUME Typed, Linked, NEW p \in Procs, proc[p].pc = "reply"
  PROVE  proc[p].id.of \notin recorded \ missed
  <1>1. \A i \in Ids : i.of = proc[p].id.of => file[i] = "none"
    BY DEF Typed, Shape, Linked, RunsAlone
  <1>. QED
    BY <1>1 DEF Linked, LineageIsKeptUnlessMissed, Lineage

\* A command that saves has the file of its record in its hands.
LEMMA SavingFacts ==
  ASSUME Typed, NEW p \in Procs, proc[p].pc \in Saving
  PROVE  /\ KeyOf(proc[p].doc) \in Ids /\ KeyOf(proc[p].doc).of = proc[p].id.of
         /\ HasRecord(p)
  BY TypedFacts, KeyFacts DEF Typed, Shape, CommandsStayWithTheirRun, Process

\* A command at work on its run takes a step without a file.
LEMMA QuietLinked ==
  ASSUME Typed, Linked, NEW p \in Procs, NEW new, Goes(p, new),
         UNCHANGED <<server, file, record, recorded>>, missed \subseteq missed',
         \/ new = Idle
         \/ /\ proc[p].pc # "idle" /\ new.id = proc[p].id /\ new.cmd = proc[p].cmd
            /\ new.cmd = "run" => /\ proc[p].pc = "reply" /\ new.pc = "write"
                                  /\ new.doc.request_id = new.id
            /\ new.id.of \in recorded \ missed' =>
                 /\ KeyOf(new.doc) # None => /\ file[KeyOf(new.doc)] # "none"
                                             /\ new.doc.request_id = RequestId(new.id.of)
                 /\ new.pc = "fetch" /\ new.cmd = "resume" => KeyOf(new.doc) # None
  PROVE  Linked'
  <1>1. proc'[p] = new /\ \A q \in Procs \ {p} : proc'[q] = proc[q]
    BY DEF Typed, TypeOK, Goes
  <1>2. ASSUME NEW q \in Procs, NEW r, proc'[q].pc # "idle", proc'[q].id.of = r
        PROVE  On(q, r)
    BY <1>1, <1>2, IdleFacts DEF On
  <1>3. Fresh'
    BY <1>2 DEF Linked, Fresh, On
  <1>4. ASSUME NEW q \in Procs, proc'[q].cmd = "run"
        PROVE  /\ \A x \in Procs : proc'[x].pc # "idle" /\ proc'[x].id.of = proc'[q].id.of => x = q
               /\ \A i \in Ids : i.of = proc'[q].id.of /\ file[i] # "none" =>
                    proc'[q].pc = "writing" /\ i = KeyOf(proc'[q].doc)
               /\ proc'[q].pc \in Saving => proc'[q].doc.request_id = proc'[q].id
    <2>1. proc[q].cmd = "run" /\ proc[q].id = proc'[q].id
      BY <1>1, <1>4, IdleFacts
    <2>2. \A x \in Procs : proc'[x].pc # "idle" /\ proc'[x].id.of = proc'[q].id.of => x = q
      BY <1>2, <2>1 DEF Linked, RunsAlone
    <2>3. CASE q = p
      BY <1>1, <1>4, <2>1, <2>2, <2>3, IdleFacts DEF Linked, RunsAlone
    <2>4. CASE q # p
      BY <1>1, <2>1, <2>2, <2>4 DEF Linked, RunsAlone
    <2>. QED
      BY <2>3, <2>4
  <1>5. RunsAlone'
    BY <1>4 DEF RunsAlone, On
  <1>6. LineageIsKeptUnlessMissed'
    BY DEF Linked, LineageIsKeptUnlessMissed, Lineage
  <1>7. ASSUME NEW r \in recorded \ missed', NEW q \in Procs, proc'[q].pc # "idle", proc'[q].id.of = r
        PROVE  /\ KeyOf(proc'[q].doc) # None => /\ file[KeyOf(proc'[q].doc)] # "none"
                                                /\ proc'[q].doc.request_id = RequestId(r)
               /\ proc'[q].pc = "fetch" /\ proc'[q].cmd = "resume" => KeyOf(proc'[q].doc) # None
    <2>1. CASE q = p
      BY <1>1, <1>7, <2>1, IdleFacts
    <2>2. CASE q # p
      BY <1>1, <1>7, <2>2 DEF Linked, HoldsLineage, HasRecord, On
    <2>. QED
      BY <2>1, <2>2
  <1>8. HoldsLineage'
    BY <1>7 DEF HoldsLineage, HasRecord, On
  <1>. QED
    BY <1>3, <1>5, <1>6, <1>8 DEF Linked

\* A command truncates or garbles its file.
LEMMA TouchLinked ==
  ASSUME Typed, Linked, NEW p \in Procs, NEW new, Goes(p, new), proc[p].pc \in Saving,
         NEW content, content # "none",
         file' = [file EXCEPT ![KeyOf(proc[p].doc)] = content],
         UNCHANGED <<server, record, recorded, missed>>,
         \/ new = Idle
         \/ /\ new.id = proc[p].id /\ new.cmd = proc[p].cmd /\ new.pc = "writing"
            /\ new.doc = proc[p].doc
  PROVE  Linked'
  <1>. DEFINE k == KeyOf(proc[p].doc)
  <1>0. k \in Ids /\ k.of = proc[p].id.of /\ HasRecord(p) /\ proc[p].pc # "idle"
    BY SavingFacts DEF Saving
  <1>1. proc'[p] = new /\ \A q \in Procs \ {p} : proc'[q] = proc[q]
    BY DEF Typed, TypeOK, Goes
  <1>2. ASSUME NEW q \in Procs, NEW r, proc'[q].pc # "idle", proc'[q].id.of = r
        PROVE  On(q, r)
    BY <1>0, <1>1, <1>2, IdleFacts DEF On
  <1>3. file'[k] # "none" /\ \A i \in Ids \ {k} : file'[i] = file[i]
    BY <1>0 DEF Typed, TypeOK
  <1>. HIDE DEF k
  <1>4. Fresh'
    BY <1>0, <1>2, <1>3 DEF Linked, Fresh, On
  <1>5. ASSUME NEW q \in Procs, proc'[q].cmd = "run"
        PROVE  /\ \A x \in Procs : proc'[x].pc # "idle" /\ proc'[x].id.of = proc'[q].id.of => x = q
               /\ \A i \in Ids : i.of = proc'[q].id.of /\ file'[i] # "none" =>
                    proc'[q].pc = "writing" /\ i = KeyOf(proc'[q].doc)
               /\ proc'[q].pc \in Saving => proc'[q].doc.request_id = proc'[q].id
    <2>1. proc[q].cmd = "run" /\ proc[q].id = proc'[q].id
      BY <1>1, <1>5, IdleFacts
    <2>2. \A x \in Procs : proc'[x].pc # "idle" /\ proc'[x].id.of = proc'[q].id.of => x = q
      BY <1>2, <2>1 DEF Linked, RunsAlone
    <2>3. CASE q = p
      <3>1. new.pc = "writing" /\ new.doc = proc[p].doc
        BY <1>1, <1>5, <2>3, IdleFacts
      <3>2. \A i \in Ids : i.of = proc[p].id.of /\ file'[i] # "none" => i = k
        BY <1>3, <2>1, <2>3 DEF Linked, RunsAlone, k
      <3>3. proc[p].doc.request_id = proc[p].id
        BY <2>1, <2>3 DEF Linked, RunsAlone
      <3>. QED
        BY <1>1, <2>1, <2>2, <2>3, <3>1, <3>2, <3>3 DEF k
    <2>4. CASE q # p
      <3>1. k.of # proc[q].id.of
        BY <1>0, <2>1, <2>4 DEF Linked, RunsAlone, On
      <3>. QED
        BY <1>1, <1>3, <2>1, <2>2, <2>4, <3>1 DEF Linked, RunsAlone
    <2>. QED
      BY <2>3, <2>4
  <1>6. RunsAlone'
    BY <1>5 DEF RunsAlone, On
  <1>7. k.of \in recorded \ missed => file[k] # "none"
    BY <1>0 DEF Linked, HoldsLineage, On, k
  <1>8. \A i \in Ids : i.of \in recorded \ missed => (file'[i] = "none" <=> file[i] = "none")
    BY <1>3, <1>7
  <1>9. LineageIsKeptUnlessMissed'
    <2>. SUFFICES ASSUME NEW r \in recorded \ missed PROVE Lineage(r)'
      BY DEF LineageIsKeptUnlessMissed
    <2>1. PICK j \in Ids : /\ j.of = r /\ file[j] # "none"
                           /\ record[j].request_id = RequestId(r)
                           /\ \A i \in Ids \ {j} : i.of = r => file[i] = "none"
      BY DEF Linked, LineageIsKeptUnlessMissed, Lineage
    <2>. QED
      BY <1>8, <2>1 DEF Lineage
  <1>10. ASSUME NEW r \in recorded \ missed, NEW q \in Procs, proc'[q].pc # "idle", proc'[q].id.of = r
        PROVE  /\ KeyOf(proc'[q].doc) # None => /\ file'[KeyOf(proc'[q].doc)] # "none"
                                                /\ proc'[q].doc.request_id = RequestId(r)
               /\ proc'[q].pc = "fetch" /\ proc'[q].cmd = "resume" => KeyOf(proc'[q].doc) # None
    <2>1. proc'[q].doc = proc[q].doc /\ On(q, r)
      BY <1>1, <1>2, <1>10, IdleFacts
    <2>2. HasRecord(q) => KeyOf(proc[q].doc) \in Ids /\ KeyOf(proc[q].doc).of = r
      BY <2>1, TypedFacts, KeyFacts DEF On, Typed, CommandsStayWithTheirRun, HasRecord, Process
    <2>3. HasRecord(q) => file[KeyOf(proc[q].doc)] # "none" /\ proc[q].doc.request_id = RequestId(r)
      BY <2>1 DEF Linked, HoldsLineage
    <2>4. proc'[q].pc = "fetch" /\ proc'[q].cmd = "resume" => HasRecord(q)
      BY <1>1, <1>10, <2>1, IdleFacts DEF Linked, HoldsLineage
    <2>. QED
      BY <1>8, <2>1, <2>2, <2>3, <2>4 DEF HasRecord
  <1>11. HoldsLineage'
    BY <1>10 DEF HoldsLineage, HasRecord, On
  <1>. QED
    BY <1>4, <1>6, <1>9, <1>11 DEF Linked

\* A command writes its record, and ends.
LEMMA WriteLinked ==
  ASSUME Typed, Linked, NEW p \in Procs, WriteFile(p)
  PROVE  Linked'
  <1>. DEFINE k == KeyOf(proc[p].doc)
  <1>0. k \in Ids /\ k.of = proc[p].id.of /\ HasRecord(p) /\ proc[p].pc = "writing"
    BY SavingFacts DEF WriteFile, Saving
  <1>1. proc'[p] = Idle /\ \A q \in Procs \ {p} : proc'[q] = proc[q]
    BY DEF Typed, TypeOK, WriteFile, Goes
  <1>2. ASSUME NEW q \in Procs, NEW r, proc'[q].pc # "idle", proc'[q].id.of = r
        PROVE  On(q, r) /\ q # p
    BY <1>1, <1>2, IdleFacts DEF On
  <1>3. /\ file'[k] = "whole" /\ \A i \in Ids \ {k} : file'[i] = file[i]
        /\ record'[k] = proc[p].doc /\ \A i \in Ids \ {k} : record'[i] = record[i]
    BY <1>0 DEF Typed, TypeOK, WriteFile
  <1>4. /\ UNCHANGED <<server, missed>>
        /\ recorded' = IF proc[p].cmd = "run" THEN recorded \cup {k.of} ELSE recorded
    BY DEF WriteFile
  <1>5. server[k.of] # "none"
    BY <1>0 DEF Typed, Shape
  <1>. HIDE DEF k
  <1>6. Fresh'
    BY <1>0, <1>2, <1>3, <1>4, <1>5 DEF Linked, Fresh, On
  <1>7. ASSUME NEW q \in Procs, proc'[q].cmd = "run"
        PROVE  /\ \A x \in Procs : proc'[x].pc # "idle" /\ proc'[x].id.of = proc'[q].id.of => x = q
               /\ \A i \in Ids : i.of = proc'[q].id.of /\ file'[i] # "none" =>
                    proc'[q].pc = "writing" /\ i = KeyOf(proc'[q].doc)
               /\ proc'[q].pc \in Saving => proc'[q].doc.request_id = proc'[q].id
    <2>1. q # p /\ proc'[q] = proc[q]
      BY <1>1, <1>7, IdleFacts
    <2>2. k.of # proc[q].id.of
      BY <1>0, <1>7, <2>1 DEF Linked, RunsAlone, On
    <2>. QED
      BY <1>2, <1>3, <1>7, <2>1, <2>2 DEF Linked, RunsAlone
  <1>8. RunsAlone'
    BY <1>7 DEF RunsAlone, On
  <1>9. ASSUME proc[p].cmd = "run"
        PROVE  /\ proc[p].doc.request_id = RequestId(k.of)
               /\ \A i \in Ids \ {k} : i.of = k.of => file[i] = "none"
               /\ \A q \in Procs : On(q, k.of) => q = p
    BY <1>0, <1>9 DEF Linked, RunsAlone, Typed, Shape, Saving, k
  <1>10. ASSUME proc[p].cmd # "run", k.of \in recorded \ missed
         PROVE  proc[p].doc.request_id = RequestId(k.of) /\ file[k] # "none"
    BY <1>0, <1>10 DEF Linked, HoldsLineage, On, k
  <1>11. LineageIsKeptUnlessMissed'
    <2>. SUFFICES ASSUME NEW r \in recorded' \ missed' PROVE Lineage(r)'
      BY DEF LineageIsKeptUnlessMissed
    <2>1. CASE r = k.of /\ proc[p].cmd = "run"
      BY <1>0, <1>3, <1>9, <2>1 DEF Lineage, RequestId
    <2>2. CASE r = k.of /\ proc[p].cmd # "run"
      <3>1. PICK j \in Ids : /\ j.of = r /\ file[j] # "none"
                             /\ \A i \in Ids \ {j} : i.of = r => file[i] = "none"
        BY <1>4, <2>2 DEF Linked, LineageIsKeptUnlessMissed, Lineage
      <3>2. j = k
        BY <1>0, <1>4, <1>10, <2>2, <3>1
      <3>. QED
        BY <1>0, <1>3, <1>4, <1>10, <2>2, <3>1, <3>2 DEF Lineage, RequestId
    <2>3. CASE r # k.of
      BY <1>3, <1>4, <2>3 DEF Linked, LineageIsKeptUnlessMissed, Lineage, RequestId
    <2>. QED
      BY <2>1, <2>2, <2>3
  <1>12. ASSUME NEW r \in recorded' \ missed', NEW q \in Procs, proc'[q].pc # "idle", proc'[q].id.of = r
         PROVE  /\ KeyOf(proc'[q].doc) # None => /\ file'[KeyOf(proc'[q].doc)] # "none"
                                                 /\ proc'[q].doc.request_id = RequestId(r)
                /\ proc'[q].pc = "fetch" /\ proc'[q].cmd = "resume" => KeyOf(proc'[q].doc) # None
    <2>1. q # p /\ proc'[q] = proc[q] /\ On(q, r)
      BY <1>1, <1>2, <1>12
    <2>2. r \in recorded \ missed
      BY <1>4, <1>9, <1>12, <2>1
    <2>3. HasRecord(q) => KeyOf(proc[q].doc) \in Ids
      BY TypedFacts
    <2>4. HasRecord(q) => file'[KeyOf(proc[q].doc)] # "none"
      BY <1>3, <2>1, <2>2, <2>3 DEF Linked, HoldsLineage
    <2>. QED
      BY <2>1, <2>2, <2>4 DEF Linked, HoldsLineage, HasRecord
  <1>13. HoldsLineage'
    BY <1>12 DEF HoldsLineage, HasRecord, On
  <1>. QED
    BY <1>6, <1>8, <1>11, <1>13 DEF Linked

\* A command starts on a run that no keyhole run is at work on.
LEMMA StartLinked ==
  ASSUME Typed, Linked, NEW p \in Procs, NEW new, Starts(p, new),
         new.id.of \in Runs, new.pc \in {"reply", "find", "fetch"}, KeyOf(new.doc) = None,
         \A q \in Procs : proc[q].cmd = "run" => proc[q].id.of # new.id.of,
         server'[new.id.of] # "none", \A r \in Runs \ {new.id.of} : server'[r] = server[r],
         \/ new.cmd = "run" /\ server[new.id.of] = "none"
         \/ new.cmd # "run" /\ (new.pc = "fetch" => new.cmd # "resume")
  PROVE  Linked'
  <1>1. /\ proc'[p] = new /\ \A q \in Procs \ {p} : proc'[q] = proc[q]
        /\ UNCHANGED <<file, record, recorded, missed>> /\ proc[p].pc = "idle"
    BY DEF Typed, TypeOK, Starts, Goes, Busy
  <1>2. Fresh'
    BY <1>1 DEF Linked, Fresh, On
  <1>3. ASSUME NEW q \in Procs, proc'[q].cmd = "run"
        PROVE  /\ \A x \in Procs : proc'[x].pc # "idle" /\ proc'[x].id.of = proc'[q].id.of => x = q
               /\ \A i \in Ids : i.of = proc'[q].id.of /\ file[i] # "none" =>
                    proc'[q].pc = "writing" /\ i = KeyOf(proc'[q].doc)
               /\ proc'[q].pc \in Saving => proc'[q].doc.request_id = proc'[q].id
    <2>1. CASE q = p
      <3>1. server[new.id.of] = "none" /\ new.pc \notin Saving
        BY <1>1, <1>3, <2>1 DEF Saving
      <3>2. \A i \in Ids : i.of = new.id.of => file[i] = "none"
        BY <3>1 DEF Linked, Fresh
      <3>3. \A x \in Procs : ~On(x, new.id.of)
        BY <3>1 DEF Linked, Fresh
      <3>. QED
        BY <1>1, <2>1, <3>1, <3>2, <3>3 DEF On
    <2>2. CASE q # p
      BY <1>1, <1>3, <2>2 DEF Linked, RunsAlone, On
    <2>. QED
      BY <2>1, <2>2
  <1>4. RunsAlone'
    BY <1>1, <1>3 DEF RunsAlone, On
  <1>5. LineageIsKeptUnlessMissed'
    BY <1>1 DEF Linked, LineageIsKeptUnlessMissed, Lineage
  <1>6. ASSUME NEW r \in recorded \ missed, NEW q \in Procs, proc'[q].pc # "idle", proc'[q].id.of = r
        PROVE  /\ KeyOf(proc'[q].doc) # None => /\ file[KeyOf(proc'[q].doc)] # "none"
                                                /\ proc'[q].doc.request_id = RequestId(r)
               /\ proc'[q].pc = "fetch" /\ proc'[q].cmd = "resume" => KeyOf(proc'[q].doc) # None
    <2>1. CASE q = p
      BY <1>1, <1>6, <2>1 DEF Linked, Fresh
    <2>2. CASE q # p
      BY <1>1, <1>6, <2>2 DEF Linked, HoldsLineage, HasRecord, On
    <2>. QED
      BY <2>1, <2>2
  <1>7. HoldsLineage'
    BY <1>1, <1>6 DEF HoldsLineage, HasRecord, On
  <1>. QED
    BY <1>2, <1>4, <1>5, <1>7 DEF Linked

\* What a command on a recorded run loads is its record.
LEMMA LoadedLineage ==
  ASSUME Typed, Linked, NEW i \in Ids, i.of \in recorded \ missed, NEW d \in Loaded(i)
  PROVE  /\ KeyOf(d) \in Ids /\ file[KeyOf(d)] # "none"
         /\ d.request_id = RequestId(i.of)
  <1>1. PICK k \in Ids : /\ file[k] = "whole" /\ d = record[k] /\ KeyOf(d) = k
                         /\ i = k \/ i \in Mentions(d)
    BY LoadedFacts
  <1>2. k.of = i.of
    BY <1>1 DEF Typed, CommandsStayWithTheirRun
  <1>. QED
    BY <1>1, <1>2 DEF Linked, LineageIsKeptUnlessMissed, Lineage

LEMMA NextLinked == Typed /\ Linked /\ [Next]_vars => Linked'
  <1> SUFFICES ASSUME Typed, Linked, [Next]_vars PROVE Linked'
    OBVIOUS
  <1>a. ASSUME NEW p \in Procs, NEW r \in Runs, Submit(p, r) PROVE Linked'
    <2>. DEFINE new == [Idle EXCEPT !.cmd = "run", !.id = RequestId(r), !.pc = "reply"]
    <2>1. server[r] = "none" /\ server' = [server EXCEPT ![r] = "accepted"] /\ Starts(p, new)
      BY <1>a DEF Submit
    <2>2. /\ new.doc = NoRecord /\ new.cmd = "run" /\ new.pc = "reply" /\ new.id.of = r
      BY IdFacts, IdleFacts DEF Idle
    <2>3. server'[r] = "accepted" /\ \A q \in Runs \ {r} : server'[q] = server[q]
      BY <2>1 DEF Typed, TypeOK
    <2>4. ASSUME NEW q \in Procs, proc[q].cmd = "run" PROVE proc[q].id.of # r
      BY <2>1, <2>4, IdleFacts DEF Linked, Fresh, On, Typed, Shape
    <2>. HIDE DEF new
    <2>. QED
      BY <2>1, <2>2, <2>3, <2>4, IdleFacts, StartLinked
  <1>b. ASSUME NEW p \in Procs, NEW c \in {"status", "wait", "resume"}, NEW i \in Ids,
               Follow(p, c, i)
        PROVE  Linked'
    <2>. DEFINE new == [Idle EXCEPT !.cmd = c, !.id = i, !.pc = IF c = "resume" THEN "find" ELSE "fetch"]
    <2>1. /\ UNCHANGED server /\ Starts(p, new) /\ server[i.of] # "none" /\ ~Submitting(i.of)
      BY <1>b DEF Follow
    <2>2. /\ new.doc = NoRecord /\ new.cmd = c /\ new.id = i
          /\ new.pc = IF c = "resume" THEN "find" ELSE "fetch"
      BY IdleFacts DEF Idle
    <2>3. ASSUME NEW q \in Procs, proc[q].cmd = "run" PROVE proc[q].id.of # i.of
      BY <2>1, <2>3 DEF Submitting, Typed, Shape
    <2>4. i.of \in Runs
      BY DEF Ids
    <2>. HIDE DEF new
    <2>. QED
      BY <2>1, <2>2, <2>3, <2>4, IdleFacts, StartLinked
  <1>c. ASSUME NEW p \in Procs, Accepted(p) PROVE Linked'
    <2>1. PICK i \in {RunId(proc[p].id.of), None} :
            Goes(p, [proc[p] EXCEPT !.pc = "write",
                       !.doc = [run_id |-> i, request_id |-> proc[p].id, status |-> "accepted"]])
      BY <1>c DEF Accepted
    <2>. DEFINE new == [proc[p] EXCEPT !.pc = "write",
                          !.doc = [run_id |-> i, request_id |-> proc[p].id, status |-> "accepted"]]
    <2>2. /\ proc[p].pc = "reply" /\ UNCHANGED <<server, file, record, recorded, missed>>
      BY <1>c DEF Accepted, history
    <2>3. /\ new.id = proc[p].id /\ new.cmd = proc[p].cmd /\ new.pc = "write"
          /\ new.doc.request_id = new.id
      BY TypedFacts DEF Process
    <2>4. new.id.of \notin recorded \ missed
      BY <2>2, <2>3, ReplyIsUnrecorded
    <2>. HIDE DEF new
    <2>. QED
      BY <2>1, <2>2, <2>3, <2>4, QuietLinked DEF new
  <1>d. ASSUME NEW p \in Procs, FindRecord(p) PROVE Linked'
    <2>1. PICK d \in Loaded(proc[p].id) : Goes(p, [proc[p] EXCEPT !.doc = d, !.pc = "fetch"])
      BY <1>d DEF FindRecord
    <2>. DEFINE new == [proc[p] EXCEPT !.doc = d, !.pc = "fetch"]
    <2>2. /\ proc[p].pc = "find" /\ proc[p].id \in Ids /\ proc[p].cmd # "run"
          /\ UNCHANGED <<server, file, record, recorded, missed>>
      BY <1>d, TypedFacts DEF FindRecord, history, Typed, Shape, Saving
    <2>3. /\ new.id = proc[p].id /\ new.cmd = proc[p].cmd /\ new.pc = "fetch" /\ new.doc = d
      BY TypedFacts DEF Process
    <2>4. new.id.of \in recorded \ missed =>
            /\ KeyOf(d) \in Ids /\ file[KeyOf(d)] # "none" /\ d.request_id = RequestId(new.id.of)
      BY <2>1, <2>2, <2>3, LoadedLineage
    <2>. HIDE DEF new
    <2>. QED
      BY <2>1, <2>2, <2>3, <2>4, QuietLinked DEF new
  <1>e. ASSUME NEW p \in Procs, FindNothing(p) PROVE Linked'
    <2>. DEFINE new == [proc[p] EXCEPT !.pc = "fetch"]
    <2>1. /\ proc[p].pc = "find" /\ proc[p].id \in Ids /\ proc[p].cmd # "run"
          /\ Goes(p, new) /\ UNCHANGED <<server, file, record, recorded>>
          /\ missed \subseteq missed'
      BY <1>e, TypedFacts DEF FindNothing, Typed, Shape, Saving
    <2>2. new.id = proc[p].id /\ new.cmd = proc[p].cmd
      BY TypedFacts DEF Process
    <2>3. proc[p].id.of \in recorded \ missed => proc[p].id.of \in missed'
      BY <1>e DEF FindNothing, Linked, LineageIsKeptUnlessMissed, Lineage
    <2>. HIDE DEF new
    <2>. QED
      BY <2>1, <2>2, <2>3, QuietLinked
  <1>f. ASSUME NEW p \in Procs, Observe(p) PROVE Linked'
    <2>1. PICK s \in Reports(Target(p).of) : Goes(p, [proc[p] EXCEPT !.st = s, !.pc = "load"])
      BY <1>f DEF Observe
    <2>. DEFINE new == [proc[p] EXCEPT !.st = s, !.pc = "load"]
    <2>2. /\ proc[p].pc = "fetch" /\ proc[p].cmd # "run"
          /\ UNCHANGED <<server, file, record, recorded, missed>>
      BY <1>f DEF Observe, history, Typed, Shape, Saving
    <2>3. /\ new.id = proc[p].id /\ new.cmd = proc[p].cmd /\ new.pc = "load" /\ new.doc = proc[p].doc
      BY TypedFacts DEF Process
    <2>4. Goes(p, new)
      BY <2>1
    <2>5. proc[p].id.of \in recorded \ missed /\ KeyOf(proc[p].doc) # None =>
            /\ file[KeyOf(proc[p].doc)] # "none"
            /\ proc[p].doc.request_id = RequestId(proc[p].id.of)
      BY <2>2 DEF Linked, HoldsLineage, HasRecord, On
    <2>. HIDE DEF new
    <2>. QED
      BY <2>2, <2>3, <2>4, <2>5, QuietLinked
  <1>g. ASSUME NEW p \in Procs, ObserveUnrecorded(p) PROVE Linked'
    <2>1. PICK s \in Reports(proc[p].id.of), i \in {RunId(proc[p].id.of), proc[p].id} :
            Goes(p, [proc[p] EXCEPT !.pc = "write",
                       !.doc = [run_id |-> i, request_id |-> None, status |-> s]])
      BY <1>g DEF ObserveUnrecorded
    <2>. DEFINE new == [proc[p] EXCEPT !.pc = "write",
                          !.doc = [run_id |-> i, request_id |-> None, status |-> s]]
    <2>2. /\ proc[p].pc = "fetch" /\ proc[p].cmd = "resume"
          /\ UNCHANGED <<server, file, record, recorded, missed>>
      BY <1>g DEF ObserveUnrecorded, history
    <2>3. new.id = proc[p].id /\ new.cmd = proc[p].cmd
      BY TypedFacts DEF Process
    <2>4. proc[p].id.of \notin recorded \ missed
      BY <1>g, <2>2 DEF ObserveUnrecorded, Linked, HoldsLineage, On
    <2>. HIDE DEF new
    <2>. QED
      BY <2>1, <2>2, <2>3, <2>4, QuietLinked DEF new
  <1>h. ASSUME NEW p \in Procs, LoadRecord(p) PROVE Linked'
    <2>1. PICK l \in Loaded(LoadId(p)) :
            Goes(p, [proc[p] EXCEPT !.doc = Updated(l, proc[p].st), !.st = "unknown", !.pc = "write"])
      BY <1>h DEF LoadRecord
    <2>. DEFINE d == Updated(l, proc[p].st)
                new == [proc[p] EXCEPT !.doc = d, !.st = "unknown", !.pc = "write"]
    <2>2. /\ proc[p].pc = "load" /\ LoadId(p) \in Ids /\ proc[p].cmd # "run"
          /\ UNCHANGED <<server, file, record, recorded, missed>>
      BY <1>h, TypedFacts DEF LoadRecord, history, Typed, Shape, Saving
    <2>3. LoadId(p).of = proc[p].id.of
      BY <2>2, TypedFacts, KeyFacts DEF LoadId, Typed, Shape, CommandsStayWithTheirRun, HasRecord, Process
    <2>4. l \in RunRecord
      BY <2>2, LoadedFacts DEF Typed, TypeOK
    <2>5. KeyOf(d) = KeyOf(l) /\ d.request_id = l.request_id
      BY <2>4 DEF Updated, KeyOf, RunRecord
    <2>6. /\ new.id = proc[p].id /\ new.cmd = proc[p].cmd /\ new.pc = "write" /\ new.doc = d
      BY TypedFacts DEF Process
    <2>7. proc[p].id.of \in recorded \ missed =>
            file[KeyOf(l)] # "none" /\ l.request_id = RequestId(proc[p].id.of)
      BY <2>2, <2>3, LoadedLineage
    <2>8. Goes(p, new)
      BY <2>1
    <2>. HIDE DEF new, d
    <2>. QED
      BY <2>2, <2>5, <2>6, <2>7, <2>8, QuietLinked
  <1>i. ASSUME NEW p \in Procs, LoadNothing(p) \/ End(p) PROVE Linked'
    BY <1>i, QuietLinked DEF LoadNothing, End, history
  <1>j. ASSUME NEW p \in Procs, OpenFile(p) PROVE Linked'
    <2>. DEFINE new == [proc[p] EXCEPT !.pc = "writing"]
    <2>1. /\ new.id = proc[p].id /\ new.cmd = proc[p].cmd /\ new.pc = "writing"
          /\ new.doc = proc[p].doc
      BY TypedFacts DEF Process
    <2>2. /\ Goes(p, new) /\ proc[p].pc \in Saving
          /\ file' = [file EXCEPT ![KeyOf(proc[p].doc)] = "empty"]
          /\ UNCHANGED <<server, record, recorded, missed>>
      BY <1>j DEF OpenFile, history, Saving
    <2>. HIDE DEF new
    <2>. QED
      BY <2>1, <2>2, TouchLinked
  <1>k. ASSUME NEW p \in Procs, WriteFile(p) PROVE Linked'
    BY <1>k, WriteLinked
  <1>l. ASSUME NEW p \in Procs, GarbleFile(p) PROVE Linked'
    <2>1. /\ Goes(p, Idle) /\ proc[p].pc \in Saving
          /\ file' = [file EXCEPT ![KeyOf(proc[p].doc)] = "garbled"]
          /\ UNCHANGED <<server, record, recorded, missed>>
      BY <1>l DEF GarbleFile, history, Saving
    <2>. QED
      BY <2>1, TouchLinked
  <1>m. ASSUME NEW r \in Runs, NEW s \in Terminal, Proceed(r, s) PROVE Linked'
    <2>1. UNCHANGED <<file, record, proc, recorded, missed>>
          /\ \A q \in Runs : server'[q] = "none" => server[q] = "none"
      BY <1>m DEF Proceed, history, Typed, TypeOK, Terminal
    <2>. QED
      BY <2>1 DEF Linked, Fresh, RunsAlone, On, LineageIsKeptUnlessMissed, Lineage, HoldsLineage,
                  HasRecord
  <1>n. CASE UNCHANGED vars
    BY <1>n DEF vars, Linked, Fresh, RunsAlone, On, LineageIsKeptUnlessMissed, Lineage,
                HoldsLineage, HasRecord
  <1>. QED
    BY <1>a, <1>b, <1>c, <1>d, <1>e, <1>f, <1>g, <1>h, <1>i, <1>j, <1>k, <1>l, <1>m, <1>n
    DEF Next, Step

\* The record of a run keeps the request that started it through every status
\* update, lost write and overlap, unless a resume misses it.
THEOREM LineageKept == Spec => []LineageIsKeptUnlessMissed
  <1>1. Init => Typed /\ Linked
    BY InitTyped, InitLinked
  <1>2. Typed /\ Linked /\ [Next]_vars => (Typed /\ Linked)'
    BY NextTyped, NextLinked
  <1>. QED
    BY <1>1, <1>2, PTL DEF Spec, Linked

-----------------------------------------------------------------------------
(* Undisturbed.                                                            *)

LEMMA InitUndisturbed == Init => Undisturbed
  BY IdleFacts DEF Init, Undisturbed, Alone, Blank, HoldsLatest, On, NoRecord, Terminal

\* A command at work takes a step that changes no record.
LEMMA GoesUndisturbed ==
  ASSUME Typed, Undisturbed, NEW p \in Procs, NEW new, Goes(p, new), proc[p].pc # "idle",
         UNCHANGED <<record, overlapped>>, \A i \in Ids : file'[i] = "none" => file[i] = "none",
         \/ new = Idle
         \/ /\ new.id = proc[p].id /\ new.cmd = proc[p].cmd
            /\ p \notin overlapped =>
                 \A i \in Ids : i.of = new.id.of /\ record[i].status \in Terminal =>
                   /\ new.pc = "load" => new.st \in {record[i].status, "unknown"}
                   /\ new.pc \in Saving => new.doc.status \in {record[i].status, "unknown"}
  PROVE  Undisturbed'
  <1>1. proc'[p] = new /\ \A q \in Procs \ {p} : proc'[q] = proc[q]
    BY DEF Typed, TypeOK, Goes
  <1>2. \A q \in Procs : proc'[q].pc # "idle" => proc[q].pc # "idle"
    BY <1>1
  <1>3. Alone'
    BY <1>2 DEF Undisturbed, Alone
  <1>4. \A q \in Procs : proc'[q].cmd = "run" => proc[q].cmd = "run" /\ proc'[q].id = proc[q].id
    BY <1>1, IdleFacts
  <1>5. Blank'
    BY <1>4 DEF Undisturbed, Blank
  <1>6. ASSUME NEW q \in Procs \ overlapped, NEW i \in Ids,
               proc'[q].pc # "idle", proc'[q].id.of = i.of, record[i].status \in Terminal
        PROVE  /\ proc'[q].pc = "load" => proc'[q].st \in {record[i].status, "unknown"}
               /\ proc'[q].pc \in Saving => proc'[q].doc.status \in {record[i].status, "unknown"}
    <2>1. CASE q = p
      BY <1>1, <1>6, <2>1, IdleFacts
    <2>2. CASE q # p
      BY <1>1, <1>6, <2>2 DEF Undisturbed, HoldsLatest, On
    <2>. QED
      BY <2>1, <2>2
  <1>7. HoldsLatest'
    BY <1>6 DEF HoldsLatest, On
  <1>. QED
    BY <1>3, <1>5, <1>7 DEF Undisturbed

\* A command starts.
LEMMA StartUndisturbed ==
  ASSUME Typed, Linked, Undisturbed, NEW p \in Procs, NEW new, Starts(p, new),
         new.id.of \in Runs, new.pc \in {"reply", "find", "fetch"},
         new.cmd = "run" => server[new.id.of] = "none"
  PROVE  Undisturbed'
  <1>1. /\ proc'[p] = new /\ \A q \in Procs \ {p} : proc'[q] = proc[q]
        /\ UNCHANGED <<file, record>> /\ proc[p].pc = "idle"
        /\ overlapped' = IF Busy = {} THEN {} ELSE overlapped \cup Busy \cup {p}
    BY DEF Typed, TypeOK, Starts, Goes, Busy
  <1>2. \A q \in Procs \ overlapped' : proc'[q].pc # "idle" => q = p /\ Busy = {}
    BY <1>1 DEF Busy
  <1>3. Alone'
    BY <1>1, <1>2 DEF Alone, Busy
  <1>4. Blank'
    BY <1>1 DEF Undisturbed, Blank, Linked, Fresh
  <1>5. HoldsLatest'
    BY <1>1, <1>2 DEF HoldsLatest, On, Saving
  <1>. QED
    BY <1>3, <1>4, <1>5 DEF Undisturbed

LEMMA NextUndisturbed ==
  Typed /\ Faithful /\ Linked /\ Undisturbed /\ [Next]_vars => Undisturbed'
  <1> SUFFICES ASSUME Typed, Faithful, Linked, Undisturbed, [Next]_vars PROVE Undisturbed'
    OBVIOUS
  <1>0. \A r \in Runs, i \in Ids : \A s \in Reports(r) :
          i.of = r /\ record[i].status \in Terminal => s \in {record[i].status, "unknown"}
    BY DEF Reports, Faithful, RecordIsNotAhead
  <1>a. ASSUME NEW p \in Procs, NEW r \in Runs, Submit(p, r) PROVE Undisturbed'
    <2>. DEFINE new == [Idle EXCEPT !.cmd = "run", !.id = RequestId(r), !.pc = "reply"]
    <2>1. Starts(p, new) /\ server[r] = "none" /\ new.id.of = r /\ new.pc = "reply"
      BY <1>a, IdFacts DEF Submit, Idle
    <2>. HIDE DEF new
    <2>. QED
      BY <2>1, StartUndisturbed
  <1>b. ASSUME NEW p \in Procs, NEW c \in {"status", "wait", "resume"}, NEW i \in Ids,
               Follow(p, c, i)
        PROVE  Undisturbed'
    <2>. DEFINE new == [Idle EXCEPT !.cmd = c, !.id = i, !.pc = IF c = "resume" THEN "find" ELSE "fetch"]
    <2>1. Starts(p, new) /\ new.id = i /\ i.of \in Runs /\ new.pc \in {"find", "fetch"} /\ new.cmd # "run"
      BY <1>b DEF Follow, Idle, Ids
    <2>. HIDE DEF new
    <2>. QED
      BY <2>1, StartUndisturbed
  <1>c. ASSUME NEW p \in Procs, Accepted(p) PROVE Undisturbed'
    <2>1. PICK i \in {RunId(proc[p].id.of), None} :
            Goes(p, [proc[p] EXCEPT !.pc = "write",
                       !.doc = [run_id |-> i, request_id |-> proc[p].id, status |-> "accepted"]])
      BY <1>c DEF Accepted
    <2>. DEFINE new == [proc[p] EXCEPT !.pc = "write",
                          !.doc = [run_id |-> i, request_id |-> proc[p].id, status |-> "accepted"]]
    <2>2. /\ proc[p].cmd = "run" /\ proc[p].pc # "idle" /\ UNCHANGED <<file, record, overlapped>>
      BY <1>c DEF Accepted, history, Typed, Shape
    <2>3. new.id = proc[p].id /\ new.cmd = proc[p].cmd
      BY TypedFacts DEF Process
    <2>4. \A j \in Ids : j.of = new.id.of => record[j].status \notin Terminal
      BY <2>2, <2>3 DEF Undisturbed, Blank
    <2>. HIDE DEF new
    <2>. QED
      BY <2>1, <2>2, <2>3, <2>4, GoesUndisturbed DEF new
  <1>d. ASSUME NEW p \in Procs, FindRecord(p) PROVE Undisturbed'
    <2>1. PICK d \in Loaded(proc[p].id) : Goes(p, [proc[p] EXCEPT !.doc = d, !.pc = "fetch"])
      BY <1>d DEF FindRecord
    <2>. DEFINE new == [proc[p] EXCEPT !.doc = d, !.pc = "fetch"]
    <2>2. proc[p].pc # "idle" /\ UNCHANGED <<file, record, overlapped>>
      BY <1>d DEF FindRecord, history
    <2>3. new.id = proc[p].id /\ new.cmd = proc[p].cmd /\ new.pc = "fetch"
      BY TypedFacts DEF Process
    <2>. HIDE DEF new
    <2>. QED
      BY <2>1, <2>2, <2>3, GoesUndisturbed DEF new, Saving
  <1>e. ASSUME NEW p \in Procs, FindNothing(p) PROVE Undisturbed'
    <2>. DEFINE new == [proc[p] EXCEPT !.pc = "fetch"]
    <2>1. Goes(p, new) /\ proc[p].pc # "idle" /\ UNCHANGED <<file, record, overlapped>>
      BY <1>e DEF FindNothing
    <2>2. new.id = proc[p].id /\ new.cmd = proc[p].cmd /\ new.pc = "fetch"
      BY TypedFacts DEF Process
    <2>. HIDE DEF new
    <2>. QED
      BY <2>1, <2>2, GoesUndisturbed DEF Saving
  <1>f. ASSUME NEW p \in Procs, Observe(p) PROVE Undisturbed'
    <2>1. PICK s \in Reports(Target(p).of) : Goes(p, [proc[p] EXCEPT !.st = s, !.pc = "load"])
      BY <1>f DEF Observe
    <2>. DEFINE new == [proc[p] EXCEPT !.st = s, !.pc = "load"]
    <2>2. /\ proc[p].pc = "fetch" /\ Target(p).of = proc[p].id.of /\ proc[p].id.of \in Runs
          /\ UNCHANGED <<file, record, overlapped>>
      BY <1>f, TypedFacts DEF Observe, history
    <2>3. new.id = proc[p].id /\ new.cmd = proc[p].cmd /\ new.pc = "load" /\ new.st = s
      BY TypedFacts DEF Process
    <2>4. \A i \in Ids : i.of = new.id.of /\ record[i].status \in Terminal =>
            s \in {record[i].status, "unknown"}
      BY <1>0, <2>1, <2>2, <2>3
    <2>5. Goes(p, new)
      BY <2>1
    <2>. HIDE DEF new
    <2>. QED
      BY <2>2, <2>3, <2>4, <2>5, GoesUndisturbed DEF Saving
  <1>g. ASSUME NEW p \in Procs, ObserveUnrecorded(p) PROVE Undisturbed'
    <2>1. PICK s \in Reports(proc[p].id.of), i \in {RunId(proc[p].id.of), proc[p].id} :
            Goes(p, [proc[p] EXCEPT !.pc = "write",
                       !.doc = [run_id |-> i, request_id |-> None, status |-> s]])
      BY <1>g DEF ObserveUnrecorded
    <2>. DEFINE new == [proc[p] EXCEPT !.pc = "write",
                          !.doc = [run_id |-> i, request_id |-> None, status |-> s]]
    <2>2. /\ proc[p].pc = "fetch" /\ proc[p].id.of \in Runs
          /\ UNCHANGED <<file, record, overlapped>>
      BY <1>g, TypedFacts DEF ObserveUnrecorded, history
    <2>3. new.id = proc[p].id /\ new.cmd = proc[p].cmd /\ new.pc = "write" /\ new.doc.status = s
      BY TypedFacts DEF Process
    <2>4. \A j \in Ids : j.of = new.id.of /\ record[j].status \in Terminal =>
            s \in {record[j].status, "unknown"}
      BY <1>0, <2>1, <2>2, <2>3
    <2>5. Goes(p, new)
      BY <2>1
    <2>. HIDE DEF new
    <2>. QED
      BY <2>2, <2>3, <2>4, <2>5, GoesUndisturbed DEF Saving
  <1>h. ASSUME NEW p \in Procs, LoadRecord(p) PROVE Undisturbed'
    <2>1. PICK l \in Loaded(LoadId(p)) :
            Goes(p, [proc[p] EXCEPT !.doc = Updated(l, proc[p].st), !.st = "unknown", !.pc = "write"])
      BY <1>h DEF LoadRecord
    <2>. DEFINE new == [proc[p] EXCEPT !.doc = Updated(l, proc[p].st), !.st = "unknown", !.pc = "write"]
    <2>2. /\ proc[p].pc = "load" /\ LoadId(p) \in Ids /\ UNCHANGED <<file, record, overlapped>>
      BY <1>h, TypedFacts DEF LoadRecord, history
    <2>3. l \in RunRecord
      BY <2>2, LoadedFacts DEF Typed, TypeOK
    <2>4. /\ new.id = proc[p].id /\ new.cmd = proc[p].cmd /\ new.pc = "write"
          /\ new.doc.status = proc[p].st
      BY <2>3, TypedFacts DEF Process, Updated, RunRecord
    <2>5. p \notin overlapped =>
            \A i \in Ids : i.of = new.id.of /\ record[i].status \in Terminal =>
              proc[p].st \in {record[i].status, "unknown"}
      BY <2>2, <2>4 DEF Undisturbed, HoldsLatest, On
    <2>6. Goes(p, new)
      BY <2>1
    <2>. HIDE DEF new
    <2>. QED
      BY <2>2, <2>4, <2>5, <2>6, GoesUndisturbed DEF Saving
  <1>i. ASSUME NEW p \in Procs, LoadNothing(p) \/ End(p) PROVE Undisturbed'
    BY <1>i, GoesUndisturbed DEF LoadNothing, End, history
  <1>j. ASSUME NEW p \in Procs, OpenFile(p) PROVE Undisturbed'
    <2>. DEFINE new == [proc[p] EXCEPT !.pc = "writing"]
    <2>1. /\ new.id = proc[p].id /\ new.cmd = proc[p].cmd /\ new.pc = "writing"
          /\ new.doc = proc[p].doc
      BY TypedFacts DEF Process
    <2>2. /\ Goes(p, new) /\ proc[p].pc = "write" /\ UNCHANGED <<record, overlapped>>
          /\ \A i \in Ids : file'[i] = "none" => file[i] = "none"
      BY <1>j, SavingFacts DEF OpenFile, history, Typed, TypeOK, Saving
    <2>3. p \notin overlapped =>
            \A i \in Ids : i.of = new.id.of /\ record[i].status \in Terminal =>
              proc[p].doc.status \in {record[i].status, "unknown"}
      BY <2>1, <2>2 DEF Undisturbed, HoldsLatest, On, Saving
    <2>. HIDE DEF new
    <2>. QED
      BY <2>1, <2>2, <2>3, GoesUndisturbed DEF Saving
  <1>k. ASSUME NEW p \in Procs, WriteFile(p) PROVE Undisturbed'
    <2>. DEFINE k == KeyOf(proc[p].doc)
    <2>1. k \in Ids /\ k.of = proc[p].id.of /\ proc[p].pc = "writing"
      BY <1>k, SavingFacts DEF WriteFile, Saving
    <2>2. /\ proc'[p] = Idle /\ \A q \in Procs \ {p} : proc'[q] = proc[q]
          /\ overlapped' = overlapped
          /\ file'[k] = "whole" /\ \A i \in Ids \ {k} : file'[i] = file[i] /\ record'[i] = record[i]
      BY <1>k, <2>1 DEF WriteFile, Goes, Typed, TypeOK
    <2>. HIDE DEF k
    <2>3. Alone'
      BY <2>1, <2>2, IdleFacts DEF Undisturbed, Alone
    <2>4. \A q \in Procs : proc'[q].cmd = "run" => q # p /\ k.of # proc[q].id.of
      BY <2>1, <2>2, IdleFacts DEF Linked, RunsAlone, On
    <2>5. Blank'
      BY <2>2, <2>4 DEF Undisturbed, Blank
    <2>6. \A q \in Procs \ overlapped' : proc'[q].pc = "idle"
      BY <2>1, <2>2, IdleFacts DEF Undisturbed, Alone
    <2>7. HoldsLatest'
      BY <2>6 DEF HoldsLatest, On
    <2>. QED
      BY <2>3, <2>5, <2>7 DEF Undisturbed
  <1>l. ASSUME NEW p \in Procs, GarbleFile(p) PROVE Undisturbed'
    <2>1. /\ Goes(p, Idle) /\ proc[p].pc = "writing" /\ UNCHANGED <<record, overlapped>>
          /\ \A i \in Ids : file'[i] = "none" => file[i] = "none"
      BY <1>l, SavingFacts DEF GarbleFile, history, Typed, TypeOK, Saving
    <2>. QED
      BY <2>1, GoesUndisturbed
  <1>m. ASSUME UNCHANGED <<file, record, proc, overlapped>> PROVE Undisturbed'
    BY <1>m DEF Undisturbed, Alone, Blank, HoldsLatest, On
  <1>. QED
    BY <1>a, <1>b, <1>c, <1>d, <1>e, <1>f, <1>g, <1>h, <1>i, <1>j, <1>k, <1>l, <1>m
    DEF Next, Step, Proceed, history, vars

\* An outcome, once recorded, is lost to an older status only when a command
\* that ran beside another writes last.
THEOREM OverwrittenByOverlapOnly == Spec => OutcomeIsOverwrittenByOverlapOnly
  <1>. DEFINE Inv == Typed /\ Faithful /\ Linked /\ Undisturbed
  <1>1. Init => Inv
    BY InitTyped, InitFaithful, InitLinked, InitUndisturbed
  <1>2. Inv /\ [Next]_vars => Inv'
    BY NextTyped, NextFaithful, NextLinked, NextUndisturbed
  <1>3. Inv /\ [Next]_vars =>
          [\A k \in Ids : GoesBack(k) =>
             \E p \in overlapped : proc[p].pc = "writing" /\ KeyOf(proc[p].doc) = k]_vars
    <2>. SUFFICES ASSUME Inv, Next, NEW k \in Ids, GoesBack(k)
                  PROVE  \E p \in overlapped : proc[p].pc = "writing" /\ KeyOf(proc[p].doc) = k
      OBVIOUS
    <2>1. record'[k] # record[k]
      BY DEF GoesBack
    <2>2. PICK p \in Procs : WriteFile(p)
      BY <2>1 DEF Next, Step, Submit, Follow, Starts, Accepted, FindRecord, FindNothing, Observe,
         ObserveUnrecorded, LoadRecord, LoadNothing, OpenFile, GarbleFile, End, Proceed
    <2>3. KeyOf(proc[p].doc) = k /\ proc[p].pc = "writing" /\ record'[k] = proc[p].doc
      BY <2>1, <2>2, SavingFacts DEF WriteFile, Typed, TypeOK, Saving
    <2>4. k.of = proc[p].id.of
      BY <2>3, SavingFacts DEF Saving
    <2>5. p \in overlapped
      BY <2>3, <2>4 DEF GoesBack, Undisturbed, HoldsLatest, On, Saving
    <2>. QED
      BY <2>3, <2>5
  <1>. QED
    BY <1>1, <1>2, <1>3, PTL DEF Spec, OutcomeIsOverwrittenByOverlapOnly
-----------------------------------------------------------------------------
(* The declarations of a repository.  A command that no other ran beside is  *)
(* the only one that changes them, and a validation that is still fresh has  *)
(* read them as they are.                                                    *)

Remains(s, f) == \E i \in 1..Len(s) : s[i] = f

LEMMA RemainsAfter ==
  ASSUME NEW S, NEW s \in Seq(S), s # <<>>
  PROVE  /\ Head(s) \in S /\ Tail(s) \in Seq(S) /\ Remains(s, Head(s))
         /\ \A f : Remains(s, f) <=> f = Head(s) \/ Remains(Tail(s), f)
<1>1. /\ Head(s) = s[1] /\ s[1] \in S /\ 1 \in 1..Len(s)
      /\ Tail(s) \in Seq(S) /\ Len(Tail(s)) = Len(s) - 1 /\ Len(s) \in Nat
      /\ \A i \in 1..Len(Tail(s)) : i + 1 \in 1..Len(s) /\ Tail(s)[i] = s[i + 1]
  OBVIOUS
<1>2. ASSUME NEW f, Remains(s, f) PROVE f = Head(s) \/ Remains(Tail(s), f)
  <2>1. PICK i \in 1..Len(s) : s[i] = f
    BY <1>2 DEF Remains
  <2>2. CASE i = 1
    BY <1>1, <2>1, <2>2
  <2>3. CASE i # 1
    <3>1. i - 1 \in 1..Len(Tail(s)) /\ (i - 1) + 1 = i
      BY <1>1, <2>3
    <3>2. Tail(s)[i - 1] = f
      BY <1>1, <2>1, <3>1
    <3>. QED BY <3>1, <3>2 DEF Remains
  <2>. QED BY <2>2, <2>3
<1>3. ASSUME NEW f, f = Head(s) \/ Remains(Tail(s), f) PROVE Remains(s, f)
  BY <1>1, <1>3 DEF Remains
<1>. QED BY <1>1, <1>2, <1>3

\* Where a command stands.
DeclStands(p) ==
  LET d == decl[p] IN
  /\ d.at \in {"open", "fill"} => d.left # <<>>
  /\ d.at \in {"look", "open", "fill"} => Op(p) # "validate"
  /\ d.at \in {"keyhole", "contract"} => Op(p) = "passport"
  /\ d.at \in {"validate", "compare", "judge"} =>
       Op(p) = "validate" /\ d.posture \in {"native", "partially_aligned"}
  /\ d.at \in {"compare", "judge"} => d.left = <<>>
  /\ d.at # "over" => d.result = "none"

Unmixed(c) == c \notin {"cut", "mixed"}

\* An init that runs alone has its files behind it whole, those of others
\* before it as it found them, and one of its own cut.
Scaffolds(p) ==
  LET d == decl[p] IN
  Op(p) = "init" /\ d.at \in {"look", "open", "fill"} /\ p \notin beside /\ ~d.failed =>
    /\ \A f \in DeclFiles : ~Remains(d.left, f) =>
         /\ d.cmd.force => tree[f] = d.cmd.name
         /\ d.clean => Unmixed(tree[f]) /\ tree[f] # "none"
    /\ d.clean => \A f \in DeclFiles : ~(d.at = "fill" /\ f = Head(d.left)) => Unmixed(tree[f])
    /\ d.at = "fill" => tree[Head(d.left)] = "cut"

DeclAlone == \A p \in DeclBusy : p \notin beside => DeclBusy = {p}

\* What a validation that has found nothing to complain of, and is fresh, read.
WholeContract == ScaffoldNames \cup {"generated", "good", "loose"}
Validates(p) ==
  LET d == decl[p] IN
  p \in fresh /\ Op(p) = "validate" =>
    /\ d.at \in {"validate", "compare", "judge"} /\ d.posture = "native" /\ d.worst = "none" =>
         /\ ~Remains(d.left, "keyhole") => tree["keyhole"] = "good"
         /\ ~Remains(d.left, "contract") => tree["contract"] \in WholeContract
    /\ d.result = "native_ready" =>
         tree["keyhole"] = "good" /\ tree["contract"] \in WholeContract

DeclInv ==
  /\ DeclTypeOK /\ DeclAlone
  /\ \A p \in DeclProcs : DeclStands(p) /\ Scaffolds(p) /\ Validates(p)

LEMMA DeclInit0 == DeclInit => DeclInv
<1>. SUFFICES ASSUME DeclInit PROVE DeclInv
  OBVIOUS
<1>1. PICK scene \in DeclScenes : decl = [p \in DeclProcs |-> NewDecl(scene[p])]
  BY DEF DeclInit
<1>2. \A p \in DeclProcs : scene[p] \in DeclCommands
  BY DeclAssumption
<1>3. ASSUME NEW p \in DeclProcs
      PROVE  /\ decl[p] \in DeclProcess /\ decl[p].at = "idle" /\ decl[p].result = "none"
             /\ decl[p].left = <<>>
  BY <1>1, <1>2 DEF NewDecl, DeclProcess, DeclPlaces, DeclResults, Contents
<1>4. decl \in [DeclProcs -> DeclProcess]
  <2>1. DOMAIN decl = DeclProcs /\ decl = [p \in DeclProcs |-> decl[p]]
    BY <1>1
  <2>. QED BY <1>3, <2>1
<1>5. DeclTypeOK
  BY <1>4, DeclAssumption DEF DeclTypeOK, DeclInit, Contents
<1>6. DeclAlone
  BY <1>3 DEF DeclAlone, DeclBusy
<1>7. ASSUME NEW p \in DeclProcs PROVE DeclStands(p) /\ Scaffolds(p) /\ Validates(p)
  BY <1>3 DEF DeclStands, Scaffolds, Validates
<1>. QED BY <1>5, <1>6, <1>7 DEF DeclInv

\* A step of p: whoever else is at work was beside it already, or is now.
LEMMA DeclStepOf ==
  ASSUME DeclInv, NEW p \in DeclProcs,
         decl' = [decl EXCEPT ![p] = decl'[p]], decl'[p] \in DeclProcess,
         tree' \in [DeclFiles -> Contents], UNCHANGED edits,
         fresh' = {} \/ (tree' = tree /\ fresh' \in {fresh, fresh \cup {p}}),
         \/ p \in DeclBusy /\ beside' = beside
         \/ /\ decl[p].at = "idle" /\ tree' = tree
            /\ beside' = IF DeclBusy = {} THEN beside ELSE beside \cup DeclBusy \cup {p},
         DeclStands(p)', Scaffolds(p)', Validates(p)'
  PROVE  DeclInv'
<1>1. /\ decl \in [DeclProcs -> DeclProcess] /\ beside \subseteq DeclProcs
      /\ fresh \subseteq DeclProcs
  BY DEF DeclInv, DeclTypeOK
<1>2. \A q \in DeclProcs : q # p => decl'[q] = decl[q]
  BY <1>1
<1>3. DeclTypeOK'
  <2>1. beside' \subseteq DeclProcs
    BY <1>1 DEF DeclBusy
  <2>2. fresh' \subseteq DeclProcs /\ decl' \in [DeclProcs -> DeclProcess]
    BY <1>1
  <2>. QED BY <2>1, <2>2 DEF DeclInv, DeclTypeOK
<1>4. DeclBusy' \subseteq DeclBusy \cup {p}
  BY <1>2 DEF DeclBusy
<1>5. DeclAlone'
  <2>. SUFFICES ASSUME NEW q \in DeclBusy', q \notin beside' PROVE DeclBusy' = {q}
    BY DEF DeclAlone
  <2>1. CASE p \in DeclBusy /\ beside' = beside
    <3>1. q \in DeclBusy
      BY <1>4, <2>1
    <3>2. DeclBusy = {q}
      BY <2>1, <3>1 DEF DeclInv, DeclAlone
    <3>. QED BY <1>4, <2>1, <3>2
  <2>2. CASE /\ decl[p].at = "idle"
             /\ beside' = IF DeclBusy = {} THEN beside ELSE beside \cup DeclBusy \cup {p}
    BY <1>4, <2>2
  <2>. QED BY <2>1, <2>2
<1>6. ASSUME NEW q \in DeclProcs, q # p PROVE DeclStands(q)' /\ Scaffolds(q)' /\ Validates(q)'
  <2>1. decl'[q] = decl[q] /\ DeclStands(q) /\ Scaffolds(q) /\ Validates(q)
    BY <1>2, <1>6 DEF DeclInv
  <2>2. DeclStands(q)'
    BY <2>1 DEF DeclStands, Op
  <2>3. q \in DeclBusy => q \in beside'
    BY <1>1, <1>6 DEF DeclInv, DeclAlone
  <2>4. Scaffolds(q)'
    BY <2>1, <2>3 DEF Scaffolds, DeclBusy, Op
  <2>5. Validates(q)'
    BY <1>6, <2>1 DEF Validates, Op
  <2>. QED BY <2>2, <2>4, <2>5
<1>. QED BY <1>3, <1>5, <1>6 DEF DeclInv

LEMMA DeclFacts ==
  ASSUME DeclInv, NEW p \in DeclProcs
  PROVE  /\ decl \in [DeclProcs -> DeclProcess] /\ decl[p] \in DeclProcess
         /\ tree \in [DeclFiles -> Contents] /\ decl[p].cmd \in DeclCommands
         /\ decl[p].left \in Seq(DeclFiles)
         /\ DeclStands(p) /\ Scaffolds(p) /\ Validates(p)
  BY DEF DeclInv, DeclTypeOK, DeclProcess

LEMMA DeclGoes ==
  ASSUME DeclInv, NEW p \in DeclProcs, NEW new \in DeclProcess, DeclGo(p, new)
  PROVE  decl' = [decl EXCEPT ![p] = decl'[p]] /\ decl'[p] = new
  BY DeclFacts DEF DeclGo

\* A command that ends has no more to do than not to claim what was not so.
LEMMA DeclEnds ==
  ASSUME DeclInv, NEW p \in DeclProcs, NEW result \in DeclResults
  PROVE  LET over == DeclOver(p, result) IN
         /\ over \in DeclProcess /\ over.cmd = decl[p].cmd /\ over.at = "over"
         /\ over.result = result
<1>. decl[p].cmd \in DeclCommands
  BY DeclFacts
<1>1. /\ NewDecl(decl[p].cmd) \in DeclProcess
      /\ NewDecl(decl[p].cmd).cmd = decl[p].cmd
  BY DEF NewDecl, DeclProcess, DeclPlaces, DeclResults, Contents
<1>2. DeclOver(p, result) = [NewDecl(decl[p].cmd) EXCEPT !.at = "over", !.result = result]
  BY DEF DeclOver
<1>. QED BY <1>1, <1>2 DEF DeclProcess, DeclPlaces

LEMMA DeclOverStep ==
  ASSUME DeclInv, NEW p \in DeclProcs, NEW result \in DeclResults \ {"native_ready"},
         p \in DeclBusy, DeclGo(p, DeclOver(p, result)), UNCHANGED <<tree, declHistory, fresh>>
  PROVE  DeclInv'
<1>1. /\ decl' = [decl EXCEPT ![p] = decl'[p]] /\ decl'[p] \in DeclProcess
      /\ decl'[p].cmd = decl[p].cmd /\ decl'[p].at = "over" /\ decl'[p].result = result
  BY DeclEnds, DeclGoes
<1>2. DeclStands(p)' /\ Scaffolds(p)' /\ Validates(p)'
  BY <1>1 DEF DeclStands, Scaffolds, Validates, Op
<1>. QED BY <1>1, <1>2, DeclFacts, DeclStepOf DEF declHistory

\* A command that starts, unless it ends at once.
LEMMA DeclStartOf ==
  ASSUME DeclInv, NEW p \in DeclProcs, NEW new \in DeclProcess, DeclStarts(p, new),
         new.cmd = decl[p].cmd,
         \/ new.at = "over" /\ new.result # "native_ready"
         \/ /\ new.result = "none"
            /\ \/ new.at = "look" /\ Op(p) = "init" /\ new.left = WriteOrder
                  /\ (new.clean => WholeTree)
               \/ new.at = "keyhole" /\ Op(p) = "passport"
               \/ /\ new.at = "validate" /\ Op(p) = "validate" /\ new.left = ReadOrder
                  /\ new.posture \in {"native", "partially_aligned"}
  PROVE  DeclInv'
<1>1. /\ decl' = [decl EXCEPT ![p] = decl'[p]] /\ decl'[p] = new
      /\ decl[p].at = "idle" /\ UNCHANGED <<tree, edits>> /\ fresh' = fresh \cup {p}
      /\ beside' = IF DeclBusy = {} THEN beside ELSE beside \cup DeclBusy \cup {p}
  BY DeclGoes DEF DeclStarts
<1>2. DeclStands(p)'
  BY <1>1 DEF DeclStands, Op
<1>3. \A f \in DeclFiles : Remains(WriteOrder, f) /\ Remains(ReadOrder, f)
  BY DEF DeclFiles, WriteOrder, ReadOrder, Remains
<1>4. Scaffolds(p)'
  BY <1>1, <1>3 DEF Scaffolds, WholeTree, Unmixed, Op
<1>5. Validates(p)'
  BY <1>1, <1>3 DEF Validates, Op, DeclFiles
<1>. QED BY <1>1, <1>2, <1>4, <1>5, DeclFacts, DeclStepOf

LEMMA StartStep ==
  ASSUME DeclInv, NEW p \in DeclProcs, StartInit(p) \/ StartPassport(p) \/ StartValidate(p)
  PROVE  DeclInv'
<1>1. decl[p] \in DeclProcess /\ decl[p].at = "idle" /\ decl[p].result = "none"
  BY DeclFacts DEF StartInit, StartPassport, StartValidate, DeclStarts, DeclStands
<1>2. ASSUME NEW result \in {"failed", "foreign"}, DeclStarts(p, DeclOver(p, result))
      PROVE  DeclInv'
  <2>1. result \in DeclResults
    BY DEF DeclResults
  <2>. QED BY <1>2, <2>1, DeclEnds, DeclStartOf
<1>3. ASSUME NEW place \in {"keyhole", "look", "validate"}, NEW new \in DeclProcess,
             DeclStarts(p, new), new.cmd = decl[p].cmd, new.at = place,
             new.result = "none",
             place = "keyhole" => Op(p) = "passport",
             place = "look" => /\ Op(p) = "init" /\ new.left = WriteOrder
                               /\ new.clean => WholeTree,
             place = "validate" => /\ Op(p) = "validate" /\ new.left = ReadOrder
                                   /\ new.posture \in {"native", "partially_aligned"}
      PROVE  DeclInv'
  BY <1>3, DeclStartOf
<1>4. CASE StartInit(p)
  <2>. PICK whole \in BOOLEAN : whole = WholeTree
    BY DEF WholeTree
  <2>1. CASE DeclStarts(p, [decl[p] EXCEPT !.at = "look", !.left = WriteOrder, !.clean = whole])
    <3>. DEFINE new == [decl[p] EXCEPT !.at = "look", !.left = WriteOrder, !.clean = whole]
    <3>1. WriteOrder \in Seq(DeclFiles)
      BY DEF WriteOrder, DeclFiles
    <3>2. /\ new \in DeclProcess /\ new.cmd = decl[p].cmd /\ new.at = "look"
          /\ new.left = WriteOrder /\ new.clean = whole /\ new.result = "none"
      BY <1>1, <3>1 DEF DeclProcess, DeclPlaces
    <3>. QED BY <1>3, <1>4, <2>1, <3>2 DEF StartInit
  <2>. QED BY <1>2, <1>4, <2>1 DEF StartInit
<1>5. CASE StartPassport(p)
  <2>1. CASE DeclStarts(p, [decl[p] EXCEPT !.at = "keyhole"])
    <3>. DEFINE new == [decl[p] EXCEPT !.at = "keyhole"]
    <3>1. new \in DeclProcess /\ new.cmd = decl[p].cmd /\ new.at = "keyhole" /\ new.result = "none"
      BY <1>1 DEF DeclProcess, DeclPlaces
    <3>. QED BY <1>3, <1>5, <2>1, <3>1 DEF StartPassport
  <2>. QED BY <1>2, <1>5, <2>1 DEF StartPassport
<1>6. CASE StartValidate(p)
  <2>1. ASSUME NEW posture \in {"native", "partially_aligned"},
               DeclStarts(p, [decl[p] EXCEPT !.at = "validate", !.left = ReadOrder,
                                             !.posture = posture])
        PROVE  DeclInv'
    <3>. DEFINE new == [decl[p] EXCEPT !.at = "validate", !.left = ReadOrder,
                                       !.posture = posture]
    <3>1. ReadOrder \in Seq(DeclFiles)
      BY DEF ReadOrder, DeclFiles
    <3>2. /\ new \in DeclProcess /\ new.cmd = decl[p].cmd /\ new.at = "validate"
          /\ new.left = ReadOrder /\ new.posture = posture /\ new.result = "none"
      BY <1>1, <3>1 DEF DeclProcess, DeclPlaces
    <3>. QED BY <1>3, <1>6, <2>1, <3>2 DEF StartValidate
  <2>2. PICK posture \in {"native", "partially_aligned", "foreign"} :
          DeclStarts(p, IF posture = "foreign" THEN DeclOver(p, "foreign")
                        ELSE [decl[p] EXCEPT !.at = "validate", !.left = ReadOrder,
                                             !.posture = posture])
    BY <1>6 DEF StartValidate, Posture
  <2>. QED BY <1>2, <2>1, <2>2
<1>. QED BY <1>4, <1>5, <1>6

LEMMA LookStep ==
  ASSUME DeclInv, NEW p \in DeclProcs, LookAtFile(p)
  PROVE  DeclInv'
<1>1. /\ decl[p] \in DeclProcess /\ decl[p].at = "look" /\ decl[p].left # <<>>
      /\ decl[p].left \in Seq(DeclFiles) /\ decl[p].result = "none"
      /\ Op(p) # "validate" /\ Scaffolds(p) /\ p \in DeclBusy
      /\ tree \in [DeclFiles -> Contents] /\ UNCHANGED <<tree, declHistory, fresh>>
  BY DeclFacts DEF LookAtFile, DeclStands, DeclBusy
<1>2. CASE Keeps(p)
  <2>. DEFINE new == [decl[p] EXCEPT !.left = Tail(decl[p].left)]
  <2>1. /\ new \in DeclProcess /\ new.cmd = decl[p].cmd /\ new.left = Tail(decl[p].left)
        /\ new.at = "look" /\ new.result = "none" /\ new.clean = decl[p].clean
        /\ new.failed = decl[p].failed
    BY <1>1, RemainsAfter DEF DeclProcess
  <2>2. DeclGo(p, new)
    BY <1>2 DEF LookAtFile
  <2>. HIDE DEF new
  <2>3. decl' = [decl EXCEPT ![p] = decl'[p]] /\ decl'[p] = new
    BY <2>1, <2>2, DeclGoes
  <2>4. DeclStands(p)' /\ Validates(p)'
    BY <1>1, <2>1, <2>3 DEF DeclStands, Validates, Op
  <2>5. \A f : ~Remains(new.left, f) => f = Head(decl[p].left) \/ ~Remains(decl[p].left, f)
    BY <1>1, <2>1, RemainsAfter
  <2>6. Scaffolds(p)'
    BY <1>1, <1>2, <2>1, <2>3, <2>5 DEF Scaffolds, Keeps, Op, declHistory
  <2>. QED BY <1>1, <2>1, <2>3, <2>4, <2>6, DeclStepOf DEF declHistory
<1>3. CASE ~Keeps(p)
  <2>. DEFINE new == [decl[p] EXCEPT !.at = "open"]
  <2>1. /\ new \in DeclProcess /\ new.cmd = decl[p].cmd /\ new.left = decl[p].left
        /\ new.at = "open" /\ new.result = "none" /\ new.clean = decl[p].clean
        /\ new.failed = decl[p].failed
    BY <1>1 DEF DeclProcess, DeclPlaces
  <2>2. DeclGo(p, new)
    BY <1>3 DEF LookAtFile
  <2>. HIDE DEF new
  <2>3. decl' = [decl EXCEPT ![p] = decl'[p]] /\ decl'[p] = new
    BY <2>1, <2>2, DeclGoes
  <2>4. DeclStands(p)' /\ Validates(p)'
    BY <1>1, <2>1, <2>3 DEF DeclStands, Validates, Op
  <2>5. Scaffolds(p)'
    BY <1>1, <2>1, <2>3 DEF Scaffolds, Op, declHistory
  <2>. QED BY <1>1, <2>1, <2>3, <2>4, <2>5, DeclStepOf DEF declHistory
<1>. QED BY <1>2, <1>3

LEMMA OpenDeclarationStep ==
  ASSUME DeclInv, NEW p \in DeclProcs, OpenDeclaration(p)
  PROVE  DeclInv'
<1>1. /\ decl[p] \in DeclProcess /\ decl[p].at = "open" /\ decl[p].left # <<>>
      /\ decl[p].left \in Seq(DeclFiles) /\ decl[p].result = "none"
      /\ Op(p) # "validate" /\ Scaffolds(p) /\ p \in DeclBusy
      /\ tree \in [DeclFiles -> Contents] /\ UNCHANGED declHistory /\ fresh' = {}
  BY DeclFacts DEF OpenDeclaration, DeclStands, DeclBusy
<1>2. Head(decl[p].left) \in DeclFiles /\ Remains(decl[p].left, Head(decl[p].left))
  BY <1>1, RemainsAfter
<1>3. /\ tree' = [tree EXCEPT ![Head(decl[p].left)] = "cut"]
      /\ tree' \in [DeclFiles -> Contents]
  BY <1>1 DEF OpenDeclaration, Contents
<1>. DEFINE new == [decl[p] EXCEPT !.at = "fill"]
<1>4. /\ new \in DeclProcess /\ new.cmd = decl[p].cmd /\ new.left = decl[p].left
      /\ new.at = "fill" /\ new.result = "none" /\ new.clean = decl[p].clean
      /\ new.failed = decl[p].failed
  BY <1>1 DEF DeclProcess, DeclPlaces
<1>5. DeclGo(p, new)
  BY DEF OpenDeclaration
<1>. HIDE DEF new
<1>6. decl' = [decl EXCEPT ![p] = decl'[p]] /\ decl'[p] = new
  BY <1>4, <1>5, DeclGoes
<1>7. DeclStands(p)' /\ Validates(p)'
  BY <1>1, <1>4, <1>6 DEF DeclStands, Validates, Op
<1>8. Scaffolds(p)'
  BY <1>1, <1>2, <1>3, <1>4, <1>6 DEF Scaffolds, Op, declHistory
<1>. QED BY <1>1, <1>3, <1>4, <1>6, <1>7, <1>8, DeclStepOf DEF declHistory

LEMMA NextFileFacts ==
  ASSUME DeclInv, NEW p \in DeclProcs, decl[p].left # <<>>
  PROVE  LET new == NextFile(p)
             noted == [new EXCEPT !.failed = TRUE]
         IN
         /\ new \in DeclProcess /\ new.cmd = decl[p].cmd /\ new.at = "look"
         /\ new.left = Tail(decl[p].left) /\ new.result = decl[p].result
         /\ new.clean = decl[p].clean /\ new.failed = decl[p].failed
         /\ noted \in DeclProcess /\ noted.cmd = decl[p].cmd /\ noted.at = "look"
         /\ noted.result = decl[p].result /\ noted.failed
<1>1. decl[p] \in DeclProcess /\ Tail(decl[p].left) \in Seq(DeclFiles)
  BY DeclFacts, RemainsAfter
<1>. QED BY <1>1 DEF NextFile, DeclProcess, DeclPlaces

LEMMA FillDeclarationStep ==
  ASSUME DeclInv, NEW p \in DeclProcs, FillDeclaration(p)
  PROVE  DeclInv'
<1>1. /\ decl[p] \in DeclProcess /\ decl[p].at = "fill" /\ decl[p].left # <<>>
      /\ decl[p].left \in Seq(DeclFiles) /\ decl[p].result = "none"
      /\ Op(p) # "validate" /\ Scaffolds(p) /\ p \in DeclBusy /\ decl[p].cmd \in DeclCommands
      /\ tree \in [DeclFiles -> Contents] /\ UNCHANGED declHistory /\ fresh' = {}
  BY DeclFacts DEF FillDeclaration, DeclStands, DeclBusy
<1>. DEFINE f == Head(decl[p].left)
<1>2. f \in DeclFiles /\ \A g : ~Remains(Tail(decl[p].left), g) => g = f \/ ~Remains(decl[p].left, g)
  BY <1>1, RemainsAfter
<1>3. PICK c \in {Author(p)} \cup (IF tree[f] = "cut" THEN {} ELSE {"mixed"}) :
        tree' = [tree EXCEPT ![f] = c]
  BY DEF FillDeclaration
<1>. HIDE DEF f
<1>4. Author(p) \in Contents /\ (Op(p) = "init" => decl[p].cmd.name \in ScaffoldNames)
  BY <1>1 DEF Author, Contents, DeclCommands, Op
<1>5. tree' \in [DeclFiles -> Contents]
  BY <1>1, <1>3, <1>4 DEF Contents
<1>. DEFINE new == NextFile(p)
<1>6. DeclGo(p, new)
  BY DEF FillDeclaration
<1>7. /\ new \in DeclProcess /\ new.cmd = decl[p].cmd /\ new.at = "look"
      /\ new.left = Tail(decl[p].left) /\ new.result = "none" /\ new.clean = decl[p].clean
      /\ new.failed = decl[p].failed
  BY <1>1, NextFileFacts
<1>. HIDE DEF new
<1>8. decl' = [decl EXCEPT ![p] = decl'[p]] /\ decl'[p] = new
  BY <1>6, <1>7, DeclGoes
<1>9. DeclStands(p)' /\ Validates(p)'
  BY <1>1, <1>7, <1>8 DEF DeclStands, Validates, Op
<1>10. Scaffolds(p)'
  <2>. SUFFICES ASSUME Op(p) = "init", p \notin beside, ~decl[p].failed
                PROVE  Scaffolds(p)'
    BY <1>1, <1>7, <1>8 DEF Scaffolds, Op, declHistory
  <2>1. tree[f] = "cut" /\ c = decl[p].cmd.name /\ Unmixed(c) /\ c # "none"
    BY <1>1, <1>3, <1>4, DeclAssumption DEF f, Scaffolds, Author, Unmixed
  <2>2. \A g \in DeclFiles : tree'[g] = IF g = f THEN c ELSE tree[g]
    BY <1>1, <1>3
  <2>3. decl[p].clean => \A g \in DeclFiles : Unmixed(tree'[g])
    BY <1>1, <2>1, <2>2 DEF Scaffolds, f
  <2>4. \A g \in DeclFiles : ~Remains(new.left, g) =>
          /\ decl[p].cmd.force => tree'[g] = decl[p].cmd.name
          /\ decl[p].clean => Unmixed(tree'[g]) /\ tree'[g] # "none"
    BY <1>1, <1>2, <1>7, <2>1, <2>2 DEF Scaffolds
  <2>. QED BY <1>7, <1>8, <2>3, <2>4 DEF Scaffolds, Unmixed
<1>. QED BY <1>1, <1>5, <1>7, <1>8, <1>9, <1>10, DeclStepOf DEF declHistory

LEMMA WritesEndStep ==
  ASSUME DeclInv, NEW p \in DeclProcs, WriteFails(p) \/ AllWritten(p) \/ DeclKilled(p)
  PROVE  DeclInv'
<1>1. CASE WriteFails(p)
  <2>1. /\ decl[p].at \in {"open", "fill"} /\ decl[p].left # <<>> /\ decl[p].result = "none"
        /\ Op(p) # "validate" /\ p \in DeclBusy /\ UNCHANGED <<tree, declHistory, fresh>>
    BY <1>1, DeclFacts DEF WriteFails, DeclStands, DeclBusy
  <2>. DEFINE new == [NextFile(p) EXCEPT !.failed = TRUE]
  <2>2. /\ new \in DeclProcess /\ new.cmd = decl[p].cmd /\ new.at = "look"
        /\ new.result = "none" /\ new.failed
    BY <2>1, NextFileFacts
  <2>3. DeclGo(p, new)
    BY <1>1 DEF WriteFails
  <2>. HIDE DEF new
  <2>4. decl' = [decl EXCEPT ![p] = decl'[p]] /\ decl'[p] = new
    BY <2>2, <2>3, DeclGoes
  <2>5. DeclStands(p)' /\ Scaffolds(p)' /\ Validates(p)'
    BY <2>1, <2>2, <2>4 DEF DeclStands, Scaffolds, Validates, Op
  <2>. QED BY <2>1, <2>2, <2>4, <2>5, DeclFacts, DeclStepOf DEF declHistory
<1>2. CASE AllWritten(p)
  <2>1. WriteResult(p) \in DeclResults \ {"native_ready"}
    BY DEF WriteResult, DeclResults
  <2>. QED BY <1>2, <2>1, DeclOverStep DEF AllWritten, DeclBusy
<1>3. CASE DeclKilled(p)
  BY <1>3, DeclOverStep DEF DeclKilled, DeclResults
<1>. QED BY <1>1, <1>2, <1>3

LEMMA PassportStep ==
  ASSUME DeclInv, NEW p \in DeclProcs, PassportReadsKeyhole(p) \/ PassportReadsContract(p)
  PROVE  DeclInv'
<1>1. /\ decl[p] \in DeclProcess /\ decl[p].at \in {"keyhole", "contract"}
      /\ Op(p) = "passport" /\ decl[p].result = "none" /\ p \in DeclBusy
      /\ UNCHANGED <<tree, declHistory, fresh>>
  BY DeclFacts DEF PassportReadsKeyhole, PassportReadsContract, DeclStands, DeclBusy
<1>2. ASSUME NEW new \in DeclProcess, DeclGo(p, new), new.cmd = decl[p].cmd,
             new.result = "none", new.at = "contract" \/ (new.at = "open" /\ new.left # <<>>)
      PROVE  DeclInv'
  <2>1. decl' = [decl EXCEPT ![p] = decl'[p]] /\ decl'[p] = new
    BY <1>2, DeclGoes
  <2>2. DeclStands(p)' /\ Scaffolds(p)' /\ Validates(p)'
    BY <1>1, <1>2, <2>1 DEF DeclStands, Scaffolds, Validates, Op
  <2>. QED BY <1>1, <2>1, <2>2, DeclFacts, DeclStepOf DEF declHistory
<1>3. CASE DeclGo(p, DeclOver(p, "failed"))
  BY <1>1, <1>3, DeclOverStep DEF DeclResults
<1>4. CASE DeclGo(p, [decl[p] EXCEPT !.at = "contract"])
  <2>. DEFINE new == [decl[p] EXCEPT !.at = "contract"]
  <2>1. new \in DeclProcess /\ new.cmd = decl[p].cmd /\ new.result = "none" /\ new.at = "contract"
    BY <1>1 DEF DeclProcess, DeclPlaces
  <2>. QED BY <1>2, <1>4, <2>1
<1>5. CASE DeclGo(p, [decl[p] EXCEPT !.at = "open", !.left = <<"passport">>])
  <2>. DEFINE new == [decl[p] EXCEPT !.at = "open", !.left = <<"passport">>]
  <2>1. <<"passport">> \in Seq(DeclFiles) /\ <<"passport">> # <<>>
    BY DEF DeclFiles
  <2>2. /\ new \in DeclProcess /\ new.cmd = decl[p].cmd /\ new.result = "none"
        /\ new.at = "open" /\ new.left # <<>>
    BY <1>1, <2>1 DEF DeclProcess, DeclPlaces
  <2>. QED BY <1>2, <1>5, <2>2
<1>. QED BY <1>3, <1>4, <1>5 DEF PassportReadsKeyhole, PassportReadsContract

\* A file that a native repository must have is not found without an issue
\* unless it is there and whole.
LEMMA NothingFound ==
  /\ \A c \in Contents \ {"none"} :
       /\ {} \in FileIssues("keyhole", c) => c = "good"
       /\ {} \in FileIssues("contract", c) => c \in WholeContract
  /\ \A issues : Worst(issues) = "none" => issues = {}
  /\ \A one, other \in {"none", "warning", "error"} :
       /\ Worse(one, other) \in {"none", "warning", "error"}
       /\ Worse(one, other) = "none" => one = "none" /\ other = "none"
  /\ \A issues : Worst(issues) \in {"none", "warning", "error"}
<1>1. ASSUME NEW c \in Contents \ {"none"}
      PROVE  /\ {} \in FileIssues("keyhole", c) => c = "good"
             /\ {} \in FileIssues("contract", c) => c \in WholeContract
  <2>1. CASE c = "cut"
    <3>1. /\ FileIssues("keyhole", c) = {EmptyIssues["keyhole"]}
          /\ FileIssues("contract", c) = {EmptyIssues["contract"]}
      BY <2>1, DeclAssumption DEF FileIssues
    <3>2. EmptyIssues["keyhole"] # {} /\ EmptyIssues["contract"] # {}
      BY DEF EmptyIssues
    <3>. QED BY <3>1, <3>2
  <2>2. CASE c \in ScaffoldNames \cup {"generated"}
    <3>1. c \notin {"cut", "bad", "mixed", "loose"} /\ c \in WholeContract
      BY <2>2, DeclAssumption DEF WholeContract, UserContents
    <3>2. FileIssues("keyhole", c) = {ScaffoldIssues["keyhole"]}
      BY <2>2, <3>1 DEF FileIssues
    <3>3. ScaffoldIssues["keyhole"] # {}
      BY DEF ScaffoldIssues
    <3>. QED BY <3>1, <3>2, <3>3
  <2>3. CASE c \in {"bad", "mixed"}
    <3>1. c # "cut" /\ c \notin ScaffoldNames \cup {"generated"}
      BY <2>3, DeclAssumption DEF UserContents
    <3>2. /\ FileIssues("keyhole", c) = {{r} : r \in Bad["keyhole"]}
          /\ FileIssues("contract", c) = {{r} : r \in Bad["contract"]}
      BY <2>3, <3>1 DEF FileIssues
    <3>. QED BY <3>2
  <2>4. CASE c = "loose"
    <3>1. c \in WholeContract
      BY <2>4 DEF WholeContract
    <3>2. FileIssues("keyhole", c) = {{"missing_optional_schema_version"}}
      BY <2>4, DeclAssumption DEF FileIssues, UserContents
    <3>. QED BY <3>1, <3>2
  <2>5. CASE c = "good"
    BY <2>5 DEF WholeContract
  <2>. QED BY <2>1, <2>2, <2>3, <2>4, <2>5 DEF Contents, UserContents
<1>2. \A issues : /\ Worst(issues) = "none" => issues = {}
                  /\ Worst(issues) \in {"none", "warning", "error"}
  BY DEF Worst
<1>3. \A one, other \in {"none", "warning", "error"} :
        /\ Worse(one, other) \in {"none", "warning", "error"}
        /\ Worse(one, other) = "none" => one = "none" /\ other = "none"
  BY DEF Worse
<1>. QED BY <1>1, <1>2, <1>3

\* A validation that goes on, and complains of whatever it complained of before.
LEMMA ValidationGoes ==
  ASSUME DeclInv, NEW p \in DeclProcs, NEW new \in DeclProcess, DeclGo(p, new),
         p \in DeclBusy, Op(p) = "validate", UNCHANGED <<tree, declHistory, fresh>>,
         new.cmd = decl[p].cmd, new.posture = decl[p].posture, new.result = "none",
         new.posture \in {"native", "partially_aligned"},
         new.at \in {"validate", "compare", "judge"},
         new.at # "validate" => new.left = <<>>,
         p \in fresh /\ new.posture = "native" /\ new.worst = "none" =>
           /\ ~Remains(new.left, "keyhole") => tree["keyhole"] = "good"
           /\ ~Remains(new.left, "contract") => tree["contract"] \in WholeContract
  PROVE  DeclInv'
<1>1. decl' = [decl EXCEPT ![p] = decl'[p]] /\ decl'[p] = new
  BY DeclGoes
<1>2. DeclStands(p)' /\ Scaffolds(p)'
  BY <1>1 DEF DeclStands, Scaffolds, Op
<1>3. Validates(p)'
  BY <1>1 DEF Validates, Op
<1>. QED BY <1>1, <1>2, <1>3, DeclFacts, DeclStepOf DEF declHistory

LEMMA ValidationFacts ==
  ASSUME DeclInv, NEW p \in DeclProcs, decl[p].at \in {"validate", "compare", "judge"}
  PROVE  /\ decl[p] \in DeclProcess /\ tree \in [DeclFiles -> Contents]
         /\ p \in DeclBusy /\ Op(p) = "validate" /\ decl[p].result = "none"
         /\ decl[p].posture \in {"native", "partially_aligned"}
         /\ decl[p].at \in {"compare", "judge"} => decl[p].left = <<>>
         /\ p \in fresh /\ decl[p].posture = "native" /\ decl[p].worst = "none" =>
              /\ ~Remains(decl[p].left, "keyhole") => tree["keyhole"] = "good"
              /\ ~Remains(decl[p].left, "contract") => tree["contract"] \in WholeContract
  BY DeclFacts DEF DeclStands, DeclBusy, Validates

LEMMA ValidateFileStep ==
  ASSUME DeclInv, NEW p \in DeclProcs, ValidateFile(p)
  PROVE  DeclInv'
<1>1. /\ decl[p].at = "validate" /\ decl[p].left # <<>> /\ decl[p].left \in Seq(DeclFiles)
      /\ UNCHANGED <<tree, declHistory, fresh>>
  BY DeclFacts DEF ValidateFile
<1>. DEFINE f == Head(decl[p].left)
<1>2. /\ f \in DeclFiles /\ Tail(decl[p].left) \in Seq(DeclFiles)
      /\ \A g : ~Remains(Tail(decl[p].left), g) => g = f \/ ~Remains(decl[p].left, g)
  BY <1>1, RemainsAfter
<1>3. PICK issues :
        /\ DeclGo(p, Finds(p, issues))
        /\ tree[f] = "none" /\ f \in {"keyhole", "contract"} /\ decl[p].posture = "native" =>
             issues # {}
        /\ tree[f] # "none" => issues \in FileIssues(f, tree[f])
  <2>1. CASE tree[f] = "none"
    BY <2>1 DEF ValidateFile
  <2>2. CASE tree[f] # "none"
    BY <2>2 DEF ValidateFile
  <2>. QED BY <2>1, <2>2
<1>. HIDE DEF f
<1>. DEFINE new == Finds(p, issues)
<1>4. /\ new \in DeclProcess /\ new.cmd = decl[p].cmd /\ new.posture = decl[p].posture
      /\ new.result = "none" /\ new.at = "validate" /\ new.left = Tail(decl[p].left)
      /\ new.worst = Worse(decl[p].worst, Worst(issues))
  <2>1. /\ decl[p] \in DeclProcess /\ decl[p].result = "none"
        /\ decl[p].worst \in {"none", "warning", "error"}
    BY <1>1, ValidationFacts DEF DeclProcess
  <2>2. Worst(issues) \in {"none", "warning", "error"}
    BY DEF Worst
  <2>3. Worse(decl[p].worst, Worst(issues)) \in {"none", "warning", "error"}
    BY DEF Worse
  <2>. QED BY <1>1, <1>2, <2>1, <2>3 DEF Finds, DeclProcess
<1>. HIDE DEF new
<1>5. ASSUME p \in fresh, new.posture = "native", new.worst = "none"
      PROVE  /\ ~Remains(new.left, "keyhole") => tree["keyhole"] = "good"
             /\ ~Remains(new.left, "contract") => tree["contract"] \in WholeContract
  <2>1. decl[p].worst = "none" /\ issues = {}
    <3>1. /\ decl[p].worst \in {"none", "warning", "error"}
          /\ Worst(issues) \in {"none", "warning", "error"}
          /\ Worst(issues) = "none" => issues = {}
      BY <1>1, ValidationFacts DEF DeclProcess, Worst
    <3>2. Worse(decl[p].worst, Worst(issues)) = "none"
      BY <1>4, <1>5
    <3>. QED BY <3>1, <3>2 DEF Worse
  <2>2. f \in {"keyhole", "contract"} =>
          /\ tree[f] \in Contents \ {"none"} /\ {} \in FileIssues(f, tree[f])
    BY <1>1, <1>2, <1>3, <1>4, <1>5, <2>1, ValidationFacts
  <2>3. /\ f = "keyhole" => tree["keyhole"] = "good"
        /\ f = "contract" => tree["contract"] \in WholeContract
    BY <2>2, NothingFound
  <2>. QED BY <1>1, <1>2, <1>4, <1>5, <2>1, <2>3, ValidationFacts
<1>6. DeclGo(p, new)
  BY <1>3 DEF new
<1>. QED BY <1>1, <1>4, <1>5, <1>6, ValidationFacts, ValidationGoes

LEMMA ValidatedStep ==
  ASSUME DeclInv, NEW p \in DeclProcs, ValidateProviders(p) \/ ReadProduces(p)
  PROVE  DeclInv'
<1>1. CASE ValidateProviders(p)
  <2>1. decl[p].at = "validate" /\ decl[p].left = <<>> /\ UNCHANGED <<tree, declHistory, fresh>>
    BY <1>1 DEF ValidateProviders
  <2>2. PICK worst \in {decl[p].worst,
                        Worse(decl[p].worst, Worst({"dependency_provider_missing"}))} :
          DeclGo(p, [decl[p] EXCEPT !.at = "compare", !.worst = worst])
    BY <1>1 DEF ValidateProviders
  <2>3. worst \in {"none", "warning", "error"} /\ (worst = "none" => decl[p].worst = "none")
    BY <2>1, ValidationFacts, NothingFound DEF DeclProcess
  <2>. DEFINE new == [decl[p] EXCEPT !.at = "compare", !.worst = worst]
  <2>4. /\ new \in DeclProcess /\ new.cmd = decl[p].cmd /\ new.posture = decl[p].posture
        /\ new.result = "none" /\ new.at = "compare" /\ new.left = <<>>
        /\ new.worst = worst
    BY <2>1, <2>3, ValidationFacts DEF DeclProcess, DeclPlaces
  <2>5. DeclGo(p, new)
    BY <2>2
  <2>. HIDE DEF new
  <2>. QED BY <2>1, <2>3, <2>4, <2>5, ValidationFacts, ValidationGoes
<1>2. CASE ReadProduces(p)
  <2>1. decl[p].at = "compare" /\ UNCHANGED <<tree, declHistory, fresh>>
    BY <1>2 DEF ReadProduces
  <2>. DEFINE new == [decl[p] EXCEPT !.at = "judge", !.contract = tree["contract"]]
  <2>2. tree["contract"] \in Contents
    BY <2>1, ValidationFacts DEF DeclFiles
  <2>3. /\ new \in DeclProcess /\ new.cmd = decl[p].cmd /\ new.posture = decl[p].posture
        /\ new.result = "none" /\ new.at = "judge" /\ new.left = <<>>
        /\ new.worst = decl[p].worst
    BY <2>1, <2>2, ValidationFacts DEF DeclProcess, DeclPlaces
  <2>4. DeclGo(p, new)
    BY <1>2 DEF ReadProduces
  <2>. HIDE DEF new
  <2>5. decl[p].left = <<>>
    BY <2>1, ValidationFacts
  <2>. QED BY <2>1, <2>3, <2>4, <2>5, ValidationFacts, ValidationGoes
<1>. QED BY <1>1, <1>2

LEMMA JudgeStep ==
  ASSUME DeclInv, NEW p \in DeclProcs, Judge(p)
  PROVE  DeclInv'
<1>1. /\ decl[p].at = "judge" /\ decl[p].left = <<>> /\ UNCHANGED <<tree, declHistory, fresh>>
      /\ decl[p].worst \in {"none", "warning", "error"}
  BY ValidationFacts DEF Judge, DeclProcess
<1>. DEFINE worst == Worse(decl[p].worst,
                           Worst(Incompatible(decl[p].contract, tree["dependencies"])))
            result == Readiness(decl[p].posture, Verdict(worst, decl[p].cmd.strict))
<1>2. DeclGo(p, DeclOver(p, result))
  BY DEF Judge
<1>3. /\ result \in {"partially_aligned", "native_ready", "not_ready"}
      /\ result = "native_ready" => decl[p].posture # "partially_aligned" /\ worst = "none"
  BY DEF Readiness, Verdict
<1>4. worst = "none" => decl[p].worst = "none"
  BY <1>1, NothingFound
<1>. HIDE DEF worst, result
<1>5. /\ decl' = [decl EXCEPT ![p] = decl'[p]] /\ decl'[p] \in DeclProcess
      /\ decl'[p].cmd = decl[p].cmd /\ decl'[p].at = "over" /\ decl'[p].result = result
  BY <1>2, <1>3, DeclEnds, DeclGoes DEF DeclResults
<1>6. DeclStands(p)' /\ Scaffolds(p)'
  BY <1>5 DEF DeclStands, Scaffolds
<1>7. \A f : ~Remains(<<>>, f)
  BY DEF Remains
<1>8. Validates(p)'
  BY <1>1, <1>3, <1>4, <1>5, <1>7, ValidationFacts DEF Validates, Op
<1>. QED BY <1>1, <1>5, <1>6, <1>8, ValidationFacts, DeclStepOf DEF declHistory

\* A user who edits is beside every command that is at work.
LEMMA EditStep ==
  ASSUME DeclInv, NEW e \in UserEdits, Edit(e[1], e[2])
  PROVE  DeclInv'
<1>1. /\ tree \in [DeclFiles -> Contents] /\ beside \subseteq DeclProcs /\ edits \in 0..MaxEdits
      /\ e[1] \in DeclFiles /\ e[2] \in Contents /\ MaxEdits \in Nat
  BY DeclAssumption DEF DeclInv, DeclTypeOK, Contents
<1>2. /\ tree' = [tree EXCEPT ![e[1]] = e[2]] /\ edits < MaxEdits /\ edits' = edits + 1
      /\ beside' = beside \cup DeclBusy /\ fresh' = {} /\ decl' = decl
  BY DEF Edit
<1>3. DeclBusy' = DeclBusy /\ DeclBusy \subseteq beside' /\ beside' \subseteq DeclProcs
  BY <1>1, <1>2 DEF DeclBusy
<1>4. tree' \in [DeclFiles -> Contents] /\ edits' \in 0..MaxEdits
  BY <1>1, <1>2
<1>5. DeclTypeOK'
  BY <1>2, <1>3, <1>4 DEF DeclInv, DeclTypeOK
<1>6. DeclAlone'
  BY <1>3 DEF DeclAlone
<1>7. ASSUME NEW p \in DeclProcs PROVE DeclStands(p)' /\ Scaffolds(p)' /\ Validates(p)'
  <2>1. DeclStands(p)'
    BY <1>2 DEF DeclInv, DeclStands, Op
  <2>2. Scaffolds(p)'
    BY <1>2, <1>3 DEF Scaffolds, DeclBusy
  <2>3. Validates(p)'
    BY <1>2 DEF Validates
  <2>. QED BY <2>1, <2>2, <2>3
<1>. QED BY <1>5, <1>6, <1>7 DEF DeclInv

LEMMA DeclStep ==
  ASSUME DeclInv, [DeclNext]_declVars
  PROVE  DeclInv'
<1>1. CASE UNCHANGED declVars
  BY <1>1 DEF declVars, DeclInv, DeclTypeOK, DeclAlone, DeclBusy, DeclStands, Scaffolds, Validates, Op
<1>2. CASE DeclNext
  BY <1>2, StartStep, LookStep, OpenDeclarationStep, FillDeclarationStep, WritesEndStep,
     PassportStep, ValidateFileStep, ValidatedStep, JudgeStep, EditStep DEF DeclNext
<1>. QED BY <1>1, <1>2

\* The declarations, and the commands on them, keep their types.
THEOREM DeclTypeCorrect == DeclSpec => []DeclTypeOK
<1>1. DeclInv => DeclTypeOK
  BY DEF DeclInv
<1>. QED BY DeclInit0, DeclStep, <1>1, PTL DEF DeclSpec

\* An init that ran alone has left no declaration out, cut or mixed, and a
\* forced one has left its own everywhere.
LEMMA SuccessIsWhole ==
  ASSUME DeclInv, [DeclNext]_declVars, NEW p \in DeclProcs, InitSucceeds(p), p \notin beside,
         decl[p].cmd.force \/ decl[p].clean
  PROVE  /\ \A f \in DeclFiles : tree'[f] \notin {"none", "cut", "mixed"}
         /\ decl[p].cmd.force => \A f \in DeclFiles : tree'[f] = decl[p].cmd.name
<1>1. /\ decl[p].at = "look" /\ Op(p) = "init" /\ decl[p].result = "none"
      /\ decl'[p].result = "success" /\ decl[p].cmd.name \in ScaffoldNames
  BY DeclFacts DEF InitSucceeds, DeclStands, DeclCommands, Op
<1>2. DeclNext
  BY <1>1 DEF declVars
<1>3. AllWritten(p)
  <2>1. ASSUME NEW q \in DeclProcs, NEW new, DeclGo(q, new), q # p PROVE FALSE
    BY <1>1, <2>1, DeclFacts DEF DeclGo
  <2>2. ~LookAtFile(p)
    <3>1. /\ decl \in [DeclProcs -> DeclProcess]
          /\ [decl[p] EXCEPT !.left = Tail(decl[p].left)].result = "none"
          /\ [decl[p] EXCEPT !.at = "open"].result = "none"
      BY <1>1, DeclFacts DEF DeclProcess
    <3>. QED BY <1>1, <3>1 DEF LookAtFile, DeclGo
  <2>4. ~DeclKilled(p)
    <3>1. decl \in [DeclProcs -> DeclProcess] /\ DeclOver(p, "killed").result = "killed"
      BY DeclFacts, DeclEnds DEF DeclResults
    <3>. QED BY <1>1, <3>1 DEF DeclKilled, DeclGo
  <2>3. ~\E e \in UserEdits : Edit(e[1], e[2])
    BY <1>1 DEF Edit
  <2>. QED
    BY <1>1, <1>2, <2>1, <2>2, <2>3, <2>4
    DEF DeclNext, StartInit, LookAtFile, OpenDeclaration, FillDeclaration, WriteFails, AllWritten,
        DeclKilled, StartPassport, PassportReadsKeyhole, PassportReadsContract, StartValidate,
        ValidateFile, ValidateProviders, ReadProduces, Judge, DeclStarts
<1>4. WriteResult(p) \in DeclResults
  BY DEF WriteResult, DeclResults
<1>5. ~decl[p].failed /\ decl[p].left = <<>> /\ tree' = tree
  <2>1. WriteResult(p) = "success"
    BY <1>1, <1>3, <1>4, DeclFacts, DeclEnds DEF AllWritten, DeclGo
  <2>. QED BY <1>1, <1>3, <2>1 DEF AllWritten, WriteResult
<1>6. \A f : ~Remains(<<>>, f)
  BY DEF Remains
<1>. QED BY <1>1, <1>5, <1>6, DeclFacts, DeclAssumption DEF Scaffolds, Unmixed

THEOREM ScaffoldsAreWhole == DeclSpec => ScaffoldIsWhole
<1>1. DeclInv /\ [DeclNext]_declVars =>
        [\A p \in DeclProcs :
           InitSucceeds(p) /\ p \notin beside /\ (decl[p].cmd.force \/ decl[p].clean) =>
             /\ \A f \in DeclFiles : tree'[f] \notin {"none", "cut", "mixed"}
             /\ decl[p].cmd.force => \A f \in DeclFiles : tree'[f] = decl[p].cmd.name]_declVars
  BY SuccessIsWhole
<1>. QED BY DeclInit0, DeclStep, <1>1, PTL DEF DeclSpec, ScaffoldIsWhole

-----------------------------------------------------------------------------
(* The adoption.  Once an ingestion has been sent, what became of it does    *)
(* not change, and its proof says nothing else.                              *)

Settled(q) == adopt[q].cmd.op = "ingest" /\ adopt[q].at \in {"open", "fill", "over"}

Ingests(q) ==
  LET a == adopt[q] IN
  /\ a.outcome \in Taken => boundary[q] = "taken"
  /\ a.outcome \in Rejected => boundary[q] = "refused"
  /\ a.outcome \in {NoOutcome} \cup Taken \cup Rejected
  /\ a.at \in {"session", "open", "fill"} => a.cmd.op = "ingest"
  /\ a.at \in {"open", "fill"} => a.left \in Seq({"request", "response"})
  /\ a.at = "fill" => a.left # <<>>
  /\ proofs[q].request # "none" => Settled(q)
  /\ proofs[q].response # "none" => Settled(q)
  /\ a.outcome # NoOutcome => Settled(q)

\* What a registration or an alignment has of an ingestion.
CitesTruly(a) ==
  /\ a.cmd.op = "align" /\ ~a.authed /\ a.result = "registration_ready" =>
       a.id \in IngestIds /\ Settled(a.id.of) /\ boundary[a.id.of] = "taken"
  /\ a.reference # NoReference =>
       LET of == a.reference.id.of IN
       /\ a.reference.id \in IngestIds /\ Settled(of)
       /\ a.reference.posture # "foreign" \/ a.reference.id.by = "ingestion" =>
            boundary[of] \in {"taken", "refused"}
       /\ a.reference.scaffold => adopt[of].scaffold
  /\ a.at # "over" => a.result = "none"

\* What a registration has read that follows a validation which is fresh.
ReadsFresh(a) ==
  /\ a.at \in {"read", "assess"} => a.cmd.op = "register" /\ a.left \in Seq(DeclFiles)
  /\ \A v \in a.checked :
       Op(v) = "validate" /\ decl[v].at = "over" /\ decl[v].result = "native_ready"
  /\ a.at = "assess" => a.left = <<>>
  /\ a.at \in {"read", "assess"} /\ a.checked \cap fresh # {} =>
       \A f \in {"keyhole", "contract"} :
         ~Remains(a.left, f) => a.artifacts[f] = "declared"

AdoptInv ==
  /\ DeclInv /\ AdoptTypeOK
  /\ \A p \in AdoptProcs : Ingests(p) /\ CitesTruly(adopt[p]) /\ ReadsFresh(adopt[p])

LEMMA AdoptInit0 == DeclInit /\ AdoptInit => AdoptInv
<1>. SUFFICES ASSUME DeclInit, AdoptInit PROVE AdoptInv
  OBVIOUS
<1>1. PICK scene \in AdoptScenes : adopt = [p \in AdoptProcs |-> NewAdopt(scene[p])]
  BY DEF AdoptInit
<1>2. \A p \in AdoptProcs : scene[p] \in AdoptCommands
  BY AdoptAssumption
<1>3. /\ NoOutcome \in Outcomes
      /\ NoReference \in [id : IngestIds \cup {NoId}, posture : {"foreign", "aligned"},
                          scaffold : BOOLEAN]
      /\ NoOutcome \notin Taken \cup Rejected
  BY DEF NoOutcome, Outcomes, NoReference, Taken, Rejected
<1>4. ASSUME NEW p \in AdoptProcs
      PROVE  /\ adopt[p] \in AdoptProcess /\ adopt[p].at = "idle" /\ adopt[p].result = "none"
             /\ adopt[p].outcome = NoOutcome /\ adopt[p].reference = NoReference
             /\ adopt[p].checked = {}
  BY <1>1, <1>2, <1>3 DEF NewAdopt, AdoptProcess, AdoptPlaces, AdoptResults
<1>5. adopt \in [AdoptProcs -> AdoptProcess]
  <2>1. adopt = [p \in AdoptProcs |-> adopt[p]]
    BY <1>1
  <2>. QED BY <1>4, <2>1
<1>6. /\ proofs = [p \in AdoptProcs |-> [request |-> "none", response |-> "none"]]
      /\ boundary = [p \in AdoptProcs |-> "unasked"]
  BY DEF AdoptInit
<1>7. AdoptTypeOK
  BY <1>5, <1>6 DEF AdoptTypeOK
<1>8. ASSUME NEW p \in AdoptProcs
      PROVE  Ingests(p) /\ CitesTruly(adopt[p]) /\ ReadsFresh(adopt[p])
  BY <1>3, <1>4, <1>6 DEF Ingests, CitesTruly, ReadsFresh
<1>. QED BY <1>7, <1>8, DeclInit0 DEF AdoptInv

LEMMA AdoptFacts ==
  ASSUME AdoptInv, NEW p \in AdoptProcs
  PROVE  /\ DeclInv /\ adopt \in [AdoptProcs -> AdoptProcess] /\ adopt[p] \in AdoptProcess
         /\ proofs \in [AdoptProcs -> [request : {"none", "cut", "whole"},
                                       response : {"none", "cut", "whole"}]]
         /\ boundary \in [AdoptProcs -> {"unasked", "taken", "refused"}]
         /\ Ingests(p) /\ CitesTruly(adopt[p]) /\ ReadsFresh(adopt[p])
  BY DEF AdoptInv, AdoptTypeOK

\* A step of p: what others cite of its ingestion, if it is settled, stays so.
LEMMA AdoptStepOf ==
  ASSUME AdoptInv, NEW p \in AdoptProcs, NEW new \in AdoptProcess, AdoptGo(p, new),
         UNCHANGED declVars, new.cmd = adopt[p].cmd,
         proofs' \in [AdoptProcs -> [request : {"none", "cut", "whole"},
                                     response : {"none", "cut", "whole"}]],
         boundary' \in [AdoptProcs -> {"unasked", "taken", "refused"}],
         \A q \in AdoptProcs \ {p} : proofs'[q] = proofs[q] /\ boundary'[q] = boundary[q],
         Settled(p) => /\ new.at \in {"open", "fill", "over"} /\ boundary'[p] = boundary[p]
                       /\ new.scaffold = adopt[p].scaffold,
         Ingests(p)', CitesTruly(new), ReadsFresh(new)
  PROVE  AdoptInv'
<1>1. /\ adopt' \in [AdoptProcs -> AdoptProcess] /\ adopt'[p] = new
      /\ \A q \in AdoptProcs \ {p} : adopt'[q] = adopt[q]
  BY AdoptFacts DEF AdoptGo
<1>2. DeclInv'
  <2>1. [DeclNext]_declVars
    OBVIOUS
  <2>. QED BY <2>1, AdoptFacts, DeclStep
<1>3. AdoptTypeOK'
  BY <1>1 DEF AdoptTypeOK
<1>4. \A q \in AdoptProcs : Settled(q) =>
        Settled(q)' /\ boundary'[q] = boundary[q] /\ adopt'[q].scaffold = adopt[q].scaffold
  BY <1>1 DEF Settled
<1>5. ASSUME NEW q \in AdoptProcs
      PROVE  Ingests(q)' /\ CitesTruly(adopt[q])' /\ ReadsFresh(adopt[q])'
  <2>1. Ingests(q)'
    BY <1>1, AdoptFacts DEF Ingests, Settled
  <2>. PICK a \in AdoptProcess : a = adopt'[q]
    BY <1>1
  <2>2. CitesTruly(a) /\ ReadsFresh(a)
    BY <1>1, AdoptFacts
  <2>3. CitesTruly(adopt[q])'
    <3>1. \A i \in IngestIds : i.of \in AdoptProcs
      BY DEF IngestIds
    <3>. QED BY <1>4, <2>2, <3>1 DEF CitesTruly
  <2>4. ReadsFresh(adopt[q])'
    BY <2>2 DEF ReadsFresh, declVars, Op
  <2>. QED BY <2>1, <2>3, <2>4
<1>. QED BY <1>2, <1>3, <1>5 DEF AdoptInv

\* A step that leaves its ingestion, if it is one, as it is.
LEMMA AdoptPlainly ==
  ASSUME AdoptInv, NEW p \in AdoptProcs, NEW new \in AdoptProcess, AdoptGo(p, new),
         UNCHANGED <<declVars, proofs, boundary>>, new.cmd = adopt[p].cmd,
         new.outcome = adopt[p].outcome, new.at \notin {"open", "fill"},
         new.at = "session" => new.cmd.op = "ingest",
         Settled(p) => new.at = "over" /\ new.scaffold = adopt[p].scaffold,
         CitesTruly(new), ReadsFresh(new)
  PROVE  AdoptInv'
<1>1. adopt'[p] = new
  BY AdoptFacts DEF AdoptGo
<1>2. Ingests(p)'
  BY <1>1, AdoptFacts DEF Ingests, Settled
<1>. QED BY <1>2, AdoptFacts, AdoptStepOf

LEMMA AdoptEnds ==
  ASSUME AdoptInv, NEW p \in AdoptProcs, NEW result \in AdoptResults
  PROVE  LET over == AdoptOver(p, result) IN
         /\ over \in AdoptProcess /\ over.cmd = adopt[p].cmd /\ over.at = "over"
         /\ over.result = result /\ over.outcome = adopt[p].outcome
         /\ over.reference = adopt[p].reference /\ over.checked = adopt[p].checked
         /\ over.scaffold = adopt[p].scaffold /\ over.authed = adopt[p].authed
         /\ over.id = adopt[p].id
<1>1. adopt[p] \in AdoptProcess
  BY AdoptFacts
<1>2. "over" \in AdoptPlaces
  BY DEF AdoptPlaces
<1>. QED BY <1>1, <1>2 DEF AdoptOver, AdoptProcess

LEMMA AdoptOverStep ==
  ASSUME AdoptInv, NEW p \in AdoptProcs, NEW result \in AdoptResults \ {"registration_ready"},
         AdoptGo(p, AdoptOver(p, result)), UNCHANGED <<declVars, proofs, boundary>>
  PROVE  AdoptInv'
<1>. DEFINE new == AdoptOver(p, result)
<1>1. /\ new \in AdoptProcess /\ new.cmd = adopt[p].cmd /\ new.at = "over"
      /\ new.result = result /\ new.outcome = adopt[p].outcome
      /\ new.reference = adopt[p].reference /\ new.checked = adopt[p].checked
      /\ new.scaffold = adopt[p].scaffold
  BY AdoptEnds
<1>. HIDE DEF new
<1>2. CitesTruly(new) /\ ReadsFresh(new)
  BY <1>1, AdoptFacts DEF CitesTruly, ReadsFresh
<1>3. AdoptGo(p, new)
  BY DEF new
<1>. QED BY <1>1, <1>2, <1>3, AdoptPlainly

LEMMA StartIngestStep ==
  ASSUME AdoptInv, NEW p \in AdoptProcs, StartIngest(p), UNCHANGED declVars
  PROVE  AdoptInv'
<1>1. /\ adopt[p] \in AdoptProcess /\ adopt[p].at = "idle" /\ adopt[p].cmd.op = "ingest"
      /\ CitesTruly(adopt[p]) /\ ReadsFresh(adopt[p]) /\ ~Settled(p)
      /\ UNCHANGED <<declVars, proofs, boundary>>
  BY AdoptFacts DEF StartIngest, AdoptAt, Settled
<1>2. CASE AdoptGo(p, AdoptOver(p, "failed"))
  BY <1>1, <1>2, AdoptOverStep DEF AdoptResults
<1>3. ASSUME NEW seen \in Included,
             AdoptGo(p, [adopt[p] EXCEPT !.at = "session", !.scaffold = HasScaffold(seen)])
      PROVE  AdoptInv'
  <2>. PICK has \in BOOLEAN : has = HasScaffold(seen)
    BY DEF HasScaffold
  <2>. DEFINE new == [adopt[p] EXCEPT !.at = "session", !.scaffold = has]
  <2>1. /\ new \in AdoptProcess /\ new.cmd = adopt[p].cmd /\ new.at = "session"
        /\ new.result = adopt[p].result /\ new.outcome = adopt[p].outcome
        /\ new.reference = adopt[p].reference /\ new.checked = adopt[p].checked
    BY <1>1 DEF AdoptProcess, AdoptPlaces
  <2>2. AdoptGo(p, new)
    BY <1>3
  <2>. HIDE DEF new
  <2>3. CitesTruly(new) /\ ReadsFresh(new)
    BY <1>1, <2>1 DEF CitesTruly, ReadsFresh
  <2>. QED BY <1>1, <2>1, <2>2, <2>3, AdoptPlainly
<1>. QED BY <1>2, <1>3 DEF StartIngest

LEMMA IngestSessionStep ==
  ASSUME AdoptInv, NEW p \in AdoptProcs, IngestSession(p), UNCHANGED declVars
  PROVE  AdoptInv'
<1>1. /\ adopt[p] \in AdoptProcess /\ adopt[p].at = "session" /\ adopt[p].cmd.op = "ingest"
      /\ CitesTruly(adopt[p]) /\ ReadsFresh(adopt[p]) /\ ~Settled(p)
      /\ UNCHANGED <<declVars, proofs, boundary>>
  BY AdoptFacts DEF IngestSession, AdoptAt, Settled
<1>2. ASSUME NEW result \in {"summary", "failed"}, AdoptGo(p, AdoptOver(p, result))
      PROVE  AdoptInv'
  BY <1>1, <1>2, AdoptOverStep DEF AdoptResults
<1>3. CASE AdoptGo(p, [adopt[p] EXCEPT !.at = "send"])
  <2>. DEFINE new == [adopt[p] EXCEPT !.at = "send"]
  <2>1. /\ new \in AdoptProcess /\ new.cmd = adopt[p].cmd /\ new.at = "send"
        /\ new.result = adopt[p].result /\ new.outcome = adopt[p].outcome
        /\ new.reference = adopt[p].reference /\ new.checked = adopt[p].checked
    BY <1>1 DEF AdoptProcess, AdoptPlaces
  <2>2. AdoptGo(p, new)
    BY <1>3
  <2>. HIDE DEF new
  <2>3. CitesTruly(new) /\ ReadsFresh(new)
    BY <1>1, <2>1 DEF CitesTruly, ReadsFresh
  <2>. QED BY <1>1, <2>1, <2>2, <2>3, AdoptPlainly
<1>. QED BY <1>2, <1>3 DEF IngestSession

LEMMA SendIngestionStep ==
  ASSUME AdoptInv, NEW p \in AdoptProcs, SendIngestion(p), UNCHANGED declVars
  PROVE  AdoptInv'
<1>1. /\ adopt[p] \in AdoptProcess /\ adopt[p].at = "send" /\ adopt[p].cmd.op = "ingest"
      /\ CitesTruly(adopt[p]) /\ ReadsFresh(adopt[p]) /\ ~Settled(p) /\ Ingests(p)
      /\ UNCHANGED <<declVars, proofs>>
  BY AdoptFacts DEF SendIngestion, AdoptAt, Settled
<1>2. PICK fate \in {"unasked", "taken", "refused"},
           outcome \in {NoOutcome} \cup Taken \cup Rejected :
        /\ outcome.status = "rejected" => fate = "refused"
        /\ outcome \in Taken => fate = "taken"
        /\ boundary' = [boundary EXCEPT ![p] = fate]
        /\ AdoptGo(p, [adopt[p] EXCEPT !.at = "open", !.outcome = outcome,
                                       !.left = <<"request", "response">>])
  BY DEF SendIngestion
<1>3. outcome \in Outcomes /\ (outcome \in Rejected => outcome.status = "rejected")
  <2>1. NoOutcome \in Outcomes /\ NoOutcome \notin Rejected
    BY DEF NoOutcome, Outcomes, Rejected
  <2>2. Taken \subseteq Outcomes /\ Rejected \subseteq Outcomes
    BY DEF Taken, Rejected
  <2>3. \A o \in Rejected : o.status = "rejected"
    BY DEF Rejected
  <2>. QED BY <2>1, <2>2, <2>3
<1>. DEFINE left == <<"request", "response">>
            new == [adopt[p] EXCEPT !.at = "open", !.outcome = outcome, !.left = left]
<1>4. /\ left \in Seq({"request", "response"})
      /\ left \in Seq(DeclFiles \cup {"request", "response"})
  OBVIOUS
<1>. HIDE DEF left
<1>5. /\ new \in AdoptProcess /\ new.cmd = adopt[p].cmd /\ new.at = "open" /\ new.left = left
      /\ new.result = adopt[p].result /\ new.outcome = outcome
      /\ new.reference = adopt[p].reference /\ new.checked = adopt[p].checked
  BY <1>1, <1>3, <1>4 DEF AdoptProcess, AdoptPlaces
<1>6. AdoptGo(p, new)
  BY <1>2 DEF left
<1>. HIDE DEF new
<1>7. CitesTruly(new) /\ ReadsFresh(new)
  BY <1>1, <1>5 DEF CitesTruly, ReadsFresh
<1>8. /\ boundary' \in [AdoptProcs -> {"unasked", "taken", "refused"}] /\ boundary'[p] = fate
      /\ \A q \in AdoptProcs \ {p} : boundary'[q] = boundary[q]
  BY <1>2, AdoptFacts
<1>9. adopt'[p] = new
  BY <1>6, AdoptFacts DEF AdoptGo
<1>10. Ingests(p)'
  BY <1>1, <1>2, <1>3, <1>4, <1>5, <1>8, <1>9 DEF Ingests, Settled
<1>. QED BY <1>1, <1>5, <1>6, <1>7, <1>8, <1>10, AdoptFacts, AdoptStepOf

\* A write of the proof of the ingestion p.
LEMMA ProofWritten ==
  ASSUME AdoptInv, NEW p \in AdoptProcs, adopt[p].at \in {"open", "fill"}, adopt[p].left # <<>>,
         NEW content \in {"cut", "whole"},
         proofs' = [proofs EXCEPT ![p][Head(adopt[p].left)] = content],
         NEW new \in AdoptProcess, AdoptGo(p, new), UNCHANGED <<declVars, boundary>>,
         new.cmd = adopt[p].cmd, new.outcome = adopt[p].outcome,
         new.scaffold = adopt[p].scaffold, new.reference = adopt[p].reference,
         new.result = adopt[p].result, new.checked = adopt[p].checked,
         \/ new.at = "fill" /\ new.left = adopt[p].left
         \/ new.at = "open" /\ new.left = Tail(adopt[p].left)
  PROVE  AdoptInv'
<1>1. /\ adopt[p] \in AdoptProcess /\ adopt[p].cmd.op = "ingest" /\ Settled(p)
      /\ CitesTruly(adopt[p]) /\ ReadsFresh(adopt[p]) /\ Ingests(p)
      /\ adopt[p].left \in Seq({"request", "response"})
  BY AdoptFacts DEF Ingests, Settled
<1>2. /\ Head(adopt[p].left) \in {"request", "response"}
      /\ Tail(adopt[p].left) \in Seq({"request", "response"})
  BY <1>1, RemainsAfter
<1>3. /\ proofs' \in [AdoptProcs -> [request : {"none", "cut", "whole"},
                                     response : {"none", "cut", "whole"}]]
      /\ \A q \in AdoptProcs \ {p} : proofs'[q] = proofs[q]
  BY <1>2, AdoptFacts
<1>4. CitesTruly(new) /\ ReadsFresh(new)
  BY <1>1 DEF CitesTruly, ReadsFresh
<1>5. adopt'[p] = new
  BY AdoptFacts DEF AdoptGo
<1>6. Ingests(p)'
  BY <1>1, <1>2, <1>5 DEF Ingests, Settled
<1>. QED BY <1>3, <1>4, <1>6, AdoptFacts, AdoptStepOf

LEMMA ProofStep ==
  ASSUME AdoptInv, NEW p \in AdoptProcs, OpenProof(p) \/ FillProof(p), UNCHANGED declVars
  PROVE  AdoptInv'
<1>1. /\ adopt[p] \in AdoptProcess /\ adopt[p].at \in {"open", "fill"} /\ adopt[p].left # <<>>
      /\ UNCHANGED boundary
  BY AdoptFacts DEF OpenProof, FillProof, AdoptAt, Ingests
<1>2. CASE OpenProof(p)
  <2>. DEFINE new == [adopt[p] EXCEPT !.at = "fill"]
  <2>1. /\ new \in AdoptProcess /\ new.cmd = adopt[p].cmd /\ new.outcome = adopt[p].outcome
        /\ new.scaffold = adopt[p].scaffold /\ new.reference = adopt[p].reference
        /\ new.result = adopt[p].result /\ new.checked = adopt[p].checked
        /\ new.at = "fill" /\ new.left = adopt[p].left
    BY <1>1 DEF AdoptProcess, AdoptPlaces
  <2>2. AdoptGo(p, new) /\ proofs' = [proofs EXCEPT ![p][Head(adopt[p].left)] = "cut"]
    BY <1>2 DEF OpenProof
  <2>. HIDE DEF new
  <2>. QED BY <1>1, <2>1, <2>2, ProofWritten
<1>3. CASE FillProof(p)
  <2>. DEFINE new == [adopt[p] EXCEPT !.at = "open", !.left = Tail(adopt[p].left)]
  <2>1. Tail(adopt[p].left) \in Seq(DeclFiles \cup {"request", "response"})
    BY <1>1, RemainsAfter DEF AdoptProcess
  <2>2. /\ new \in AdoptProcess /\ new.cmd = adopt[p].cmd /\ new.outcome = adopt[p].outcome
        /\ new.scaffold = adopt[p].scaffold /\ new.reference = adopt[p].reference
        /\ new.result = adopt[p].result /\ new.checked = adopt[p].checked
        /\ new.at = "open" /\ new.left = Tail(adopt[p].left)
    BY <1>1, <2>1 DEF AdoptProcess, AdoptPlaces
  <2>3. AdoptGo(p, new) /\ proofs' = [proofs EXCEPT ![p][Head(adopt[p].left)] = "whole"]
    BY <1>3 DEF FillProof
  <2>. HIDE DEF new
  <2>. QED BY <1>1, <2>2, <2>3, ProofWritten
<1>. QED BY <1>2, <1>3

LEMMA CommandEndsStep ==
  ASSUME AdoptInv, NEW p \in AdoptProcs, UNCHANGED declVars,
         EndIngest(p) \/ SubmitRegistration(p) \/ AdoptKilled(p)
  PROVE  AdoptInv'
<1>1. PICK result \in {"success", "failed", "killed"} : AdoptGo(p, AdoptOver(p, result))
  BY DEF EndIngest, SubmitRegistration, AdoptKilled, Registered
<1>2. UNCHANGED <<proofs, boundary>>
  BY DEF EndIngest, SubmitRegistration, AdoptKilled
<1>. QED BY <1>1, <1>2, AdoptOverStep DEF AdoptResults

\* Of the declarations that a fresh validation has passed, keyhole.yaml and the
\* contract are loaded.
LEMMA PassedIsDeclared ==
  ASSUME AdoptInv, NEW p \in AdoptProcs, adopt[p].checked \cap fresh # {},
         NEW f \in {"keyhole", "contract"}
  PROVE  Loads(tree[f]) = {"declared"}
<1>1. PICK v \in adopt[p].checked : v \in fresh
  OBVIOUS
<1>2. /\ v \in DeclProcs /\ Op(v) = "validate" /\ decl[v].result = "native_ready"
  BY <1>1, AdoptFacts DEF ReadsFresh, DeclInv, DeclTypeOK
<1>3. tree["keyhole"] = "good" /\ tree["contract"] \in WholeContract
  BY <1>1, <1>2, AdoptFacts, DeclFacts DEF Validates
<1>4. tree[f] \notin {"none", "cut", "mixed", "bad"}
  BY <1>3, DeclAssumption DEF WholeContract, UserContents
<1>. QED BY <1>4 DEF Loads

LEMMA StartRegisterStep ==
  ASSUME AdoptInv, NEW p \in AdoptProcs, StartRegister(p), UNCHANGED declVars
  PROVE  AdoptInv'
<1>1. /\ adopt[p] \in AdoptProcess /\ adopt[p].at = "idle" /\ adopt[p].cmd.op = "register"
      /\ CitesTruly(adopt[p]) /\ ~Settled(p) /\ UNCHANGED <<declVars, proofs, boundary>>
  BY AdoptFacts DEF StartRegister, AdoptAt, Settled
<1>2. PICK id \in IngestIds \cup {NoId} :
        AdoptGo(p, [adopt[p] EXCEPT !.at = "read", !.left = ReadOrder, !.id = id,
                                    !.checked = Passed])
  BY DEF StartRegister
<1>3. /\ Passed \subseteq DeclProcs
      /\ \A v \in Passed :
           Op(v) = "validate" /\ decl[v].at = "over" /\ decl[v].result = "native_ready"
  BY AdoptFacts, DeclFacts DEF Passed, DeclInv, DeclTypeOK, DeclStands
<1>4. /\ ReadOrder \in Seq(DeclFiles) /\ ReadOrder \in Seq(DeclFiles \cup {"request", "response"})
      /\ \A f \in {"keyhole", "contract"} : Remains(ReadOrder, f)
  BY DEF ReadOrder, DeclFiles, Remains
<1>. DEFINE new == [adopt[p] EXCEPT !.at = "read", !.left = ReadOrder, !.id = id,
                                    !.checked = Passed]
<1>5. /\ new \in AdoptProcess /\ new.cmd = adopt[p].cmd /\ new.at = "read"
      /\ new.left = ReadOrder /\ new.result = adopt[p].result
      /\ new.outcome = adopt[p].outcome /\ new.reference = adopt[p].reference
      /\ new.checked = Passed
  BY <1>1, <1>3, <1>4 DEF AdoptProcess, AdoptPlaces
<1>6. AdoptGo(p, new)
  BY <1>2
<1>. HIDE DEF new
<1>7. CitesTruly(new)
  BY <1>1, <1>5 DEF CitesTruly
<1>8. ReadsFresh(new)
  BY <1>1, <1>3, <1>4, <1>5 DEF ReadsFresh
<1>. QED BY <1>1, <1>5, <1>6, <1>7, <1>8, AdoptPlainly

LEMMA ReadArtifactStep ==
  ASSUME AdoptInv, NEW p \in AdoptProcs, ReadArtifact(p), UNCHANGED declVars
  PROVE  AdoptInv'
<1>1. /\ adopt[p] \in AdoptProcess /\ adopt[p].at = "read" /\ adopt[p].cmd.op = "register"
      /\ adopt[p].left # <<>> /\ adopt[p].left \in Seq(DeclFiles)
      /\ CitesTruly(adopt[p]) /\ ReadsFresh(adopt[p]) /\ ~Settled(p)
      /\ UNCHANGED <<declVars, proofs, boundary>>
  BY AdoptFacts DEF ReadArtifact, AdoptAt, Settled, ReadsFresh
<1>. DEFINE f == Head(adopt[p].left)
            rest == Tail(adopt[p].left)
<1>2. /\ f \in DeclFiles /\ rest \in Seq(DeclFiles)
      /\ rest \in Seq(DeclFiles \cup {"request", "response"})
      /\ \A g : ~Remains(rest, g) => g = f \/ ~Remains(adopt[p].left, g)
  <2>1. adopt[p].left \in Seq(DeclFiles \cup {"request", "response"})
    BY <1>1 DEF AdoptProcess
  <2>. QED BY <1>1, <2>1, RemainsAfter
<1>3. PICK got \in Loads(tree[f]) :
        \/ /\ got # "no_mapping"
           /\ AdoptGo(p, [[adopt[p] EXCEPT !.left = rest] EXCEPT !.artifacts[f] = got])
        \/ AdoptGo(p, AdoptOver(p, "crashed"))
  BY DEF ReadArtifact
<1>. HIDE DEF f, rest
<1>4. CASE AdoptGo(p, AdoptOver(p, "crashed"))
  BY <1>1, <1>4, AdoptOverStep DEF AdoptResults
<1>5. CASE /\ got # "no_mapping"
           /\ AdoptGo(p, [[adopt[p] EXCEPT !.left = rest] EXCEPT !.artifacts[f] = got])
  <2>1. got \in {"absent", "empty", "declared"}
    BY <1>5 DEF Loads
  <2>. DEFINE new == [[adopt[p] EXCEPT !.left = rest] EXCEPT !.artifacts[f] = got]
  <2>2. /\ new \in AdoptProcess /\ new.cmd = adopt[p].cmd /\ new.at = "read" /\ new.left = rest
        /\ new.result = adopt[p].result /\ new.outcome = adopt[p].outcome
        /\ new.reference = adopt[p].reference /\ new.checked = adopt[p].checked
        /\ new.artifacts = [adopt[p].artifacts EXCEPT ![f] = got]
    BY <1>1, <1>2, <2>1 DEF AdoptProcess
  <2>3. AdoptGo(p, new)
    BY <1>5
  <2>. HIDE DEF new
  <2>4. CitesTruly(new)
    BY <1>1, <2>2 DEF CitesTruly
  <2>5. adopt[p].artifacts \in [DeclFiles -> {"absent", "empty", "declared"}]
    BY <1>1 DEF AdoptProcess
  <2>6. adopt[p].checked \cap fresh # {} /\ f \in {"keyhole", "contract"} => got = "declared"
    BY <1>3, PassedIsDeclared
  <2>7. ReadsFresh(new)
    BY <1>1, <1>2, <2>2, <2>5, <2>6 DEF ReadsFresh, DeclFiles
  <2>. QED BY <1>1, <2>2, <2>3, <2>4, <2>7, AdoptPlainly
<1>. QED BY <1>3, <1>4, <1>5

LEMMA ReferenceFacts ==
  ASSUME AdoptInv, NEW id \in IngestIds \cup {NoId}
  PROVE  LET r == ReferenceOf(id) IN
         /\ r \in [id : IngestIds \cup {NoId}, posture : {"foreign", "aligned"}, scaffold : BOOLEAN]
         /\ r # NoReference =>
              /\ r.id \in IngestIds /\ Settled(r.id.of)
              /\ r.posture # "foreign" \/ r.id.by = "ingestion" =>
                   boundary[r.id.of] \in {"taken", "refused"}
              /\ r.scaffold => adopt[r.id.of].scaffold
<1>1. NoReference \in [id : IngestIds \cup {NoId}, posture : {"foreign", "aligned"},
                       scaffold : BOOLEAN]
  BY DEF NoReference
<1>2. CASE id = NoId \/ id.by = "ingestion" \/ proofs[id.of].request = "none"
  BY <1>1, <1>2 DEF ReferenceOf
<1>3. CASE ~(id = NoId \/ id.by = "ingestion" \/ proofs[id.of].request = "none")
  <2>1. id \in IngestIds /\ id.of \in AdoptProcs /\ id.by = "correlation"
    BY <1>3 DEF IngestIds
  <2>2. /\ adopt[id.of] \in AdoptProcess /\ Ingests(id.of) /\ Settled(id.of)
    BY <1>3, <2>1, AdoptFacts DEF Ingests
  <2>. DEFINE answer == IF proofs[id.of].response = "whole" THEN adopt[id.of].outcome
                        ELSE NoOutcome
  <2>3. /\ answer \in Outcomes
        /\ answer # NoOutcome => boundary[id.of] \in {"taken", "refused"}
    <3>1. NoOutcome \in Outcomes /\ adopt[id.of].outcome \in Outcomes
      BY <2>2 DEF AdoptProcess, NoOutcome, Outcomes
    <3>. QED BY <2>2, <3>1 DEF Ingests
  <2>4. answer.posture # "foreign" \/ answer.named => answer # NoOutcome
    BY DEF NoOutcome
  <2>5. ReferenceOf(id) =
          [id |-> IF answer.named THEN [id EXCEPT !.by = "ingestion"] ELSE id,
           posture |-> answer.posture,
           scaffold |-> proofs[id.of].request = "whole" /\ adopt[id.of].scaffold]
    BY <1>3 DEF ReferenceOf
  <2>6. answer.posture \in {"foreign", "aligned"} /\ adopt[id.of].scaffold \in BOOLEAN
    BY <2>2, <2>3 DEF Outcomes, AdoptProcess
  <2>. HIDE DEF answer
  <2>7. PICK named \in IngestIds :
          /\ named = IF answer.named THEN [id EXCEPT !.by = "ingestion"] ELSE id
          /\ named.of = id.of /\ (named.by = "ingestion" => answer.named)
    <3>1. [id EXCEPT !.by = "ingestion"] \in IngestIds /\ [id EXCEPT !.by = "ingestion"].of = id.of
      BY <2>1 DEF IngestIds
    <3>2. CASE answer.named
      BY <3>1, <3>2
    <3>3. CASE ~answer.named
      BY <2>1, <3>3
    <3>. QED BY <3>2, <3>3
  <2>8. PICK seen \in BOOLEAN :
          seen = (proofs[id.of].request = "whole" /\ adopt[id.of].scaffold)
    BY <2>6
  <2>9. ReferenceOf(id) = [id |-> named, posture |-> answer.posture, scaffold |-> seen]
    BY <2>5, <2>7, <2>8
  <2>. QED BY <2>2, <2>3, <2>4, <2>6, <2>7, <2>8, <2>9
<1>. QED BY <1>2, <1>3

LEMMA LoadReferenceStep ==
  ASSUME AdoptInv, NEW p \in AdoptProcs, LoadReference(p), UNCHANGED declVars
  PROVE  AdoptInv'
<1>1. /\ adopt[p] \in AdoptProcess /\ adopt[p].at = "read" /\ adopt[p].cmd.op = "register"
      /\ adopt[p].left = <<>> /\ adopt[p].id \in IngestIds \cup {NoId}
      /\ CitesTruly(adopt[p]) /\ ReadsFresh(adopt[p]) /\ ~Settled(p)
      /\ UNCHANGED <<declVars, proofs, boundary>>
  BY AdoptFacts DEF LoadReference, AdoptAt, Settled, AdoptProcess
<1>. DEFINE reference == ReferenceOf(adopt[p].id)
            new == [adopt[p] EXCEPT !.at = "assess", !.reference = reference]
<1>2. reference \in [id : IngestIds \cup {NoId}, posture : {"foreign", "aligned"},
                     scaffold : BOOLEAN]
  BY <1>1, ReferenceFacts
<1>3. AdoptGo(p, new)
  BY DEF LoadReference
<1>4. reference # NoReference =>
        /\ reference.id \in IngestIds /\ Settled(reference.id.of)
        /\ reference.posture # "foreign" \/ reference.id.by = "ingestion" =>
             boundary[reference.id.of] \in {"taken", "refused"}
        /\ reference.scaffold => adopt[reference.id.of].scaffold
  BY <1>1, ReferenceFacts
<1>. HIDE DEF reference
<1>5. /\ new \in AdoptProcess /\ new.cmd = adopt[p].cmd /\ new.at = "assess"
      /\ new.left = adopt[p].left /\ new.result = adopt[p].result
      /\ new.outcome = adopt[p].outcome /\ new.reference = reference
      /\ new.checked = adopt[p].checked /\ new.artifacts = adopt[p].artifacts
  BY <1>1, <1>2 DEF AdoptProcess, AdoptPlaces
<1>. HIDE DEF new
<1>6. CitesTruly(new)
  BY <1>1, <1>4, <1>5 DEF CitesTruly
<1>7. ReadsFresh(new)
  BY <1>1, <1>5 DEF ReadsFresh
<1>. QED BY <1>1, <1>3, <1>5, <1>6, <1>7, AdoptPlainly

LEMMA AssessReadinessStep ==
  ASSUME AdoptInv, NEW p \in AdoptProcs, AssessReadiness(p), UNCHANGED declVars
  PROVE  AdoptInv'
<1>1. /\ adopt[p] \in AdoptProcess /\ adopt[p].at = "assess" /\ adopt[p].cmd.op = "register"
      /\ CitesTruly(adopt[p]) /\ ReadsFresh(adopt[p]) /\ ~Settled(p)
      /\ UNCHANGED <<declVars, proofs, boundary>>
  BY AdoptFacts DEF AssessReadiness, AdoptAt, Settled
<1>2. CASE AdoptGo(p, AdoptOver(p, "blocked"))
  BY <1>1, <1>2, AdoptOverStep DEF AdoptResults
<1>3. CASE AdoptGo(p, [adopt[p] EXCEPT !.at = "send", !.authed = TRUE])
  <2>. DEFINE new == [adopt[p] EXCEPT !.at = "send", !.authed = TRUE]
  <2>1. /\ new \in AdoptProcess /\ new.cmd = adopt[p].cmd /\ new.at = "send"
        /\ new.result = adopt[p].result /\ new.outcome = adopt[p].outcome
        /\ new.reference = adopt[p].reference /\ new.checked = adopt[p].checked
    BY <1>1 DEF AdoptProcess, AdoptPlaces
  <2>2. AdoptGo(p, new)
    BY <1>3
  <2>. HIDE DEF new
  <2>3. CitesTruly(new) /\ ReadsFresh(new)
    BY <1>1, <2>1 DEF CitesTruly, ReadsFresh
  <2>. QED BY <1>1, <2>1, <2>2, <2>3, AdoptPlainly
<1>. QED BY <1>2, <1>3 DEF AssessReadiness

\* Guidance without the boundary is of the outcome that a proof holds.
LEMMA GuidanceFacts ==
  ASSUME AdoptInv, NEW id \in IngestIds \cup {NoId}
  PROVE  LET result == DeriveReadiness(ItemsOf(OutcomeOf(id))) IN
         /\ result \in AdoptResults \ {"none"}
         /\ result = "registration_ready" =>
              id \in IngestIds /\ Settled(id.of) /\ boundary[id.of] = "taken"
<1>. DEFINE items == ItemsOf(OutcomeOf(id))
<1>1. DeriveReadiness(items) \in {"blocked", "partially_aligned", "foreign", "registration_ready",
                                  "run_ready"}
  BY DEF DeriveReadiness
<1>2. ASSUME DeriveReadiness(items) = "registration_ready"
      PROVE  id \in IngestIds /\ Settled(id.of) /\ boundary[id.of] = "taken"
  <2>1. {i \in items : i.state = "verified"} # {}
    BY <1>2 DEF DeriveReadiness
  <2>2. OutcomeOf(id).warned
    BY <2>1 DEF ItemsOf
  <2>3. OutcomeOf(id) # NoOutcome
    BY <2>2 DEF NoOutcome
  <2>4. /\ id \in IngestIds /\ id.of \in AdoptProcs /\ proofs[id.of].response = "whole"
        /\ OutcomeOf(id) = adopt[id.of].outcome
    BY <2>3 DEF OutcomeOf, IngestIds
  <2>5. \A o \in Rejected : ~o.warned
    BY DEF Rejected
  <2>. QED BY <2>2, <2>3, <2>4, <2>5, AdoptFacts DEF Ingests
<1>. QED BY <1>1, <1>2 DEF AdoptResults

LEMMA AlignStep ==
  ASSUME AdoptInv, NEW p \in AdoptProcs, StartAlign(p) \/ SubmitAlignment(p), UNCHANGED declVars
  PROVE  AdoptInv'
<1>1. /\ adopt[p] \in AdoptProcess /\ adopt[p].at \in {"idle", "ask"}
      /\ adopt[p].cmd.op = "align" /\ CitesTruly(adopt[p]) /\ ReadsFresh(adopt[p]) /\ ~Settled(p)
      /\ UNCHANGED <<declVars, proofs, boundary>>
  BY AdoptFacts DEF StartAlign, SubmitAlignment, AdoptAt, Settled
<1>2. ASSUME NEW new \in AdoptProcess, AdoptGo(p, new), new.cmd = adopt[p].cmd,
             new.outcome = adopt[p].outcome, new.reference = adopt[p].reference,
             new.checked = adopt[p].checked,
             \/ new.at = "ask" /\ new.result = "none"
             \/ /\ new.at = "over"
                /\ ~new.authed /\ new.result = "registration_ready" =>
                     /\ new.id \in IngestIds /\ Settled(new.id.of)
                     /\ boundary[new.id.of] = "taken"
      PROVE  AdoptInv'
  <2>1. CitesTruly(new) /\ ReadsFresh(new)
    BY <1>1, <1>2 DEF CitesTruly, ReadsFresh
  <2>. QED BY <1>1, <1>2, <2>1, AdoptPlainly
<1>3. ASSUME NEW id \in IngestIds \cup {NoId},
             AdoptGo(p, [AdoptOver(p, DeriveReadiness(ItemsOf(OutcomeOf(id)))) EXCEPT !.id = id])
      PROVE  AdoptInv'
  <2>. DEFINE result == DeriveReadiness(ItemsOf(OutcomeOf(id)))
              over == AdoptOver(p, result)
              new == [over EXCEPT !.id = id]
  <2>1. /\ result \in AdoptResults
        /\ result = "registration_ready" =>
             id \in IngestIds /\ Settled(id.of) /\ boundary[id.of] = "taken"
    BY GuidanceFacts
  <2>. HIDE DEF result
  <2>2. /\ over \in AdoptProcess /\ over.cmd = adopt[p].cmd /\ over.at = "over"
        /\ over.result = result /\ over.outcome = adopt[p].outcome
        /\ over.reference = adopt[p].reference /\ over.checked = adopt[p].checked
    BY <2>1, AdoptEnds
  <2>3. AdoptGo(p, new)
    BY <1>3 DEF result
  <2>. HIDE DEF over
  <2>4. /\ new \in AdoptProcess /\ new.cmd = adopt[p].cmd /\ new.at = "over"
        /\ new.result = result /\ new.outcome = adopt[p].outcome /\ new.id = id
        /\ new.reference = adopt[p].reference /\ new.checked = adopt[p].checked
    BY <2>2 DEF AdoptProcess
  <2>. HIDE DEF new
  <2>. QED BY <1>2, <2>1, <2>3, <2>4
<1>4. ASSUME NEW id \in IngestIds \cup {NoId}, adopt[p].at = "idle",
             AdoptGo(p, [adopt[p] EXCEPT !.at = "ask", !.id = id])
      PROVE  AdoptInv'
  <2>. DEFINE new == [adopt[p] EXCEPT !.at = "ask", !.id = id]
  <2>1. /\ new \in AdoptProcess /\ new.cmd = adopt[p].cmd /\ new.at = "ask"
        /\ new.result = "none" /\ new.outcome = adopt[p].outcome
        /\ new.reference = adopt[p].reference /\ new.checked = adopt[p].checked
    BY <1>1, <1>4 DEF AdoptProcess, AdoptPlaces, CitesTruly
  <2>2. AdoptGo(p, new)
    BY <1>4
  <2>. HIDE DEF new
  <2>. QED BY <1>2, <2>1, <2>2
<1>5. ASSUME NEW result \in AlignAnswers,
             AdoptGo(p, [AdoptOver(p, result) EXCEPT !.authed = TRUE])
      PROVE  AdoptInv'
  <2>1. result \in AdoptResults
    BY DEF AlignAnswers, DeriveReadiness, AdoptResults
  <2>. DEFINE over == AdoptOver(p, result)
              new == [over EXCEPT !.authed = TRUE]
  <2>2. /\ over \in AdoptProcess /\ over.cmd = adopt[p].cmd /\ over.at = "over"
        /\ over.outcome = adopt[p].outcome
        /\ over.reference = adopt[p].reference /\ over.checked = adopt[p].checked
    BY <2>1, AdoptEnds
  <2>3. AdoptGo(p, new)
    BY <1>5
  <2>. HIDE DEF over
  <2>4. /\ new \in AdoptProcess /\ new.cmd = adopt[p].cmd /\ new.at = "over" /\ new.authed
        /\ new.outcome = adopt[p].outcome
        /\ new.reference = adopt[p].reference /\ new.checked = adopt[p].checked
    BY <2>2 DEF AdoptProcess
  <2>. HIDE DEF new
  <2>. QED BY <1>2, <2>3, <2>4
<1>6. CASE StartAlign(p)
  BY <1>3, <1>4, <1>6 DEF StartAlign, AdoptAt
<1>7. CASE SubmitAlignment(p)
  BY <1>5, <1>7 DEF SubmitAlignment
<1>. QED BY <1>6, <1>7

\* A validation that is over stays as it is, and is never fresh again.
LEMMA OverStaysOver ==
  ASSUME DeclInv, DeclNext, NEW v, v \in DeclProcs, decl[v].at = "over"
  PROVE  decl'[v] = decl[v] /\ (v \in fresh' => v \in fresh)
<1>1. \A q \in DeclProcs : \A new : DeclGo(q, new) /\ q # v => decl'[v] = decl[v]
  BY DeclFacts DEF DeclGo
<1>2. \A q \in DeclProcs : \A new : DeclStarts(q, new) =>
        decl'[v] = decl[v] /\ (v \in fresh' => v \in fresh)
  BY <1>1 DEF DeclStarts
<1>3. ASSUME NEW q \in DeclProcs, NEW new, DeclGo(q, new), decl[q].at # "over",
             fresh' \in {{}, fresh}
      PROVE  decl'[v] = decl[v] /\ (v \in fresh' => v \in fresh)
  BY <1>1, <1>3
<1>4. ASSUME NEW q \in DeclProcs, StartInit(q) \/ StartPassport(q) \/ StartValidate(q)
      PROVE  decl'[v] = decl[v] /\ (v \in fresh' => v \in fresh)
  BY <1>2, <1>4 DEF StartInit, StartPassport, StartValidate
<1>5. ASSUME NEW q \in DeclProcs,
             LookAtFile(q) \/ OpenDeclaration(q) \/ FillDeclaration(q) \/ WriteFails(q)
               \/ AllWritten(q) \/ DeclKilled(q)
      PROVE  decl'[v] = decl[v] /\ (v \in fresh' => v \in fresh)
  BY <1>3, <1>5 DEF LookAtFile, OpenDeclaration, FillDeclaration, WriteFails, AllWritten,
     DeclKilled, DeclBusy
<1>6. ASSUME NEW q \in DeclProcs,
             PassportReadsKeyhole(q) \/ PassportReadsContract(q) \/ ValidateProviders(q)
               \/ ReadProduces(q) \/ Judge(q)
      PROVE  decl'[v] = decl[v] /\ (v \in fresh' => v \in fresh)
  BY <1>3, <1>6 DEF PassportReadsKeyhole, PassportReadsContract, ValidateProviders,
     ReadProduces, Judge
<1>7. ASSUME NEW q \in DeclProcs, ValidateFile(q)
      PROVE  decl'[v] = decl[v] /\ (v \in fresh' => v \in fresh)
  BY <1>3, <1>7 DEF ValidateFile
<1>8. ASSUME NEW e \in UserEdits, Edit(e[1], e[2])
      PROVE  decl'[v] = decl[v] /\ (v \in fresh' => v \in fresh)
  BY <1>8 DEF Edit
<1>. QED BY <1>4, <1>5, <1>6, <1>7, <1>8 DEF DeclNext

LEMMA AdoptStepKeeps ==
  ASSUME AdoptInv, [AdoptNext]_<<declVars, adoptVars>>
  PROVE  AdoptInv'
<1>1. CASE DeclNext /\ UNCHANGED adoptVars
  <2>1. DeclInv' /\ AdoptTypeOK'
    BY <1>1, DeclStep DEF AdoptInv, AdoptTypeOK, adoptVars
  <2>2. ASSUME NEW p \in AdoptProcs
        PROVE  Ingests(p)' /\ CitesTruly(adopt[p])' /\ ReadsFresh(adopt[p])'
    <3>1. Ingests(p)' /\ CitesTruly(adopt[p])'
      BY <1>1, AdoptFacts DEF adoptVars, Ingests, Settled, CitesTruly
    <3>2. adopt[p].checked \subseteq DeclProcs
      BY AdoptFacts DEF AdoptProcess
    <3>3. \A v \in adopt[p].checked : decl'[v] = decl[v] /\ (v \in fresh' => v \in fresh)
      BY <1>1, <3>2, AdoptFacts, OverStaysOver DEF ReadsFresh
    <3>4. ReadsFresh(adopt[p])'
      BY <1>1, <3>3, AdoptFacts DEF adoptVars, ReadsFresh, Op
    <3>. QED BY <3>1, <3>4
  <2>. QED BY <2>1, <2>2 DEF AdoptInv
<1>2. ASSUME NEW p \in AdoptProcs, AdoptStep(p), UNCHANGED declVars PROVE AdoptInv'
  BY <1>2, StartIngestStep, IngestSessionStep, SendIngestionStep, ProofStep, CommandEndsStep,
     StartRegisterStep, ReadArtifactStep, LoadReferenceStep, AssessReadinessStep, AlignStep
  DEF AdoptStep
<1>3. CASE UNCHANGED <<declVars, adoptVars>>
  <2>1. DeclInv'
    BY <1>3, DeclStep DEF AdoptInv
  <2>2. AdoptTypeOK'
    BY <1>3 DEF adoptVars, AdoptInv, AdoptTypeOK
  <2>3. ASSUME NEW p \in AdoptProcs
        PROVE  Ingests(p)' /\ CitesTruly(adopt[p])' /\ ReadsFresh(adopt[p])'
    BY <1>3, AdoptFacts DEF adoptVars, declVars, Ingests, Settled, CitesTruly, ReadsFresh, Op
  <2>. QED BY <2>1, <2>2, <2>3 DEF AdoptInv
<1>. QED BY <1>1, <1>2, <1>3 DEF AdoptNext

LEMMA AdoptInvariant == AdoptSpec => []AdoptInv
BY AdoptInit0, AdoptStepKeeps, PTL DEF AdoptSpec

\* The commands of the adoption, and what they have filed, keep their types.
THEOREM AdoptTypeCorrect == AdoptSpec => []AdoptTypeOK
<1>1. AdoptInv => AdoptTypeOK
  BY DEF AdoptInv
<1>. QED BY <1>1, AdoptInvariant, PTL

\* Guidance and references say of an ingestion what the boundary did with it.
THEOREM CitedAsIngested == AdoptSpec => []EvidenceIsOfIngestion
<1>1. AdoptInv => EvidenceIsOfIngestion
  BY AdoptFacts DEF EvidenceIsOfIngestion, CitesTruly
<1>. QED BY <1>1, AdoptInvariant, PTL

\* A registration that follows a validation which is fresh is not refused for
\* the declarations, and has loaded both that it needs.
THEOREM ValidatedCanRegister == AdoptSpec => []PassedIsRegistrable
<1>1. ASSUME AdoptInv, NEW p \in AdoptProcs, AdoptAt(p, "register", "assess"),
             adopt[p].checked \cap fresh # {}
      PROVE  /\ RegistrationReadiness(p, TRUE) # "not_ready"
             /\ \A f \in {"keyhole", "contract"} : adopt[p].artifacts[f] = "declared"
  <2>1. \A f \in {"keyhole", "contract"} : adopt[p].artifacts[f] = "declared"
    BY <1>1, AdoptFacts DEF AdoptAt, ReadsFresh, Remains
  <2>. QED BY <2>1 DEF RegistrationReadiness
<1>2. AdoptInv => PassedIsRegistrable
  BY <1>1 DEF PassedIsRegistrable
<1>. QED BY <1>2, AdoptInvariant, PTL
=============================================================================
