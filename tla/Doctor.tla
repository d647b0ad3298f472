------------------------------- MODULE Doctor -------------------------------
(***************************************************************************)
(* keyhole doctor, keyhole doctor launch and keyhole auth doctor.  A       *)
(* doctor probes the machine, the repository or the session, one thing     *)
(* after the other, while they change, and reports what it found.  keyhole *)
(* doctor also groups the failures under their roots and plans repairs;    *)
(* the user follows the plan and runs it again.                            *)
(*                                                                         *)
(* What can be probed is a set of conditions, of which those in holds hold *)
(* at present.  run_doctor_evaluation is also called with facts that the   *)
(* caller gives: the command "library", which knows of more conditions     *)
(* than the commands collect.  The advisory sections of the report         *)
(* (host coherence, runtime contract) do not bear on its verdict.          *)
(***************************************************************************)
EXTENDS Naturals, Sequences

CONSTANTS
  NoReport,     \* no report yet
  Doctors,      \* the commands of the instance
  DoctorModes,  \* --mode
  MaxRuns,      \* bound on the runs of a command
  MaxChanges    \* bound on changes that no plan asked for

ASSUME DoctorAssumption ==
  /\ Doctors \subseteq {"environment", "library", "launch", "auth"}
  /\ DoctorModes \subseteq {"auto", "local_only", "governed", "host_inventory"}
  /\ MaxRuns \in Nat /\ MaxChanges \in Nat

VARIABLES
  doctor,    \* the command: [name, mode, url: whether a runtime URL is given, verify]
  holds,     \* the conditions that hold
  probed,    \* how many probes the run has made
  facts,     \* the conditions it found to hold
  report,    \* its report
  todo,      \* the steps of the plan that the user has yet to follow
  runs,      \* runs begun
  changes,   \* changes that no plan asked for
  quiet,     \* history: no condition changed since the first probe
  followed   \* history: the steps followed since the last run, if nothing else changed

doctorVars == <<doctor, holds, probed, facts, report, todo, runs, changes, quiet, followed>>

(***************************************************************************)
(* What a command probes, in its order: the conditions read at once.       *)
(***************************************************************************)
Collected ==
  <<{"docker"}, {"compose"}, {"cli"}, {"config"}, {"running", "reachable"}, {"boundary"}>>

Given ==
  <<{"python", "version", "cli", "docker", "compose", "running", "reachable", "config",
     "boundary", "compatible"}>>

Launch ==
  <<{"login"}, {"files"}, {"declaration", "dependencies"}, {"valid"}, {"writable"},
    {"ignored"}, {"gap"}>>

\* One credential file, and one answer of whoami.
Auth == <<{"session", "fresh", "brokered"}, {"answers", "envelope", "realms"}>>

Probes(name) ==
  CASE name = "environment" -> Collected
    [] name = "library"     -> Given
    [] name = "launch"      -> Launch
    [] name = "auth"        -> Auth

Conditions(name) == UNION {Probes(name)[i] : i \in 1..Len(Probes(name))}

\* A health check that is answered tells both; a session that is not there has
\* no properties.
Possible(name, h) ==
  /\ name = "environment" => ("running" \in h <=> "reachable" \in h)
  /\ name = "auth" /\ "session" \notin h => h \cap {"fresh", "brokered"} = {}

(***************************************************************************)
(* The checks of keyhole doctor on facts f: "pass", "fail" or "skip".      *)
(***************************************************************************)
PythonAvailable(f) == IF "python" \in f THEN "pass" ELSE "fail"
PythonVersion(f) == IF {"python", "version"} \subseteq f THEN "pass" ELSE "fail"
CliInstalled(f) == IF "cli" \in f THEN "pass" ELSE "fail"
DockerAvailable(f) == IF "docker" \in f THEN "pass" ELSE "fail"
ComposeAvailable(f) == IF {"docker", "compose"} \subseteq f THEN "pass" ELSE "fail"

RuntimeRunning(f, mode, url) ==
  IF "boundary" \in f THEN "skip"
  ELSE IF "docker" \notin f /\ mode = "local_only" THEN "fail"
  ELSE IF "running" \in f THEN "pass"
  ELSE IF mode = "local_only" /\ ~url THEN "skip" ELSE "fail"

RuntimeReachable(f, mode, url) ==
  IF "boundary" \in f THEN "skip"
  ELSE IF "running" \notin f /\ mode = "local_only" /\ ~url THEN "skip"
  ELSE IF {"running", "reachable"} \subseteq f THEN "pass" ELSE "fail"

McpConfig(f, mode) ==
  IF mode = "local_only" THEN "skip"
  ELSE IF f \cap {"config", "boundary"} # {} THEN "pass" ELSE "fail"

McpBoundary(f, mode) ==
  IF mode = "local_only" THEN "skip"
  ELSE IF "boundary" \in f THEN "pass"
  ELSE IF "config" \in f THEN "skip" ELSE "fail"

SdkCompatibility(f) == IF "compatible" \in f THEN "pass" ELSE "fail"

\* Mutant: auto stays local when only a configuration is there.
EffectiveModeOfBoundary(mode, f) ==
  IF mode # "auto" THEN mode
  ELSE IF "boundary" \in f THEN "governed" ELSE "local_only"

EffectiveMode(mode, f) ==
  IF mode # "auto" THEN mode
  ELSE IF f \cap {"config", "boundary"} # {} THEN "governed" ELSE "local_only"

Checks == {"python_available", "python_version", "cli_installed", "docker_available",
           "compose_available", "runtime_running", "runtime_reachable", "mcp_config",
           "mcp_boundary", "sdk_runtime_compatibility"}

\* The result of a check, in an effective mode.
CheckResult(c, f, mode, url) ==
  CASE c = "python_available"          -> PythonAvailable(f)
    [] c = "python_version"            -> PythonVersion(f)
    [] c = "cli_installed"             -> CliInstalled(f)
    [] c = "docker_available"          -> DockerAvailable(f)
    [] c = "compose_available"         -> ComposeAvailable(f)
    [] c = "runtime_running"           -> RuntimeRunning(f, mode, url)
    [] c = "runtime_reachable"         -> RuntimeReachable(f, mode, url)
    [] c = "mcp_config"                -> McpConfig(f, mode)
    [] c = "mcp_boundary"              -> McpBoundary(f, mode)
    [] c = "sdk_runtime_compatibility" -> SdkCompatibility(f)

Failed(f, mode, url) == {c \in Checks : CheckResult(c, f, mode, url) = "fail"}

(***************************************************************************)
(* Roots, and what is downstream of them.                                  *)
(***************************************************************************)
DependencyMap ==
  [r \in {"python_available", "docker_available", "runtime_running"} |->
    CASE r = "python_available" -> {"python_version", "cli_installed"}
      [] r = "docker_available" -> {"compose_available", "runtime_running"}
      [] r = "runtime_running"  -> {"runtime_reachable"}]

\* Every check has at most one cause in the map, the one its own result names.
Causes(c, fails) == {r \in DOMAIN DependencyMap \cap fails : c \in DependencyMap[r]}

Roots(fails) == {c \in fails : Causes(c, fails) = {}}

\* Mutant: what is downstream of a downstream check is forgotten.
DownstreamDirect(root, fails) == {c \in fails : root \in Causes(c, fails)}

Downstream(root, fails) ==
  LET Direct(r) == {c \in fails : r \in Causes(c, fails)}
  IN Direct(root) \cup UNION {Direct(c) : c \in Direct(root)}

(***************************************************************************)
(* The repair plan: one step for each root that has a rule, to be followed *)
(* in the order of RepairOrder; an unreachable boundary has none.          *)
(***************************************************************************)
RepairOrder ==
  <<"python_available", "python_version", "cli_installed", "docker_available",
    "compose_available", "runtime_running", "runtime_reachable", "mcp_config",
    "sdk_runtime_compatibility">>

\* Mutant: the dependencies are read upside down.
RepairPlanOfLeaves(fails) == {c \in fails \ {"mcp_boundary"} : Downstream(c, fails) = {}}

RepairPlan(fails) == Roots(fails) \ {"mcp_boundary"}

\* What the user brings about by following a step.
Repaired(c) ==
  CASE c = "python_available"          -> {"python", "version"}
    [] c = "python_version"            -> {"version"}
    [] c = "cli_installed"             -> {"cli"}
    [] c = "docker_available"          -> {"docker"}
    [] c = "compose_available"         -> {"compose"}
    [] c = "runtime_running"           -> {"running", "reachable"}
    [] c = "runtime_reachable"         -> {"reachable"}
    [] c = "mcp_config"                -> {"config"}
    [] c = "sdk_runtime_compatibility" -> {"compatible"}

Evaluation(f, mode, url) ==
  LET m == EffectiveMode(mode, f)
      fails == Failed(f, m, url)
  IN [mode |-> m, ok |-> fails = {}, fails |-> fails,
      groups |-> [r \in Roots(fails) |-> Downstream(r, fails)]]

(***************************************************************************)
(* What has to hold for a command to be satisfied.                         *)
(***************************************************************************)
Local(mode, h) == mode = "local_only" \/ (mode = "auto" /\ h \cap {"config", "boundary"} = {})

EnvironmentReady(mode, url, h) ==
  /\ {"python", "version", "cli", "docker", "compose", "compatible"} \subseteq h
  /\ \/ "boundary" \in h
     \/ /\ Local(mode, h) \/ "config" \in h
        /\ \/ {"running", "reachable"} \subseteq h
           \/ Local(mode, h) /\ ~url /\ "running" \notin h

\* keyhole doctor runs in a Python of a supported version, and learns of no
\* version of the runtime.
Granted(name) == IF name = "environment" THEN {"python", "version", "compatible"} ELSE {}

\* It probes the runtime only at a URL.
Hidden(d) == IF d.name = "environment" /\ ~d.url THEN {"running", "reachable"} ELSE {}

Ready(d, h) ==
  IF d.name \in {"environment", "library"}
  THEN EnvironmentReady(d.mode, d.url, (h \cup Granted(d.name)) \ Hidden(d))
  ELSE Conditions(d.name) \subseteq h

-----------------------------------------------------------------------------
DoctorInit ==
  /\ doctor \in [name : Doctors \cap {"environment", "library"}, mode : DoctorModes,
                 url : BOOLEAN, verify : {FALSE}]
                \cup [name : Doctors \cap {"launch", "auth"}]
  /\ holds \in SUBSET Conditions(doctor.name) /\ Possible(doctor.name, holds)
  /\ probed = 0 /\ facts = {}
  /\ report = NoReport /\ todo = {}
  /\ runs = 1 /\ changes = 0 /\ quiet = TRUE /\ followed = {}

\* The next probe. Without a session there is nothing to ask whoami with;
\* the gaps are asked for by a user who is logged in, for what the repository
\* declares. Dependencies are looked at in a declaration that was read.
Learnt(name, i) ==
  LET read == Probes(name)[i] \cap (holds \ Hidden(doctor)) IN
  CASE name = "launch" /\ read = {"gap"} /\ ~({"login", "declaration"} \subseteq facts) -> {}
    [] read = {"dependencies"}                                                          -> {}
    [] OTHER                                                                            -> read

Probe ==
  /\ report = NoReport /\ probed < Len(Probes(doctor.name))
  /\ ~(doctor.name = "auth" /\ probed = 1 /\ "session" \notin facts)
  /\ facts' = facts \cup Learnt(doctor.name, probed + 1)
  /\ probed' = probed + 1
  /\ UNCHANGED <<doctor, holds, report, todo, runs, changes, quiet, followed>>

\* keyhole doctor reports, and unless it verified repairs, the user has a plan
\* to follow.
ReportEnvironment ==
  /\ doctor.name \in {"environment", "library"}
  /\ report = NoReport /\ probed = Len(Probes(doctor.name))
  /\ LET e == Evaluation(facts \cup Granted(doctor.name), doctor.mode, doctor.url)
         plan == IF doctor.verify THEN {} ELSE RepairPlan(e.fails)
     IN /\ report' = [mode |-> e.mode, ok |-> e.ok, fails |-> e.fails, groups |-> e.groups,
                      plan |-> plan, ready |-> Ready(doctor, holds)]
        /\ todo' = plan
  /\ UNCHANGED <<doctor, holds, probed, facts, runs, changes, quiet, followed>>

\* The others pass when every check did.
ReportChecks ==
  /\ doctor.name \in {"launch", "auth"} /\ report = NoReport
  /\ \/ probed = Len(Probes(doctor.name))
     \/ doctor.name = "auth" /\ probed = 1 /\ "session" \notin facts
  /\ report' = [ok |-> Conditions(doctor.name) \subseteq facts, ready |-> Ready(doctor, holds)]
  /\ UNCHANGED <<doctor, holds, probed, facts, todo, runs, changes, quiet, followed>>

\* The user follows the next step of the plan.
FollowStep ==
  /\ report # NoReport
  /\ \E i \in DOMAIN RepairOrder :
       LET c == RepairOrder[i] IN
       /\ c \in todo /\ \A j \in 1..(i - 1) : RepairOrder[j] \notin todo
       /\ holds' = holds \cup Repaired(c)
       /\ followed' = followed \cup {c}
       /\ todo' = todo \ {c}
  /\ UNCHANGED <<doctor, probed, facts, report, runs, changes, quiet>>

\* The command is run again, in the same mode or in the one that the report
\* names.  The steps followed since the last report stay promised.
RunAgain ==
  /\ report # NoReport /\ todo = {} /\ runs < MaxRuns
  /\ IF doctor.name \in {"launch", "auth"} THEN UNCHANGED doctor
     ELSE \E m \in {doctor.mode, report.mode}, v \in BOOLEAN :
            doctor' = [doctor EXCEPT !.mode = m, !.verify = v]
  /\ report' = NoReport /\ probed' = 0 /\ facts' = {} /\ quiet' = TRUE
  /\ runs' = runs + 1
  /\ UNCHANGED <<holds, todo, changes, followed>>

\* Something begins or ceases to hold that no plan asked for.
Changes ==
  /\ changes < MaxChanges
  /\ \E c \in Conditions(doctor.name) :
       LET group == IF c \in {"running", "reachable"} /\ doctor.name = "environment"
                    THEN {"running", "reachable"} ELSE {c}
       IN holds' = IF c \in holds THEN holds \ group ELSE holds \cup group
  /\ Possible(doctor.name, holds')
  /\ changes' = changes + 1 /\ quiet' = (quiet /\ probed = 0) /\ followed' = {}
  /\ UNCHANGED <<doctor, probed, facts, report, todo, runs>>

DoctorNext ==
  Probe \/ ReportEnvironment \/ ReportChecks \/ FollowStep \/ RunAgain \/ Changes

DoctorSpec == DoctorInit /\ [][DoctorNext]_doctorVars
-----------------------------------------------------------------------------
(***************************************************************************)
(* Properties.                                                             *)
(***************************************************************************)
EnvironmentReport == report # NoReport /\ doctor.name \in {"environment", "library"}

\* Every failed check is a root or a symptom of one root only, and what is a
\* symptom fails: the groups of compute_root_failures partition the failures.
FailuresAreAttributed ==
  EnvironmentReport =>
    LET roots == DOMAIN report.groups
        Group(r) == {r} \cup report.groups[r]
    IN /\ UNION {Group(r) : r \in roots} = report.fails
       /\ \A r, s \in roots : r # s => Group(r) \cap Group(s) = {}

\* Unless something else changed, following a plan of compute_repair_plan
\* helps: no later run asks for a step that was followed.  A runtime whose URL
\* the commands are not told stays unseen however often it is started.
PlanIsNotRepeated ==
  EnvironmentReport /\ todo = report.plan =>
    \A c \in todo \cap followed :
      c = "runtime_running" /\ doctor.name = "environment" /\ ~doctor.url

\* The verdict of keyhole doctor (run_diagnostics), of keyhole doctor launch and
\* of keyhole auth doctor: it is ACCEPT when and only when all that the command
\* stands for held, unless something changed while it was looking.
VerdictIsOfTheWorld == report # NoReport /\ quiet => (report.ok <=> report.ready)
=============================================================================
