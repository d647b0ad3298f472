---------------------------- MODULE LocalRuntime ----------------------------
(***************************************************************************)
(* keyhole runtime start | stop | status and keyhole smoke: commands on one *)
(* machine that act on the local test runtime through docker compose and    *)
(* learn of it through its endpoint.  They may run side by side, and the    *)
(* containers may become healthy or die at any moment.                      *)
(***************************************************************************)
EXTENDS Naturals, FiniteSets

CONSTANTS
  Shells,     \* processes that run one command each
  ShellScenes, \* which command each of them runs
  MaxHealthPolls, \* polls of one start before its deadline
  MaxFaults     \* probes and docker calls that fail or are lost, and deaths

ASSUME LocalRuntimeAssumption ==
  /\ ShellScenes \subseteq [Shells -> {"start", "stop", "status", "smoke"}]
  /\ MaxHealthPolls \in Nat /\ MaxFaults \in Nat

VARIABLES
  does,        \* process -> its command
  services,     \* what docker compose runs: "down", "starting" or "up"
  foreign,      \* whether something else answers at the endpoint
  faults,       \* faults so far
  local,        \* each process: where it is, what it saw and what it reports
  lived        \* process -> the states of services since it began

localVars == <<does, services, foreign, faults, local, lived>>

NothingSeen == [at |-> "idle", polls |-> 0, identity |-> FALSE, result |-> "none",
                faulted |-> FALSE]

LocalInit ==
  /\ does \in ShellScenes
  /\ services \in {"down", "up"} /\ foreign \in BOOLEAN
  /\ services = "up" => ~foreign
  /\ faults = 0
  /\ local = [p \in Shells |-> NothingSeen]
  /\ lived = [p \in Shells |-> {}]

Busy(p) == local[p].at \notin {"idle", "done"}

(* Whatever happens, every command that is under way lives through it.      *)
Lived(s) ==
  lived' = [p \in Shells |-> IF Busy(p) THEN lived[p] \cup {s} ELSE lived[p]]

Stays == UNCHANGED services /\ Lived(services)
Becomes(s) == services' = s /\ Lived(s)

(* A fault is remembered by the command that meets it.                      *)
Fault(p, l) ==
  /\ faults < MaxFaults /\ faults' = faults + 1
  /\ local' = [local EXCEPT ![p] = [l EXCEPT !.faulted = TRUE]]
Step(p, l) == local' = [local EXCEPT ![p] = l] /\ UNCHANGED faults

Place(p, place)    == [local[p] EXCEPT !.at = place]
Report(p, outcome) == [local[p] EXCEPT !.at = "done", !.result = outcome]

-----------------------------------------------------------------------------
(* The containers.                                                         *)

BecomesHealthy ==
  /\ services = "starting" /\ Becomes("up")
  /\ UNCHANGED <<does, foreign, faults, local>>

Dies ==
  /\ services \in {"starting", "up"} /\ faults < MaxFaults /\ faults' = faults + 1
  /\ Becomes("down")
  /\ UNCHANGED <<does, foreign, local>>

-----------------------------------------------------------------------------
(* Probes.                                                                 *)

(* GET /healthz and GET /identity.                                         *)
Answering == services = "up" \/ foreign

(* One probe: an answer or none, and none also when it is lost.             *)
Probe(p, yes, no) ==
  \/ Answering /\ Step(p, yes)
  \/ ~Answering /\ Step(p, no)
  \/ Answering /\ Fault(p, no)

FirstPlaceOf(c) ==
  CASE c = "stop" -> "ps" [] c = "smoke" -> "doctor" [] OTHER -> "reach"

Starts(p) ==
  /\ local[p].at = "idle"
  /\ Step(p, Place(p, FirstPlaceOf(does[p])))
  /\ lived' = [lived EXCEPT ![p] = {services}]
  /\ UNCHANGED <<does, services, foreign>>

(* keyhole doctor comes first; what it looks at is no concern here.         *)
Doctors(p) ==
  /\ local[p].at = "doctor"
  /\ \/ Step(p, Place(p, "reach"))
     \/ Fault(p, Report(p, "unsupported"))
  /\ Stays /\ UNCHANGED <<does, foreign>>

Reaches(p) ==
  /\ local[p].at = "reach"
  /\ Probe(p, Place(p, "identity"),
              IF does[p] = "start" THEN Place(p, "up") ELSE Report(p, "unreachable"))
  /\ Stays /\ UNCHANGED <<does, foreign>>

(* For start the identity is only a name; smoke asks for it and goes on.    *)
AsksIdentity(p) ==
  /\ local[p].at = "identity"
  /\ LET told(known) ==
           CASE does[p] = "start"  -> Report(p, "started")
             [] does[p] = "status" -> Report(p, IF known THEN "reachable" ELSE "healthz_only")
             [] does[p] = "smoke"  -> [Place(p, "healthz") EXCEPT !.identity = known]
     IN  Probe(p, told(TRUE), told(FALSE))
  /\ Stays /\ UNCHANGED <<does, foreign>>

(* The minimal action of smoke, and its verdict over all the steps.         *)
SmokeActs(p) ==
  /\ local[p].at = "healthz"
  /\ Probe(p, Report(p, IF local[p].identity THEN "first_success" ELSE "failed"),
              Report(p, "failed"))
  /\ Stays /\ UNCHANGED <<does, foreign>>

-----------------------------------------------------------------------------
(* docker compose.                                                         *)

(* docker compose up -d: with the port taken, or docker missing, it fails.  *)
(* A timeout of the call is not caught, and a failed call may have had      *)
(* effect.                                                                *)
ComposeUp(p) ==
  /\ local[p].at = "up"
  /\ \/ /\ ~foreign /\ Step(p, Place(p, "wait"))
        /\ IF services = "down" THEN Becomes("starting") ELSE Stays
     \/ foreign /\ Step(p, Report(p, "failed")) /\ Stays
     \/ \E outcome \in {"failed", "raised"} :
          /\ Fault(p, Report(p, outcome))
          /\ Stays \/ (services = "down" /\ ~foreign /\ Becomes("starting"))
  /\ UNCHANGED <<does, foreign>>

(* Mutant: up to the deadline without an answer is taken as healthy.        *)
GivesUpHealthy(p) == Place(p, "identity")

(* The deadline has passed without an answer.                              *)
GivesUp(p) == Report(p, "unhealthy")

WaitsForHealth(p) ==
  /\ local[p].at = "wait"
  /\ LET polled == [Place(p, "wait") EXCEPT !.polls = @ + 1] IN
       IF local[p].polls = MaxHealthPolls
       THEN Step(p, GivesUp(p))
       ELSE Probe(p, Place(p, "identity"), polled)
  /\ Stays /\ UNCHANGED <<does, foreign>>

(* docker compose ps -q: a failure or a timeout reads as not running.       *)
ComposePs(p) ==
  /\ local[p].at = "ps"
  /\ \/ services # "down" /\ Step(p, Place(p, "down"))
     \/ services = "down" /\ Step(p, Report(p, "already_stopped"))
     \/ services # "down" /\ Fault(p, Report(p, "already_stopped"))
  /\ Stays /\ UNCHANGED <<does, foreign>>

ComposeDown(p) ==
  /\ local[p].at = "down"
  /\ \/ Step(p, Report(p, "stopped")) /\ Becomes("down")
     \/ \E outcome \in {"failed", "raised"} :
          Fault(p, Report(p, outcome)) /\ (Stays \/ Becomes("down"))
  /\ UNCHANGED <<does, foreign>>

LocalStep(p) ==
  \/ Starts(p) \/ Doctors(p) \/ Reaches(p) \/ AsksIdentity(p) \/ SmokeActs(p)
  \/ ComposeUp(p) \/ WaitsForHealth(p) \/ ComposePs(p) \/ ComposeDown(p)

LocalNext == BecomesHealthy \/ Dies \/ \E p \in Shells : LocalStep(p)

LocalSpec == LocalInit /\ [][LocalNext]_localVars

-----------------------------------------------------------------------------
(* "Truthful local runtime lifecycle": what a command reports was so at some *)
(* moment of it, whatever the containers and the other commands did         *)
(* meanwhile.  A start or a smoke that succeeded had a healthy runtime, a   *)
(* stop that succeeded a stopped one, and a command that found nothing, or  *)
(* gave up waiting, a moment without.  Excepted are a command that met a    *)
(* fault, and another program at the endpoint (run_start, run_stop,         *)
(* run_status, run_smoke).                                                 *)
ReportsAreTrue ==
  \A p \in Shells :
    LET r == local[p].result IN
      /\ r \in {"started", "reachable", "healthz_only", "first_success"} /\ ~foreign =>
           "up" \in lived[p]
      /\ r \in {"stopped", "already_stopped"} /\ ~local[p].faulted =>
           "down" \in lived[p]
      /\ r \in {"unreachable", "unhealthy", "failed"} /\ ~local[p].faulted /\ ~foreign =>
           lived[p] \cap {"down", "starting"} # {}
=============================================================================
