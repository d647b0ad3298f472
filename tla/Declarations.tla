---------------------------- MODULE Declarations ----------------------------
(***************************************************************************)
(* The declarations of a governed repository: keyhole.yaml,                 *)
(* governance_contract.yaml, capability_passport.yaml, dependencies.yaml.   *)
(* keyhole init vertical scaffolds them one after another, in place, and    *)
(* keyhole passport generate rewrites one of them; keyhole validate reads   *)
(* them one after another.  A user may edit them at any time.               *)
(*                                                                          *)
(* Every command is a process of its own; none of them takes a lock.        *)
(***************************************************************************)
EXTENDS Naturals, Sequences

CONSTANTS
  DeclProcs,      \* processes, each of which runs one command
  ScaffoldNames,  \* repository names that init is given
  DeclScenes,     \* functions that give every process its command
  InitialTrees,   \* what a user has written before
  UserEdits,      \* declarations that a user may write, each with a content
  MaxEdits        \* bound on the user's edits

DeclFiles == {"keyhole", "contract", "passport", "dependencies"}

\* What a user may write: nothing to complain of; something that is only
\* warned of; something invalid.  The capability that good declares is
\* another major version of the one loose declares, and loose dependencies
\* consume the former, without a provider.
UserContents == {"good", "loose", "bad"}

\* A file is missing, truncated, an invalid mixture of two writers, or has the
\* content of a user, of passport generate, or of a scaffold by its name.
Contents == {"none", "cut", "mixed", "generated"} \cup UserContents \cup ScaffoldNames

DeclCommands ==
  [op : {"init"}, name : ScaffoldNames, force : BOOLEAN]
    \cup [op : {"passport"}]
    \cup [op : {"validate"}, mode : {"auto", "native", "advisory"}, strict : BOOLEAN]

ASSUME DeclAssumption ==
  /\ ScaffoldNames \cap ({"none", "cut", "mixed", "generated"} \cup UserContents) = {}
  /\ DeclScenes \subseteq [DeclProcs -> DeclCommands]
  /\ InitialTrees \subseteq [DeclFiles -> {"none"} \cup UserContents]
  /\ UserEdits \subseteq DeclFiles \X UserContents
  /\ MaxEdits \in Nat

VARIABLES
  tree,    \* tree[f]: the content of the declaration f
  decl,    \* decl[p]: the process p
  edits,   \* how often the user has edited
  beside,  \* history: processes that ran beside another, or beside an edit
  fresh    \* history: validations since whose start no declaration has changed

declVars == <<tree, decl, edits, beside, fresh>>
declHistory == <<edits, beside>>

\* sorted(file_plan)
WriteOrder == <<"passport", "dependencies", "contract", "keyhole">>
ReadOrder == <<"keyhole", "contract", "passport", "dependencies">>

\* left: the files still to write or to read; clean: none was cut when the
\* command started; contract: the one that is compared with the dependencies.
NewDecl(cmd) == [cmd |-> cmd, at |-> "idle", left |-> <<>>, failed |-> FALSE, clean |-> FALSE,
                 posture |-> "none", contract |-> "none", worst |-> "none", result |-> "none"]

DeclInit ==
  /\ tree \in InitialTrees
  /\ \E scene \in DeclScenes : decl = [p \in DeclProcs |-> NewDecl(scene[p])]
  /\ edits = 0 /\ beside = {} /\ fresh = {}

-----------------------------------------------------------------------------
Op(p) == decl[p].cmd.op
DeclAt(p, op, place) == Op(p) = op /\ decl[p].at = place
DeclGo(p, new) == decl' = [decl EXCEPT ![p] = new]
DeclOver(p, result) == [NewDecl(decl[p].cmd) EXCEPT !.at = "over", !.result = result]
DeclBusy == {p \in DeclProcs : decl[p].at \notin {"idle", "over"}}

DeclStarts(p, new) ==
  /\ decl[p].at = "idle"
  /\ DeclGo(p, new)
  /\ beside' = IF DeclBusy = {} THEN beside ELSE beside \cup DeclBusy \cup {p}
  /\ fresh' = fresh \cup {p}
  /\ UNCHANGED <<tree, edits>>

WholeTree == \A f \in DeclFiles : tree[f] \notin {"cut", "mixed"}

\* run_init_vertical refuses a directory that has a keyhole.yaml.
StartInit(p) ==
  /\ Op(p) = "init"
  /\ DeclStarts(p, IF tree["keyhole"] # "none" /\ ~decl[p].cmd.force
                   THEN DeclOver(p, "failed")
                   ELSE [decl[p] EXCEPT !.at = "look", !.left = WriteOrder, !.clean = WholeTree])

\* _execute_scaffold keeps a file that exists, unless forced.
Keeps(p) ==
  /\ Op(p) = "init" /\ ~decl[p].cmd.force
  /\ tree[Head(decl[p].left)] # "none"

LookAtFile(p) ==
  /\ decl[p].at = "look" /\ decl[p].left # <<>>
  /\ DeclGo(p, IF Keeps(p) THEN [decl[p] EXCEPT !.left = Tail(decl[p].left)]
               ELSE [decl[p] EXCEPT !.at = "open"])
  /\ UNCHANGED <<tree, declHistory, fresh>>

\* write_text opens the file, which truncates it, ...
OpenDeclaration(p) ==
  /\ decl[p].at = "open"
  /\ tree' = [tree EXCEPT ![Head(decl[p].left)] = "cut"]
  /\ fresh' = {}
  /\ DeclGo(p, [decl[p] EXCEPT !.at = "fill"])
  /\ UNCHANGED declHistory

NextFile(p) == [decl[p] EXCEPT !.at = "look", !.left = Tail(decl[p].left)]

Author(p) == IF Op(p) = "init" THEN decl[p].cmd.name ELSE "generated"

\* ... and writes it; what another process has written since may show behind.
FillDeclaration(p) ==
  LET f == Head(decl[p].left) IN
  /\ decl[p].at = "fill"
  /\ \E c \in {Author(p)} \cup (IF tree[f] = "cut" THEN {} ELSE {"mixed"}) :
       tree' = [tree EXCEPT ![f] = c]
  /\ fresh' = {}
  /\ DeclGo(p, NextFile(p))
  /\ UNCHANGED declHistory

\* An OSError, before or after the truncation: noted, and the next file is due.
WriteFails(p) ==
  /\ decl[p].at \in {"open", "fill"}
  /\ DeclGo(p, [NextFile(p) EXCEPT !.failed = TRUE])
  /\ UNCHANGED <<tree, declHistory, fresh>>

\* Mutant: errors are only warned of.
AlwaysWritten(p) == "success"

\* init fails if a file could not be written, passport generate does not care.
WriteResult(p) == IF Op(p) = "init" /\ decl[p].failed THEN "failed" ELSE "success"

AllWritten(p) ==
  /\ decl[p].at = "look" /\ decl[p].left = <<>>
  /\ DeclGo(p, DeclOver(p, WriteResult(p)))
  /\ UNCHANGED <<tree, declHistory, fresh>>

DeclKilled(p) ==
  /\ p \in DeclBusy
  /\ DeclGo(p, DeclOver(p, "killed"))
  /\ UNCHANGED <<tree, declHistory, fresh>>

-----------------------------------------------------------------------------
(* keyhole passport generate                                               *)

\* detect_repo_posture
Posture ==
  IF tree["keyhole"] # "none" \/ tree["contract"] # "none" THEN "native"
  ELSE IF tree["passport"] # "none" \/ tree["dependencies"] # "none" THEN "partially_aligned"
  ELSE "foreign"

StartPassport(p) ==
  /\ Op(p) = "passport"
  /\ DeclStarts(p, IF Posture = "foreign" THEN DeclOver(p, "failed")
                   ELSE [decl[p] EXCEPT !.at = "keyhole"])

\* keyhole.yaml must name the repository; in a scaffold, repo is a mapping.
NamesRepo == {"good", "loose", "mixed"}

PassportReadsKeyhole(p) ==
  /\ decl[p].at = "keyhole"
  /\ \/ tree["keyhole"] \in NamesRepo /\ DeclGo(p, [decl[p] EXCEPT !.at = "contract"])
     \/ tree["keyhole"] \notin {"good", "loose"} /\ DeclGo(p, DeclOver(p, "failed"))
  /\ UNCHANGED <<tree, declHistory, fresh>>

\* The contract must declare capabilities; that of a scaffold has none.
DeclaresCapabilities == {"good", "loose", "mixed"}

PassportReadsContract(p) ==
  /\ decl[p].at = "contract"
  /\ \/ tree["contract"] \in DeclaresCapabilities
        /\ DeclGo(p, [decl[p] EXCEPT !.at = "open", !.left = <<"passport">>])
     \/ tree["contract"] \notin {"good", "loose"} /\ DeclGo(p, DeclOver(p, "failed"))
  /\ UNCHANGED <<tree, declHistory, fresh>>

-----------------------------------------------------------------------------
(* keyhole validate                                                        *)

\* validate_keyhole_yaml: what it may find in a file that a user got wrong.
BadKeyhole == {"parse_error", "missing_required_field", "empty_or_invalid_repo_name"}

\* validate_governance_contract
BadContract ==
  {"parse_error", "missing_required_field", "produces_must_be_list",
   "produces_item_must_be_string", "invalid_capability_namespace",
   "local_invariants_must_be_list", "required_tests_must_be_list"}

\* validate_capability_passport
BadPassport ==
  {"parse_error", "missing_required_field", "invalid_capability_namespace",
   "capability_must_be_string", "delegated_capabilities_must_be_list",
   "delegated_capability_must_be_string"}

\* validate_dependencies, parse_dependencies_list
BadDependencies ==
  {"parse_error", "dependencies_must_be_list", "dependency_must_be_mapping",
   "missing_required_capability", "capability_must_be_string",
   "invalid_capability_namespace", "duplicate_capability", "provider_must_be_string",
   "digest_must_be_string", "unsupported_digest_format"}

Bad == [keyhole |-> BadKeyhole, contract |-> BadContract, passport |-> BadPassport,
        dependencies |-> BadDependencies]

\* A scaffold's keyhole.yaml has a mapping for a name; its passport, and a
\* generated one, has no capability.
ScaffoldIssues ==
  [keyhole |-> {"empty_or_invalid_repo_name"}, contract |-> {},
   passport |-> {"missing_required_field"}, dependencies |-> {}]

\* Mutant: an empty file has no issues.
NoIssuesIfEmpty ==
  [keyhole |-> {}, contract |-> {}, passport |-> {}, dependencies |-> {}]

\* An empty file is an empty mapping; dependencies may be missing in it.
EmptyIssues ==
  [keyhole |-> {"missing_required_field", "missing_optional_schema_version"},
   contract |-> {"missing_required_field"},
   passport |-> {"missing_required_field"}, dependencies |-> {}]

\* The sets of reasons that the file f, with content c, may be given.
FileIssues(f, c) ==
  CASE c = "cut" -> {EmptyIssues[f]}
    [] c \in ScaffoldNames \cup {"generated"} -> {ScaffoldIssues[f]}
    [] c \in {"bad", "mixed"} -> {{r} : r \in Bad[f]}
    [] c = "loose" /\ f = "keyhole" -> {{"missing_optional_schema_version"}}
    [] OTHER -> {{}}

WarnOnly ==
  {"missing_optional_schema_version", "missing_optional_trust_metadata",
   "self_dependency_detected", "incompatible_major_version", "dependency_provider_missing",
   "native_governance_files_absent", "foreign_manifests_detected"}

\* Of the issues found, what the overall status depends on is kept.
Worst(issues) ==
  IF issues = {} THEN "none" ELSE IF issues \subseteq WarnOnly THEN "warning" ELSE "error"

Worse(one, other) ==
  IF "error" \in {one, other} THEN "error"
  ELSE IF "warning" \in {one, other} THEN "warning" ELSE "none"

\* --strict escalates warnings.
Verdict(worst, strict) ==
  IF worst = "none" THEN "PASS" ELSE IF strict \/ worst = "error" THEN "REJECT" ELSE "WARN"

StartValidate(p) ==
  /\ Op(p) = "validate"
  /\ LET posture == CASE decl[p].cmd.mode = "native" -> "native"
                      [] decl[p].cmd.mode = "advisory" -> "foreign"
                      [] OTHER -> Posture
     IN DeclStarts(p, IF posture = "foreign" THEN DeclOver(p, "foreign")   \* WARN
                      ELSE [decl[p] EXCEPT !.at = "validate", !.left = ReadOrder,
                                           !.posture = posture])

Finds(p, issues) == [decl[p] EXCEPT !.left = Tail(decl[p].left),
                                    !.worst = Worse(@, Worst(issues))]

\* keyhole.yaml and the contract must exist in a native repository.
ValidateFile(p) ==
  /\ decl[p].at = "validate" /\ decl[p].left # <<>>
  /\ LET f == Head(decl[p].left) IN
     IF tree[f] = "none"
     THEN DeclGo(p, Finds(p, IF f \in {"keyhole", "contract"} /\ decl[p].posture = "native"
                             THEN {"missing_required_file"} ELSE {}))
     ELSE \E issues \in FileIssues(f, tree[f]) : DeclGo(p, Finds(p, issues))
  /\ UNCHANGED <<tree, declHistory, fresh>>

\* The strict check of the providers reads the dependencies again.
ValidateProviders(p) ==
  /\ decl[p].at = "validate" /\ decl[p].left = <<>>
  /\ DeclGo(p, [decl[p] EXCEPT !.at = "compare",
       !.worst = IF decl[p].cmd.strict /\ tree["dependencies"] = "loose"
                 THEN Worse(@, Worst({"dependency_provider_missing"})) ELSE @])
  /\ UNCHANGED <<tree, declHistory, fresh>>

\* So does the check of compatibility with the contract and the dependencies.
ReadProduces(p) ==
  /\ decl[p].at = "compare"
  /\ DeclGo(p, [decl[p] EXCEPT !.at = "judge", !.contract = tree["contract"]])
  /\ UNCHANGED <<tree, declHistory, fresh>>

\* validate_compatibility
Incompatible(contract, dependencies) ==
  IF dependencies # "loose" THEN {}
  ELSE CASE contract = "good" -> {"self_dependency_detected"}
         [] contract = "loose" -> {"incompatible_major_version"}
         [] OTHER -> {}

Readiness(posture, verdict) ==
  IF posture = "partially_aligned" THEN "partially_aligned"
  ELSE IF verdict = "PASS" THEN "native_ready" ELSE "not_ready"

Judge(p) ==
  /\ decl[p].at = "judge"
  /\ LET worst == Worse(decl[p].worst,
                        Worst(Incompatible(decl[p].contract, tree["dependencies"])))
     IN DeclGo(p, DeclOver(p, Readiness(decl[p].posture, Verdict(worst, decl[p].cmd.strict))))
  /\ UNCHANGED <<tree, declHistory, fresh>>

-----------------------------------------------------------------------------
\* A user writes a declaration; an editor does so at once.
Edit(f, c) ==
  /\ edits < MaxEdits /\ edits' = edits + 1
  /\ tree' = [tree EXCEPT ![f] = c]
  /\ beside' = beside \cup DeclBusy
  /\ fresh' = {}
  /\ UNCHANGED decl

DeclNext ==
  \/ \E p \in DeclProcs :
       \/ StartInit(p) \/ LookAtFile(p) \/ OpenDeclaration(p) \/ FillDeclaration(p)
       \/ WriteFails(p) \/ AllWritten(p) \/ DeclKilled(p)
       \/ StartPassport(p) \/ PassportReadsKeyhole(p) \/ PassportReadsContract(p)
       \/ StartValidate(p) \/ ValidateFile(p) \/ ValidateProviders(p)
       \/ ReadProduces(p) \/ Judge(p)
  \/ \E e \in UserEdits : Edit(e[1], e[2])

DeclSpec == DeclInit /\ [][DeclNext]_declVars

-----------------------------------------------------------------------------
(* Properties.                                                             *)

\* The declarations and the commands on them keep their types.
DeclPlaces == {"idle", "look", "open", "fill", "keyhole", "contract",
               "validate", "compare", "judge", "over"}
DeclResults == {"none", "success", "failed", "killed", "foreign",
                "partially_aligned", "native_ready", "not_ready"}
DeclProcess ==
  [cmd : DeclCommands, at : DeclPlaces, left : Seq(DeclFiles), failed : BOOLEAN,
   clean : BOOLEAN, posture : {"none", "native", "partially_aligned"}, contract : Contents,
   worst : {"none", "warning", "error"}, result : DeclResults]

DeclTypeOK ==
  /\ tree \in [DeclFiles -> Contents]
  /\ decl \in [DeclProcs -> DeclProcess]
  /\ edits \in 0..MaxEdits /\ beside \subseteq DeclProcs /\ fresh \subseteq DeclProcs

InitSucceeds(p) ==
  /\ Op(p) = "init" /\ decl[p].at = "look" /\ decl'[p].result = "success"

\* "Governed repo scaffold created" is true: an init that ran alone leaves no
\* declaration out or cut, and a forced one leaves every one of them its own,
\* whatever other commands were killed in the middle of before.  Without
\* --force it completes, under its own name, what it finds, so that it needs to
\* find nothing cut (run_init_vertical, _execute_scaffold).
ScaffoldIsWhole ==
  [][\A p \in DeclProcs :
       InitSucceeds(p) /\ p \notin beside /\ (decl[p].cmd.force \/ decl[p].clean) =>
         /\ \A f \in DeclFiles : tree'[f] \notin {"none", "cut", "mixed"}
         /\ decl[p].cmd.force => \A f \in DeclFiles : tree'[f] = decl[p].cmd.name]_declVars
=============================================================================
