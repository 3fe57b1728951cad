---------------------------- MODULE CaseVerdicts ----------------------------
(***************************************************************************)
(* What a run promises to the reader of its results, without saying how:   *)
(* one verdict per case, in the order of the manifest, that is never taken *)
(* back; a case is acted on only when what it depends on has passed and    *)
(* nothing it needs is contaminated; a case that leaves something behind   *)
(* does not pass.  RunOrchestrator implements this module.                 *)
(***************************************************************************)
EXTENDS Integers, Sequences

CONSTANTS Manifests, Resources

CaseStatus == {"passed", "failed", "pending", "not_executed"}

VARIABLES
  manifest,     \* the cases, with their dependencies, locks and global effect
  verdicts,     \* the verdicts so far
  soiled,       \* the current case has left something behind
  environment,  \* the whole environment is contaminated
  resources     \* the resources that are contaminated

vars == <<manifest, verdicts, soiled, environment, resources>>

Current == manifest[Len(verdicts) + 1]
CasesLeft == Len(verdicts) + 1 \in DOMAIN manifest

MayAct ==
  /\ CasesLeft
  /\ ~environment
  /\ Current.locks \cap resources = {}
  /\ \A d \in Current.dependencies : d \in DOMAIN verdicts /\ verdicts[d] = "passed"

Init ==
  /\ manifest \in Manifests
  /\ verdicts = <<>> /\ soiled = FALSE
  /\ environment = FALSE /\ resources = {}

\* The case is left out, for whatever reason.
Refuse ==
  /\ CasesLeft /\ ~soiled
  /\ verdicts' = Append(verdicts, "not_executed")
  /\ UNCHANGED <<manifest, soiled, environment, resources>>

\* The case failed to restore what it changed.
LeaveBehind ==
  /\ MayAct \/ soiled
  /\ soiled' = TRUE
  /\ IF Current.global
     THEN environment' = TRUE /\ UNCHANGED resources
     ELSE resources' = resources \cup Current.locks /\ UNCHANGED environment
  /\ UNCHANGED <<manifest, verdicts>>

Decide(verdict) ==
  /\ MayAct \/ soiled
  /\ soiled => verdict # "passed"
  /\ verdicts' = Append(verdicts, verdict)
  /\ soiled' = FALSE
  /\ UNCHANGED <<manifest, environment, resources>>

\* The manifest is run again, from nothing.
StartAgain ==
  /\ verdicts' = <<>> /\ soiled' = FALSE
  /\ environment' = FALSE /\ resources' = {}
  /\ UNCHANGED manifest

Next == Refuse \/ LeaveBehind \/ (\E v \in CaseStatus : Decide(v)) \/ StartAgain
Spec == Init /\ [][Next]_vars
=============================================================================
