----------------------------- MODULE Readiness ------------------------------
(***************************************************************************)
(* assessReadiness: how far the preparation of an execution has come, what *)
(* still blocks it, and the examples a user may copy into the execution    *)
(* profile to get rid of it.                                               *)
(*                                                                         *)
(* Abstractions.  Texts are left out: a blocker is what it is about.  A    *)
(* step knows its type, target, and the fixtures its three kinds of        *)
(* references name.  The runtime probe says which software is missing.     *)
(***************************************************************************)
EXTENDS Naturals, FiniteSets

Absent == [absent |-> TRUE]

Kinds == {"web", "api", "database"}
WebTypes == {"web.click", "web.assert", "cleanup.web"}
DatabaseTypes == {"db.select", "db.assert"}
KindOf(type) ==
  IF type \in WebTypes THEN "web" ELSE IF type \in DatabaseTypes THEN "database" ELSE "api"

\* A requirement of the cases counts only until there is a manifest.
Usage(input) ==
  IF input.manifest = Absent
  THEN {[alias |-> r.alias, kind |-> r.kind] : r \in input.targets}
  ELSE {[alias |-> s.alias, kind |-> KindOf(s.type)] :
          s \in UNION {c.steps : c \in input.manifest.cases}}
Used(usage) == {u.alias : u \in usage}

-----------------------------------------------------------------------------
(* What blocks                                                             *)

\* A draft of a target: its kind, if any, and the fields that are filled in.
IsTargetComplete(draft) ==
  \/ draft.kind \in {"web", "api"} /\ "origin" \in draft.filled
  \/ /\ draft.kind = "database"
     /\ {"dialect", "host", "database", "username_credential", "password_credential"}
          \subseteq draft.filled

TargetBlockers(profile, usage) ==
  {[kind |-> "target", of |-> a] : a \in {b \in Used(usage) : ~IsTargetComplete(profile.targets[b])}}

CredentialApplies(r, profile, usage) ==
  /\ [alias |-> r.target, kind |-> r.kind] \in usage
  /\ ~(r.kind = "web" /\ r.target \in profile.public)

CredentialBlockers(profile, usage, requirements) ==
  {[kind |-> "credential", of |-> r.alias] :
     r \in {q \in requirements : /\ CredentialApplies(q, profile, usage)
                                 /\ q.alias \notin profile.credentials}}

CasesOf(input) == IF input.manifest = Absent THEN {} ELSE input.manifest.cases
HasVerdictRoute(case) ==
  \E s \in case.steps : s.type \in {"api.assert", "web.assert", "db.assert", "execution.blocked"}
HasCleanup(case) == \E s \in case.steps : s.type \in {"cleanup.api", "cleanup.web"}
DataRefs(case) == UNION {s.refs : s \in case.steps}

MissingCleanup(input) ==
  {c.id : c \in {d \in CasesOf(input) : HasCleanup(d) /\ d.id \notin input.profile.cleanup}}
MissingData(input) ==
  UNION {DataRefs(c) : c \in CasesOf(input)} \ input.profile.data
GapsOf(input, kind) == {g \in input.gaps : g.kind = kind}

CompilationBlockers(cases, input) ==
  LET found ==
        {[kind |-> "steps", of |-> c.id] : c \in {d \in cases : ~d.steps}}
        \cup {[kind |-> "expected", of |-> c.id] : c \in {d \in cases : ~d.expected}}
        \cup {[kind |-> "data", of |-> n] : n \in MissingData(input)}
        \cup {[kind |-> "assertion", of |-> c.id] :
                c \in {d \in CasesOf(input) : ~HasVerdictRoute(d)}}
        \cup {[kind |-> "cleanup", of |-> c] : c \in MissingCleanup(input)}
        \cup {[kind |-> "gap", of |-> g] : g \in input.gaps}
  IN  IF input.manifest = Absent /\ found = {} THEN {[kind |-> "preview", of |-> Absent]} ELSE found

\* Browsers block only Web actions, drivers only those of a database.
Blocking(probe, usage) ==
  probe.software
  \cup (IF \E u \in usage : u.kind = "web" THEN probe.browsers ELSE {})
  \cup (IF \E u \in usage : u.kind = "database" THEN probe.drivers ELSE {})
RuntimeBlockers(probe, usage) ==
  IF probe = Absent THEN {}
  ELSE {[kind |-> "software", of |-> p] : p \in Blocking(probe, usage)}
       \cup {[kind |-> "unreachable", of |-> a] : a \in probe.unreachable}
Optional(probe, usage) ==
  IF probe = Absent THEN {} ELSE (probe.browsers \cup probe.drivers) \ Blocking(probe, usage)

-----------------------------------------------------------------------------
(* What may be copied                                                      *)

\* Of an alias that two kinds of actions use, the kind that is required counts.
KindsOf(alias, usage, requirements) ==
  LET required == {r.kind : r \in {q \in requirements : q.alias = alias}}
  IN  IF required # {} THEN required ELSE {u.kind : u \in {v \in usage : v.alias = alias}}

\* Mutant: the example of a database is that of an API.
OriginExample(kind) == [kind |-> kind, filled |-> {"origin"}]
TargetExample(kind) ==
  [kind |-> kind,
   filled |-> IF kind = "database"
              THEN {"dialect", "host", "database", "username_credential", "password_credential"}
              ELSE {"origin"}]

Examples(input, usage, blockers) ==
  LET of(kind) == {b.of : b \in {c \in blockers : c.kind = kind}} IN
  [targets |-> UNION {{[alias |-> a, draft |-> TargetExample(k)] :
                         k \in KindsOf(a, usage, input.targets)} : a \in of("target")},
   credentials |-> of("credential"),
   data |-> of("data") \cup {g.name : g \in GapsOf(input, "missing_data")},
   cleanup |-> MissingCleanup(input),
   runtime |-> IF input.probe = Absent THEN {}
               ELSE input.probe.software \cup input.probe.browsers \cup input.probe.drivers]

-----------------------------------------------------------------------------
(* The assessment                                                          *)

Available(input, cases, targets, credentials, compilation, runtime) ==
  {"formal_cases"}
  \cup {c \in {"targets"} : targets = {} /\ (input.manifest # Absent \/ input.targets # {})}
  \cup {c \in {"credentials"} : credentials = {}}
  \cup {c \in {"test_data"} : MissingData(input) = {} /\ GapsOf(input, "missing_data") = {}}
  \cup {c \in {"assertions"} : /\ \A d \in CasesOf(input) : HasVerdictRoute(d)
                               /\ GapsOf(input, "missing_assertion") = {}}
  \cup {c \in {"cleanup_strategy"} : /\ MissingCleanup(input) = {}
                                     /\ GapsOf(input, "missing_cleanup") = {}}
  \cup {c \in {"manifest_preview"} :
          input.manifest # Absent /\ targets \cup credentials \cup compilation \cup runtime = {}}
  \cup {c \in {"runtime_probe"} : input.probe # Absent}

ApprovalPending(approval) == approval # "valid"

AssessReadiness(input) ==
  LET cases == {c \in input.cases : ~c.divider}
      usage == Usage(input)
      targets == TargetBlockers(input.profile, usage)
      credentials == CredentialBlockers(input.profile, usage, input.credentials)
      compilation == CompilationBlockers(cases, input)
      runtime == RuntimeBlockers(input.probe, usage)
      known == Available(input, cases, targets, credentials, compilation, runtime)
      Level(level, blocking, available, examples) ==
        [level |-> level, blocking |-> blocking, available |-> available,
         optional |-> Optional(input.probe, usage), examples |-> examples,
         runnerAllowed |-> level = 4]
      second == compilation \cup runtime
      first == targets \cup credentials
      all == Examples(input, usage, first \cup second)
  IN  IF cases = {}
      THEN Level(0, {[kind |-> "cases", of |-> Absent]},
                 {c \in {"runtime_probe"} : input.probe # Absent},
                 [Examples(input, usage, {}) EXCEPT !.data = {}, !.cleanup = {}])
      ELSE IF first # {} THEN Level(1, first \cup second, known, all)
      ELSE IF second # {} THEN Level(2, second, known, all)
      ELSE IF ApprovalPending(input.approval)
      THEN Level(3, {[kind |-> "approval", of |-> Absent]}, known, all)
      ELSE Level(4, {}, known, all)
=============================================================================
