-------------------------- MODULE MCRunOrchestrator --------------------------
(* Small manifests and outcome sets for model checking RunOrchestrator.     *)
EXTENDS RunOrchestrator

CONSTANTS r1, r2   \* resources (model values)

Operate(i, f) == [id |-> i, kind |-> "operate", field |-> f]
Assert(i) == [id |-> i, kind |-> "assert", field |-> "assertions"]
Marker(i) == [id |-> i, kind |-> "blocked", field |-> "none"]
Cleanup(i) == [id |-> i, kind |-> "cleanup", field |-> "cleanup"]

\* A ready case without contract entries of its own: one action, one assertion.
Plain == [execution |-> <<Assert(2)>>, cleanup |-> <<>>,
          auto |-> TRUE, unresolved |-> FALSE, dependencies |-> {}, locks |-> {},
          global |-> FALSE, declares |-> {"assertions"}, technical |-> FALSE]

Result(s) == [status |-> s, transient |-> FALSE, cause |-> NoCause, attached |-> FALSE]
Transient(s) == [Result(s) EXCEPT !.transient = TRUE]
Attached(o) == [o EXCEPT !.attached = TRUE]
Caused(k) == [Result("failed") EXCEPT !.cause = k]

-----------------------------------------------------------------------------
(* Cleanup failures between cases that share a resource, or nothing.        *)

Cleaned(l, g, steps) ==
  [Plain EXCEPT !.cleanup = steps, !.locks = l, !.global = g,
                !.declares = {"assertions", "cleanup"}]
IsolationManifests ==
  {<<Cleaned({r1}, g1, <<Cleanup(3), Cleanup(4)>>), Cleaned(l2, g2, <<Cleanup(3)>>),
     Cleaned(l3, FALSE, <<>>)>> :
     g1 \in BOOLEAN, l2 \in {{}, {r1, r2}}, g2 \in BOOLEAN, l3 \in {{}, {r1}, {r2}}}
IsolationOutcomes ==
  {Result("passed"), Result("failed"), Attached(Transient("executor_error"))}

(* Retries, attachments and reruns into a directory that is not empty.      *)

RetryManifests ==
  {<<[Plain EXCEPT !.execution = <<Operate(1, "actions"), Assert(2)>>,
                   !.cleanup = <<Cleanup(3)>>, !.declares = {"actions", "assertions"}],
     [Plain EXCEPT !.dependencies = {1}]>>,
   <<[Plain EXCEPT !.execution = <<Assert(1), Assert(2)>>], Plain>>}

RerunManifests == {<<[Plain EXCEPT !.execution = <<Assert(1)>>, !.cleanup = <<Cleanup(3)>>], Plain>>}

(* Gates, verdicts and contract fields.                                     *)

Gated ==
  {[Plain EXCEPT !.auto = FALSE], [Plain EXCEPT !.unresolved = TRUE],
   [Plain EXCEPT !.dependencies = {1}], [Plain EXCEPT !.dependencies = {3}],
   [Plain EXCEPT !.execution = <<Operate(1, "setup")>>, !.cleanup = <<Cleanup(2)>>],
   [Plain EXCEPT !.execution = <<Marker(1)>>],
   [Plain EXCEPT !.execution = <<>>],
   [Plain EXCEPT !.execution = <<Operate(1, "setup"), Operate(3, "actions"), Assert(2)>>,
                 !.declares = {"setup", "actions", "assertions", "cleanup"},
                 !.cleanup = <<Cleanup(4)>>, !.technical = TRUE]}
VerdictManifests ==
  {<<[Plain EXCEPT !.cleanup = <<Cleanup(4)>>, !.declares = {"assertions", "cleanup"}], b>> :
     b \in Gated} \cup
  {<<Plain, b, c>> : b \in {[Plain EXCEPT !.dependencies = {3}], [Plain EXCEPT !.auto = FALSE], Plain},
                     c \in {[Plain EXCEPT !.dependencies = {2}], [Plain EXCEPT !.dependencies = {1}]}}
VerdictOutcomes ==
  {Result(s) : s \in OutcomeStatus} \cup
  {Attached(Transient("failed")), Caused("c1")}
MCManifests == IsolationManifests \cup RerunManifests \cup VerdictManifests \cup RetryManifests

\* Verdicts need every status, isolation only success, failure and an error.
MCOutcomes(m) ==
  IF m \in IsolationManifests \cup RerunManifests THEN IsolationOutcomes ELSE VerdictOutcomes

\* A rerun meets what the run before it left behind.
TwiceIfRerun(m) == IF m \in RerunManifests THEN 2 ELSE 1
=============================================================================
