---------------------------- MODULE MCRunCommand ----------------------------
(* Small manifests and verdicts for model checking RunCommand.              *)
EXTENDS RunCommand

CONSTANT g1   \* a flow group (model value)

Own == [scope |-> "case", group |-> NoGroup, approved |-> FALSE]
Grouped == [scope |-> "flow_group", group |-> g1, approved |-> FALSE]
Suite == [scope |-> "suite", group |-> NoGroup, approved |-> TRUE]
RunPlans == {<<Own, Own>>, <<Grouped, Grouped>>, <<Suite, Own>>}
OnePlan == {<<Own, Own>>}

Ends(s, r) == [status |-> s, run |-> r]
RunVerdicts == {Ends("passed", "completed"), Ends("failed", "completed"),
                Ends("not_executed", "executor_error")}
=============================================================================
