-------------------------- MODULE MCBrowserSession --------------------------
(* Small isolation plans for model checking BrowserSession.                 *)
EXTENDS BrowserSession

CONSTANTS g1, g2   \* flow groups (model values)

Own == [scope |-> "case", group |-> NoGroup, approved |-> FALSE]
Grouped(g) == [scope |-> "flow_group", group |-> g, approved |-> FALSE]
Suite(ok) == [scope |-> "suite", group |-> NoGroup, approved |-> ok]
External == [scope |-> "external_existing", group |-> NoGroup, approved |-> TRUE]
Kinds == {Own, Grouped(g1), Grouped(g2), Grouped(NoGroup), Suite(TRUE), External}

\* Every pair of policies before a third case that shares with one of them, or not.
ThreeCases == {<<a, b, c>> : a \in Kinds, b \in Kinds, c \in {Own, Grouped(g1), Suite(TRUE)}}
              \cup {<<Own, Suite(FALSE)>>}
TwoCases == {<<Own, Own>>, <<Grouped(g1), Grouped(g1)>>, <<Own>>}
=============================================================================
