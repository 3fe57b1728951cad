--------------------------- MODULE MCApprovalGate ---------------------------
(* A Web and a database target with two addresses each, and two actions.    *)
EXTENDS ApprovalGate, TLC

CONSTANTS web, db, x, y, p1, p2   \* model values

Declared(i, alias, risk, read, material) ==
  [id |-> i, alias |-> alias, declared |-> risk, readOnly |-> read, sensitive |-> FALSE,
   material |-> material]
MCActions == {Declared(1, web, 0, TRUE, FALSE), Declared(2, db, 3, FALSE, FALSE)}
\* Nothing orders or selects a package or an address.
Alike == Permutations({p1, p2}) \cup Permutations({x, y})
=============================================================================
