----------------------------- MODULE MCDiscovery -----------------------------
(* Values for model checking Discovery.                                     *)
EXTENDS Discovery

CONSTANTS home, login, a1, p1, p2   \* pages, approvals, packages
=============================================================================
