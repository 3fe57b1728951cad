-------------------------- MODULE MCBundleInstaller --------------------------
(* Values for model checking BundleInstaller.                               *)
EXTENDS BundleInstaller, TLC

CONSTANTS a, b, old, new   \* install roots, bundles

Alike == Permutations({a, b}) \cup Permutations({old, new})
=============================================================================
