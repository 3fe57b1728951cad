------------------------------ MODULE MCRelease ------------------------------
(* One release; the sources change twice and a maintainer interferes once.    *)
EXTENDS Release
=============================================================================
