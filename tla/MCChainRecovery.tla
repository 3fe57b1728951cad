--------------------------- MODULE MCChainRecovery ---------------------------
(* Values for model checking ChainRecovery: every function of up to three   *)
(* of the statements below, in a script of high priority, and every script  *)
(* with one function.                                                       *)
EXTENDS ChainRecovery

Call(kind) == [type |-> "call", call |-> kind]
If(cond, then, ends) == [type |-> "if", cond |-> cond, then |-> then, else |-> <<>>,
                         hasElse |-> FALSE, ends |-> ends]
IfElse(cond, then, else) == [type |-> "if", cond |-> cond, then |-> then, else |-> else,
                             hasElse |-> TRUE, ends |-> "no"]
CallsOfWrapper == [w \in Wrappers |-> Wrappers]

KindOfText == [reload |-> "reload_or_cache", refetch |-> "reload_or_cache",
               showError |-> "error_feedback", refreshToken |-> "auth_recovery",
               items |-> "state_update"]

Statements ==
  { Call("GET"), Call("POST"), Call("reload"), Call("axios"),
    [type |-> "assign", text |-> "items"],
    If("permission", <<>>, "return"), If("state", <<"showError">>, "throw"),
    If("permission", <<"POST">>, "return"), If("other", <<"reload">>, "no"),
    IfElse("response", <<"reload", "none", "showError">>, <<"showError", "reload", "showError">>),
    IfElse("response", <<"GET">>, <<"showError">>),
    IfElse("response", <<"reload", "reload", "refetch">>, <<"showError">>),
    If("401", <<"refreshToken", "replay">>, "replay"),
    IfElse("401", <<"refreshToken">>, <<"refetch">>) }

ImportantAsset == [class |-> "first_party", loaded |-> TRUE, first |-> TRUE, known |-> FALSE,
                   rich |-> TRUE, risk |-> TRUE, critical |-> FALSE, promoted |-> FALSE,
                   parses |-> TRUE]
Bodies == UNION {[1..n -> Statements] : n \in 1..3}
OneBody == <<Call("POST"), Call("reload")>>

Names == {"change", "read", "unknownAction", "other"}
MCInputs == [asset : {ImportantAsset}, fn : [name : Names, body : Bodies]]
            \cup [asset : AssetType, fn : {[name |-> "change", body |-> OneBody]}]
=============================================================================
