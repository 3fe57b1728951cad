---------------------------- MODULE ChainRecovery ----------------------------
(***************************************************************************)
(* js-test-mapper, stage 3: which scripts deserve deep analysis, the       *)
(* relations read from their syntax tree (L2), and the candidate call      *)
(* chains put together from one function (L3).                             *)
(*                                                                         *)
(* Abstractions.  A function is the sequence of its top-level statements:  *)
(* a call, an assignment of response data, or an if whose blocks hold      *)
(* calls.  What a regular expression asks of a name or an expression is    *)
(* the kind of the call or of the condition.  An else stands only at a     *)
(* response condition: with one, no other if is a branch.  A node of a     *)
(* chain is its type and its place, At(statement, block, index); the node  *)
(* of a post is its text, for it is made with start 0: one callee in two   *)
(* places is one node.                                                     *)
(***************************************************************************)
EXTENDS Naturals, Sequences

CONSTANTS
  Inputs,          \* scripts with one of their functions, see AssetType and FunctionType
  Wrappers,        \* names of transport wrappers
  CallsOf,         \* of each wrapper the names it calls
  Texts,           \* what postProcessing picks: names of callees, and assignments
  KindOf           \* of each of them the kind of the post

AssetType == [class : {"first_party", "app_associated", "third_party", "unknown"},
              loaded : BOOLEAN, first : BOOLEAN, known : BOOLEAN, rich : BOOLEAN, risk : BOOLEAN,
              critical : BOOLEAN, promoted : BOOLEAN, parses : BOOLEAN]

ApiKinds == {"GET", "POST"}
PostKinds == {"auth_recovery", "reload_or_cache", "error_feedback", "replay_or_retry"}
Updates == {t \in Texts : KindOf[t] = "state_update"}
Callees == Texts \ Updates
CallKinds == ApiKinds \cup Callees \cup {"replay", "none"} \cup Wrappers
Conditions == {"permission", "state", "response", "401", "other"}
IfType == [type : {"if"}, cond : Conditions, then : Seq(CallKinds), else : Seq(CallKinds),
           hasElse : BOOLEAN, ends : {"no", "return", "throw", "replay"}]
FunctionType == [name : {"change", "read", "unknownAction", "other"},
                 body : Seq([type : {"call"}, call : CallKinds]
                            \cup [type : {"assign"}, text : Updates] \cup IfType)]

ASSUME InputsAssumption == Inputs \subseteq [asset : AssetType, fn : FunctionType]
ASSUME TextsAssumption ==
  /\ KindOf \in [Texts -> PostKinds \cup {"state_update"}]
  /\ Texts \cap (ApiKinds \cup {"replay", "none"} \cup Wrappers) = {}

VARIABLES
  asset, fn, pc,         \* the script, the function, the next step
  focus, relations,      \* selectAnalysisFocus; recoverL2
  type,                  \* actionType
  nodes, edges,          \* of the chain
  previous, pending,     \* the last sequential node; the guard whose false outcome is open
  todo,                  \* branches, references and posts still to be placed
  stop                   \* stop_reason

chainVars == <<asset, fn, pc, focus, relations, type, nodes, edges, previous, pending, todo, stop>>

-----------------------------------------------------------------------------
(* Focus.                                                                   *)

Trusted(a) == a.class \in {"first_party", "app_associated"}
Relevant(a) == a.first \/ a.loaded

Priority(a) ==
  IF a.promoted \/ (a.class = "third_party" /\ a.critical) THEN "HIGH"
  ELSE IF Trusted(a) /\ a.rich /\ (a.loaded \/ a.risk) THEN "HIGH"
  ELSE IF Trusted(a) /\ (Relevant(a) \/ ~a.known) THEN "MEDIUM"
  ELSE "LOW"

-----------------------------------------------------------------------------
(* What is read from a function.                                            *)

At(i, block, k) == <<i, block, k>>
Before(p, q) ==
  \/ p[1] < q[1]
  \/ p[1] = q[1] /\ p[2] < q[2]
  \/ p[1] = q[1] /\ p[2] = q[2] /\ p[3] < q[3]

Stmt(i) == fn.body[i]
Ifs == {i \in DOMAIN fn.body : Stmt(i).type = "if"}

\* Every call of the function: its kind, place, statement and block.
Calls ==
  {[kind |-> Stmt(i).call, at |-> At(i, 0, 0), stmt |-> i, block |-> 0] :
     i \in {j \in DOMAIN fn.body : Stmt(j).type = "call"}}
  \cup (UNION {{[kind |-> Stmt(i).then[k], at |-> At(i, 1, k), stmt |-> i, block |-> 1] :
                  k \in DOMAIN Stmt(i).then} : i \in Ifs})
  \cup UNION {{[kind |-> Stmt(i).else[k], at |-> At(i, 2, k), stmt |-> i, block |-> 2] :
                 k \in DOMAIN Stmt(i).else} : i \in {j \in Ifs : Stmt(j).hasElse}}

ApiReferences == {c \in Calls : c.kind \in ApiKinds}

IsRefresh(call) == call \in Callees /\ KindOf[call] = "auth_recovery"
IsRecovery(i) ==
  /\ Stmt(i).cond = "401" /\ Stmt(i).ends = "replay"
  /\ \E k \in DOMAIN Stmt(i).then : IsRefresh(Stmt(i).then[k])
  /\ \E k \in DOMAIN Stmt(i).then : Stmt(i).then[k] = "replay"

IsGuard(i) == ~Stmt(i).hasElse /\ Stmt(i).ends # "no" /\ Stmt(i).cond \in {"permission", "state"}
IsIfElse(i) == Stmt(i).hasElse /\ Stmt(i).cond \in {"response", "401"}

\* The returned replay stands after the other calls of its block.
ReplayAt(i) == At(i, 1, Len(Stmt(i).then) + 1)

BranchKind(i) == IF IsRecovery(i) THEN "recovery" ELSE IF IsGuard(i) THEN "guard"
                 ELSE IF IsIfElse(i) THEN "if_else" ELSE "none"
Branches(kind) == {i \in Ifs : BranchKind(i) = kind}
AllBranches == {i \in Ifs : BranchKind(i) # "none"}

\* branchForNode, branchOutcomeForNode: 0 stands for null.
BranchOf(c) == IF c.block # 0 /\ c.stmt \in AllBranches THEN c.stmt ELSE 0
OutcomeOf(c) == IF BranchOf(c) = 0 THEN "" ELSE IF c.block = 1 THEN "true" ELSE "false"

ConditionKinds == {Stmt(i).cond : i \in AllBranches} \cap {"permission", "state"}

Post(kind, text, at, branch, outcome) ==
  [kind |-> kind, text |-> text, at |-> at, branch |-> branch, outcome |-> outcome]

BranchPost(c) == Post(KindOf[c.kind], c.kind, c.at, BranchOf(c), OutcomeOf(c))

\* Outside a response branch a call is post-processing of no branch.
PlainPost(c) == Post(KindOf[c.kind], c.kind, c.at, 0, "")

\* Mutant: equal ones of both outcomes of a branch are one post.
DeduplicatedInBranch(posts) ==
  {p \in posts : ~\E q \in posts : /\ Before(q.at, p.at) /\ q.kind = p.kind
                                   /\ q.text = p.text /\ q.branch = p.branch}

\* add: of equal ones the first in the source stays.
Deduplicated(posts) ==
  {p \in posts : ~\E q \in posts :
      /\ Before(q.at, p.at) /\ q.kind = p.kind /\ q.text = p.text
      /\ q.branch = p.branch /\ q.outcome = p.outcome}

Posting == {c \in Calls : c.kind \in Callees}
InBranch(c, kind) == BranchOf(c) # 0 /\ BranchKind(BranchOf(c)) = kind

\* Of a 401 branch the first refresh is listed, with its condition and its replay.
RecoveryPosts ==
  {BranchPost(c) : c \in {x \in Posting :
      /\ InBranch(x, "recovery") /\ x.block = 1 /\ IsRefresh(x.kind)
      /\ ~\E y \in Posting : y.stmt = x.stmt /\ IsRefresh(y.kind) /\ Before(y.at, x.at)}}
  \cup {Post("auth_recovery", Stmt(i).cond, At(i, 0, 0), i, "true") : i \in Branches("recovery")}
  \cup {Post("replay_or_retry", "request(config)", ReplayAt(i), i, "true") :
           i \in Branches("recovery")}

PostProcessing ==
  Deduplicated(
    {BranchPost(c) : c \in {x \in Posting : InBranch(x, "if_else")}}
    \cup RecoveryPosts
    \cup {Post("response_branch", Stmt(i).cond, At(i, 0, 0), i, "") : i \in Branches("if_else")}
    \cup {PlainPost(c) : c \in {x \in Posting :
            ~InBranch(x, "if_else") /\ ~InBranch(x, "recovery")}}
    \cup {Post("state_update", Stmt(i).text, At(i, 0, 0), 0, "") :
            i \in {j \in DOMAIN fn.body : Stmt(j).type = "assign"}})

ActionType ==
  LET methods == {c.kind : c \in ApiReferences}
  IN IF Branches("recovery") # {} THEN "recovery"
     ELSE IF fn.name = "unknownAction" THEN "insufficient"
     ELSE IF "POST" \in methods /\ fn.name = "change" THEN "stateful_action"
     ELSE IF "GET" \in methods /\ fn.name = "read" THEN "query"
     ELSE IF methods # {} /\ ConditionKinds # {} THEN "stateful_action"
     ELSE "none"

\* The wrappers reached from the function through wrappers, cycles included.
WrapperClosure ==
  LET direct == {c.kind : c \in Calls} \cap Wrappers
      closed(s) == direct \subseteq s /\ \A w \in s : CallsOf[w] \cap Wrappers \subseteq s
  IN CHOOSE s \in SUBSET Wrappers : closed(s) /\ \A t \in SUBSET s : closed(t) => t = s

EvaluateStopGate(sufficient, closed, framework) ==
  IF ~sufficient THEN "evidence_insufficient"
  ELSE IF closed THEN "business_loop_closed"
  ELSE IF framework THEN "framework_boundary"
  ELSE "continue_within_observable_boundary"

RecoverL2 ==
  {<<"function_definition", fn.name>>}
  \cup {<<"action_anchor", fn.name>> : n \in {fn.name} \cap {"change", "read"}}
  \cup {<<"function_reference", w>> : w \in {c.kind : c \in Calls} \cap Wrappers}
  \cup {<<"api_reference", c.kind, c.at>> : c \in ApiReferences}
  \cup {<<"condition", k>> : k \in ConditionKinds}

-----------------------------------------------------------------------------
(* The chain.                                                               *)

NoNode == <<"", At(0, 0, 0)>>
PostNode(p) == <<"post", p.text>>
Entry == <<"function", At(0, 0, 0)>>
Edge(from, to, relation, branch, outcome) ==
  [from |-> from, to |-> to, relation |-> relation, branch |-> branch, outcome |-> outcome]

\* addSequentialNode: the node follows the open guard, or the previous node.
SequentialEdges(node, relation) ==
  IF pending # 0
  THEN {Edge(<<"condition", At(pending, 0, 0)>>, node, "guard_continue", pending, "false")}
  ELSE IF previous # NoNode THEN {Edge(previous, node, relation, 0, "")} ELSE {}

\* The first of what is still to be placed.
IsNext(x, of) == x \in of /\ \A y \in of : ~Before(y.at, x.at)
Placed(i) == [at |-> At(i, 0, 0), stmt |-> i]
Linear == {p \in PostProcessing : p.branch = 0}

ChainInit ==
  /\ \E i \in Inputs : asset = i.asset /\ fn = i.fn
  /\ pc = "focus" /\ focus = "" /\ relations = {}
  /\ type = "none" /\ nodes = {} /\ edges = {} /\ previous = NoNode /\ pending = 0 /\ todo = {}
  /\ stop = ""

SelectAnalysisFocus ==
  /\ pc = "focus" /\ focus' = Priority(asset)
  /\ pc' = IF focus' = "LOW" THEN "done" ELSE "relations"
  /\ UNCHANGED <<asset, fn, relations, type, nodes, edges, previous, pending, todo, stop>>

\* A script that cannot be parsed yields no relations and no chains.
RunL2 ==
  /\ pc = "relations"
  /\ relations' = IF asset.parses THEN RecoverL2 ELSE {}
  /\ pc' = IF focus = "HIGH" /\ asset.parses THEN "begin" ELSE "done"
  /\ UNCHANGED <<asset, fn, focus, type, nodes, edges, previous, pending, todo, stop>>

BeginChain ==
  /\ pc = "begin" /\ type' = ActionType
  /\ IF type' = "none" THEN pc' = "done" /\ UNCHANGED <<nodes, previous, todo>>
     ELSE /\ nodes' = {Entry} /\ previous' = Entry
          /\ todo' = {Placed(i) : i \in Branches("guard")} /\ pc' = "guards"
  /\ UNCHANGED <<asset, fn, focus, relations, edges, pending, stop>>

\* Mutant: the path goes on from the condition, whatever its outcome
GuardThatNeverStops ==
  \E b \in todo :
    LET node == <<"condition", b.at>>
    IN /\ pc = "guards" /\ IsNext(b, todo) /\ todo' = todo \ {b}
       /\ nodes' = nodes \cup {node, <<"terminal", b.at>>}
       /\ edges' = edges \cup SequentialEdges(node, "guard_condition")
            \cup {Edge(node, <<"terminal", b.at>>, "guard_stop", b.stmt, "true")}
       /\ pending' = 0 /\ previous' = node
       /\ UNCHANGED <<asset, fn, pc, focus, relations, type, stop>>

AddGuard ==
  \E b \in todo :
    LET node == <<"condition", b.at>>
    IN /\ pc = "guards" /\ IsNext(b, todo) /\ todo' = todo \ {b}
       /\ nodes' = nodes \cup {node, <<"terminal", b.at>>}
       /\ edges' = edges \cup SequentialEdges(node, "guard_condition")
            \cup {Edge(node, <<"terminal", b.at>>, "guard_stop", b.stmt, "true")}
       /\ pending' = b.stmt /\ previous' = node
       /\ UNCHANGED <<asset, fn, pc, focus, relations, type, stop>>

EndGuards ==
  /\ pc = "guards" /\ todo = {}
  /\ IF type = "recovery" THEN pc' = "recovery" /\ UNCHANGED todo
     ELSE pc' = "apis" /\ todo' = ApiReferences
  /\ UNCHANGED <<asset, fn, focus, relations, type, nodes, edges, previous, pending, stop>>

\* The first 401 branch: refresh and replay in it, the next statement past it.
AddRecovery ==
  \E i \in Branches("recovery") :
    LET unauthorized == <<"condition", At(i, 0, 0)>>
        refresh == <<"public_recovery", At(i, 1, 0)>>
        replay == <<"replay", ReplayAt(i)>>
        next == <<"continuation", At(i + 1, 0, 0)>>
        goesOn == i + 1 \in DOMAIN fn.body
    IN /\ pc = "recovery" /\ \A j \in Branches("recovery") : i <= j
       /\ nodes' = nodes \cup {unauthorized, refresh, replay}
            \cup IF goesOn THEN {next} ELSE {}
       /\ edges' = edges \cup SequentialEdges(unauthorized, "response_condition")
            \cup {Edge(unauthorized, refresh, "auth_recovery", i, "true"),
                  Edge(refresh, replay, "replay", i, "true")}
            \cup IF goesOn THEN {Edge(unauthorized, next, "recovery_fallthrough", i, "false")}
                 ELSE {}
       /\ previous' = unauthorized /\ pending' = 0 /\ pc' = "finish"
       /\ UNCHANGED <<asset, fn, focus, relations, type, todo, stop>>

\* The edge to a call inside a branch is given the branch and its outcome.
AddApi ==
  \E c \in todo :
    LET node == <<"api_reference", c.at>>
        into == SequentialEdges(node, "api_reference")
    IN /\ pc = "apis" /\ IsNext(c, todo) /\ todo' = todo \ {c}
       /\ nodes' = nodes \cup {node}
       /\ edges' = edges \cup IF BranchOf(c) = 0 THEN into
                              ELSE {[e EXCEPT !.branch = BranchOf(c), !.outcome = OutcomeOf(c)] :
                                      e \in into}
       /\ pending' = 0 /\ previous' = node
       /\ UNCHANGED <<asset, fn, pc, focus, relations, type, stop>>

EndApis ==
  /\ pc = "apis" /\ todo = {} /\ pc' = "responses"
  /\ todo' = {Placed(i) : i \in Branches("if_else")}
  /\ UNCHANGED <<asset, fn, focus, relations, type, nodes, edges, previous, pending, stop>>

\* Both outcomes of a response condition, each with its post-processing in
\* order; what follows has no predecessor.
AddResponse ==
  \E b \in todo :
    LET node == <<"condition", b.at>>
        of(outcome) == {p \in PostProcessing : p.branch = b.stmt /\ p.outcome = outcome}
        before(p) == {q \in of(p.outcome) : Before(q.at, p.at)}
        last(s) == CHOOSE p \in s : \A q \in s : ~Before(p.at, q.at)
        both == of("true") \cup of("false")
    IN /\ pc = "responses" /\ IsNext(b, todo) /\ todo' = todo \ {b}
       /\ nodes' = nodes \cup {node} \cup {PostNode(p) : p \in both}
       /\ edges' = edges \cup SequentialEdges(node, "response_condition")
            \cup {Edge(IF before(p) = {} THEN node ELSE PostNode(last(before(p))),
                       PostNode(p), p.kind, b.stmt, p.outcome) : p \in both}
       /\ pending' = 0 /\ previous' = NoNode
       /\ UNCHANGED <<asset, fn, pc, focus, relations, type, stop>>

EndResponses ==
  /\ pc = "responses" /\ todo = {} /\ pc' = "posts"
  /\ todo' = IF previous = NoNode THEN {} ELSE Linear
  /\ UNCHANGED <<asset, fn, focus, relations, type, nodes, edges, previous, pending, stop>>

AddPost ==
  \E p \in todo :
    LET node == PostNode(p)
    IN /\ pc = "posts" /\ IsNext(p, todo) /\ todo' = todo \ {p}
       /\ nodes' = nodes \cup {node} /\ edges' = edges \cup SequentialEdges(node, p.kind)
       /\ pending' = 0 /\ previous' = node
       /\ UNCHANGED <<asset, fn, pc, focus, relations, type, stop>>

Finish ==
  /\ pc = "finish" \/ (pc = "posts" /\ todo = {})
  /\ stop' = IF type = "recovery" THEN "test_relevant_public_layer_preserved"
             ELSE EvaluateStopGate(type # "insufficient",
                    ApiReferences # {} /\ PostProcessing # {},
                    WrapperClosure # {} /\ ApiReferences = {})
  /\ pc' = "done"
  /\ UNCHANGED <<asset, fn, focus, relations, type, nodes, edges, previous, pending, todo>>

ChainNext ==
        \/ SelectAnalysisFocus \/ RunL2 \/ BeginChain \/ AddGuard \/ EndGuards \/ AddRecovery
        \/ AddApi \/ EndApis \/ AddResponse \/ EndResponses \/ AddPost \/ Finish
ChainSpec == ChainInit /\ [][ChainNext]_chainVars

-----------------------------------------------------------------------------
\* The nodes that every set has which holds s and which no edge leaves.
Closed(t, es) == \A e \in es : e.from \in t => e.to \in t
ReachableFrom(s, es) ==
  LET ends == s \cup {e.to : e \in es}
      closed == {t \in SUBSET ends : s \subseteq t /\ Closed(t, es)}
  IN {n \in ends : \A t \in closed : n \in t}

Complete == pc = "done" /\ type # "none"
\* Calls to an API are placed in a row, those inside a branch too: of such
\* functions the chain says less.
ApisOutsideBranches == \A c \in ApiReferences : BranchOf(c) = 0

\* Deep analysis is spent on scripts of the application, and on others only
\* when a tester or their effect on the tests asks for it (selectAnalysisFocus);
\* whatever a chain refers to is grounded in a relation of L2.
OnlyTrustedGoDeep ==
  /\ focus \in {"HIGH", "MEDIUM"} =>
       Trusted(asset) \/ asset.promoted \/ (asset.class = "third_party" /\ asset.critical)
  /\ Complete => \A n \in nodes : n[1] = "api_reference" =>
                   \E r \in relations : r[1] = "api_reference" /\ r[3] = n[2]

\* Every way of a chain to an API call passes the false outcome of every guard
\* that stands before the call (candidateChain, addSequentialNode).
GuardsAreInTheWay ==
  Complete /\ ApisOutsideBranches /\ type # "recovery" => \A g \in Branches("guard") :
    LET others == {e \in edges : ~(e.branch = g /\ e.outcome = "false")}
        past == ReachableFrom({Entry}, others)
    IN \A c \in ApiReferences : c.stmt > g => <<"api_reference", c.at>> \notin past

\* The post-processing that stands in one block of a response condition.
TextsOf(i, outcome) ==
  {c.kind : c \in {x \in Posting : x.stmt = i /\ x.block = IF outcome = "true" THEN 1 ELSE 2}}

\* No text of one block of condition i stands in another block of a response condition.
NothingRepeats(i) ==
  \A o, p \in {"true", "false"} : \A j \in Branches("if_else") :
    <<i, o>> # <<j, p>> => TextsOf(i, o) \cap TextsOf(j, p) = {}

Following(i, outcome) ==
  ReachableFrom({e.to : e \in {x \in edges : x.branch = i /\ x.outcome = outcome}}, edges)

\* From a response condition the edges of an outcome lead to the post-processing that stands
\* in its block of the source, all of it and nothing else, although one node may belong to
\* several blocks (candidateChain, branchSummary).
OutcomesAreWhole ==
  Complete /\ type # "recovery" => \A i \in Branches("if_else"), o \in {"true", "false"} :
    LET condition == <<"condition", At(i, 0, 0)>>
    IN ReachableFrom({condition}, {e \in edges : e.branch = i /\ e.outcome = o})
         = {condition} \cup {<<"post", t>> : t \in TextsOf(i, o)}

\* What follows on one outcome of a guard or of a 401 branch does not follow on the other;
\* nor does it of a response condition, unless a text of it stands in two blocks.
OutcomesAreApart ==
  Complete /\ ApisOutsideBranches => \A i \in AllBranches :
    (i \in Branches("if_else") => NothingRepeats(i)) =>
       Following(i, "true") \cap Following(i, "false") = {}

\* A chain tells what follows on each outcome of a condition.
OutcomesAreTold == OutcomesAreWhole /\ OutcomesAreApart

\* What a reader of the chain takes it to say: that no node follows both outcomes.  TLC refutes
\* it, so that no run checks it: a post is made with start 0, and a callee of both blocks is
\* one node (README, "What the code does not promise").
OutcomesAreSeparate ==
  Complete /\ ApisOutsideBranches => \A i \in AllBranches :
    Following(i, "true") \cap Following(i, "false") = {}

\* A recovery chain refreshes and then replays in one 401 block that does
\* return the replayed request, and nothing else leads to the replay.
RecoveryIsReplayed ==
  Complete /\ type = "recovery" =>
    \E i \in Ifs :
      /\ Stmt(i).cond = "401" /\ Stmt(i).ends = "replay"
      /\ <<"replay", ReplayAt(i)>> \in ReachableFrom({Entry}, edges)
      /\ \A e \in edges : e.to[1] = "replay" => e.from[1] = "public_recovery" /\ e.branch = i

\* A chain tells the way through the function: nothing passes a guard that holds, and
\* nothing is replayed but after the recovery that makes it possible.
ChainIsTheWay == OnlyTrustedGoDeep /\ GuardsAreInTheWay /\ RecoveryIsReplayed
=============================================================================
