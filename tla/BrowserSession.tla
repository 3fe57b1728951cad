--------------------------- MODULE BrowserSession ---------------------------
(***************************************************************************)
(* openBrowserSession and the BrowserSession it returns: one browser       *)
(* process, one BrowserContext per case unless cases declare that they     *)
(* share one, one Playwright trace per context, and a record of the life   *)
(* of every context.                                                       *)
(*                                                                         *)
(* A call of the session is a chain of awaits; each await is a step of its *)
(* own that may end in an exception, and between two steps the route       *)
(* handler of the smoke policy may run.  The caller waits for a call to    *)
(* return before it makes the next one, and after an exception it only     *)
(* finalizes or closes (commands/run.ts).                                  *)
(*                                                                         *)
(* Abstractions.  A context, and the id drawn for it, is its position in   *)
(* the order of creation; a trace is the pair of the case whose directory  *)
(* holds the file and the context it was recorded in; time stamps are left *)
(* out.  Playwright is external: any of its calls may reject, and closing  *)
(* a context that is already closed resolves.                              *)
(***************************************************************************)
EXTENDS Integers, Sequences, FiniteSets

CONSTANTS
  Plans,      \* the case isolation policies a manifest may have, per case
  Groups,     \* names of flow groups
  NoGroup,    \* flow_group: null
  Smoke       \* TRUE: only the smoke origin may be requested

Scopes == {"case", "flow_group", "suite", "external_existing"}
Policy == [scope : Scopes, group : Groups \cup {NoGroup}, approved : BOOLEAN]

ASSUME PlansAssumption == Plans \subseteq Seq(Policy)
ASSUME NoGroupAssumption == NoGroup \notin Groups
ASSUME SmokeAssumption == Smoke \in BOOLEAN

-----------------------------------------------------------------------------
VARIABLES
  policies,     \* the isolation policy of every case of the manifest
  session,      \* "none", "open", "failed": what openBrowserSession gave
  browser,      \* "up" while the browser process runs
  contexts,     \* the state of every BrowserContext ever created
  active, activeId,     \* activeContext, activeContextId
  records,      \* contextRecords
  currentCase, currentScope, currentGroup,  \* case 0: undefined
  tracePromise, \* "none", "resolved" or "rejected"
  traces,       \* the sanitized trace files
  blocked,      \* blockedRequests, with when each was blocked
  closed,
  call, at, target,     \* the call in progress, its next await, its case
  threw,        \* the last call ended in an exception
  failed        \* history: some call did

playwright == <<browser, contexts, active>>
current == <<currentCase, currentScope, currentGroup>>
tracing == <<tracePromise, traces>>
control == <<call, at, target, threw, failed>>
sessionVars == <<policies, session, playwright, activeId, records, current,
                 tracing, blocked, closed, control>>

Record == [case : Nat, context : Nat, status : {"open", "closed", "failed"},
           reused : BOOLEAN, scope : Scopes, group : Groups \cup {NoGroup}]
Trace == [case : Nat, context : Nat]

Return == call' = "none" /\ at' = "idle" /\ UNCHANGED <<target, threw, failed>>
Reject == call' = "none" /\ at' = "idle" /\ threw' = TRUE /\ failed' = TRUE /\ UNCHANGED target
Await(step) == at' = step /\ UNCHANGED <<call, target, threw, failed>>
Call(name, step) ==
  at = "idle" /\ call' = name /\ at' = step /\ threw' = FALSE /\ UNCHANGED failed

SessionInit ==
  /\ policies \in Plans
  /\ session = "none" /\ browser = "down" /\ contexts = <<>>
  /\ active = 0 /\ activeId = 0 /\ records = <<>>
  /\ currentCase = 0 /\ currentScope = "case" /\ currentGroup = NoGroup
  /\ tracePromise = "none" /\ traces = {} /\ blocked = {} /\ closed = FALSE
  /\ call = "none" /\ at = "idle" /\ target = 0
  /\ threw = FALSE /\ failed = FALSE

-----------------------------------------------------------------------------
(* openBrowserSession                                                      *)

Launch ==
  /\ session = "none" /\ at = "idle"
  /\ browser' = "up" /\ Call("open", "create") /\ UNCHANGED target
  /\ UNCHANGED <<policies, session, contexts, active, activeId, records, current,
                 tracing, blocked, closed>>

LaunchFails ==
  /\ session = "none" /\ at = "idle"
  /\ session' = "failed" /\ Reject
  /\ UNCHANGED <<policies, playwright, activeId, records, current, tracing, blocked, closed>>

\* A setup failure closes what was created and is thrown to the caller.
TearDown ==
  /\ at = "teardown"
  /\ \E outcome \in {"closed", "failed"} :
       contexts' = [k \in DOMAIN contexts |-> IF k = active THEN outcome ELSE contexts[k]]
  /\ \E state \in {"down", "up"} : browser' = state
  /\ session' = "failed" /\ Reject
  /\ UNCHANGED <<policies, active, activeId, records, current, tracing, blocked, closed>>

-----------------------------------------------------------------------------
(* A new context: in openBrowserSession and in prepareCase.                *)

ActiveWhenCreated == Len(contexts) + 1

CreateContext ==
  /\ at = "create"
  /\ contexts' = Append(contexts, "open") /\ active' = ActiveWhenCreated
  /\ Await("initialize")
  /\ UNCHANGED <<policies, session, browser, activeId, records, current, tracing,
                 blocked, closed>>

CreateContextFails ==
  /\ at = "create"
  /\ IF call = "open" THEN Await("teardown") ELSE Reject
  /\ UNCHANGED <<policies, session, playwright, activeId, records, current, tracing,
                 blocked, closed>>

InitializeContextFails ==
  /\ at = "initialize"
  /\ IF call = "open" THEN Await("teardown") ELSE Reject
  /\ UNCHANGED <<policies, session, playwright, activeId, records, current, tracing,
                 blocked, closed>>

Opened ==
  /\ at = "initialize" /\ call = "open"
  /\ session' = "open" /\ activeId' = active /\ Return
  /\ UNCHANGED <<policies, playwright, records, current, tracing, blocked, closed>>

NewRecord(c, context, reused) ==
  [case |-> c, context |-> context, status |-> "open", reused |-> reused,
   scope |-> policies[c].scope, group |-> policies[c].group]

SetCurrent(c) ==
  /\ currentCase' = c /\ currentScope' = policies[c].scope /\ currentGroup' = policies[c].group

\* Mutant: the memoized trace of the previous context is kept.
KeptTracePromise == tracePromise
FreshTracePromise == "none"

\* The rest of prepareCase once the new context is initialized.
Switched ==
  /\ at = "initialize" /\ call = "prepare"
  /\ activeId' = active /\ SetCurrent(target)
  /\ tracePromise' = FreshTracePromise
  /\ records' = Append(records, NewRecord(target, active, FALSE))
  /\ Return
  /\ UNCHANGED <<policies, session, playwright, traces, blocked, closed>>

-----------------------------------------------------------------------------
(* prepareCase                                                             *)

Shared(p) == p.scope \in {"suite", "external_existing"}

\* The orchestrator prepares the Web cases in the order of the manifest, and none
\* once an exception was thrown or the traces were finalized.
Calls(c) ==
  /\ session = "open" /\ at = "idle" /\ ~failed
  /\ c \in DOMAIN policies /\ c >= currentCase /\ (tracePromise = "none" \/ closed)

PrepareClosed(c) ==
  /\ Calls(c) /\ closed /\ Reject
  /\ UNCHANGED <<policies, session, playwright, activeId, records, current, tracing,
                 blocked, closed>>

PrepareUnapproved(c) ==
  /\ Calls(c) /\ ~closed /\ Shared(policies[c]) /\ ~policies[c].approved /\ Reject
  /\ UNCHANGED <<policies, session, playwright, activeId, records, current, tracing,
                 blocked, closed>>

Accepted(c) == Calls(c) /\ ~closed /\ (Shared(policies[c]) => policies[c].approved)

\* The first case takes the context that openBrowserSession created.
PrepareFirst(c) ==
  /\ Accepted(c) /\ currentCase = 0
  /\ SetCurrent(c)
  /\ records' = Append(records, NewRecord(c, activeId, FALSE))
  /\ UNCHANGED <<policies, session, playwright, activeId, tracing, blocked, closed, control>>

PrepareSame(c) ==
  /\ Accepted(c) /\ currentCase = c
  /\ UNCHANGED sessionVars

\* Mutant: cases without a flow group reuse the context of one another.
ReusesSameScope(p) == p.scope # "case" /\ p.scope = currentScope /\ p.group = currentGroup

Reuses(p) ==
  \/ /\ p.scope = "flow_group" /\ currentScope = "flow_group"
     /\ p.group # NoGroup /\ p.group = currentGroup
  \/ Shared(p) /\ p.scope = currentScope /\ p.approved

PrepareReuse(c) ==
  /\ Accepted(c) /\ currentCase \notin {0, c} /\ Reuses(policies[c])
  /\ currentCase' = c /\ UNCHANGED <<currentScope, currentGroup>>
  /\ records' = Append(records, NewRecord(c, activeId, TRUE))
  /\ UNCHANGED <<policies, session, playwright, activeId, tracing, blocked, closed, control>>

PrepareSwitch(c) ==
  /\ Accepted(c) /\ currentCase \notin {0, c} /\ ~Reuses(policies[c])
  /\ Call("prepare", "trace") /\ target' = c
  /\ UNCHANGED <<policies, session, playwright, activeId, records, current, tracing,
                 blocked, closed>>

PrepareCase(c) ==
  \/ PrepareClosed(c) \/ PrepareUnapproved(c) \/ PrepareFirst(c) \/ PrepareSame(c)
  \/ PrepareReuse(c) \/ PrepareSwitch(c)

-----------------------------------------------------------------------------
(* finalizeTrace, finalizeTraces and close                                 *)

FinalizeTraces ==
  /\ session = "open"
  /\ Call("finalize", "trace") /\ UNCHANGED target
  /\ UNCHANGED <<policies, session, playwright, activeId, records, current, tracing,
                 blocked, closed>>

Close ==
  /\ session = "open" /\ ~closed
  /\ closed' = TRUE /\ Call("close", "trace") /\ UNCHANGED target
  /\ UNCHANGED <<policies, session, playwright, activeId, records, current, tracing, blocked>>

CloseAgain ==
  /\ session = "open" /\ closed /\ at = "idle" /\ threw' = FALSE
  /\ UNCHANGED <<policies, session, playwright, activeId, records, current, tracing,
                 blocked, closed, call, at, target, failed>>

\* What the memoized promise becomes the first time finalizeTrace is called; the
\* file is stored before the blocked requests are looked at.
RunTrace(stopped) ==
  /\ tracePromise' = IF stopped /\ blocked = {} THEN "resolved" ELSE "rejected"
  /\ traces' = IF stopped THEN traces \cup {[case |-> currentCase, context |-> active]}
               ELSE traces

\* Mutant: close gives up when the trace cannot be finalized.
EagerAfterTrace ==
  IF tracePromise' = "rejected" THEN Reject
  ELSE IF call = "finalize" THEN Return ELSE Await("context")

AfterTrace ==
  IF tracePromise' = "rejected" /\ call # "close" THEN Reject
  ELSE IF call = "finalize" THEN Return ELSE Await("context")

FinalizeTrace ==
  /\ at = "trace"
  /\ \/ tracePromise = "none" /\ \E stopped \in BOOLEAN : RunTrace(stopped)
     \/ tracePromise # "none" /\ UNCHANGED tracing
  /\ AfterTrace
  /\ UNCHANGED <<policies, session, playwright, activeId, records, current, blocked, closed>>

MarkRecords(outcome) ==
  [k \in DOMAIN records |->
     IF records[k].context = activeId /\ records[k].status = "open"
     THEN [records[k] EXCEPT !.status = outcome] ELSE records[k]]

CloseOutcome(outcome) == [contexts EXCEPT ![active] = outcome]

CloseContext ==
  /\ at = "context"
  /\ \E outcome \in {"closed", "failed"} :
       /\ contexts[active] = "closed" => outcome = "closed"
       /\ contexts' = CloseOutcome(outcome)
       /\ records' = MarkRecords(outcome)
  /\ Await(IF call = "prepare" THEN "create" ELSE "browser")
  /\ UNCHANGED <<policies, session, browser, active, activeId, current, tracing, blocked, closed>>

CloseBrowser ==
  /\ at = "browser"
  /\ \/ browser' = "down" /\ IF tracePromise = "rejected" THEN Reject ELSE Return
     \/ browser' = "up" /\ Reject
  /\ UNCHANGED <<policies, session, contexts, active, activeId, records, current, tracing,
                 blocked, closed>>

\* The route handler aborts a request to another origin and remembers it.
BlockRequest ==
  /\ Smoke /\ session = "open" /\ browser = "up" /\ contexts[active] = "open"
  /\ blocked' = blocked \cup {[context |-> active, late |-> tracePromise # "none"]}
  /\ UNCHANGED <<policies, session, playwright, activeId, records, current, tracing,
                 closed, control>>

\* The steps a call takes by itself, and what happens around them.
SessionStep ==
  \/ TearDown \/ CreateContext \/ CreateContextFails \/ InitializeContextFails
  \/ Opened \/ Switched \/ FinalizeTrace \/ CloseContext \/ CloseBrowser \/ BlockRequest

SessionNext ==
  \/ Launch \/ LaunchFails \/ SessionStep
  \/ \E c \in DOMAIN policies : PrepareCase(c)
  \/ FinalizeTraces \/ Close \/ CloseAgain

SessionSpec == SessionInit /\ [][SessionNext]_sessionVars

-----------------------------------------------------------------------------
(* Properties                                                              *)

Idle == session = "open" /\ at = "idle"
Related(r, s) ==
  /\ r.scope = s.scope
  /\ \/ r.scope = "flow_group" /\ r.group = s.group /\ r.group # NoGroup
     \/ r.scope \in {"suite", "external_existing"}

\* Two cases live in one BrowserContext only if both declare the same flow
\* group, or both declare the same shared scope (prepareCase).
SharedOnlyWhenRelated ==
  \A k, l \in DOMAIN records :
    records[k].context = records[l].context /\ records[k].case # records[l].case
      => Related(records[k], records[l])

\* Whatever a call did and however it ended, at most one context is left that
\* nobody tried to close, and it is the active one (prepareCase, close).
OneLiveContext == \A k \in DOMAIN contexts : contexts[k] = "open" => k = active

\* Once close has ended, by a return or an exception, no context and no record
\* of one is left open; the same holds of a session that could not be set up.
ClosedMeansReleased ==
  (Idle /\ closed) \/ session = "failed" =>
    /\ \A k \in DOMAIN contexts : contexts[k] # "open"
    /\ \A k \in DOMAIN records : records[k].status # "open"

\* If every call returned, every context a case ran in has a trace, stored in the
\* directory of a case that ran in it (finalizeTrace and its memoized promise).
EveryContextTraced ==
  Idle /\ closed /\ ~failed =>
    \A k \in DOMAIN records :
      \E t \in traces : /\ t.context = records[k].context
                        /\ \E l \in DOMAIN records : /\ records[l].context = t.context
                                                     /\ records[l].case = t.case

\* If every call returned, no request was blocked by the smoke policy, except in the
\* last context after its trace was finalized.
SmokeRequestsReported ==
  Idle /\ closed /\ ~failed => \A b \in blocked : b.late /\ b.context = active

\* No context is ever forgotten: at most one is left that nobody tried to close, the
\* active one, and none after close, by whatever calls and exceptions it came there.
NoContextIsForgotten == OneLiveContext /\ ClosedMeansReleased

\* A session that never threw has nothing to hide: every context is traced and every
\* request that the smoke policy blocked was reported.
QuietMeansComplete == EveryContextTraced /\ SmokeRequestsReported
=============================================================================
