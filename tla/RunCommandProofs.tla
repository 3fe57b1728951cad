--------------------------- MODULE RunCommandProofs ---------------------------
(***************************************************************************)
(* The run command.  Its session, for every manifest, any order of calls   *)
(* and any await that rejects: no context is forgotten, none is shared by  *)
(* unrelated cases, and a session that never threw has traced and reported *)
(* all.  Then the command on top of it: whatever it does is a step of its  *)
(* session, so that the session's invariant is its own, and with it, what  *)
(* it writes down is what it delivered, dirty contexts are told, and the   *)
(* session it opened is released.  Last, its preflight, for any packages,  *)
(* actions and targets and any number of edits (ApprovalGate).             *)
(***************************************************************************)
EXTENDS RunCommand, ApprovalGate, TLAPS

ContextState == {"open", "closed", "failed"}

SessionTypes ==
  /\ policies \in Seq(Policy)
  /\ contexts \in Seq(ContextState) /\ records \in Seq(Record)
  /\ active \in Nat /\ activeId \in Nat
  /\ currentCase \in Nat /\ target \in DOMAIN policies \cup {0}
  /\ closed \in BOOLEAN /\ failed \in BOOLEAN
  /\ session \in {"none", "open", "failed"}
  /\ tracePromise \in {"none", "resolved", "rejected"}

\* Which call may wait at which await, and while the session is in which state.
Awaits ==
  /\ \/ call = "none" /\ at = "idle"
     \/ call = "open" /\ at \in {"create", "initialize", "teardown"}
     \/ call = "prepare" /\ at \in {"trace", "context", "create", "initialize"}
     \/ call = "finalize" /\ at = "trace"
     \/ call = "close" /\ at \in {"trace", "context", "browser"}
  /\ call = "open" => session = "none"
  /\ session = "none" => call \in {"none", "open"}
  /\ session = "failed" => at = "idle"
  /\ call \in {"prepare", "finalize", "close"} => session = "open"
  /\ closed => session = "open" /\ call \in {"none", "finalize", "close"}
  /\ call = "close" => closed
  /\ call = "prepare" => target \in DOMAIN policies

\* Close has come past its attempt to close the context.
Past == closed /\ ~(call = "close" /\ at \in {"trace", "context"})

\* The only context that may be open is the active one, and it is not before another
\* is created.
ContextsFollow ==
  /\ OneLiveContext
  /\ active <= Len(contexts) /\ activeId <= Len(contexts)
  /\ at = "create" \/ Past \/ session = "failed" \/ (session = "none" /\ at = "idle")
       => \A k \in DOMAIN contexts : contexts[k] # "open"

\* The only records that may be open are those of the context known by its id.
RecordsFollow ==
  /\ session # "open" => records = <<>>
  /\ \A k \in DOMAIN records : records[k].status = "open" => records[k].context = activeId
  /\ at \in {"create", "initialize"} \/ Past => \A k \in DOMAIN records : records[k].status # "open"

\* Whoever lives in the context at hand has its scope and its group.
Homes ==
  /\ \A k \in DOMAIN records : /\ records[k].context <= Len(contexts)
                               /\ at = "initialize" => records[k].context < active
  /\ \A k \in DOMAIN records :
       records[k].context = activeId =>
         /\ records[k].scope = currentScope
         /\ currentScope = "flow_group" => records[k].group = currentGroup
  /\ currentCase = 0 => records = <<>>
  /\ SharedOnlyWhenRelated

TracedContext(x) ==
  \E t \in traces : /\ t.context = x
                    /\ \E l \in DOMAIN records : records[l].context = x /\ records[l].case = t.case

\* What holds as long as nothing was thrown: the trace is finalized once per context,
QuietTrace ==
  /\ session = "open" /\ at # "initialize" => activeId = active
  /\ tracePromise = "rejected" => call = "close" /\ at \in {"context", "browser"}
  /\ closed /\ ~(call = "close" /\ at = "trace") => tracePromise # "none"
  /\ call = "prepare" => tracePromise = IF at = "trace" THEN "none" ELSE "resolved"
  /\ session # "open" => tracePromise = "none"

\* in the directory of a case that ran in it,
Housed ==
  records # <<>> =>
    \E l \in DOMAIN records : records[l].context = activeId /\ records[l].case = currentCase

AllTraced ==
  \A k \in DOMAIN records :
    records[k].context # activeId \/ tracePromise = "resolved" => TracedContext(records[k].context)

\* and nothing was blocked before it.
NoneHidden ==
  tracePromise = "resolved" /\ at # "initialize" => \A b \in blocked : b.late /\ b.context = active

Quiet == ~failed => QuietTrace /\ Housed /\ AllTraced /\ NoneHidden

IInv == SessionTypes /\ Awaits /\ ContextsFollow /\ RecordsFollow /\ Homes /\ Quiet

-----------------------------------------------------------------------------
LEMMA InitOK == SessionInit => IInv
<1> SUFFICES ASSUME SessionInit
             PROVE  IInv
  OBVIOUS
<1>1. policies \in Seq(Policy)
  BY PlansAssumption DEF SessionInit
<1>2. /\ contexts = <<>> /\ Len(contexts) = 0 /\ DOMAIN contexts = {}
      /\ records = <<>> /\ DOMAIN records = {}
  BY DEF SessionInit
<1>3. <<>> \in Seq(ContextState) /\ <<>> \in Seq(Record)
  OBVIOUS
<1>4. SessionTypes
  BY <1>1, <1>2, <1>3 DEF SessionInit, SessionTypes
<1> QED
  BY <1>2, <1>4 DEF SessionInit, IInv, Awaits, ContextsFollow, OneLiveContext, RecordsFollow, Past,
    Homes, SharedOnlyWhenRelated, Quiet, QuietTrace, Housed, AllTraced, NoneHidden

\* A step that leaves contexts, records and traces as they are.
StandsStill ==
  UNCHANGED <<policies, contexts, active, activeId, records, current, tracing, blocked>>

LEMMA StillKeeps ==
  ASSUME IInv, StandsStill, SessionTypes', Awaits', ContextsFollow', RecordsFollow',
         at' = "initialize" => at = "initialize", Quiet'
  PROVE  IInv'
BY DEF IInv, StandsStill, Homes, SharedOnlyWhenRelated, Related, current

\* The calls that begin, are refused or end without having done anything.
BeginsOrEnds ==
  \/ Launch \/ LaunchFails \/ CreateContextFails \/ InitializeContextFails \/ CloseBrowser
  \/ FinalizeTraces \/ Close \/ CloseAgain

LEMMA BeginsOrEndsStep ==
  ASSUME IInv, BeginsOrEnds
  PROVE  IInv'
<1> USE DEF BeginsOrEnds, Launch, LaunchFails, CreateContextFails, InitializeContextFails,
      CloseBrowser, FinalizeTraces, Close, CloseAgain, Call, Await, Return, Reject, playwright,
      tracing, current, control
<1>1. StandsStill /\ (at' = "initialize" => at = "initialize")
  BY DEF StandsStill
<1>2. SessionTypes'
  BY DEF IInv, SessionTypes
<1>3. Awaits'
  BY DEF IInv, Awaits
<1>4. ContextsFollow'
  BY DEF IInv, ContextsFollow, OneLiveContext, Past, Awaits
<1>5. RecordsFollow'
  BY DEF IInv, RecordsFollow, Past, Awaits
<1>6. Quiet'
  BY DEF IInv, Quiet, QuietTrace, Housed, AllTraced,
    NoneHidden, Awaits, TracedContext, RecordsFollow
<1> QED
  BY <1>1, <1>2, <1>3, <1>4, <1>5, <1>6, StillKeeps

\* A case that is refused, runs where it is, or has to wait for another context.
LEMMA PrepareWithoutRecord ==
  ASSUME IInv, NEW c \in DOMAIN policies,
         PrepareClosed(c) \/ PrepareUnapproved(c) \/ PrepareSame(c) \/ PrepareSwitch(c)
  PROVE  IInv'
<1> USE DEF PrepareClosed, PrepareUnapproved, PrepareSame, PrepareSwitch, Calls, Accepted, Call,
      Reject, playwright, tracing, current, control, sessionVars
<1>1. StandsStill /\ (at' = "initialize" => at = "initialize")
  BY DEF StandsStill
<1>2. SessionTypes'
  BY DEF IInv, SessionTypes
<1>3. Awaits'
  BY DEF IInv, Awaits
<1>4. ContextsFollow'
  BY DEF IInv, ContextsFollow, OneLiveContext, Past, Awaits
<1>5. RecordsFollow'
  BY DEF IInv, RecordsFollow, Past, Awaits
<1>6. Quiet'
  BY DEF IInv, Quiet, QuietTrace, Housed, AllTraced,
    NoneHidden, Awaits, TracedContext, RecordsFollow
<1> QED
  BY <1>1, <1>2, <1>3, <1>4, <1>5, <1>6, StillKeeps

LEMMA TearDownStep ==
  ASSUME IInv, TearDown
  PROVE  IInv'
<1> USE DEF TearDown, Reject, playwright, tracing, current, control
<1>1. PICK outcome \in {"closed", "failed"} :
        contexts' = [k \in DOMAIN contexts |-> IF k = active THEN outcome ELSE contexts[k]]
  OBVIOUS
<1>2. /\ contexts' \in Seq(ContextState) /\ Len(contexts') = Len(contexts)
      /\ DOMAIN contexts' = DOMAIN contexts
      /\ \A k \in DOMAIN contexts : contexts'[k] = IF k = active THEN outcome ELSE contexts[k]
  <2>1. /\ Len(contexts) \in Nat /\ DOMAIN contexts = 1..Len(contexts)
        /\ \A k \in DOMAIN contexts : contexts[k] \in ContextState
    BY DEF IInv, SessionTypes
  <2>2. contexts' \in [1..Len(contexts) -> ContextState]
    BY <1>1, <2>1 DEF ContextState
  <2> QED
    BY <1>1, <2>1, <2>2
<1>3. SessionTypes' /\ Awaits'
  BY <1>2 DEF IInv, SessionTypes, Awaits
<1>4. ContextsFollow'
  BY <1>2 DEF IInv, ContextsFollow, OneLiveContext
<1>5. records = <<>> /\ DOMAIN records = {} /\ UNCHANGED records
  BY DEF IInv, RecordsFollow, Awaits
<1>6. RecordsFollow' /\ Homes'
  BY <1>5 DEF IInv, RecordsFollow, Homes, SharedOnlyWhenRelated
<1> QED
  BY <1>3, <1>4, <1>6 DEF IInv, Quiet, QuietTrace, Housed, AllTraced, NoneHidden

LEMMA RecordFields ==
  ASSUME SessionTypes, NEW k \in DOMAIN records
  PROVE  /\ records[k] \in Record
         /\ records[k].case \in Nat /\ records[k].context \in Nat
<1>1. records[k] \in Record
  BY DEF SessionTypes
<1> QED
  BY <1>1 DEF Record

LEMMA CreateContextStep ==
  ASSUME IInv, CreateContext
  PROVE  IInv'
<1> USE DEF CreateContext, ActiveWhenCreated, Await, playwright, tracing, current, control
<1>1. /\ contexts' \in Seq(ContextState) /\ Len(contexts') = Len(contexts) + 1
      /\ DOMAIN contexts' = 1..Len(contexts) + 1 /\ DOMAIN contexts = 1..Len(contexts)
      /\ \A k \in DOMAIN contexts : contexts'[k] = contexts[k]
      /\ active' = Len(contexts) + 1 /\ Len(contexts) \in Nat
  BY DEF IInv, SessionTypes, ContextState
<1>2. SessionTypes' /\ Awaits'
  BY <1>1 DEF IInv, SessionTypes, Awaits
<1>3. ContextsFollow'
  BY <1>1 DEF IInv, SessionTypes, ContextsFollow, OneLiveContext, Awaits, Past
<1>4. RecordsFollow'
  BY DEF IInv, RecordsFollow
<1>5. Homes'
  <2>1. \A k \in DOMAIN records : records[k].context \in Nat
    BY RecordFields DEF IInv
  <2> QED
    BY <1>1, <2>1 DEF IInv, Homes, SharedOnlyWhenRelated, Related
<1>6. Quiet'
  BY DEF IInv, Quiet, QuietTrace, Housed, AllTraced, NoneHidden, Awaits, TracedContext
<1> QED
  BY <1>2, <1>3, <1>4, <1>5, <1>6 DEF IInv

LEMMA OpenedStep ==
  ASSUME IInv, Opened
  PROVE  IInv'
<1> USE DEF Opened, Return, playwright, tracing, current, control
<1>1. SessionTypes' /\ Awaits'
  BY DEF IInv, SessionTypes, Awaits
<1>2. ContextsFollow'
  BY DEF IInv, ContextsFollow, OneLiveContext, Awaits, Past
<1>3. records = <<>> /\ DOMAIN records = {} /\ UNCHANGED records
  BY DEF IInv, RecordsFollow, Awaits
<1>4. RecordsFollow' /\ Homes'
  BY <1>3 DEF IInv, RecordsFollow, Homes, SharedOnlyWhenRelated
<1>5. Quiet'
  BY <1>3 DEF IInv, Quiet, QuietTrace, Housed, AllTraced, NoneHidden, Awaits
<1> QED
  BY <1>1, <1>2, <1>4, <1>5 DEF IInv
\* A record that is added to those there are.
LEMMA RecordAdded ==
  ASSUME SessionTypes, NEW r \in Record, records' = Append(records, r)
  PROVE  /\ records' \in Seq(Record) /\ records' # <<>>
         /\ DOMAIN records' = DOMAIN records \cup {Len(records) + 1}
         /\ Len(records) + 1 \notin DOMAIN records
         /\ \A k \in DOMAIN records : records'[k] = records[k]
         /\ records'[Len(records) + 1] = r
<1>1. /\ records \in Seq(Record) /\ Len(records) \in Nat /\ DOMAIN records = 1..Len(records)
  BY DEF SessionTypes
<1>2. /\ records' \in Seq(Record) /\ Len(records') = Len(records) + 1
      /\ \A k \in 1..Len(records) : records'[k] = records[k]
      /\ records'[Len(records) + 1] = r
  BY <1>1
<1>3. DOMAIN records' = 1..Len(records) + 1
  BY <1>2
<1> QED
  BY <1>1, <1>2, <1>3

LEMMA NewRecordType ==
  ASSUME SessionTypes, NEW c \in DOMAIN policies, NEW x \in Nat, NEW b \in BOOLEAN
  PROVE  /\ NewRecord(c, x, b) \in Record /\ c \in Nat \ {0}
         /\ policies[c].scope \in Scopes /\ policies[c].group \in Groups \cup {NoGroup}
<1>1. policies[c] \in Policy /\ c \in Nat \ {0}
  BY DEF SessionTypes
<1>2. policies[c].scope \in Scopes /\ policies[c].group \in Groups \cup {NoGroup}
  BY <1>1 DEF Policy
<1> QED
  BY <1>1, <1>2 DEF NewRecord, Record

LEMMA PrepareFirstStep ==
  ASSUME IInv, NEW c \in DOMAIN policies, PrepareFirst(c)
  PROVE  IInv'
<1> DEFINE r == NewRecord(c, activeId, FALSE)
<1>1. /\ session = "open" /\ at = "idle" /\ ~closed /\ currentCase = 0 /\ tracePromise = "none"
      /\ currentCase' = c /\ currentScope' = r.scope /\ currentGroup' = r.group
      /\ UNCHANGED <<policies, session, contexts, active, activeId, tracing, blocked, closed,
                     control>>
  BY DEF PrepareFirst, Accepted, Calls, SetCurrent, NewRecord, playwright
<1>2. /\ r \in Record /\ c \in Nat \ {0} /\ SessionTypes
      /\ r.scope \in Scopes /\ r.group \in Groups \cup {NoGroup}
  BY NewRecordType DEF IInv, SessionTypes, NewRecord
<1>3. r.case = c /\ r.context = activeId
  BY DEF NewRecord
<1>4. records = <<>> /\ DOMAIN records = {} /\ Len(records) = 0
  BY <1>1 DEF IInv, Homes
<1>5. /\ records' \in Seq(Record) /\ records' # <<>>
      /\ DOMAIN records' = DOMAIN records \cup {Len(records) + 1}
      /\ records'[Len(records) + 1] = r
  BY <1>2, RecordAdded DEF PrepareFirst
<1>6. /\ records' \in Seq(Record) /\ records' # <<>> /\ DOMAIN records' = {1} /\ records'[1] = r
  <2>1. Len(records) + 1 = 1
    BY <1>4
  <2> QED
    BY <1>4, <1>5, <2>1
<1> HIDE DEF r
<1> USE DEF tracing, control
<1>7. SessionTypes' /\ Awaits'
  BY <1>1, <1>2, <1>6 DEF IInv, SessionTypes, Awaits
<1>8. ContextsFollow'
  BY <1>1 DEF IInv, ContextsFollow, OneLiveContext, Past
<1>9. RecordsFollow' /\ Homes'
  BY <1>1, <1>2, <1>3, <1>6 DEF IInv, RecordsFollow, Past, Homes, SharedOnlyWhenRelated,
    ContextsFollow
<1>10. Quiet'
  BY <1>1, <1>3, <1>6 DEF IInv, Awaits, Quiet, QuietTrace, Housed, AllTraced, NoneHidden
<1> QED
  BY <1>7, <1>8, <1>9, <1>10 DEF IInv

\* A record of the case at hand is added for the context that has traced nothing.
LEMMA PrepareReuseStep ==
  ASSUME IInv, NEW c \in DOMAIN policies, PrepareReuse(c)
  PROVE  IInv'
<1> DEFINE r == NewRecord(c, activeId, TRUE)
           n == Len(records) + 1
<1>1. /\ session = "open" /\ at = "idle" /\ ~closed /\ tracePromise = "none"
      /\ currentCase' = c
      /\ UNCHANGED <<policies, session, contexts, active, activeId, currentScope, currentGroup,
                     tracing, blocked, closed, control>>
  BY DEF PrepareReuse, Accepted, Calls, playwright
<1>2. r \in Record /\ c \in Nat \ {0} /\ SessionTypes
  BY NewRecordType DEF IInv, SessionTypes
<1>3. r.case = c /\ r.context = activeId
  BY DEF NewRecord
<1>4. /\ r.scope = currentScope
      /\ currentScope = "flow_group" => r.group = currentGroup /\ r.group # NoGroup
      /\ currentScope \in {"flow_group", "suite", "external_existing"}
  BY DEF PrepareReuse, NewRecord, Reuses, Shared
<1>5. /\ records' \in Seq(Record) /\ records' # <<>>
      /\ DOMAIN records' = DOMAIN records \cup {n} /\ n \notin DOMAIN records
      /\ \A k \in DOMAIN records : records'[k] = records[k]
      /\ records'[n] = r
  BY <1>2, RecordAdded DEF PrepareReuse
<1> HIDE DEF r, n
<1> USE DEF tracing, control
<1>6. SessionTypes' /\ Awaits'
  BY <1>1, <1>2, <1>5 DEF IInv, SessionTypes, Awaits
<1>7. ContextsFollow' /\ RecordsFollow'
  <2>1. \A k \in DOMAIN records' : records'[k].status = "open" => records'[k].context = activeId
    BY <1>3, <1>5 DEF IInv, RecordsFollow
  <2> QED
    BY <1>1, <2>1 DEF IInv, ContextsFollow, OneLiveContext, RecordsFollow, Past
<1>8. SharedOnlyWhenRelated'
  <2>1. \A k \in DOMAIN records :
          records[k].context = activeId => Related(records[k], r) /\ Related(r, records[k])
    BY <1>4 DEF IInv, Homes, Related
  <2> SUFFICES ASSUME NEW k \in DOMAIN records', NEW l \in DOMAIN records',
                      records'[k].context = records'[l].context, records'[k].case # records'[l].case
               PROVE  Related(records'[k], records'[l])
    BY DEF SharedOnlyWhenRelated, Related
  <2>2. CASE k \in DOMAIN records /\ l \in DOMAIN records
    BY <1>5, <2>2 DEF IInv, Homes, SharedOnlyWhenRelated
  <2>3. CASE k = n \/ l = n
    BY <1>3, <1>5, <2>1, <2>3
  <2> QED
    BY <1>5, <2>2, <2>3
<1>9. Homes'
  <2>1. /\ \A k \in DOMAIN records' : records'[k].context <= Len(contexts)
        /\ \A k \in DOMAIN records' :
             records'[k].context = activeId =>
               /\ records'[k].scope = currentScope
               /\ currentScope = "flow_group" => records'[k].group = currentGroup
    BY <1>3, <1>4, <1>5 DEF IInv, Homes, ContextsFollow
  <2> QED
    BY <1>1, <1>2, <1>8, <2>1 DEF Homes
<1>10. Quiet'
  <2> SUFFICES ASSUME ~failed
               PROVE  (QuietTrace /\ Housed /\ AllTraced /\ NoneHidden)'
    BY <1>1 DEF Quiet
  <2>1. QuietTrace' /\ NoneHidden'
    BY <1>1 DEF IInv, Quiet, QuietTrace, NoneHidden
  <2>2. Housed'
    BY <1>1, <1>3, <1>5 DEF Housed
  <2>3. ASSUME NEW k \in DOMAIN records, TracedContext(records[k].context)
        PROVE  TracedContext(records[k].context)'
    BY <1>1, <1>5, <2>3 DEF TracedContext
  <2>4. AllTraced'
    BY <1>1, <1>3, <1>5, <2>3 DEF IInv, Quiet, AllTraced, TracedContext
  <2> QED
    BY <2>1, <2>2, <2>4
<1> QED
  BY <1>6, <1>7, <1>9, <1>10 DEF IInv

LEMMA SwitchedStep ==
  ASSUME IInv, Switched
  PROVE  IInv'
<1> DEFINE c == target
           r == NewRecord(c, active, FALSE)
           n == Len(records) + 1
<1>1. /\ call = "prepare" /\ at = "initialize" /\ c \in DOMAIN policies
      /\ ~closed /\ session = "open"
      /\ activeId' = active /\ tracePromise' = "none" /\ call' = "none" /\ at' = "idle"
      /\ currentCase' = c /\ currentScope' = r.scope /\ currentGroup' = r.group
      /\ UNCHANGED <<policies, session, contexts, active, target, failed, traces, blocked, closed>>
  BY DEF Switched, SetCurrent, FreshTracePromise, Return, NewRecord, playwright, IInv, Awaits
<1>2. r \in Record /\ c \in Nat \ {0} /\ SessionTypes
  BY <1>1, NewRecordType DEF IInv, SessionTypes
<1>3. /\ r.case = c /\ r.context = active
  BY DEF NewRecord
<1>4. /\ records' \in Seq(Record) /\ records' # <<>>
      /\ DOMAIN records' = DOMAIN records \cup {n} /\ n \notin DOMAIN records
      /\ \A k \in DOMAIN records : records'[k] = records[k]
      /\ records'[n] = r
  BY <1>2, RecordAdded DEF Switched
<1> HIDE DEF r, n
<1>5. \A k \in DOMAIN records : records[k].context # active /\ records[k].status # "open"
  BY <1>1, <1>2, RecordFields DEF IInv, Homes, SessionTypes, RecordsFollow
<1>6. SessionTypes' /\ Awaits'
  BY <1>1, <1>2, <1>4 DEF IInv, SessionTypes, Awaits
<1>7. ContextsFollow' /\ RecordsFollow'
  <2>1. \A k \in DOMAIN records' : records'[k].status = "open" => records'[k].context = active
    BY <1>3, <1>4, <1>5
  <2> QED
    BY <1>1, <2>1 DEF IInv, ContextsFollow, OneLiveContext, RecordsFollow, Past
<1>8. SharedOnlyWhenRelated'
  <2> SUFFICES ASSUME NEW k \in DOMAIN records', NEW l \in DOMAIN records',
                      records'[k].context = records'[l].context, records'[k].case # records'[l].case
               PROVE  Related(records'[k], records'[l])
    BY DEF SharedOnlyWhenRelated, Related
  <2>1. k \in DOMAIN records /\ l \in DOMAIN records
    BY <1>3, <1>4, <1>5
  <2> QED
    BY <1>4, <2>1 DEF IInv, Homes, SharedOnlyWhenRelated
<1>9. Homes'
  <2>1. /\ \A k \in DOMAIN records' : records'[k].context <= Len(contexts)
        /\ \A k \in DOMAIN records' : records'[k].context = active => records'[k] = r
    BY <1>3, <1>4, <1>5 DEF IInv, Homes, ContextsFollow
  <2> QED
    BY <1>1, <1>2, <1>8, <2>1 DEF Homes
<1>10. Quiet'
  <2> SUFFICES ASSUME ~failed
               PROVE  (QuietTrace /\ Housed /\ AllTraced /\ NoneHidden)'
    BY <1>1 DEF Quiet
  <2>1. QuietTrace' /\ NoneHidden'
    BY <1>1 DEF QuietTrace, NoneHidden
  <2>2. Housed'
    BY <1>1, <1>3, <1>4 DEF Housed
  <2>3. ASSUME NEW k \in DOMAIN records
        PROVE  TracedContext(records[k].context)'
    <3>1. TracedContext(records[k].context)
      BY <1>1 DEF IInv, Quiet, QuietTrace, AllTraced
    <3> QED
      BY <1>1, <1>4, <3>1 DEF TracedContext
  <2>4. AllTraced'
    BY <1>1, <1>3, <1>4, <2>3 DEF AllTraced, TracedContext
  <2> QED
    BY <2>1, <2>2, <2>4
<1> QED
  BY <1>6, <1>7, <1>9, <1>10 DEF IInv

LEMMA FinalizeTraceStep ==
  ASSUME IInv, FinalizeTrace
  PROVE  IInv'
<1> USE DEF FinalizeTrace, AfterTrace, Await, Return, Reject, playwright, current, tracing
<1>1. UNCHANGED <<policies, session, contexts, active, activeId, records, currentCase,
                  currentScope, currentGroup, blocked, closed>>
  OBVIOUS
<1>2. SessionTypes' /\ Awaits'
  BY DEF IInv, SessionTypes, Awaits, RunTrace
<1>3. ContextsFollow' /\ RecordsFollow' /\ Homes'
  BY DEF IInv, ContextsFollow, OneLiveContext, RecordsFollow, Homes, SharedOnlyWhenRelated, Related,
    Past, Awaits
<1>4. Quiet'
  <2> SUFFICES ASSUME ~failed', ~failed
               PROVE  Quiet'
    BY DEF IInv, Quiet, QuietTrace, Housed, AllTraced, NoneHidden, Awaits
  <2>1. session = "open"
    BY DEF IInv, Awaits
  <2>2. CASE tracePromise # "none" /\ UNCHANGED tracing
    BY <1>1, <2>1, <2>2 DEF IInv, Quiet, QuietTrace, Housed, AllTraced,
      NoneHidden, Awaits, TracedContext
  <2>3. CASE tracePromise = "none" /\ \E stopped \in BOOLEAN : RunTrace(stopped)
    <3>1. traces \subseteq traces'
      BY <2>3 DEF RunTrace
    <3>2. CASE tracePromise' = "resolved"
      <4>1. /\ blocked = {} /\ activeId = active
            /\ [case |-> currentCase, context |-> active] \in traces'
        BY <2>1, <2>3, <3>2 DEF RunTrace, IInv, Quiet, QuietTrace, Housed, AllTraced, NoneHidden
      <4>2. \A k \in DOMAIN records : TracedContext(records[k].context)'
        BY <1>1, <2>1, <3>1, <4>1 DEF IInv, Quiet, QuietTrace, Housed, AllTraced,
          NoneHidden, TracedContext
      <4> QED
        BY <1>1, <2>1, <2>3, <3>2, <4>1, <4>2 DEF IInv, Quiet, QuietTrace, Housed, AllTraced,
          NoneHidden, Awaits
    <3>3. CASE tracePromise' = "rejected"
      BY <1>1, <2>1, <2>3, <3>1, <3>3 DEF IInv, Quiet, QuietTrace, Housed, AllTraced,
        NoneHidden, Awaits, TracedContext
    <3> QED
      BY <2>3, <3>2, <3>3 DEF RunTrace
  <2> QED
    BY <2>2, <2>3
<1> QED
  BY <1>2, <1>3, <1>4 DEF IInv

LEMMA CloseContextStep ==
  ASSUME IInv, CloseContext
  PROVE  IInv'
<1> USE DEF CloseContext, Await, current, tracing
<1>1. PICK outcome \in {"closed", "failed"} :
        contexts' = CloseOutcome(outcome) /\ records' = MarkRecords(outcome)
  OBVIOUS
<1>2. /\ contexts' \in Seq(ContextState) /\ Len(contexts') = Len(contexts)
      /\ DOMAIN contexts' = DOMAIN contexts
      /\ \A k \in DOMAIN contexts : contexts'[k] = IF k = active THEN outcome ELSE contexts[k]
  <2>1. /\ Len(contexts) \in Nat /\ DOMAIN contexts = 1..Len(contexts)
        /\ \A k \in DOMAIN contexts : contexts[k] \in ContextState
    BY DEF IInv, SessionTypes
  <2>2. contexts' = [k \in DOMAIN contexts |-> IF k = active THEN outcome ELSE contexts[k]]
    BY <1>1 DEF CloseOutcome
  <2>3. contexts' \in [1..Len(contexts) -> ContextState]
    BY <2>1, <2>2 DEF ContextState
  <2> QED
    BY <2>1, <2>2, <2>3
<1>3. /\ records' \in Seq(Record) /\ DOMAIN records' = DOMAIN records
      /\ (records = <<>>) <=> (records' = <<>>)
      /\ \A k \in DOMAIN records :
           /\ records'[k].case = records[k].case /\ records'[k].context = records[k].context
           /\ records'[k].scope = records[k].scope /\ records'[k].group = records[k].group
           /\ records'[k].status # "open"
  <2>1. /\ Len(records) \in Nat /\ DOMAIN records = 1..Len(records) /\ SessionTypes
    BY DEF IInv, SessionTypes
  <2>2. ASSUME NEW k \in DOMAIN records
        PROVE  /\ records'[k] \in Record
               /\ records'[k].case = records[k].case /\ records'[k].context = records[k].context
               /\ records'[k].scope = records[k].scope /\ records'[k].group = records[k].group
               /\ records'[k].status # "open"
    <3>1. records[k] \in Record
      BY <2>1, RecordFields
    <3>2. CASE records[k].status = "open"
      <4>1. records'[k] = [records[k] EXCEPT !.status = outcome]
        BY <1>1, <3>2 DEF MarkRecords, IInv, RecordsFollow
      <4> QED
        BY <3>1, <4>1 DEF Record
    <3>3. CASE records[k].status # "open"
      BY <1>1, <3>1, <3>3 DEF MarkRecords
    <3> QED
      BY <3>2, <3>3
  <2>3. records' \in [1..Len(records) -> Record]
    BY <1>1, <2>1, <2>2 DEF MarkRecords
  <2>4. records' \in Seq(Record) /\ DOMAIN records' = DOMAIN records
    BY <2>1, <2>3
  <2> QED
    BY <2>1, <2>2, <2>4
<1>4. SessionTypes' /\ Awaits'
  BY <1>2, <1>3 DEF IInv, SessionTypes, Awaits
<1>5. ContextsFollow' /\ RecordsFollow'
  BY <1>2, <1>3 DEF IInv, ContextsFollow, OneLiveContext, RecordsFollow, Awaits
<1>6. Homes'
  BY <1>2, <1>3 DEF IInv, Homes, SharedOnlyWhenRelated, Related
<1>7. Quiet'
  <2> SUFFICES ASSUME ~failed
               PROVE  (QuietTrace /\ Housed /\ AllTraced /\ NoneHidden)'
    BY DEF Quiet
  <2>1. QuietTrace' /\ NoneHidden'
    BY DEF IInv, Quiet, QuietTrace, NoneHidden, Awaits
  <2>2. Housed'
    BY <1>3 DEF IInv, Quiet, Housed
  <2>3. ASSUME NEW x, TracedContext(x)
        PROVE  TracedContext(x)'
    BY <1>3, <2>3 DEF TracedContext
  <2>4. AllTraced'
    BY <1>3, <2>3 DEF IInv, Quiet, AllTraced
  <2> QED
    BY <2>1, <2>2, <2>4
<1> QED
  BY <1>4, <1>5, <1>6, <1>7 DEF IInv

LEMMA BlockRequestStep ==
  ASSUME IInv, BlockRequest
  PROVE  IInv'
<1> USE DEF BlockRequest, playwright, current, tracing, control
<1>1. SessionTypes' /\ Awaits' /\ ContextsFollow' /\ RecordsFollow' /\ Homes'
  BY DEF IInv, SessionTypes, Awaits, ContextsFollow, OneLiveContext, RecordsFollow, Past, Homes,
    SharedOnlyWhenRelated, Related
<1>2. \A x : TracedContext(x)' = TracedContext(x)
  BY DEF TracedContext
<1>3. QuietTrace' = QuietTrace /\ Housed' = Housed
  BY DEF QuietTrace, Housed
<1>4. ~failed => AllTraced'
  BY <1>2 DEF IInv, Quiet, AllTraced
<1>5. ~failed => NoneHidden'
  <2> DEFINE request == [context |-> active, late |-> tracePromise # "none"]
  <2>1. blocked' = blocked \cup {request}
    OBVIOUS
  <2>2. request.context = active /\ (tracePromise = "resolved" => request.late)
    BY Zenon
  <2> HIDE DEF request
  <2> QED
    BY <2>1, <2>2 DEF IInv, Quiet, NoneHidden
<1>6. Quiet'
  BY <1>3, <1>4, <1>5 DEF IInv, Quiet
<1> QED
  BY <1>1, <1>6 DEF IInv

LEMMA NextOK ==
  ASSUME IInv, [SessionNext]_sessionVars
  PROVE  IInv'
<1>1. CASE SessionStep
  BY <1>1, TearDownStep, CreateContextStep, BeginsOrEndsStep, OpenedStep, SwitchedStep,
    FinalizeTraceStep, CloseContextStep, BlockRequestStep DEF SessionStep, BeginsOrEnds
<1>2. CASE \E c \in DOMAIN policies : PrepareCase(c)
  BY <1>2, PrepareWithoutRecord, PrepareFirstStep, PrepareReuseStep DEF PrepareCase
<1>3. CASE BeginsOrEnds
  BY <1>3, BeginsOrEndsStep
<1>4. CASE UNCHANGED sessionVars
  BY <1>4 DEF sessionVars, playwright, current, tracing, control, IInv, SessionTypes, Awaits,
    ContextsFollow, OneLiveContext, RecordsFollow, Past, Homes, SharedOnlyWhenRelated, Related,
    Quiet, QuietTrace, Housed, AllTraced, NoneHidden, TracedContext
<1> QED
  BY <1>1, <1>2, <1>3, <1>4 DEF SessionNext, BeginsOrEnds

LEMMA Inductive == SessionSpec => []IInv
<1>1. IInv /\ [SessionNext]_sessionVars => IInv'
  BY NextOK
<1> QED
  BY <1>1, InitOK, PTL DEF SessionSpec

-----------------------------------------------------------------------------
\* Whatever a call does and however it ends, at most the active context is left that
\* nobody tried to close, and none is left after close.
THEOREM ContextsAreReleased == SessionSpec => []NoContextIsForgotten
<1>1. IInv => NoContextIsForgotten
  BY DEF IInv, NoContextIsForgotten, ContextsFollow, RecordsFollow, ClosedMeansReleased, Idle, Past,
    Awaits
<1> QED
  BY <1>1, Inductive, PTL

\* Two cases are in one context only if both declare that they share it.
THEOREM ContextsAreIsolated == SessionSpec => []SharedOnlyWhenRelated
<1>1. IInv => SharedOnlyWhenRelated
  BY DEF IInv, Homes
<1> QED
  BY <1>1, Inductive, PTL

\* A session that was closed and never threw has a trace of every context a case ran in,
\* and no blocked request but those after its last trace.
THEOREM SilenceIsComplete == SessionSpec => []QuietMeansComplete
<1>1. ASSUME IInv, Idle, closed, ~failed
      PROVE  /\ \A k \in DOMAIN records : TracedContext(records[k].context)
             /\ \A b \in blocked : b.late /\ b.context = active
  <2>1. tracePromise = "resolved"
    BY <1>1 DEF IInv, Quiet, QuietTrace, Idle, SessionTypes
  <2> QED
    BY <1>1, <2>1 DEF IInv, Quiet, AllTraced, NoneHidden, Idle
<1>2. IInv => QuietMeansComplete
  BY <1>1 DEF QuietMeansComplete, EveryContextTraced, SmokeRequestsReported, TracedContext
<1> QED
  BY <1>2, Inductive, PTL

-----------------------------------------------------------------------------
(* The session in the run command.                                         *)

\* Whatever the run command does is a step of its session, or none.
LEMMA SessionInside ==
  ASSUME [CommandNext]_runVars
  PROVE  [SessionNext]_sessionVars
<1>1. CASE OpenSession
  BY <1>1 DEF OpenSession, SessionNext
<1>2. CASE BeforeCase
  <2>1. PrepareCase(NextCase) /\ NextCase \in DOMAIN policies
    BY <1>2 DEF BeforeCase, PrepareCase, PrepareClosed, PrepareUnapproved, PrepareFirst, PrepareSame,
      PrepareReuse, PrepareSwitch, Accepted, Calls
  <2> QED
    BY <2>1 DEF SessionNext
<1>3. CASE FinalizeResult \/ Deliver \/ CatchManual \/ Finally
  BY <1>3 DEF FinalizeResult, Deliver, CatchManual, Finally, SessionNext
<1>4. CASE SessionWorks
  BY <1>4 DEF SessionWorks, SessionNext
<1>5. CASE \/ Refuse \/ PersistRefusal \/ SessionOpened \/ CaseCompleted \/ ExecutionThrows
           \/ ManifestExecuted \/ AttachTraces \/ Closed \/ CatchAuthoritative \/ CatchPersist
           \/ ManualTraces \/ Released \/ WriteFile \/ WriteFails \/ Ended \/ UNCHANGED runVars
  <2>1. UNCHANGED sessionVars
    BY <1>5 DEF Refuse, PersistRefusal, SessionOpened, CaseCompleted, ExecutionThrows, ManifestExecuted,
      AttachTraces, Closed, CatchAuthoritative, CatchPersist, ManualTraces, Released, WriteFile, WriteFails,
      Ended, runVars
  <2> QED
    BY <2>1
<1> QED
  BY <1>1, <1>2, <1>3, <1>4, <1>5 DEF CommandNext

\* So that what is proved of the session holds of the run command's.
LEMMA SessionHolds == CommandSpec => SessionSpec
<1>1. CommandInit => SessionInit
  BY DEF CommandInit
<1>2. [CommandNext]_runVars => [SessionNext]_sessionVars
  BY SessionInside
<1> QED
  BY <1>1, <1>2, PTL DEF CommandSpec, SessionSpec

\* Records and traces name cases of the manifest.
SessionData ==
  /\ traces \subseteq Trace
  /\ \A k \in DOMAIN records : records[k].case \in DOMAIN policies

LEMMA SessionDataStep ==
  ASSUME IInv, SessionData, [SessionNext]_sessionVars
  PROVE  SessionData'
<1>0. SessionTypes /\ [case |-> currentCase, context |-> active] \in Trace
  BY DEF IInv, SessionTypes, Trace
<1>1. policies' = policies
  BY DEF SessionNext, SessionStep, Launch, LaunchFails, TearDown, CreateContext, CreateContextFails,
    InitializeContextFails, Opened, Switched, FinalizeTrace, CloseContext, CloseBrowser, BlockRequest,
    PrepareCase, PrepareClosed, PrepareUnapproved, PrepareFirst, PrepareSame, PrepareReuse, PrepareSwitch,
    FinalizeTraces, Close, CloseAgain, sessionVars
<1>2. traces' \subseteq Trace
  <2>1. traces' \subseteq traces \cup {[case |-> currentCase, context |-> active]}
    BY DEF SessionNext, SessionStep, Launch, LaunchFails, TearDown, CreateContext, CreateContextFails,
      InitializeContextFails, Opened, Switched, FinalizeTrace, RunTrace, CloseContext, CloseBrowser, BlockRequest,
      PrepareCase, PrepareClosed, PrepareUnapproved, PrepareFirst, PrepareSame, PrepareReuse, PrepareSwitch,
      FinalizeTraces, Close, CloseAgain, sessionVars, tracing
  <2> QED
    BY <1>0, <2>1 DEF SessionData
<1>3. ASSUME NEW c \in DOMAIN policies, NEW x \in Nat, NEW b \in BOOLEAN,
             records' = Append(records, NewRecord(c, x, b))
      PROVE  \A k \in DOMAIN records' : records'[k].case \in DOMAIN policies
  <2>1. NewRecord(c, x, b) \in Record /\ NewRecord(c, x, b).case = c
    BY <1>0, NewRecordType DEF NewRecord
  <2> QED
    BY <1>0, <1>3, <2>1, RecordAdded DEF SessionData
<1>4. CASE CloseContext
  <2>1. PICK outcome : records' = MarkRecords(outcome)
    BY <1>4 DEF CloseContext
  <2>2. ASSUME NEW k \in DOMAIN records
        PROVE  records'[k].case = records[k].case
    <3>1. records[k] \in Record
      BY <1>0, RecordFields
    <3> QED
      BY <2>1, <3>1 DEF MarkRecords, Record
  <2>3. DOMAIN records' = DOMAIN records
    BY <2>1 DEF MarkRecords
  <2> QED
    BY <1>1, <1>2, <2>2, <2>3 DEF SessionData
<1>5. CASE Switched
  <2>1. target \in DOMAIN policies /\ active \in Nat
    BY <1>5 DEF Switched, IInv, Awaits, SessionTypes
  <2> QED
    BY <1>1, <1>2, <1>3, <1>5, <2>1 DEF Switched, SessionData
<1>6. ASSUME NEW c \in DOMAIN policies, PrepareFirst(c) \/ PrepareReuse(c)
      PROVE  SessionData'
  <2>1. activeId \in Nat
    BY DEF IInv, SessionTypes
  <2> QED
    BY <1>1, <1>2, <1>3, <1>6, <2>1 DEF PrepareFirst, PrepareReuse, SessionData
<1>7. CASE records' = records
  BY <1>1, <1>2, <1>7 DEF SessionData
<1> QED
  BY <1>4, <1>5, <1>6, <1>7 DEF SessionNext, SessionStep, Launch, LaunchFails, TearDown, CreateContext,
    CreateContextFails, InitializeContextFails, Opened, FinalizeTrace, CloseBrowser, BlockRequest,
    PrepareCase, PrepareClosed, PrepareUnapproved, PrepareSame, PrepareSwitch,
    FinalizeTraces, Close, CloseAgain, sessionVars

-----------------------------------------------------------------------------
(* What the command sees of a step of its session.                         *)

\* An exception ends the call, and is remembered.
Thrown == threw' = TRUE /\ failed' = TRUE /\ at' = "idle"
Unthrown == threw' = threw /\ failed' = failed

\* A call goes on by itself, but nothing happens to one that has ended.
LEMMA StepSeen ==
  ASSUME IInv, SessionStep
  PROVE  /\ policies' = policies /\ closed' = closed /\ call' \in {call, "none"}
         /\ Unthrown \/ Thrown
         /\ call # "open" => session' = session
         /\ call = "open" /\ Thrown => session' = "failed" \/ Unthrown
         /\ at = "idle" => UNCHANGED <<session, call, at, records, threw, failed>>
<1> USE DEF IInv, Awaits, Thrown, Unthrown, Return, Reject, Await, playwright, control
<1>1. CASE TearDown \/ CreateContext \/ CreateContextFails \/ InitializeContextFails \/ BlockRequest
  BY <1>1 DEF TearDown, CreateContext, CreateContextFails, InitializeContextFails, BlockRequest
<1>2. CASE Opened \/ Switched
  BY <1>2 DEF Opened, Switched
<1>3. CASE FinalizeTrace
  <2>1. at = "trace" /\ UNCHANGED <<policies, session, closed, records>>
    BY <1>3 DEF FinalizeTrace
  <2>2. Reject \/ Return \/ Await("context")
    BY <1>3 DEF FinalizeTrace, AfterTrace
  <2> QED
    BY <2>1, <2>2
<1>4. CASE CloseContext
  <2>1. at = "context" /\ UNCHANGED <<policies, session, closed>>
    BY <1>4 DEF CloseContext
  <2>2. UNCHANGED <<call, target, threw, failed>>
    BY <1>4 DEF CloseContext
  <2> QED
    BY <2>1, <2>2
<1>5. CASE CloseBrowser
  BY <1>5 DEF CloseBrowser
<1> QED
  BY <1>1, <1>2, <1>3, <1>4, <1>5 DEF SessionStep

LEMMA PrepareSeen ==
  ASSUME IInv, NEW c, PrepareCase(c), ~threw
  PROVE  /\ UNCHANGED <<policies, session, closed>> /\ call' \in {"none", "prepare"} /\ ~failed
         /\ Thrown \/ (~threw' /\ ~failed')
<1>1. Calls(c)
  BY DEF PrepareCase, PrepareClosed, PrepareUnapproved, PrepareFirst, PrepareSame, PrepareReuse, PrepareSwitch,
    Accepted
<1>2. session = "open" /\ at = "idle" /\ ~failed /\ call = "none"
  BY <1>1 DEF Calls, IInv, Awaits
<1>3. CASE PrepareClosed(c) \/ PrepareUnapproved(c)
  BY <1>2, <1>3 DEF PrepareClosed, PrepareUnapproved, Reject, Thrown
<1>4. CASE PrepareFirst(c) \/ PrepareReuse(c)
  <2>1. UNCHANGED <<policies, session, closed, control>>
    BY <1>4 DEF PrepareFirst, PrepareReuse
  <2> QED
    BY <1>2, <2>1 DEF control
<1>5. CASE PrepareSame(c)
  BY <1>2, <1>5 DEF PrepareSame, sessionVars, control
<1>6. CASE PrepareSwitch(c)
  BY <1>2, <1>6 DEF PrepareSwitch, Call
<1> QED
  BY <1>3, <1>4, <1>5, <1>6 DEF PrepareCase

\* A call that begins: the last exception is forgotten, the failure is not.
Begun(name) ==
  /\ session = "open" /\ at = "idle" /\ call' = name /\ threw' = FALSE
  /\ UNCHANGED <<policies, session, records, failed>>

LEMMA CallsSeen ==
  /\ FinalizeTraces => Begun("finalize") /\ closed' = closed
  /\ Close => Begun("close") /\ closed'
  /\ CloseAgain => /\ threw' = FALSE /\ closed /\ at = "idle"
                   /\ UNCHANGED <<policies, session, records, closed, call, at, failed>>
BY DEF FinalizeTraces, Close, CloseAgain, Begun, Call

-----------------------------------------------------------------------------
(* The inductive invariant of the command.                                 *)

RunTypes ==
  /\ web \subseteq DOMAIN policies
  /\ verdicts \in Seq(Verdict) /\ Len(verdicts) <= CaseCount
  /\ heap \in [Objects -> Result] /\ \A o \in Objects : DOMAIN heap[o].cases = DOMAIN policies
  /\ heap.blocked.run # "completed"
  /\ result \in {"raw", "final"} /\ authoritative \in Objects \cup {"none"}
  /\ trying \in BOOLEAN

\* Only at these places a call of the session may be in progress.
Calling == {"opening", "execute", "attach", "closed", "manualTraces", "released"}
SessionRests ==
  /\ pc \notin Calling => at = "idle"
  /\ call = "open" => pc = "opening"
  /\ pc = "opening" => call \in {"none", "open"}
  /\ pc = "preflight" => session = "none"
  /\ pc = "execute" /\ at # "idle" => NextCase \in web

\* Before the try block no session is left open, and from the finally block on none is.
SessionHandled ==
  /\ ~trying => /\ pc \in {"preflight", "opening", "persistJson", "persistReports", "done"}
                /\ pc # "opening" => session # "open"
  /\ pc \in {"preflight", "opening"} => ~trying
  /\ pc \in {"closed", "released", "lastJson", "done"} => (session = "open" => closed)

\* An exception of the session is met where it is thrown.
ExceptionsAreMet ==
  /\ threw => failed
  /\ pc \in {"preflight", "finalize", "json1", "reports1", "json2", "reports2", "deliver"} => ~failed
  /\ pc = "opening" /\ failed => session = "failed"
  /\ pc = "execute" /\ failed => threw /\ at = "idle" /\ NextCase \in web
  /\ pc \in {"attach", "closed"} /\ failed => threw /\ at = "idle"

\* Where no result is authoritative yet, and what the files show of the one delivered.
NotYet == {"preflight", "opening", "execute", "manual", "manualTraces", "manualJson", "manualReports",
           "persistJson", "persistReports"}
Shown ==
  /\ pc \in NotYet => authoritative = "none"
  /\ pc \in {"reports2", "deliver", "closed"} => json = heap[result]
  /\ pc \in {"deliver", "closed"} => reports = heap[result]

\* The two ways a command comes to its end: the completed result is in all three places,
\* or none of them claims that one is.
Delivered ==
  /\ authoritative = result /\ heap[result].run = "completed"
  /\ exit = ExitCode(heap[result])
  /\ reports = heap[result] /\ json \in {heap[result], Torn}
  /\ ~failed /\ FailedCloses = {} /\ at = "idle" /\ (session = "open" => closed)
Disturbed ==
  /\ exit \notin {0, 10}
  /\ authoritative # "none" => heap[authoritative].run # "completed"

Endings ==
  /\ pc \in {"finally", "released", "lastJson", "done"} => Delivered \/ Disturbed
  /\ pc \in {"json3", "reports3", "catchJson"} => Disturbed /\ authoritative # "none"
  /\ pc \in {"manualTraces", "manualJson", "manualReports", "persistJson", "persistReports"} =>
       exit \notin {0, 10}

DirtyTold ==
  pc \in {"lastJson", "done"} /\ authoritative # "none" =>
    \A c \in FailedCloses : heap[authoritative].cases[c].status # "passed"

CommandInv ==
  /\ RunTypes /\ SessionRests /\ SessionHandled /\ ExceptionsAreMet
  /\ Shown /\ Endings /\ DirtyTold

-----------------------------------------------------------------------------
(* What happens to a result.                                               *)

\* A result of the manifest.
Whole(r) == r \in Result /\ DOMAIN r.cases = DOMAIN policies

LEMMA BlockedIsWhole ==
  ASSUME IInv, NEW run \in CaseRun
  PROVE  Whole(BlockedResult(run)) /\ BlockedResult(run).run = run
<1>1. CaseCount \in Nat /\ DOMAIN policies = 1..CaseCount
  BY DEF IInv, SessionTypes, CaseCount
<1> DEFINE v == [status |-> "not_executed", run |-> "blocked"]
           cases == [c \in 1..CaseCount |-> v]
<1>2. v \in Verdict
  BY DEF Verdict, CaseStatus, CaseRun
<1>3. cases \in Seq(Verdict) /\ DOMAIN cases = DOMAIN policies
  <2> HIDE DEF v
  <2>1. cases \in [1..CaseCount -> Verdict]
    BY <1>2
  <2> QED
    BY <1>1, <2>1
<1>4. BlockedResult(run) = [run |-> run, traces |-> {}, cases |-> cases]
  BY DEF BlockedResult
<1> QED
  <2> HIDE DEF cases
  <2> QED
    BY <1>3, <1>4 DEF Whole, Result

\* Only a run that failed to close no context is left as it was, and of one that did
\* no case of a dirty context is passed.
LEMMA CleanupApplied ==
  ASSUME IInv, NEW r, Whole(r)
  PROVE  /\ Whole(ApplyCleanupFailures(r))
         /\ FailedCloses = {} => ApplyCleanupFailures(r) = r
         /\ FailedCloses # {} => ApplyCleanupFailures(r).run = "executor_error"
         /\ \A c \in FailedCloses \cap DOMAIN policies :
              ApplyCleanupFailures(r).cases[c].status # "passed"
<1>1. /\ r.cases \in Seq(Verdict) /\ Len(r.cases) \in Nat /\ DOMAIN r.cases = 1..Len(r.cases)
      /\ r.traces \in SUBSET Nat /\ DOMAIN r.cases = DOMAIN policies
  BY DEF Whole, Result
<1> DEFINE marked(c) == [status |-> IF r.cases[c].status = "passed" THEN "not_executed"
                                    ELSE r.cases[c].status,
                         run |-> "executor_error"]
           cases == [c \in DOMAIN r.cases |-> IF c \notin FailedCloses THEN r.cases[c] ELSE marked(c)]
<1>2. ASSUME NEW c \in DOMAIN r.cases
      PROVE  r.cases[c] \in Verdict /\ marked(c) \in Verdict /\ marked(c).status # "passed"
  <2>1. r.cases[c] \in Verdict
    BY <1>1
  <2>2. r.cases[c].status \in CaseStatus
    BY <2>1 DEF Verdict
  <2> QED
    BY <2>1, <2>2 DEF Verdict, CaseStatus, CaseRun
<1>3. cases \in Seq(Verdict) /\ DOMAIN cases = DOMAIN policies
  <2>1. cases \in [1..Len(r.cases) -> Verdict]
    <3> HIDE DEF marked
    <3> QED
      BY <1>1, <1>2
  <2> HIDE DEF cases
  <2> QED
    BY <1>1, <2>1
<1>4. CASE FailedCloses = {}
  BY <1>4 DEF ApplyCleanupFailures
<1>5. CASE FailedCloses # {}
  <2>1. ApplyCleanupFailures(r) = [r EXCEPT !.run = "executor_error", !.cases = cases]
    BY <1>5 DEF ApplyCleanupFailures
  <2>2. /\ ApplyCleanupFailures(r).run = "executor_error" /\ ApplyCleanupFailures(r).cases = cases
        /\ ApplyCleanupFailures(r) \in Result
    <3> HIDE DEF cases
    <3> QED
      BY <1>3, <2>1 DEF Whole, Result, CaseRun
  <2>3. \A c \in FailedCloses \cap DOMAIN policies : cases[c].status # "passed"
    <3> HIDE DEF marked
    <3> QED
      BY <1>1, <1>2
  <2> QED
    <3> HIDE DEF cases
    <3> QED
      BY <1>3, <1>5, <2>2, <2>3 DEF Whole
<1> QED
  BY <1>4, <1>5

\* A result is completed after the closing only if it was, nothing was thrown and every
\* context was closed; then nothing was changed in it.
LEMMA ClosingApplied ==
  ASSUME IInv, NEW r, Whole(r)
  PROVE  /\ Whole(AfterClose(r))
         /\ AfterClose(r).run = "completed" =>
              r.run = "completed" /\ ~threw /\ FailedCloses = {}
         /\ ~threw /\ FailedCloses = {} => AfterClose(r) = r
         /\ \A c \in FailedCloses \cap DOMAIN policies : AfterClose(r).cases[c].status # "passed"
         /\ AfterClose(r).cases # r.cases => FailedCloses # {}
<1> DEFINE applied == ApplyCleanupFailures(r)
<1>1. /\ Whole(applied) /\ (FailedCloses = {} => applied = r)
      /\ FailedCloses # {} => applied.run = "executor_error"
      /\ \A c \in FailedCloses \cap DOMAIN policies : applied.cases[c].status # "passed"
  BY CleanupApplied
<1>2. AfterClose(r) = IF threw THEN [applied EXCEPT !.run = "infrastructure_error"] ELSE applied
  BY DEF AfterClose
<1> HIDE DEF applied
<1>3. CASE threw
  BY <1>1, <1>2, <1>3 DEF Whole, Result
<1>4. CASE ~threw
  BY <1>1, <1>2, <1>4
<1> QED
  BY <1>3, <1>4

LEMMA AttachedIsWhole ==
  ASSUME SessionData, NEW r, Whole(r)
  PROVE  Whole(Attached(r)) /\ Attached(r).run = r.run
<1>1. {t.case : t \in traces} \in SUBSET Nat
  BY DEF SessionData, Trace
<1> QED
  BY <1>1 DEF Attached, Whole, Result

LEMMA FailureIsWhole ==
  ASSUME NEW r, Whole(r)
  PROVE  Whole(Failure(r)) /\ Failure(r).run = "infrastructure_error"
BY DEF Failure, Whole, Result

\* The codes 0 and 10 are those of a completed run.
LEMMA ExitCodes ==
  ASSUME NEW r, Whole(r)
  PROVE  ExitCode(r) \in {0, 10} <=> r.run = "completed"
<1>1. r.run \in {"completed", "blocked", "manual_required", "executor_error", "infrastructure_error"}
  BY DEF Whole, Result, CaseRun
<1> QED
  BY <1>1 DEF ExitCode

LEMMA FailuresAreOfCases ==
  ASSUME SessionData
  PROVE  FailedCloses \subseteq DOMAIN policies
BY DEF FailedCloses, SessionData

-----------------------------------------------------------------------------
(* The steps of the command.                                               *)

\* The session stands still.
Resting == UNCHANGED <<policies, session, closed, call, at, records, threw, failed>>

LEMMA RestingIs == UNCHANGED sessionVars => Resting
BY DEF sessionVars, control, Resting

LEMMA FailedClosesStay ==
  ASSUME records' = records
  PROVE  FailedCloses' = FailedCloses
BY DEF FailedCloses

\* A result of the heap is replaced by another.
LEMMA Replaced ==
  ASSUME RunTypes, UNCHANGED policies, NEW name \in Objects, NEW r, Whole(r), heap' = [heap EXCEPT ![name] = r]
  PROVE  /\ heap' \in [Objects -> Result] /\ \A o \in Objects : DOMAIN heap'[o].cases = DOMAIN policies'
         /\ heap'[name] = r /\ \A o \in Objects \ {name} : heap'[o] = heap[o]
         /\ name # "blocked" \/ r.run # "completed" => heap'["blocked"].run # "completed"
BY DEF RunTypes, Objects, Whole

LEMMA SetupStep ==
  ASSUME IInv, CommandInv, Refuse \/ PersistRefusal \/ OpenSession \/ SessionOpened
  PROVE  CommandInv'
<1> USE DEF CommandInv, Goto, delivery, command
<1>1. pc \in {"preflight", "opening"} /\ at = "idle" /\ authoritative = "none" /\ ~trying
  BY DEF Refuse, PersistRefusal, OpenSession, SessionOpened, Shown, NotYet, SessionRests, Calling, SessionHandled
<1>2. UNCHANGED <<policies, web, verdicts, result, authoritative, json, reports>>
  <2>1. UNCHANGED policies
    BY RestingIs DEF Resting, Refuse, PersistRefusal, OpenSession, SessionOpened, Launch, LaunchFails
  <2> QED
    BY <2>1 DEF Refuse, PersistRefusal, OpenSession, SessionOpened
<1>3. CASE Refuse
  <2>1. Resting
    BY <1>3, RestingIs DEF Refuse
  <2> QED
    BY <1>1, <1>2, <1>3, <2>1 DEF Refuse, Resting, RunTypes, CaseCount, SessionRests, Calling, SessionHandled,
      ExceptionsAreMet, Shown, NotYet, Endings, Disturbed, DirtyTold
<1>4. CASE PersistRefusal
  <2>1. Resting
    BY <1>4, RestingIs DEF PersistRefusal
  <2>2. Whole(BlockedResult("blocked")) /\ BlockedResult("blocked").run = "blocked"
    BY BlockedIsWhole DEF CaseRun
  <2>3. RunTypes'
    BY <1>2, <1>4, <2>2 DEF PersistRefusal, RunTypes, Objects, Whole, CaseCount
  <2> QED
    BY <1>1, <1>2, <1>4, <2>1, <2>3 DEF PersistRefusal, Resting, SessionRests, Calling, SessionHandled,
      ExceptionsAreMet, Shown, NotYet, Endings, Disturbed, DirtyTold
<1>5. CASE OpenSession
  <2>1. pc = "preflight" /\ session = "none" /\ ~failed /\ ~threw /\ UNCHANGED heap /\ call = "none"
    BY <1>1, <1>5 DEF OpenSession, SessionRests, ExceptionsAreMet, IInv, Awaits
  <2>2. RunTypes'
    BY <1>2, <1>5, <2>1 DEF OpenSession, RunTypes, CaseCount
  <2>3. CASE needsBrowser /\ Launch
    BY <1>1, <1>2, <1>5, <2>1, <2>2, <2>3 DEF OpenSession, Launch, Call, SessionRests, Calling, SessionHandled,
      ExceptionsAreMet, Shown, NotYet, Endings, DirtyTold
  <2>4. CASE needsBrowser /\ LaunchFails
    BY <1>1, <1>2, <1>5, <2>1, <2>2, <2>4 DEF OpenSession, LaunchFails, Reject, SessionRests, Calling,
      SessionHandled, ExceptionsAreMet, Shown, NotYet, Endings, DirtyTold
  <2>5. CASE ~needsBrowser
    <3>1. Resting /\ trying' = TRUE /\ pc' = "execute"
      BY <1>5, <2>5, RestingIs DEF OpenSession
    <3> QED
      BY <1>1, <1>2, <2>1, <2>2, <3>1 DEF Resting, SessionRests, Calling, SessionHandled, ExceptionsAreMet,
        Shown, NotYet, Endings, DirtyTold
  <2> QED
    BY <1>5, <2>3, <2>4, <2>5 DEF OpenSession
<1>6. CASE SessionOpened
  <2>1. Resting /\ pc = "opening" /\ UNCHANGED heap
    BY <1>6, RestingIs DEF SessionOpened
  <2>2. RunTypes'
    BY <1>2, <1>6, <2>1 DEF SessionOpened, RunTypes, CaseCount
  <2>3. CASE session = "open"
    <3>1. pc' = "execute" /\ trying' = TRUE /\ call # "open"
      BY <1>6, <2>3 DEF SessionOpened, IInv, Awaits
    <3> QED
      BY <1>1, <1>2, <2>1, <2>2, <2>3, <3>1 DEF Resting, SessionRests, Calling, SessionHandled,
        ExceptionsAreMet, Shown, NotYet, Endings, DirtyTold
  <2>4. CASE session # "open"
    <3>1. pc' = "done" /\ exit' = 50 /\ trying' = trying /\ call # "open"
      BY <1>1, <1>6, <2>4 DEF SessionOpened, IInv, Awaits
    <3> QED
      BY <1>1, <1>2, <2>1, <2>2, <2>4, <3>1 DEF Resting, SessionRests, Calling, SessionHandled,
        ExceptionsAreMet, Shown, NotYet, Endings, Disturbed, DirtyTold
  <2> QED
    BY <2>3, <2>4
<1> QED
  BY <1>3, <1>4, <1>5, <1>6

LEMMA ExecutionStep ==
  ASSUME IInv, CommandInv, BeforeCase \/ CaseCompleted \/ ExecutionThrows
  PROVE  CommandInv'
<1> USE DEF CommandInv, Goto, command, rest, delivery
<1>1. pc = "execute" /\ at = "idle" /\ authoritative = "none" /\ trying
  BY DEF BeforeCase, CaseCompleted, ExecutionThrows, Executing, Shown, NotYet, SessionHandled
<1>2. CASE BeforeCase
  <2>1. /\ NextCase \in web /\ UNCHANGED <<policies, session, closed, pc, web, rest>>
        /\ call' \in {"none", "prepare"} /\ ~failed
        /\ Thrown \/ (~threw' /\ ~failed')
    BY <1>2, PrepareSeen DEF BeforeCase
  <2>2. RunTypes' /\ (NextCase \in web)'
    BY <2>1 DEF RunTypes, CaseCount, NextCase
  <2>3. pc' = "execute" /\ authoritative' = "none" /\ trying'
    BY <1>1, <2>1
  <2>4. SessionRests' /\ SessionHandled'
    BY <2>1, <2>2, <2>3 DEF SessionRests, Calling, SessionHandled
  <2>5. ExceptionsAreMet'
    BY <2>1, <2>2, <2>3 DEF Thrown, ExceptionsAreMet
  <2> QED
    BY <2>2, <2>3, <2>4, <2>5 DEF Shown, NotYet, Endings, DirtyTold
<1>3. CASE CaseCompleted
  <2>1. /\ Resting /\ pc' = "execute"
        /\ UNCHANGED <<web, heap, result, authoritative, trying, exit, json, reports>>
    BY <1>3, RestingIs DEF CaseCompleted
  <2>2. ~failed /\ ~threw
    BY <1>1, <1>3 DEF CaseCompleted, Prepared, ExceptionsAreMet
  <2>3. verdicts' \in Seq(Verdict) /\ Len(verdicts') <= CaseCount
    <3>1. PICK v \in Verdicts : verdicts' = Append(verdicts, v)
      BY <1>3 DEF CaseCompleted
    <3>2. v \in Verdict /\ verdicts \in Seq(Verdict) /\ Len(verdicts) \in Nat
      BY VerdictsAssumption DEF RunTypes
    <3>3. verdicts' \in Seq(Verdict) /\ Len(verdicts') = Len(verdicts) + 1
      BY <3>1, <3>2
    <3>4. CaseCount \in Nat
      BY DEF IInv, SessionTypes, CaseCount
    <3> QED
      BY <1>3, <3>2, <3>3, <3>4 DEF CaseCompleted, NextCase
  <2>4. RunTypes'
    BY <2>1, <2>3 DEF RunTypes, Resting, CaseCount
  <2> QED
    BY <1>1, <2>1, <2>2, <2>4 DEF Resting, SessionRests, Calling, SessionHandled, ExceptionsAreMet, Shown,
      NotYet, Endings, DirtyTold
<1>4. CASE ExecutionThrows
  <2>1. /\ Resting /\ pc' \in {"catch", "manual"}
        /\ UNCHANGED <<web, verdicts, heap, result, authoritative, trying, exit, json, reports>>
    BY <1>4, RestingIs DEF ExecutionThrows
  <2>2. RunTypes' /\ call # "open"
    BY <1>1, <2>1 DEF RunTypes, Resting, CaseCount, SessionRests
  <2> QED
    BY <1>1, <2>1, <2>2 DEF Resting, SessionRests, Calling, SessionHandled, ExceptionsAreMet, Shown, NotYet,
      Endings, DirtyTold
<1> QED
  BY <1>2, <1>3, <1>4

\* Once every case was executed, nothing was thrown.
LEMMA ManifestExecutedStep ==
  ASSUME IInv, CommandInv, ManifestExecuted
  PROVE  CommandInv'
<1> USE DEF CommandInv, Goto, command, delivery
<1>1. pc = "execute" /\ at = "idle" /\ trying /\ call # "open"
  BY DEF ManifestExecuted, Executing, SessionHandled, SessionRests
<1>2. /\ Resting /\ pc' \in {"finalize", "json1"} /\ authoritative' = "raw"
      /\ UNCHANGED <<web, verdicts, result, trying, exit, json, reports>>
  BY RestingIs DEF ManifestExecuted
<1>3. CaseCount \in Nat /\ DOMAIN policies = 1..CaseCount /\ Len(verdicts) \in Nat
  BY DEF IInv, SessionTypes, CaseCount, RunTypes
<1>4. NextCase > CaseCount /\ Len(verdicts) = CaseCount /\ NextCase \notin web
  BY <1>3 DEF ManifestExecuted, NextCase, RunTypes
<1>5. ~failed /\ ~threw
  BY <1>1, <1>4 DEF ExceptionsAreMet
<1>6. RunTypes'
  <2>1. PICK run \in RunStatusOf(verdicts) :
          heap' = [heap EXCEPT !.raw =
                     ApplyCleanupFailures([run |-> run, cases |-> verdicts, traces |-> {}])]
    BY DEF ManifestExecuted
  <2> DEFINE r == [run |-> run, cases |-> verdicts, traces |-> {}]
  <2>2. run \in CaseRun
    <3>1. \A c \in DOMAIN verdicts : verdicts[c] \in Verdict /\ verdicts[c].run \in CaseRun
      <4>1. \A c \in DOMAIN verdicts : verdicts[c] \in Verdict
        BY DEF RunTypes
      <4> QED
        BY <4>1 DEF Verdict
    <3> QED
      BY <3>1 DEF RunStatusOf, CaseRun
  <2>3. Whole(r)
    BY <1>3, <1>4, <2>2 DEF Whole, Result, RunTypes
  <2>4. Whole(ApplyCleanupFailures(r))
    BY <2>3, CleanupApplied
  <2> HIDE DEF r
  <2>5. heap' = [heap EXCEPT !["raw"] = ApplyCleanupFailures(r)]
    BY <2>1, Zenon DEF r
  <2>6. UNCHANGED policies /\ "raw" \in Objects
    BY <1>2 DEF Resting, Objects
  <2>7. /\ heap' \in [Objects -> Result] /\ \A o \in Objects : DOMAIN heap'[o].cases = DOMAIN policies'
        /\ heap'["blocked"].run # "completed"
    BY <2>4, <2>5, <2>6, Replaced
  <2> QED
    BY <1>2, <2>6, <2>7 DEF RunTypes, CaseCount, Objects
<1> QED
  BY <1>1, <1>2, <1>5, <1>6 DEF Resting, SessionRests, Calling, SessionHandled, ExceptionsAreMet, Shown, NotYet,
    Endings, DirtyTold

LEMMA FinalizeStep ==
  ASSUME IInv, CommandInv, FinalizeResult
  PROVE  CommandInv'
<1> USE DEF CommandInv, Goto, command, rest, delivery
<1>1. /\ pc = "finalize" /\ pc' = "attach" /\ Begun("finalize") /\ closed' = closed /\ ~failed /\ trying
      /\ UNCHANGED <<web, verdicts, heap, result, authoritative, trying, exit, json, reports>>
  BY CallsSeen DEF FinalizeResult, ExceptionsAreMet, SessionHandled
<1>2. RunTypes'
  BY <1>1 DEF RunTypes, Begun, CaseCount
<1> QED
  BY <1>1, <1>2 DEF Begun, SessionRests, Calling, SessionHandled, ExceptionsAreMet, Shown, NotYet, Endings,
    DirtyTold

LEMMA AttachStep ==
  ASSUME IInv, SessionData, CommandInv, AttachTraces
  PROVE  CommandInv'
<1> USE DEF CommandInv, Goto, command, delivery
<1>1. /\ pc = "attach" /\ at = "idle" /\ Resting /\ trying /\ call # "open"
      /\ UNCHANGED <<web, verdicts, authoritative, trying, exit, json, reports>>
  BY RestingIs DEF AttachTraces, SessionHandled, SessionRests
<1>2. CASE ~threw /\ heap' = [heap EXCEPT !.final = Attached(heap.raw)] /\ result' = "final" /\ pc' = "json1"
  <2>1. Whole(Attached(heap.raw))
    BY AttachedIsWhole DEF RunTypes, Objects, Whole
  <2>2. UNCHANGED policies /\ "final" \in Objects /\ ~failed
    BY <1>1, <1>2 DEF Resting, Objects, ExceptionsAreMet
  <2>3. heap' = [heap EXCEPT !["final"] = Attached(heap.raw)]
    BY <1>2, Zenon
  <2>4. /\ heap' \in [Objects -> Result] /\ \A o \in Objects : DOMAIN heap'[o].cases = DOMAIN policies'
        /\ heap'["blocked"].run # "completed"
    BY <2>1, <2>2, <2>3, Replaced
  <2>5. RunTypes'
    BY <1>1, <1>2, <2>2, <2>4 DEF RunTypes, CaseCount
  <2> QED
    BY <1>1, <1>2, <2>2, <2>5 DEF Resting, SessionRests, Calling, SessionHandled, ExceptionsAreMet, Shown, NotYet,
      Endings, DirtyTold
<1>3. CASE UNCHANGED <<heap, result>> /\ pc' = "catch"
  <2>1. RunTypes'
    BY <1>1, <1>3 DEF RunTypes, Resting, CaseCount
  <2> QED
    BY <1>1, <1>3, <2>1 DEF Resting, SessionRests, Calling, SessionHandled, ExceptionsAreMet, Shown, NotYet,
      Endings, DirtyTold
<1> QED
  BY <1>2, <1>3 DEF AttachTraces

LEMMA DeliverStep ==
  ASSUME IInv, CommandInv, Deliver
  PROVE  CommandInv'
<1> USE DEF CommandInv, Goto, command, rest, delivery
<1>1. /\ pc = "deliver" /\ at = "idle" /\ ~failed /\ ~threw /\ trying /\ call # "open"
      /\ UNCHANGED <<web, verdicts, heap, result, authoritative, trying, exit, json, reports>>
  BY DEF Deliver, ExceptionsAreMet, SessionHandled, SessionRests
<1>2. CASE session = "open" /\ Close /\ pc' = "closed"
  <2>1. Begun("close") /\ closed'
    BY <1>2, CallsSeen
  <2>2. RunTypes'
    BY <1>1, <2>1 DEF RunTypes, Begun, CaseCount
  <2> QED
    BY <1>1, <1>2, <2>1, <2>2 DEF Begun, SessionRests, Calling, SessionHandled, ExceptionsAreMet, Shown, NotYet,
      Endings, DirtyTold
<1>3. CASE UNCHANGED sessionVars /\ (pc' = "catch" \/ (pc' = "closed" /\ session # "open"))
  <2>1. Resting
    BY <1>3, RestingIs
  <2>2. RunTypes'
    BY <1>1, <2>1 DEF RunTypes, Resting, CaseCount
  <2> QED
    BY <1>1, <1>3, <2>1, <2>2 DEF Resting, SessionRests, Calling, SessionHandled, ExceptionsAreMet, Shown,
      NotYet, Endings, DirtyTold
<1> QED
  BY <1>2, <1>3 DEF Deliver

LEMMA ClosedStep ==
  ASSUME IInv, SessionData, CommandInv, Closed
  PROVE  CommandInv'
<1> USE DEF CommandInv, Goto, command, delivery
<1> DEFINE before == heap[result]
           final == AfterClose(heap[result])
<1>1. /\ pc = "closed" /\ at = "idle" /\ Resting /\ trying /\ (session = "open" => closed) /\ call # "open"
      /\ authoritative' = result /\ UNCHANGED <<web, verdicts, result, trying, json, reports>>
  BY RestingIs DEF Closed, SessionHandled, SessionRests
<1>2. /\ heap' = [heap EXCEPT ![result] = final] /\ exit' = ExitCode(final)
      /\ pc' = IF threw \/ final.cases # before.cases THEN "json3" ELSE "finally"
  BY DEF Closed
<1>3. result \in Objects \ {"blocked"} /\ Whole(before)
  BY DEF RunTypes, Objects, Whole
<1>4. /\ Whole(final) /\ (final.run = "completed" => ~threw /\ FailedCloses = {} /\ before.run = "completed")
      /\ ~threw /\ FailedCloses = {} => final = before
      /\ final.cases # before.cases => FailedCloses # {}
  BY <1>3, ClosingApplied
<1>5. exit' \in {0, 10} <=> final.run = "completed"
  BY <1>2, <1>4, ExitCodes
<1>6. json = before /\ reports = before /\ (failed => threw)
  BY <1>1 DEF Shown, ExceptionsAreMet
<1> HIDE DEF before, final
<1>7. /\ heap' \in [Objects -> Result] /\ \A o \in Objects : DOMAIN heap'[o].cases = DOMAIN policies'
      /\ heap'[result] = final /\ heap'["blocked"].run # "completed"
  BY <1>1, <1>2, <1>3, <1>4, Replaced DEF Resting
<1>8. RunTypes'
  BY <1>1, <1>3, <1>7 DEF RunTypes, Resting, CaseCount
<1>9. Endings'
  <2>1. CASE final.run = "completed"
    <3>1. final = before /\ pc' = "finally" /\ heap'[result'] = before
      BY <1>1, <1>2, <1>4, <1>7, <2>1
    <3>2. FailedCloses' = {}
      BY <1>1, <1>4, <2>1, FailedClosesStay DEF Resting
    <3>3. exit' = ExitCode(before)
      BY <1>2, <3>1
    <3>4. Delivered'
      BY <1>1, <1>4, <1>6, <2>1, <3>1, <3>2, <3>3 DEF Delivered, Resting
    <3> QED
      BY <3>1, <3>4 DEF Endings
  <2>2. CASE final.run # "completed"
    <3>1. Disturbed' /\ authoritative' # "none"
      BY <1>1, <1>3, <1>5, <1>7, <2>2 DEF Disturbed, Objects
    <3> QED
      BY <1>2, <3>1 DEF Endings
  <2> QED
    BY <2>1, <2>2
<1>10. pc' \in {"json3", "finally"}
  BY <1>2
<1> QED
  BY <1>1, <1>8, <1>9, <1>10 DEF Resting, SessionRests, Calling, SessionHandled, ExceptionsAreMet, Shown, NotYet,
    DirtyTold

LEMMA CatchStep ==
  ASSUME IInv, CommandInv, CatchAuthoritative \/ CatchPersist
  PROVE  CommandInv'
<1> USE DEF CommandInv, Goto, command, delivery
<1>1. /\ pc = "catch" /\ at = "idle" /\ Resting /\ trying /\ call # "open"
      /\ UNCHANGED <<web, verdicts, result, authoritative, trying, json, reports>>
  BY RestingIs DEF CatchAuthoritative, CatchPersist, SessionRests, Calling, SessionHandled
<1>2. CASE CatchAuthoritative
  <2> DEFINE r == Failure(heap[authoritative])
  <2>1. /\ authoritative \in Objects /\ pc' = "catchJson" /\ exit' = ExitCode(r)
        /\ heap' = [heap EXCEPT ![authoritative] = r]
    BY <1>2 DEF CatchAuthoritative, RunTypes
  <2>2. Whole(r) /\ r.run = "infrastructure_error"
    BY <2>1, FailureIsWhole DEF RunTypes, Whole
  <2>3. exit' \notin {0, 10}
    BY <2>1, <2>2, ExitCodes
  <2> HIDE DEF r
  <2>4. /\ heap' \in [Objects -> Result] /\ \A o \in Objects : DOMAIN heap'[o].cases = DOMAIN policies'
        /\ heap'[authoritative] = r /\ heap'["blocked"].run # "completed"
    BY <1>1, <2>1, <2>2, Replaced DEF Resting
  <2>5. RunTypes'
    BY <1>1, <2>4 DEF RunTypes, Resting, CaseCount
  <2>6. Disturbed' /\ authoritative' # "none"
    BY <1>1, <2>1, <2>2, <2>3, <2>4 DEF Disturbed, Objects
  <2> QED
    BY <1>1, <2>1, <2>5, <2>6 DEF Resting, SessionRests, Calling, SessionHandled, ExceptionsAreMet, Shown, NotYet,
      Endings, DirtyTold
<1>3. CASE CatchPersist
  <2>1. /\ authoritative = "none" /\ pc' = "persistJson" /\ exit' = 30
        /\ heap' = [heap EXCEPT !["blocked"] = BlockedResult("executor_error")]
    BY <1>3 DEF CatchPersist
  <2>2. Whole(BlockedResult("executor_error")) /\ BlockedResult("executor_error").run = "executor_error"
    BY BlockedIsWhole DEF CaseRun
  <2>3. /\ heap' \in [Objects -> Result] /\ \A o \in Objects : DOMAIN heap'[o].cases = DOMAIN policies'
        /\ heap'["blocked"].run # "completed"
    BY <1>1, <2>1, <2>2, Replaced DEF Resting, Objects
  <2>4. RunTypes'
    BY <1>1, <2>3 DEF RunTypes, Resting, CaseCount
  <2> QED
    BY <1>1, <2>1, <2>4 DEF Resting, SessionRests, Calling, SessionHandled, ExceptionsAreMet, Shown, NotYet,
      Endings, DirtyTold
<1> QED
  BY <1>2, <1>3

LEMMA ManualStep ==
  ASSUME IInv, SessionData, CommandInv, CatchManual \/ ManualTraces
  PROVE  CommandInv'
<1> USE DEF CommandInv, Goto, command, delivery
<1>1. CASE CatchManual
  <2>1. /\ pc = "manual" /\ at = "idle" /\ authoritative = "none" /\ trying /\ exit' = 20 /\ call # "open"
        /\ heap' = [heap EXCEPT !["blocked"] = BlockedResult("manual_required")]
        /\ UNCHANGED <<web, verdicts, result, authoritative, trying, json, reports>>
    BY <1>1 DEF CatchManual, SessionRests, Calling, Shown, NotYet, SessionHandled
  <2>2. \/ Begun("finalize") /\ closed' = closed /\ pc' = "manualTraces"
        \/ Resting /\ pc' = "manualJson"
    BY <1>1, CallsSeen, RestingIs DEF CatchManual
  <2>3. Whole(BlockedResult("manual_required")) /\ BlockedResult("manual_required").run = "manual_required"
    BY BlockedIsWhole DEF CaseRun
  <2>4. UNCHANGED policies
    BY <2>2 DEF Begun, Resting
  <2>5. /\ heap' \in [Objects -> Result] /\ \A o \in Objects : DOMAIN heap'[o].cases = DOMAIN policies'
        /\ heap'["blocked"].run # "completed"
    BY <2>1, <2>3, <2>4, Replaced DEF Objects
  <2>6. RunTypes'
    BY <2>1, <2>4, <2>5 DEF RunTypes, CaseCount
  <2>7. CASE Begun("finalize") /\ closed' = closed /\ pc' = "manualTraces"
    BY <2>1, <2>6, <2>7 DEF Begun, SessionRests, Calling, SessionHandled, ExceptionsAreMet, Shown, NotYet,
      Endings, DirtyTold
  <2>8. CASE Resting /\ pc' = "manualJson"
    BY <2>1, <2>6, <2>8 DEF Resting, SessionRests, Calling, SessionHandled, ExceptionsAreMet, Shown, NotYet,
      Endings, DirtyTold
  <2> QED
    BY <2>2, <2>7, <2>8
<1>2. CASE ManualTraces
  <2>1. /\ pc = "manualTraces" /\ pc' = "manualJson" /\ at = "idle" /\ authoritative = "none" /\ trying
        /\ Resting /\ exit \notin {0, 10} /\ call # "open"
        /\ UNCHANGED <<web, verdicts, result, authoritative, trying, exit, json, reports>>
    BY <1>2, RestingIs DEF ManualTraces, Shown, NotYet, Endings, SessionHandled, SessionRests
  <2>2. Whole(Attached(heap["blocked"])) /\ Attached(heap["blocked"]).run # "completed"
    BY AttachedIsWhole DEF RunTypes, Objects, Whole
  <2>3. heap' = heap \/ heap' = [heap EXCEPT !["blocked"] = Attached(heap["blocked"])]
    BY <1>2, Zenon DEF ManualTraces
  <2>4. /\ heap' \in [Objects -> Result] /\ \A o \in Objects : DOMAIN heap'[o].cases = DOMAIN policies'
        /\ heap'["blocked"].run # "completed"
    <3>1. CASE heap' = heap
      BY <2>1, <3>1 DEF RunTypes, Resting
    <3>2. CASE heap' = [heap EXCEPT !["blocked"] = Attached(heap["blocked"])]
      BY <2>1, <2>2, <3>2, Replaced DEF Resting, Objects
    <3> QED
      BY <2>3, <3>1, <3>2
  <2>5. RunTypes'
    BY <2>1, <2>4 DEF RunTypes, Resting, CaseCount
  <2> QED
    BY <2>1, <2>5 DEF Resting, SessionRests, Calling, SessionHandled, ExceptionsAreMet, Shown, NotYet,
      Endings, DirtyTold
<1> QED
  BY <1>1, <1>2

\* The session is closed once more: that changes nothing of a result that was delivered.
LEMMA FinallyStep ==
  ASSUME IInv, CommandInv, Finally
  PROVE  CommandInv'
<1> USE DEF CommandInv, Goto, command, rest, delivery
<1>1. /\ pc = "finally" /\ pc' = "released" /\ at = "idle" /\ trying /\ (Delivered \/ Disturbed) /\ call # "open"
      /\ UNCHANGED <<web, verdicts, heap, result, authoritative, trying, exit, json, reports>>
  BY DEF Finally, SessionHandled, Endings, SessionRests
<1>2. \/ Close
      \/ /\ UNCHANGED <<policies, session, records, closed, call, at, failed>>
         /\ session = "open" => closed
         /\ threw' => threw
  BY CallsSeen, RestingIs DEF Finally, HasSession, Resting
<1>3. CASE Close
  <2>1. Begun("close") /\ closed' /\ session = "open" /\ ~closed
    BY <1>3, CallsSeen DEF Close
  <2>2. RunTypes'
    BY <1>1, <2>1 DEF RunTypes, Begun, CaseCount
  <2>3. Disturbed'
    BY <1>1, <2>1 DEF Delivered, Disturbed
  <2> QED
    BY <1>1, <2>1, <2>2, <2>3 DEF Begun, SessionRests, Calling, SessionHandled, ExceptionsAreMet, Shown, NotYet,
      Endings, DirtyTold
<1>4. CASE /\ UNCHANGED <<policies, session, records, closed, call, at, failed>>
           /\ session = "open" => closed
           /\ threw' => threw
  <2>1. RunTypes'
    BY <1>1, <1>4 DEF RunTypes, CaseCount
  <2>2. FailedCloses' = FailedCloses
    BY <1>4, FailedClosesStay
  <2>3. Delivered' \/ Disturbed'
    BY <1>1, <1>4, <2>2 DEF Delivered, Disturbed
  <2> QED
    BY <1>1, <1>4, <2>1, <2>3 DEF SessionRests, Calling, SessionHandled, ExceptionsAreMet, Shown, NotYet,
      Endings, DirtyTold
<1> QED
  BY <1>2, <1>3, <1>4

LEMMA ReleasedStep ==
  ASSUME IInv, SessionData, CommandInv, Released
  PROVE  CommandInv'
<1> USE DEF CommandInv, Goto, command, delivery
<1>1. /\ pc = "released" /\ at = "idle" /\ Resting /\ trying /\ (session = "open" => closed) /\ call # "open"
      /\ Delivered \/ Disturbed
      /\ UNCHANGED <<web, verdicts, result, authoritative, trying, exit, json, reports>>
  BY RestingIs DEF Released, SessionHandled, SessionRests, Endings
<1>2. FailedCloses' = FailedCloses
  BY <1>1, FailedClosesStay DEF Resting
<1>3. CASE authoritative = "none"
  <2>1. pc' = "done" /\ heap' = heap
    BY <1>3 DEF Released
  <2>2. Disturbed'
    BY <1>1, <1>3, <2>1 DEF Delivered, Disturbed, RunTypes
  <2>3. RunTypes'
    BY <1>1, <2>1 DEF RunTypes, Resting, CaseCount
  <2> QED
    BY <1>1, <1>3, <2>1, <2>2, <2>3 DEF Resting, SessionRests, Calling, SessionHandled, ExceptionsAreMet, Shown,
      NotYet, Endings, DirtyTold
<1>4. CASE authoritative # "none"
  <2> DEFINE before == heap[authoritative]
             final == AfterClose(heap[authoritative])
  <2>1. pc' = "lastJson" /\ heap' = [heap EXCEPT ![authoritative] = final] /\ authoritative \in Objects
    BY <1>4 DEF Released, RunTypes
  <2>2. Whole(before)
    BY <2>1 DEF RunTypes, Whole
  <2>3. /\ Whole(final) /\ (final.run = "completed" => before.run = "completed")
        /\ ~threw /\ FailedCloses = {} => final = before
        /\ \A c \in FailedCloses \cap DOMAIN policies : final.cases[c].status # "passed"
    BY <2>2, ClosingApplied
  <2> HIDE DEF final
  <2>4. authoritative = "blocked" => final.run # "completed"
    BY <2>3 DEF RunTypes
  <2>5. /\ heap' \in [Objects -> Result] /\ \A o \in Objects : DOMAIN heap'[o].cases = DOMAIN policies'
        /\ heap'[authoritative] = final /\ heap'["blocked"].run # "completed"
    BY <1>1, <2>1, <2>3, <2>4, Replaced DEF Resting
  <2>6. RunTypes'
    BY <1>1, <2>5 DEF RunTypes, Resting, CaseCount
  <2>7. DirtyTold'
    <3>1. \A c \in FailedCloses : final.cases[c].status # "passed"
      BY <2>3, FailuresAreOfCases
    <3> QED
      BY <1>1, <1>2, <2>1, <2>5, <3>1 DEF DirtyTold
  <2>8. Delivered' \/ Disturbed'
    <3>1. CASE Delivered
      <4>1. heap'[result'] = before /\ authoritative = result
        BY <1>1, <2>3, <2>5, <3>1 DEF Delivered, ExceptionsAreMet
      <4> HIDE DEF before
      <4>2. before.run = "completed" /\ exit = ExitCode(before) /\ reports = before /\ json \in {before, Torn}
        BY <3>1 DEF Delivered, before
      <4> QED
        BY <1>1, <1>2, <3>1, <4>1, <4>2 DEF Delivered, Resting
    <3>2. CASE Disturbed
      BY <1>1, <1>4, <2>3, <2>5, <3>2 DEF Disturbed
    <3> QED
      BY <1>1, <3>1, <3>2
  <2> QED
    BY <1>1, <1>4, <2>1, <2>6, <2>7, <2>8 DEF Resting, SessionRests, Calling, SessionHandled, ExceptionsAreMet,
      Shown, NotYet, Endings
<1> QED
  BY <1>3, <1>4

-----------------------------------------------------------------------------
(* Writing the files.                                                      *)

First == {"json1", "reports1", "json2", "reports2"}
Again == {"json3", "reports3", "catchJson"}
Manually == {"manualJson", "manualReports"}

LEMMA WritingPlaces == DOMAIN Then = First \cup Again \cup Manually \cup Persisting \cup {"lastJson"}
BY DEF Then, First, Again, Manually, Persisting

\* What every write leaves alone.
LEMMA WritingKeeps ==
  ASSUME IInv, CommandInv, WriteFile \/ WriteFails
  PROVE  /\ pc \in DOMAIN Then /\ at = "idle" /\ Resting /\ call # "open" /\ (trying \/ pc \in Persisting)
         /\ UNCHANGED <<web, verdicts, heap, result, trying>>
         /\ authoritative' \in Objects \cup {"none"} => RunTypes'
<1> USE DEF CommandInv, Goto, command
<1>1. /\ pc \in DOMAIN Then /\ UNCHANGED <<web, verdicts, heap, result, trying>> /\ UNCHANGED sessionVars
  BY DEF WriteFile, WriteFails
<1>2. Resting
  BY <1>1, RestingIs
<1>3. at = "idle" /\ call # "open"
  BY <1>1, WritingPlaces DEF First, Again, Manually, Persisting, SessionRests, Calling
<1>4. trying \/ pc \in Persisting
  BY <1>1, WritingPlaces DEF First, Again, Manually, Persisting, SessionHandled
<1>5. authoritative' \in Objects \cup {"none"} => RunTypes'
  BY <1>1, <1>2 DEF RunTypes, Resting, CaseCount
<1> QED
  BY <1>1, <1>2, <1>3, <1>4, <1>5

LEMMA WriteFileStep ==
  ASSUME IInv, CommandInv, WriteFile
  PROVE  CommandInv'
<1> USE DEF CommandInv
<1>1. /\ pc \in DOMAIN Then /\ at = "idle" /\ Resting /\ call # "open" /\ (trying \/ pc \in Persisting)
      /\ UNCHANGED <<web, verdicts, heap, result, trying, exit>>
      /\ authoritative' \in Objects \cup {"none"} => RunTypes'
  BY WritingKeeps DEF WriteFile
<1>2. /\ json' = IF pc \in JsonSteps THEN Written ELSE json
      /\ reports' = IF pc \in ReportSteps THEN Written ELSE reports
      /\ authoritative' = IF Returning THEN "blocked" ELSE authoritative
      /\ pc' = IF pc = "persistReports" /\ ~trying THEN "done" ELSE Then[pc]
  BY DEF WriteFile, Goto
<1>3. RunTypes'
  BY <1>1, <1>2 DEF RunTypes, Objects
<1>4. heap["blocked"].run # "completed"
  BY DEF RunTypes
<1>5. CASE pc \in First
  <2>1. /\ authoritative' = authoritative /\ trying /\ ~failed
        /\ pc' = CASE pc = "json1" -> "reports1" [] pc = "reports1" -> "json2"
                    [] pc = "json2" -> "reports2" [] OTHER -> "deliver"
    BY <1>1, <1>2, <1>5 DEF First, Returning, Persisting, Then, ExceptionsAreMet
  <2>2. pc = "json2" => json' = heap[result]
    BY <1>2 DEF JsonSteps, Written, Delivering
  <2>3. pc = "reports2" => json' = json /\ reports' = heap[result]
    BY <1>2 DEF JsonSteps, ReportSteps, Then, Written, Delivering
  <2>4. Shown'
    BY <1>1, <1>5, <2>1, <2>2, <2>3 DEF Shown, NotYet, First
  <2> QED
    BY <1>1, <1>3, <1>5, <2>1, <2>4 DEF First, Resting, SessionRests, Calling, SessionHandled,
      ExceptionsAreMet, Endings, DirtyTold
<1>6. CASE pc \in Again
  <2>1. /\ authoritative' = authoritative /\ trying /\ Disturbed /\ authoritative # "none"
        /\ pc' = IF pc = "json3" THEN "reports3" ELSE "finally"
    BY <1>1, <1>2, <1>6 DEF Again, Returning, Persisting, Then, Endings
  <2>2. Disturbed'
    BY <1>1, <2>1 DEF Disturbed
  <2> QED
    BY <1>1, <1>3, <1>6, <2>1, <2>2 DEF Again, Resting, SessionRests, Calling, SessionHandled,
      ExceptionsAreMet, Shown, NotYet, Endings, DirtyTold
<1>7. CASE pc \in Manually
  <2>1. /\ authoritative = "none" /\ trying /\ exit \notin {0, 10}
        /\ pc = "manualJson" => pc' = "manualReports" /\ authoritative' = "none"
        /\ pc = "manualReports" => pc' = "finally" /\ authoritative' = "blocked"
    BY <1>1, <1>2, <1>7 DEF Manually, Returning, Persisting, Then, Endings, Shown, NotYet
  <2>2. Disturbed'
    BY <1>1, <1>4, <1>7, <2>1 DEF Disturbed, Manually
  <2> QED
    BY <1>1, <1>3, <1>7, <2>1, <2>2 DEF Manually, Resting, SessionRests, Calling, SessionHandled,
      ExceptionsAreMet, Shown, NotYet, Endings, DirtyTold
<1>8. CASE pc \in Persisting
  <2>1. /\ authoritative = "none" /\ exit \notin {0, 10} /\ (~trying => session # "open")
        /\ pc = "persistJson" => pc' = "persistReports" /\ authoritative' = "none"
        /\ pc = "persistReports" /\ trying => pc' = "finally" /\ authoritative' = "blocked"
        /\ pc = "persistReports" /\ ~trying => pc' = "done" /\ authoritative' = "none"
    BY <1>1, <1>2, <1>8 DEF Persisting, Returning, Then, Endings, Shown, NotYet, SessionHandled
  <2>2. Disturbed'
    BY <1>1, <1>4, <1>8, <2>1 DEF Disturbed, Persisting
  <2> QED
    BY <1>1, <1>3, <1>8, <2>1, <2>2 DEF Persisting, Resting, SessionRests, Calling, SessionHandled,
      ExceptionsAreMet, Shown, NotYet, Endings, DirtyTold
<1>9. CASE pc = "lastJson"
  <2>1. /\ authoritative' = authoritative /\ trying /\ pc' = "done" /\ (session = "open" => closed)
        /\ json' = heap[authoritative] /\ reports' = reports /\ (Delivered \/ Disturbed)
    BY <1>1, <1>2, <1>9 DEF Returning, Persisting, Then, Written, Delivering, JsonSteps, ReportSteps, Endings,
      SessionHandled
  <2>2. FailedCloses' = FailedCloses
    BY <1>1, FailedClosesStay DEF Resting
  <2>3. DirtyTold' /\ (Delivered' \/ Disturbed')
    BY <1>1, <1>9, <2>1, <2>2 DEF Delivered, Disturbed, Resting, DirtyTold
  <2> QED
    BY <1>1, <1>3, <1>9, <2>1, <2>3 DEF Resting, SessionRests, Calling, SessionHandled, ExceptionsAreMet, Shown,
      NotYet, Endings
<1> QED
  BY <1>1, <1>5, <1>6, <1>7, <1>8, <1>9, WritingPlaces

LEMMA WriteFailsStep ==
  ASSUME IInv, CommandInv, WriteFails
  PROVE  CommandInv'
<1> USE DEF CommandInv
<1>1. /\ pc \in DOMAIN Then /\ at = "idle" /\ Resting /\ call # "open" /\ (trying \/ pc \in Persisting)
      /\ UNCHANGED <<web, verdicts, heap, result, trying>>
      /\ authoritative' \in Objects \cup {"none"} => RunTypes'
  BY WritingKeeps
<1>2. /\ authoritative' = IF pc = "manualReports" THEN "blocked" ELSE authoritative
      /\ exit' = IF pc \in Persisting THEN 50 ELSE exit
      /\ pc' = IF pc \in Delivering THEN "catch"
               ELSE IF pc \in Persisting THEN (IF trying THEN "finally" ELSE "done")
               ELSE Then[pc]
  BY DEF WriteFails, Goto
<1>3. RunTypes'
  BY <1>1, <1>2 DEF RunTypes, Objects
<1>4. heap["blocked"].run # "completed"
  BY DEF RunTypes
<1>5. CASE pc \in Delivering
  <2>1. authoritative' = authoritative /\ exit' = exit /\ pc' = "catch" /\ trying
    BY <1>1, <1>2, <1>5 DEF Delivering, Persisting
  <2> QED
    BY <1>1, <1>3, <2>1 DEF Resting, SessionRests, Calling, SessionHandled, ExceptionsAreMet, Shown, NotYet,
      Endings, DirtyTold
<1>6. CASE pc = "catchJson"
  <2>1. authoritative' = authoritative /\ exit' = exit /\ pc' = "finally" /\ trying /\ Disturbed
    BY <1>1, <1>2, <1>6 DEF Delivering, Persisting, Then, Endings
  <2>2. Disturbed'
    BY <1>1, <2>1 DEF Disturbed
  <2> QED
    BY <1>1, <1>3, <2>1, <2>2 DEF Resting, SessionRests, Calling, SessionHandled, ExceptionsAreMet, Shown,
      NotYet, Endings, DirtyTold
<1>7. CASE pc \in Manually
  <2>1. /\ authoritative = "none" /\ trying /\ exit' \notin {0, 10}
        /\ pc = "manualJson" => pc' = "manualReports" /\ authoritative' = "none"
        /\ pc = "manualReports" => pc' = "finally" /\ authoritative' = "blocked"
    BY <1>1, <1>2, <1>7 DEF Manually, Delivering, Persisting, Then, Endings, Shown, NotYet
  <2>2. Disturbed'
    BY <1>1, <1>4, <1>7, <2>1 DEF Disturbed, Manually
  <2> QED
    BY <1>1, <1>3, <1>7, <2>1, <2>2 DEF Manually, Resting, SessionRests, Calling, SessionHandled,
      ExceptionsAreMet, Shown, NotYet, Endings, DirtyTold
<1>8. CASE pc \in Persisting
  <2>1. /\ authoritative' = "none" /\ exit' = 50 /\ (~trying => session # "open")
        /\ pc' = IF trying THEN "finally" ELSE "done"
    BY <1>1, <1>2, <1>8 DEF Persisting, Delivering, Shown, NotYet, SessionHandled
  <2>2. Disturbed'
    BY <2>1 DEF Disturbed
  <2> QED
    BY <1>1, <1>3, <2>1, <2>2 DEF Resting, SessionRests, Calling, SessionHandled,
      ExceptionsAreMet, Shown, NotYet, Endings, DirtyTold
<1>9. CASE pc = "lastJson"
  <2>1. /\ authoritative' = authoritative /\ exit' = exit /\ trying /\ pc' = "done" /\ (session = "open" => closed)
        /\ json' \in {json, Torn} /\ reports' = reports /\ (Delivered \/ Disturbed)
    BY <1>1, <1>2, <1>9 DEF WriteFails, Delivering, Persisting, Then, JsonSteps, Endings, SessionHandled
  <2>2. FailedCloses' = FailedCloses
    BY <1>1, FailedClosesStay DEF Resting
  <2>3. DirtyTold' /\ (Delivered' \/ Disturbed')
    BY <1>1, <1>9, <2>1, <2>2 DEF Delivered, Disturbed, Resting, DirtyTold
  <2> QED
    BY <1>1, <1>3, <1>9, <2>1, <2>3 DEF Resting, SessionRests, Calling, SessionHandled, ExceptionsAreMet, Shown,
      NotYet, Endings
<1> QED
  BY <1>1, <1>5, <1>6, <1>7, <1>8, <1>9, WritingPlaces DEF First, Again, Delivering

-----------------------------------------------------------------------------
\* A call of the session goes on.
LEMMA SessionWorksStep ==
  ASSUME IInv, CommandInv, SessionWorks
  PROVE  CommandInv'
<1> USE DEF CommandInv, rest, delivery, command
<1>1. UNCHANGED <<pc, web, verdicts, heap, result, authoritative, trying, exit, json, reports>>
  BY DEF SessionWorks
<1>2. /\ policies' = policies /\ closed' = closed /\ call' \in {call, "none"}
      /\ Unthrown \/ Thrown
      /\ call # "open" => session' = session
      /\ call = "open" /\ Thrown => session' = "failed" \/ Unthrown
      /\ at = "idle" => UNCHANGED <<session, call, at, records, threw, failed>>
  BY StepSeen DEF SessionWorks
<1>3. session = "failed" => at = "idle"
  BY DEF IInv, Awaits
<1>4. at # "idle" => call # "none"
  BY DEF IInv, Awaits
<1>5. RunTypes'
  BY <1>1, <1>2 DEF RunTypes, CaseCount
<1>6. SessionRests'
  BY <1>1, <1>2 DEF SessionRests, Calling, NextCase
<1>7. SessionHandled'
  BY <1>1, <1>2 DEF SessionHandled, SessionRests, Calling
<1>8. ExceptionsAreMet'
  <2>1. CASE Unthrown
    BY <1>1, <1>2, <1>3, <2>1 DEF Unthrown, ExceptionsAreMet, SessionRests, Calling, NextCase
  <2>2. CASE Thrown /\ ~Unthrown
    BY <1>1, <1>2, <1>3, <1>4, <2>2 DEF Thrown, Unthrown, ExceptionsAreMet, SessionRests, Calling, NextCase
  <2> QED
    BY <1>2, <2>1, <2>2
<1>9. Shown'
  BY <1>1 DEF Shown
<1>10. at = "idle" => FailedCloses' = FailedCloses
  BY <1>2, FailedClosesStay
<1>11. Endings'
  <2>1. Disturbed => Disturbed'
    BY <1>1 DEF Disturbed
  <2>2. Delivered => Delivered'
    BY <1>1, <1>2, <1>10 DEF Delivered
  <2> QED
    BY <1>1, <2>1, <2>2 DEF Endings
<1>12. DirtyTold'
  BY <1>1, <1>10 DEF DirtyTold, SessionRests, Calling
<1> QED
  BY <1>5, <1>6, <1>7, <1>8, <1>9, <1>11, <1>12

LEMMA CommandStutters ==
  ASSUME CommandInv, UNCHANGED runVars
  PROVE  CommandInv'
<1>1. Resting /\ UNCHANGED <<pc, web, verdicts, heap, result, authoritative, trying, exit, json, reports>>
  BY RestingIs DEF runVars, command, rest, delivery
<1>2. FailedCloses' = FailedCloses
  BY <1>1, FailedClosesStay DEF Resting
<1> QED
  BY <1>1, <1>2 DEF CommandInv, Resting, RunTypes, CaseCount, SessionRests, NextCase, SessionHandled,
    ExceptionsAreMet, Shown, Endings, Delivered, Disturbed, DirtyTold

-----------------------------------------------------------------------------
LEMMA CommandStep ==
  ASSUME IInv, SessionData, CommandInv, [CommandNext]_runVars
  PROVE  CommandInv'
<1>1. CASE Ended \/ UNCHANGED runVars
  BY <1>1, CommandStutters DEF Ended
<1> QED
  BY <1>1, SetupStep, ExecutionStep, ManifestExecutedStep, FinalizeStep, AttachStep, DeliverStep, ClosedStep,
    CatchStep, ManualStep, FinallyStep, ReleasedStep, WriteFileStep, WriteFailsStep, SessionWorksStep
    DEF CommandNext

LEMMA CommandStarts == CommandInit => SessionData /\ CommandInv
<1> SUFFICES ASSUME CommandInit
             PROVE  SessionData /\ CommandInv
  OBVIOUS
<1>1. IInv /\ SessionInit
  BY InitOK DEF CommandInit
<1>2. SessionData
  BY <1>1 DEF SessionInit, SessionData
<1>3. Whole(BlockedResult("blocked")) /\ BlockedResult("blocked").run = "blocked"
  BY <1>1, BlockedIsWhole DEF CaseRun
<1>4. CaseCount \in Nat /\ <<>> \in Seq(Verdict) /\ Len(<<>>) = 0
  BY <1>1 DEF IInv, SessionTypes, CaseCount
<1>5. RunTypes
  <2>1. heap = [o \in Objects |-> BlockedResult("blocked")]
    BY DEF CommandInit
  <2>2. heap \in [Objects -> Result] /\ \A o \in Objects : heap[o] = BlockedResult("blocked")
    BY <1>3, <2>1 DEF Whole
  <2>3. \A o \in Objects : DOMAIN heap[o].cases = DOMAIN policies
    BY <1>3, <2>2 DEF Whole
  <2>4. heap.blocked.run # "completed"
    BY <1>3, <2>2 DEF Objects
  <2>5. verdicts = <<>> /\ web \subseteq DOMAIN policies
    BY DEF CommandInit
  <2>6. verdicts \in Seq(Verdict) /\ Len(verdicts) <= CaseCount
    BY <1>4, <2>5
  <2>7. result = "raw" /\ authoritative = "none" /\ trying = FALSE
    BY DEF CommandInit
  <2> QED
    BY <2>2, <2>3, <2>4, <2>5, <2>6, <2>7 DEF RunTypes
<1> QED
  BY <1>1, <1>2, <1>5 DEF CommandInit, SessionInit, CommandInv, SessionRests, Calling, SessionHandled,
    ExceptionsAreMet, Shown, Endings, DirtyTold

RunInv == IInv /\ SessionData /\ CommandInv

LEMMA CommandInductive == CommandSpec => []RunInv
<1>1. CommandInit => SessionData /\ CommandInv
  BY CommandStarts
<1>2. SessionData /\ CommandInv /\ IInv /\ [CommandNext]_runVars => SessionData' /\ CommandInv'
  BY SessionInside, SessionDataStep, CommandStep
<1>3. CommandSpec => []IInv
  BY SessionHolds, Inductive, PTL
<1>4. CommandSpec => [](SessionData /\ CommandInv)
  BY <1>1, <1>2, <1>3, PTL DEF CommandSpec
<1>5. RunInv <=> IInv /\ (SessionData /\ CommandInv)
  BY DEF RunInv
<1> QED
  BY <1>3, <1>4, <1>5, PTL

-----------------------------------------------------------------------------
\* However the command ends, by whatever exceptions and failed writes, its session was closed
\* and no context or record of one is left open (the finally branch of runRunCommand).
THEOREM SessionIsReleased == CommandSpec => []SessionReleased
<1>1. ASSUME RunInv, Done
      PROVE  at = "idle" /\ call = "none" /\ (session = "open" => closed)
  BY <1>1 DEF RunInv, CommandInv, SessionRests, Calling, SessionHandled, Done, IInv, Awaits
<1>2. ASSUME RunInv, Done
      PROVE  /\ \A k \in DOMAIN contexts : contexts[k] # "open"
             /\ \A k \in DOMAIN records : records[k].status # "open"
  <2>1. session \in {"none", "open", "failed"} /\ (session = "open" => Past)
    BY <1>1, <1>2 DEF RunInv, IInv, SessionTypes, Past
  <2>2. \A k \in DOMAIN contexts : contexts[k] # "open"
    BY <1>1, <1>2, <2>1 DEF RunInv, IInv, ContextsFollow
  <2>3. \A k \in DOMAIN records : records[k].status # "open"
    BY <1>2, <2>1 DEF RunInv, IInv, RecordsFollow
  <2> QED
    BY <2>2, <2>3
<1>3. RunInv => SessionReleased
  BY <1>1, <1>2 DEF SessionReleased
<1> QED
  BY <1>3, CommandInductive, PTL

\* A run that claims to be completed is: the exit code is that of the result, JSON and reports
\* show it, and nothing was thrown before or after it was computed, whatever write failed.
THEOREM CompletedIsDelivered == CommandSpec => []CompletedIsTrue
<1>1. RunInv /\ Done => Delivered \/ Disturbed
  BY DEF RunInv, CommandInv, Endings, Done
<1>2. RunInv => ExitCodeMeansDelivered
  BY <1>1 DEF ExitCodeMeansDelivered, Executed, Delivered, Disturbed
<1>3. RunInv => CompletedMeansUndisturbed
  BY <1>1 DEF CompletedMeansUndisturbed, Delivered, Disturbed
<1>4. RunInv => CompletedIsTrue
  BY <1>2, <1>3 DEF CompletedIsTrue
<1> QED
  BY <1>4, CommandInductive, PTL

\* A case whose context could not be closed is not passed in the JSON that is left behind, and
\* the command does not claim to have executed (applyBrowserContextCleanupFailures).
THEOREM DirtyContextsAreTold == CommandSpec => []DirtyContextNeverPasses
<1>1. RunInv /\ Done => (Delivered \/ Disturbed) /\ DirtyTold
  BY DEF RunInv, CommandInv, Endings, Done
<1>2. RunInv => DirtyContextNeverPasses
  BY <1>1 DEF DirtyContextNeverPasses, Done, Delivered, Disturbed, DirtyTold
<1> QED
  BY <1>2, CommandInductive, PTL

-----------------------------------------------------------------------------
(* The preflight: what is executed is what was approved, whatever the user *)
(* and other commands write meanwhile.                                     *)

\* A run has begun before now, and an approval ends at a point in time.
Clocks == /\ clock \in Nat /\ started \in Nat /\ started <= clock
          /\ approval # None => approval.expires \in Nat

\* The package has been seen by a run that is still checking.
PackageSeen == check \in {"approval", "package", "profile"} => package \in seen

\* What ReadApproval has verified stays true of what was read.
Verified(m, a) ==
  /\ a.manifest = m /\ a.package = m.package /\ a.targets = m.targets
  /\ Risks(m) \subseteq a.risks /\ R3Actions(m) \subseteq a.r3
  /\ mode = "ci" => Risks(m) \subseteq {0, 1}

LoadedVerified ==
  check \in {"package", "profile"} =>
    Verified(loaded.manifest, loaded.approval) /\ started < loaded.approval.expires

LoadedSeen == check = "profile" => loaded.manifest.package \in seen

GateInv == /\ Clocks /\ PackageSeen /\ LoadedVerified /\ LoadedSeen
        /\ ExecutesWhatWasApproved

\* A step outside of the run command leaves what the run has read.
LEMMA OthersKeep ==
  ASSUME GateInv, UNCHANGED <<check, mode, loaded, started, executed>>,
         clock' \in Nat, clock <= clock',
         approval' # None => approval'.expires \in Nat,
         check = "idle" \/ (seen \subseteq seen' /\ package' \in seen' \cup {package})
  PROVE  GateInv'
<1>1. Clocks'
  BY DEF GateInv, Clocks
<1>2. PackageSeen'
  BY DEF GateInv, PackageSeen
<1>3. LoadedVerified'
  BY DEF GateInv, LoadedVerified, Verified, Risks, R3Actions
<1>4. LoadedSeen'
  BY DEF GateInv, LoadedSeen
<1>5. ExecutesWhatWasApproved'
  BY DEF GateInv, ExecutesWhatWasApproved, Executes, Risks, R3Actions
<1> QED
  BY <1>1, <1>2, <1>3, <1>4, <1>5 DEF GateInv

\* A run that is refused has nothing left to keep.
LEMMA BlockedKeeps ==
  ASSUME GateInv, Blocked
  PROVE  GateInv'
<1>1. Clocks'
  BY DEF GateInv, Clocks, Blocked, Unread, Run, world, files
<1>2. check' = "idle"
  BY DEF Blocked, Run
<1> QED
  BY <1>1, <1>2 DEF GateInv, PackageSeen, LoadedVerified, LoadedSeen, ExecutesWhatWasApproved, Executes

LEMMA GateStarts == Init => GateInv
BY DEF Init, GateInv, Clocks, PackageSeen, LoadedVerified, LoadedSeen, ExecutesWhatWasApproved, Executes

\* Edits, plans, approvals and time.
LEMMA OthersStep ==
  ASSUME GateInv,
         EditPackage \/ EditProfile \/ EditManifest \/ PlanProfile \/ PlanManifest \/ Approve \/ Tick
  PROVE  GateInv'
<1> USE DEF running, files
<1>0. clock \in Nat
  BY DEF GateInv, Clocks
<1>1. CASE EditPackage
  BY <1>0, <1>1, OthersKeep DEF EditPackage, Edit, GateInv, Clocks
<1>2. CASE EditProfile
  BY <1>0, <1>2, OthersKeep DEF EditProfile, Edit, GateInv, Clocks
<1>3. CASE EditManifest
  BY <1>0, <1>3, OthersKeep DEF EditManifest, Edit, GateInv, Clocks
<1>4. CASE PlanProfile
  BY <1>0, <1>4, OthersKeep DEF PlanProfile, Edit, GateInv, Clocks
<1>5. CASE PlanManifest
  BY <1>0, <1>5, OthersKeep DEF PlanManifest, GateInv, Clocks
<1>6. CASE Approve
  <2>1. approval'.expires \in Nat
    BY <1>6, BoundsAssumption DEF Approve, CreateApproval
  <2> QED
    BY <1>0, <1>6, <2>1, OthersKeep DEF Approve, Edit
<1>7. CASE Tick
  BY <1>0, <1>7, OthersKeep DEF Tick, GateInv, Clocks
<1> QED
  BY <1>1, <1>2, <1>3, <1>4, <1>5, <1>6, <1>7

\* The checks of the preflight.
LEMMA RunStep ==
  ASSUME GateInv, ReadManifest \/ ReadApproval \/ CheckPackage \/ ReadProfile \/ RunEnds
  PROVE  GateInv'
<1> USE DEF Run, world, files
<1>1. CASE ReadManifest
  BY <1>1 DEF ReadManifest, GateInv, Clocks, PackageSeen, LoadedVerified, LoadedSeen,
    ExecutesWhatWasApproved, Executes
<1>2. CASE ReadApproval
  <2>1. CASE Blocked
    BY <2>1, BlockedKeeps
  <2>2. CASE ~Blocked
    <3> DEFINE m == loaded.manifest
    <3>1. /\ approval # None /\ VerifyApproval(m, approval, mode, clock)
          /\ loaded' = [loaded EXCEPT !.approval = approval]
          /\ check = "approval" /\ check' = "package"
          /\ UNCHANGED <<mode, seen, started, executed, package, approval, clock>>
      BY <1>2, <2>2 DEF ReadApproval
    <3>2. LoadedVerified'
      <4>0. check = "approval"
        BY <3>1
      <4> QED
        BY <3>1 DEF LoadedVerified, Verified, VerifyApproval, GateInv, Clocks, Risks, R3Actions
    <3> QED
      BY <3>1, <3>2 DEF GateInv, Clocks, PackageSeen, LoadedSeen, ExecutesWhatWasApproved, Executes
  <2> QED
    BY <2>1, <2>2
<1>3. CASE CheckPackage
  <2>1. CASE Blocked
    BY <2>1, BlockedKeeps
  <2>2. CASE ~Blocked
    BY <1>3, <2>2 DEF CheckPackage, Checked, PackageUnchanged, GateInv, Clocks, PackageSeen,
      LoadedVerified, Verified, LoadedSeen, ExecutesWhatWasApproved,
      Executes, Risks, R3Actions
  <2> QED
    BY <2>1, <2>2
<1>4. CASE ReadProfile
  <2>1. CASE Blocked
    BY <2>1, BlockedKeeps
  <2>2. CASE ~Blocked
    <3>1. /\ ProfileTargetsLocked(profile, loaded.approval)
          /\ executed'.manifest = loaded.manifest /\ executed'.approval = loaded.approval
          /\ executed'.targets = profile.targets /\ executed'.packages = seen
          /\ executed'.started = started
          /\ check = "profile" /\ check' = "execute" /\ mode' = mode /\ started' = 0
          /\ UNCHANGED <<approval, clock>>
      BY <1>4, <2>2 DEF ReadProfile, Unread
    <3>2. ExecutesWhatWasApproved'
      BY <3>1 DEF ExecutesWhatWasApproved, Executes, GateInv, LoadedVerified, Verified, LoadedSeen,
        Risks, R3Actions, ProfileTargetsLocked, Origins
    <3> QED
      BY <3>1, <3>2 DEF GateInv, Clocks, PackageSeen, LoadedVerified, LoadedSeen
  <2> QED
    BY <2>1, <2>2
<1>5. CASE RunEnds
  BY <1>5 DEF RunEnds, GateInv, Clocks, PackageSeen, LoadedVerified, LoadedSeen,
    ExecutesWhatWasApproved, Executes
<1> QED
  BY <1>1, <1>2, <1>3, <1>4, <1>5

LEMMA GateStep == GateInv /\ [Next]_vars => GateInv'
<1> SUFFICES ASSUME GateInv, [Next]_vars
             PROVE  GateInv'
  OBVIOUS
<1>1. CASE UNCHANGED vars
  BY <1>1, OthersKeep DEF vars, world, files, running, GateInv, Clocks
<1>2. CASE Next
  BY <1>2, OthersStep, RunStep DEF Next
<1> QED
  BY <1>1, <1>2

LEMMA GateAlways == Spec => []GateInv
<1> QED
  BY GateStarts, GateStep, PTL DEF Spec

\* What a run executes is the manifest of its approval, within its risks and its time, of a
\* package that lay there and on the origins that were approved, whatever is edited, planned
\* or approved between the reads of the preflight (run.ts, verifyApproval).
THEOREM WhatRunsWasApproved == Spec => []ExecutesWhatWasApproved
<1>1. GateInv => ExecutesWhatWasApproved
  BY DEF GateInv
<1> QED
  BY <1>1, GateAlways, PTL

=============================================================================
