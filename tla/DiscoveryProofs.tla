--------------------------- MODULE DiscoveryProofs ---------------------------
(***************************************************************************)
(* Proofs about Discovery, for every number of tasks and every set of      *)
(* pages, approvals and packages.                                          *)
(***************************************************************************)
EXTENDS Discovery, TLAPS

Working == {"validate", "context", "transition", "sample", "artifact", "receipt"}
Finished == {"close", "contexts", "ended", "crashed"}

\* The stages of the verification of a task that follow a stage.
After(stage) ==
  IF stage = "receipt" THEN {"approval", "artifact", "page", "done"}
  ELSE IF stage = "approval" THEN {"artifact", "page", "done"}
  ELSE IF stage = "artifact" THEN {"page", "done"}
  ELSE {"done"}

\* What TypeOK leaves open: the history, and what is not Absent when it is used.
MemoryOK ==
  /\ loaded.read \in Packages \cup {Absent} /\ loaded.planned \in Packages \cup {Absent}
  /\ pc = "start" => task \in Tasks
  /\ pc \in Working => loaded.read \in Packages
  /\ pc = "verify" => loaded.planned \in Packages /\ path \in [Tasks -> Tasks]
  /\ pc = "verify" => \A t \in Tasks : verified[t] \in After("receipt") => kept[t] \in Receipt
  /\ pc = "sample" => page[task] \in Pages
  /\ sampled \in [Tasks -> Receipt \cup {Absent}]
  /\ pagesSeen \in [Tasks -> SUBSET (Pages \cup {Absent})]
  /\ approvalsSeen \in [Tasks -> SUBSET (Approvals \cup {Unapproved})]
  /\ artifactsSeen \in [Tasks -> SUBSET (Receipt \cup {Absent})]

\* Where receipts come from: a draft is of the task at hand, an issued one is of
\* its path's task, a verified one was issued.
ReceiptsIssued ==
  /\ pc \in {"artifact", "receipt"} => draft.task = task
  /\ \A t \in Tasks : issued[t] # Absent => issued[t].task = t /\ issued[t] = sampled[t]
  /\ pc = "verify" => \A t \in Tasks : verified[t] \in After("receipt") =>
       kept[t] # Absent /\ kept[t] = sampled[t] /\ kept[t].package = loaded.planned
  /\ manifest # Absent => pc \in Finished
  /\ ManifestIsDiscovered

\* What was sighted holds the present, and what the stages passed so far compared.
StagesSighted ==
  /\ pc = "verify" => \A t \in Tasks :
       /\ page[t] \in pagesSeen[t] /\ approval[t] \in approvalsSeen[t]
       /\ artifact[t] \in artifactsSeen[t]
       /\ verified[t] \in After("approval") => kept[t].approval \in approvalsSeen[t]
       /\ verified[t] \in After("artifact") => kept[t] \in artifactsSeen[t]
       /\ verified[t] \in After("page") => kept[t].page \in pagesSeen[t]
  /\ ManifestWasCurrent

\* A context recorded as closed is closed, and the records are written at the end.
RecordsTruthful ==
  /\ contextsFile # Absent => pc = "ended"
  /\ \A t \in Tasks : record[t] = "closed" => contexts[t] = "closed"
  /\ contextsFile # Absent =>
       \A t \in Tasks : contextsFile[t] = "closed" => contexts[t] = "closed"
  /\ run = "started" => pc = "ended"
  /\ RunNeedsClosedContexts
-----------------------------------------------------------------------------
(* Steps preserve the invariants.                                          *)

\* Every step keeps the types.
LEMMA TypesStep ==
  ASSUME TypeOK, MemoryOK, [Next]_vars
  PROVE  TypeOK' /\ MemoryOK'
<1> USE TaskCountAssumption, MaxChangesAssumption DEF TypeOK, MemoryOK, Working, Status, After,
     outside, files, memory, control, sighted, Quietly
<1>1. CASE Start
  BY <1>1 DEF Start
<1>2. CASE Validate
  BY <1>2 DEF Validate, QuietStep, Step, Fail
<1>3. CASE NewContext
  BY <1>3 DEF NewContext, Step, At
<1>4. CASE Transition
  BY <1>4 DEF Transition, Step, At
<1>5. CASE PlaywrightFails
  BY <1>5 DEF PlaywrightFails, QuietStep, Fail
<1>6. CASE Sample
  <2> DEFINE r == [task |-> task, session |-> "this", page |-> page[task],
                   approval |-> approval[task], package |-> loaded.read]
  <2>1. CASE Approved(task)
    <3>1. r \in Receipt
      BY <1>6, <2>1 DEF Sample, Approved, Receipt, TypeOK, MemoryOK, Working
    <3>2. draft' = r
      BY <1>6, <2>1 DEF Sample
    <3> HIDE DEF r
    <3> QED
      BY <1>6, <2>1, <3>1, <3>2 DEF Sample, Step
  <2>2. CASE ~Approved(task)
    BY <1>6, <2>2, TaskCountAssumption DEF Sample, Fail
  <2> QED
    BY <2>1, <2>2
<1>7. CASE CreateArtifact
  BY <1>7 DEF CreateArtifact, Step, At
<1>8. CASE CreateArtifactFails
  BY <1>8 DEF CreateArtifactFails, Fail, At, Removed
<1>9. CASE CreateReceipt
  <2>1. task \in Tasks /\ task' = task + 1 /\ task' \in 1 .. TaskCount + 1
    BY <1>9, TaskCountAssumption DEF CreateReceipt, TypeOK, Tasks
  <2>2. pc' = "validate" => task' \in Tasks
    BY <1>9, TaskCountAssumption DEF CreateReceipt, TypeOK, Tasks
  <2> QED
    BY <1>9, <2>1, <2>2 DEF CreateReceipt, At
<1>10. CASE CreateReceiptFails
  BY <1>10 DEF CreateReceiptFails, Fail, At, Removed
<1>11. CASE Quorum
  <2>1. /\ loaded'.read \in Packages \cup {Absent}
        /\ loaded'.planned \in Packages
    BY <1>11 DEF Quorum, TypeOK, MemoryOK, outside
  <2>2. CASE pc' = "verify"
    <3>1. path' \in [Tasks -> Tasks]
      BY <1>11, <2>2 DEF Quorum, Fail, QuorumPaths
    <3>2. verified' = [t \in Tasks |-> "receipt"]
      BY <1>11, <2>2 DEF Quorum, Fail, ForAll
    <3>3. pagesSeen' \in [Tasks -> SUBSET (Pages \cup {Absent})]
      BY <1>11, <2>2 DEF Quorum, Fail, TypeOK
    <3>4. approvalsSeen' \in [Tasks -> SUBSET (Approvals \cup {Unapproved})]
      BY <1>11, <2>2 DEF Quorum, Fail, TypeOK
    <3>5. artifactsSeen' \in [Tasks -> SUBSET (Receipt \cup {Absent})]
      BY <1>11, <2>2 DEF Quorum, Fail, TypeOK
    <3>6. task' = task
      BY <1>11, <2>2 DEF Quorum, Fail
    <3> QED
      BY <1>11, <2>1, <2>2, <3>1, <3>2, <3>3, <3>4, <3>5, <3>6 DEF Quorum
  <2>3. CASE pc' # "verify"
    <3>1. Fail /\ UNCHANGED <<path, verified, sighted>>
      BY <1>11, <2>3 DEF Quorum
    <3> QED
      BY <1>11, <2>1, <3>1, TaskCountAssumption DEF Quorum, Fail
  <2> QED
    BY <2>2, <2>3
<1>12. CASE WriteManifest
  BY <1>12 DEF WriteManifest
<1>13. CASE CloseContext
  <2>1. task' \in 1 .. TaskCount + 1
    BY <1>13, TaskCountAssumption DEF CloseContext, Closing, Tasks
  <2> QED
    BY <1>13, <2>1 DEF CloseContext, Closing, Recorded, At, Forget, ForAll
<1>14. CASE CloseBrowser
  BY <1>14 DEF CloseBrowser, Closing, Forget, ForAll
<1>15. CASE WriteContexts
  BY <1>15 DEF WriteContexts, Step, Forget, ForAll
<1>16. ASSUME NEW t \in Tasks, VerifyReceipt(t) PROVE TypeOK' /\ MemoryOK'
  BY <1>16 DEF VerifyReceipt, Verifying, Verified, Fail, At, IsIssued
<1>17. ASSUME NEW t \in Tasks, VerifyApproval(t) PROVE TypeOK' /\ MemoryOK'
  BY <1>17 DEF VerifyApproval, Verifying, Verified, Fail, At
<1>18. ASSUME NEW t \in Tasks, VerifyArtifact(t) PROVE TypeOK' /\ MemoryOK'
  BY <1>18 DEF VerifyArtifact, Verifying, Verified, Fail, At
<1>19. ASSUME NEW t \in Tasks, VerifyLivePage(t) PROVE TypeOK' /\ MemoryOK'
  BY <1>19 DEF VerifyLivePage, Verifying, Verified, Fail, At, LivePageUnchanged
<1>20. ASSUME NEW t \in Tasks, PageChanges(t) PROVE TypeOK' /\ MemoryOK'
  BY <1>20 DEF PageChanges, Change, Watched, At, Sight
<1>21. ASSUME NEW t \in Tasks, ApprovalChanges(t) PROVE TypeOK' /\ MemoryOK'
  BY <1>21 DEF ApprovalChanges, Change, Watched, At, Sight
<1>22. CASE PackageChanges
  BY <1>22 DEF PackageChanges, Change, Watched
<1>23. ASSUME NEW t \in Tasks, ArtifactChanges(t) PROVE TypeOK' /\ MemoryOK'
  BY <1>23 DEF ArtifactChanges, Change, Watched, At, Sight, Foreign
<1>24. ASSUME NEW t \in Tasks, ReceiptChanges(t) PROVE TypeOK' /\ MemoryOK'
  <2>1. Edited(t) \subseteq Receipt
    <3>1. CASE receipt[t] = Absent
      BY <3>1 DEF Edited
    <3>2. CASE receipt[t] # Absent
      <4>1. receipt[t] \in Receipt
        BY <3>2 DEF TypeOK
      <4>2. ASSUME NEW p \in Pages PROVE [receipt[t] EXCEPT !.page = p] \in Receipt
        BY <4>1 DEF Receipt
      <4> QED
        BY <3>2, <4>2 DEF Edited
    <3> QED
      BY <3>1, <3>2
  <2>2. PICK r : receipt' = At(receipt, t, r) /\ r \in {Absent} \cup Foreign(t) \cup Edited(t)
       \cup {receipt[u] : u \in Tasks}
    BY <1>24 DEF ReceiptChanges
  <2>3. r \in Receipt \cup {Absent}
    BY <2>1, <2>2 DEF Foreign, TypeOK
  <2>4. receipt' \in [Tasks -> Receipt \cup {Absent}]
    BY <2>2, <2>3 DEF At, TypeOK
  <2>5. changes' \in 0 .. MaxChanges
    BY <1>24, MaxChangesAssumption DEF ReceiptChanges, Change, TypeOK
  <2> QED
    BY <1>24, <2>4, <2>5 DEF ReceiptChanges, Change, Watched
<1>25. CASE Expire
  BY <1>25 DEF Expire, Watched
<1>26. CASE Crash
  BY <1>26 DEF Crash, Forget, ForAll
<1>27. CASE Run
  BY <1>27 DEF Run, ForAll
<1>28. CASE UNCHANGED vars
  BY <1>28 DEF vars
<1> QED
  BY <1>1, <1>2, <1>3, <1>4, <1>5, <1>6, <1>7, <1>8, <1>9, <1>10, <1>11, <1>12, <1>13, <1>14,
       <1>15, <1>16, <1>17, <1>18, <1>19, <1>20, <1>21, <1>22, <1>23, <1>24, <1>25, <1>26, <1>27,
       <1>28 DEF Next, Command, Others

\* Every step keeps the records of the contexts truthful.
LEMMA RecordsTruthfulStep ==
  ASSUME TypeOK, RecordsTruthful, [Next]_vars
  PROVE  RecordsTruthful'
<1> USE DEF TypeOK, RecordsTruthful, RunNeedsClosedContexts, Status, outside, files, memory,
     control, sighted, Quietly
<1>1. CASE Start
  BY <1>1 DEF Start
<1>2. CASE Validate
  BY <1>2 DEF Validate, QuietStep, Step, Fail
<1>3. CASE NewContext
  BY <1>3 DEF NewContext, Step, At
<1>4. CASE Transition
  BY <1>4 DEF Transition, Step, At
<1>5. CASE PlaywrightFails
  BY <1>5 DEF PlaywrightFails, QuietStep, Fail
<1>6. CASE Sample
  BY <1>6 DEF Sample, Step, Fail, Approved
<1>7. CASE CreateArtifact
  BY <1>7 DEF CreateArtifact, Step, At
<1>8. CASE CreateArtifactFails
  BY <1>8 DEF CreateArtifactFails, Fail, At, Removed
<1>9. CASE CreateReceipt
  BY <1>9 DEF CreateReceipt, At
<1>10. CASE CreateReceiptFails
  BY <1>10 DEF CreateReceiptFails, Fail, At, Removed
<1>11. CASE Quorum
  BY <1>11 DEF Quorum, Fail, QuorumPaths, ForAll
<1>12. CASE WriteManifest
  BY <1>12 DEF WriteManifest
<1>13. CASE CloseContext
  BY <1>13 DEF CloseContext, Closing, Recorded, At, Forget, ForAll
<1>14. CASE CloseBrowser
  BY <1>14 DEF CloseBrowser, Closing, Forget, ForAll
<1>15. CASE WriteContexts
  BY <1>15 DEF WriteContexts, Step, Forget, ForAll
<1>16. ASSUME NEW t \in Tasks, VerifyReceipt(t) PROVE RecordsTruthful'
  BY <1>16 DEF VerifyReceipt, Verifying, Verified, Fail, At, IsIssued
<1>17. ASSUME NEW t \in Tasks, VerifyApproval(t) PROVE RecordsTruthful'
  BY <1>17 DEF VerifyApproval, Verifying, Verified, Fail, At
<1>18. ASSUME NEW t \in Tasks, VerifyArtifact(t) PROVE RecordsTruthful'
  BY <1>18 DEF VerifyArtifact, Verifying, Verified, Fail, At
<1>19. ASSUME NEW t \in Tasks, VerifyLivePage(t) PROVE RecordsTruthful'
  BY <1>19 DEF VerifyLivePage, Verifying, Verified, Fail, At, LivePageUnchanged
<1>20. ASSUME NEW t \in Tasks, PageChanges(t) PROVE RecordsTruthful'
  BY <1>20 DEF PageChanges, Change, Watched, At, Sight
<1>21. ASSUME NEW t \in Tasks, ApprovalChanges(t) PROVE RecordsTruthful'
  BY <1>21 DEF ApprovalChanges, Change, Watched, At, Sight
<1>22. CASE PackageChanges
  BY <1>22 DEF PackageChanges, Change, Watched
<1>23. ASSUME NEW t \in Tasks, ArtifactChanges(t) PROVE RecordsTruthful'
  BY <1>23 DEF ArtifactChanges, Change, Watched, At, Sight, Foreign
<1>24. ASSUME NEW t \in Tasks, ReceiptChanges(t) PROVE RecordsTruthful'
  BY <1>24 DEF ReceiptChanges, Change, Watched, At, Foreign, Edited
<1>25. CASE Expire
  BY <1>25 DEF Expire, Watched
<1>26. CASE Crash
  BY <1>26 DEF Crash, Forget, ForAll
<1>27. CASE Run
  BY <1>27 DEF Run, ForAll
<1>28. CASE UNCHANGED vars
  BY <1>28 DEF vars
<1> QED
  BY <1>1, <1>2, <1>3, <1>4, <1>5, <1>6, <1>7, <1>8, <1>9, <1>10, <1>11, <1>12, <1>13, <1>14,
       <1>15, <1>16, <1>17, <1>18, <1>19, <1>20, <1>21, <1>22, <1>23, <1>24, <1>25, <1>26, <1>27,
       <1>28 DEF Next, Command, Others

\* Every step keeps it true where receipts come from.
LEMMA ReceiptsIssuedStep ==
  ASSUME TypeOK, MemoryOK, ReceiptsIssued, [Next]_vars
  PROVE  ReceiptsIssued'
<1> USE DEF TypeOK, MemoryOK, ReceiptsIssued, ManifestIsDiscovered, After, Finished, outside,
     files, memory, control, sighted, Quietly
<1>1. CASE Start
  BY <1>1 DEF Start
<1>2. CASE Validate
  BY <1>2 DEF Validate, QuietStep, Step, Fail
<1>3. CASE NewContext
  BY <1>3 DEF NewContext, Step, At
<1>4. CASE Transition
  BY <1>4 DEF Transition, Step, At
<1>5. CASE PlaywrightFails
  BY <1>5 DEF PlaywrightFails, QuietStep, Fail
<1>6. CASE Sample
  BY <1>6 DEF Sample, Step, Fail, Approved
<1>7. CASE CreateArtifact
  BY <1>7 DEF CreateArtifact, Step, At
<1>8. CASE CreateArtifactFails
  BY <1>8 DEF CreateArtifactFails, Fail, At, Removed
<1>9. CASE CreateReceipt
  BY <1>9 DEF CreateReceipt, At
<1>10. CASE CreateReceiptFails
  BY <1>10 DEF CreateReceiptFails, Fail, At, Removed
<1>11. CASE Quorum
  <2>1. pc' = "verify" => \A t \in Tasks : verified'[t] = "receipt"
    BY <1>11 DEF Quorum, Fail, ForAll
  <2>2. pc' \in {"verify", "close"} /\ manifest' = manifest /\ manifest = Absent
    BY <1>11 DEF Quorum, Fail
  <2>3. issued' = issued /\ sampled' = sampled
    BY <1>11 DEF Quorum
  <2> QED
    BY <2>1, <2>2, <2>3
<1>12. CASE WriteManifest
  BY <1>12 DEF WriteManifest
<1>13. CASE CloseContext
  BY <1>13 DEF CloseContext, Closing, Recorded, At, Forget, ForAll
<1>14. CASE CloseBrowser
  BY <1>14 DEF CloseBrowser, Closing, Forget, ForAll
<1>15. CASE WriteContexts
  BY <1>15 DEF WriteContexts, Step, Forget, ForAll
<1>16. ASSUME NEW t \in Tasks, VerifyReceipt(t) PROVE ReceiptsIssued'
  BY <1>16 DEF VerifyReceipt, Verifying, Verified, Fail, At, IsIssued
<1>17. ASSUME NEW t \in Tasks, VerifyApproval(t) PROVE ReceiptsIssued'
  BY <1>17 DEF VerifyApproval, Verifying, Verified, Fail, At
<1>18. ASSUME NEW t \in Tasks, VerifyArtifact(t) PROVE ReceiptsIssued'
  BY <1>18 DEF VerifyArtifact, Verifying, Verified, Fail, At
<1>19. ASSUME NEW t \in Tasks, VerifyLivePage(t) PROVE ReceiptsIssued'
  BY <1>19 DEF VerifyLivePage, Verifying, Verified, Fail, At, LivePageUnchanged
<1>20. ASSUME NEW t \in Tasks, PageChanges(t) PROVE ReceiptsIssued'
  BY <1>20 DEF PageChanges, Change, Watched, At, Sight
<1>21. ASSUME NEW t \in Tasks, ApprovalChanges(t) PROVE ReceiptsIssued'
  BY <1>21 DEF ApprovalChanges, Change, Watched, At, Sight
<1>22. CASE PackageChanges
  BY <1>22 DEF PackageChanges, Change, Watched
<1>23. ASSUME NEW t \in Tasks, ArtifactChanges(t) PROVE ReceiptsIssued'
  BY <1>23 DEF ArtifactChanges, Change, Watched, At, Sight, Foreign
<1>24. ASSUME NEW t \in Tasks, ReceiptChanges(t) PROVE ReceiptsIssued'
  BY <1>24 DEF ReceiptChanges, Change, Watched, At, Foreign, Edited
<1>25. CASE Expire
  BY <1>25 DEF Expire, Watched
<1>26. CASE Crash
  BY <1>26 DEF Crash, Forget, ForAll
<1>27. CASE Run
  BY <1>27 DEF Run, ForAll
<1>28. CASE UNCHANGED vars
  BY <1>28 DEF vars
<1> QED
  BY <1>1, <1>2, <1>3, <1>4, <1>5, <1>6, <1>7, <1>8, <1>9, <1>10, <1>11, <1>12, <1>13, <1>14,
       <1>15, <1>16, <1>17, <1>18, <1>19, <1>20, <1>21, <1>22, <1>23, <1>24, <1>25, <1>26, <1>27,
       <1>28 DEF Next, Command, Others

\* Every step keeps the stages of the verification backed by what was sighted.
LEMMA StagesSightedStep ==
  ASSUME TypeOK, MemoryOK, ReceiptsIssued, StagesSighted, [Next]_vars
  PROVE  StagesSighted'
<1> USE DEF TypeOK, MemoryOK, ReceiptsIssued, StagesSighted, ManifestWasCurrent, After, Finished,
     outside, files, memory, control, sighted, Quietly
<1>1. CASE Start
  BY <1>1 DEF Start
<1>2. CASE Validate
  BY <1>2 DEF Validate, QuietStep, Step, Fail
<1>3. CASE NewContext
  BY <1>3 DEF NewContext, Step, At
<1>4. CASE Transition
  BY <1>4 DEF Transition, Step, At
<1>5. CASE PlaywrightFails
  BY <1>5 DEF PlaywrightFails, QuietStep, Fail
<1>6. CASE Sample
  BY <1>6 DEF Sample, Step, Fail, Approved
<1>7. CASE CreateArtifact
  BY <1>7 DEF CreateArtifact, Step, At
<1>8. CASE CreateArtifactFails
  BY <1>8 DEF CreateArtifactFails, Fail, At, Removed
<1>9. CASE CreateReceipt
  BY <1>9 DEF CreateReceipt, At
<1>10. CASE CreateReceiptFails
  BY <1>10 DEF CreateReceiptFails, Fail, At, Removed
<1>11. CASE Quorum
  <2>1. CASE pc' = "verify"
    <3>1. /\ pagesSeen' = [t \in Tasks |-> {page[t]}]
          /\ approvalsSeen' = [t \in Tasks |-> {approval[t]}]
          /\ artifactsSeen' = [t \in Tasks |-> {artifact[t]}]
          /\ verified' = [t \in Tasks |-> "receipt"]
      BY <1>11, <2>1 DEF Quorum, Fail, ForAll
    <3>2. manifest' = manifest /\ manifest = Absent
      BY <1>11 DEF Quorum, ReceiptsIssued, Finished, files
    <3>3. page' = page /\ approval' = approval /\ artifact' = artifact
      BY <1>11 DEF Quorum, files, outside
    <3> QED
      BY <2>1, <3>1, <3>2, <3>3 DEF StagesSighted, ManifestWasCurrent, After
  <2>2. CASE pc' # "verify"
    BY <1>11, <2>2 DEF Quorum, StagesSighted, ManifestWasCurrent, ReceiptsIssued, Finished, files
  <2> QED
    BY <2>1, <2>2
<1>12. CASE WriteManifest
  BY <1>12 DEF WriteManifest
<1>13. CASE CloseContext
  BY <1>13 DEF CloseContext, Closing, Recorded, At, Forget, ForAll
<1>14. CASE CloseBrowser
  BY <1>14 DEF CloseBrowser, Closing, Forget, ForAll
<1>15. CASE WriteContexts
  BY <1>15 DEF WriteContexts, Step, Forget, ForAll
<1>16. ASSUME NEW t \in Tasks, VerifyReceipt(t) PROVE StagesSighted'
  BY <1>16 DEF VerifyReceipt, Verifying, Verified, Fail, At, IsIssued
<1>17. ASSUME NEW t \in Tasks, VerifyApproval(t) PROVE StagesSighted'
  BY <1>17 DEF VerifyApproval, Verifying, Verified, Fail, At
<1>18. ASSUME NEW t \in Tasks, VerifyArtifact(t) PROVE StagesSighted'
  BY <1>18 DEF VerifyArtifact, Verifying, Verified, Fail, At
<1>19. ASSUME NEW t \in Tasks, VerifyLivePage(t) PROVE StagesSighted'
  BY <1>19 DEF VerifyLivePage, Verifying, Verified, Fail, At, LivePageUnchanged
<1>20. ASSUME NEW t \in Tasks, PageChanges(t) PROVE StagesSighted'
  BY <1>20 DEF PageChanges, Change, Watched, At, Sight
<1>21. ASSUME NEW t \in Tasks, ApprovalChanges(t) PROVE StagesSighted'
  BY <1>21 DEF ApprovalChanges, Change, Watched, At, Sight
<1>22. CASE PackageChanges
  BY <1>22 DEF PackageChanges, Change, Watched
<1>23. ASSUME NEW t \in Tasks, ArtifactChanges(t) PROVE StagesSighted'
  BY <1>23 DEF ArtifactChanges, Change, Watched, At, Sight, Foreign
<1>24. ASSUME NEW t \in Tasks, ReceiptChanges(t) PROVE StagesSighted'
  BY <1>24 DEF ReceiptChanges, Change, Watched, At, Foreign, Edited
<1>25. CASE Expire
  BY <1>25 DEF Expire, Watched
<1>26. CASE Crash
  BY <1>26 DEF Crash, Forget, ForAll
<1>27. CASE Run
  BY <1>27 DEF Run, ForAll
<1>28. CASE UNCHANGED vars
  BY <1>28 DEF vars
<1> QED
  BY <1>1, <1>2, <1>3, <1>4, <1>5, <1>6, <1>7, <1>8, <1>9, <1>10, <1>11, <1>12, <1>13, <1>14,
       <1>15, <1>16, <1>17, <1>18, <1>19, <1>20, <1>21, <1>22, <1>23, <1>24, <1>25, <1>26, <1>27,
       <1>28 DEF Next, Command, Others

-----------------------------------------------------------------------------
(* The inductive invariant and what follows from it.                       *)

\* Inductive: the types, and for each property what later steps rely on.
IInv == TypeOK /\ MemoryOK /\ RecordsTruthful /\ ReceiptsIssued /\ StagesSighted

\* The command begins in it.
LEMMA InvInit == ASSUME Init PROVE IInv
<1>1. 1 \in Tasks
  BY TaskCountAssumption DEF Tasks
<1>2. TypeOK
  <2>1. /\ task \in 1 .. TaskCount + 1 /\ task \in Tasks
        /\ changes \in 0 .. MaxChanges /\ package \in Packages
    BY <1>1, TaskCountAssumption, GivenAssumption, MaxChangesAssumption DEF Init
  <2>2. /\ page \in [Tasks -> Pages \cup {Absent}]
        /\ approval \in [Tasks -> Approvals \cup {Unapproved}]
        /\ artifact \in [Tasks -> Receipt \cup {Absent}]
        /\ receipt \in [Tasks -> Receipt \cup {Absent}]
        /\ issued \in [Tasks -> Receipt \cup {Absent}]
        /\ kept \in [Tasks -> Receipt \cup {Absent}]
    BY DEF Init, ForAll
  <2>3. /\ contexts \in [Tasks -> {"none", "open", "closed"}]
        /\ record \in [Tasks -> Status]
        /\ path \in [Tasks -> Tasks \cup {0}]
        /\ verified \in [Tasks -> {"none", "receipt", "approval", "artifact", "page", "done"}]
    BY DEF Init, ForAll, Status
  <2>4. expired \in BOOLEAN
    BY DEF Init
  <2> QED
    BY <2>1, <2>2, <2>3, <2>4 DEF Init, TypeOK
<1>3. MemoryOK
  BY <1>1 DEF Init, ForAll, MemoryOK, Working
<1>4. RecordsTruthful /\ ReceiptsIssued /\ StagesSighted
  BY DEF Init, ForAll, RecordsTruthful, RunNeedsClosedContexts, ReceiptsIssued,
         ManifestIsDiscovered, StagesSighted, ManifestWasCurrent
<1> QED
  BY <1>2, <1>3, <1>4 DEF IInv

\* Every step of the command, of others, of a crash and of a run keeps it.
LEMMA InvStep == ASSUME IInv, [Next]_vars PROVE IInv'
BY TypesStep, RecordsTruthfulStep, ReceiptsIssuedStep, StagesSightedStep DEF IInv

\* It always holds.
THEOREM InvHolds == Spec => []IInv
<1>1. Init => IInv
  BY InvInit
<1>2. IInv /\ [Next]_vars => IInv'
  BY InvStep
<1> QED
  BY <1>1, <1>2, PTL DEF Spec

\* Every variable of discover-plan keeps its type, whatever others change on disk.
THEOREM TypeCorrect == Spec => []TypeOK
<1>1. IInv => TypeOK
  BY DEF IInv
<1> QED
  BY <1>1, InvHolds, PTL

\* A final manifest names the receipts this session issued for what it saw, whatever
\* lies below the run root (verifyOneReceipt against the session's issued receipts).
THEOREM ManifestsAreDiscovered == Spec => []ManifestIsDiscovered
<1>1. IInv => ManifestIsDiscovered
  BY DEF IInv, ReceiptsIssued
<1> QED
  BY <1>1, InvHolds, PTL

\* Page, approval and artifact of every receipt in a final manifest were so at some
\* time of the interleaved verification (verifyDiscoveryReceipts).
THEOREM ManifestsWereCurrent == Spec => []ManifestWasCurrent
<1>1. IInv => ManifestWasCurrent
  BY DEF IInv, StagesSighted
<1> QED
  BY <1>1, InvHolds, PTL

\* No run starts before every context of the discovery was closed and recorded so
\* (discover-plan's finally, readDiscoveryContextRecords).
THEOREM RunsNeedClosedContexts == Spec => []RunNeedsClosedContexts
<1>1. IInv => RunNeedsClosedContexts
  BY DEF IInv, RecordsTruthful
<1> QED
  BY <1>1, InvHolds, PTL
=============================================================================
