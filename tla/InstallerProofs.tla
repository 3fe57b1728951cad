-------------------------- MODULE InstallerProofs --------------------------
(***************************************************************************)
(* Proofs about BundleInstaller for any number of installs, install roots, *)
(* bundles and faults.                                                     *)
(*                                                                         *)
(* One inductive invariant says where an install stands with the Skill     *)
(* below its root (Standing), that its root is its own (OneInstallPerRoot),*)
(* and that a receipt outlives the stages that could take it back          *)
(* (Earned).  The properties follow from it stage by stage.                *)
(***************************************************************************)
EXTENDS BundleInstaller, TLAPS

-----------------------------------------------------------------------------
(* The inductive invariant.                                                *)

\* Nothing of an install exists before it begins.
NotBegun ==
  \A i \in Installs : stage[i] = "idle" =>
    runtime[i] = None /\ retained[i] = None /\ ~placed[i] /\ ending[i] = "none"

\* The Skill is the one that was there, or it is set aside.
Untouched(i) == skill[Root(i)] = before[i] /\ retained[i] = None
Aside(i) == skill[Root(i)] = None /\ retained[i] = before[i]

\* How an install ends is decided by the branch it is in.
Ends(i) ==
  /\ stage[i] \in BeforeSwap \cup Swap \cup {"clean"} => ending[i] = "none"
  /\ stage[i] = "remove" => ending[i] = "failure"
  /\ stage[i] \in Undo => ending[i] \in {"failure", "unclean failure"}

\* What it has staged, activated and smoked.
Staged(i) ==
  /\ stage[i] \in BeforeSwap \cup {"runtime"} => runtime[i] = None
  /\ stage[i] \in {"aside", "place", "commit", "clean"} => runtime[i] = job[i].bundle
  /\ stage[i] \in {"copy", "clean"} \cup Swap => smoked[i]

\* Where the Skill is on the way into the swap, and on the way back.
Forward(i) ==
  /\ stage[i] \in BeforeSwap \cup {"runtime", "aside"} => Untouched(i) /\ ~placed[i]
  /\ stage[i] = "runtime" => (had[i] <=> before[i] # None)
  /\ stage[i] = "place" => Aside(i) /\ ~placed[i]
  /\ stage[i] = "commit" =>
       /\ skill[Root(i)] = job[i].bundle
       /\ IF placed[i] THEN retained[i] = before[i] ELSE Untouched(i)
Back(i) ==
  /\ stage[i] = "remove" =>
       IF placed[i] THEN retained[i] = before[i] ELSE Untouched(i) \/ Aside(i)
  /\ stage[i] = "restore" /\ ending[i] = "failure" => Untouched(i) \/ Aside(i)
  /\ stage[i] = "discard" /\ ending[i] = "failure" => Untouched(i)
  /\ stage[i] = "finally" /\ ending[i] = "failure" =>
       Untouched(i) /\ runtime[i] \in {None, Broken}

\* What a success is about.
Done(i) ==
  stage[i] = "clean" \/ (stage[i] = "finally" /\ ending[i] = "success") =>
    /\ skill[Root(i)] = job[i].bundle /\ receipt # None
    /\ receipt.root = Root(i) => receipt.bundle = job[i].bundle

Stand(i) == Ends(i) /\ Staged(i) /\ Forward(i) /\ Back(i) /\ Done(i)
Standing == \A i \in Installs : stage[i] \in Working => Stand(i)

\* An install that a receipt names is past the commit, and what it left stays.
Named(rec) ==
  rec # None =>
    /\ stage[rec.by] \in {"clean", "finally", "ended"}
    /\ rec.root = Root(rec.by) /\ rec.bundle = job[rec.by].bundle
    /\ smoked[rec.by] /\ runtime[rec.by] \in {rec.bundle, Broken}
Earned ==
  /\ Named(receipt) /\ Named(launch.receipt)
  /\ receipt # None => ending[receipt.by] \notin {"failure", "unclean failure"}

\* A step of an install leaves the others, and what lies below their roots.
Others(k) ==
  /\ \A i \in Installs \ {k} :
       /\ stage'[i] = stage[i] /\ job'[i] = job[i] /\ ending'[i] = ending[i]
       /\ before'[i] = before[i] /\ had'[i] = had[i] /\ placed'[i] = placed[i]
       /\ runtime'[i] = runtime[i] /\ smoked'[i] = smoked[i] /\ retained'[i] = retained[i]
  /\ \A r \in Roots \ {Root(k)} : skill'[r] = skill[r]
  /\ receipt' = receipt \/ (receipt' # None /\ receipt'.root = Root(k))

\* A step of another install leaves this one where it stands.
Same(i) ==
  /\ stage'[i] = stage[i] /\ job'[i] = job[i] /\ ending'[i] = ending[i]
  /\ before'[i] = before[i] /\ had'[i] = had[i] /\ placed'[i] = placed[i]
  /\ runtime'[i] = runtime[i] /\ smoked'[i] = smoked[i] /\ retained'[i] = retained[i]
  /\ skill'[Root(i)] = skill[Root(i)]
  /\ receipt' = receipt \/ (receipt' # None /\ receipt'.root # Root(i))

IInv == TypeOK /\ OneInstallPerRoot /\ NotBegun /\ Standing /\ Earned

-----------------------------------------------------------------------------
\* What an install works with has its type.
LEMMA JobType ==
  ASSUME TypeOK, NEW k \in Installs, stage[k] \in Working
  PROVE  /\ job[k] \in Job /\ job[k].root \in Roots /\ job[k].bundle \in Content
         /\ NewReceipt(k) \in Receipt /\ NewReceipt(k) # None
<1>1. job[k] \in Job
  BY DEF TypeOK
<1>2. job[k].root \in Roots /\ job[k].bundle \in Bundles
  BY <1>1 DEF Job
<1>3. NewReceipt(k) \in Receipt
  BY <1>2 DEF NewReceipt, Receipt, Root
<1> QED
  BY <1>1, <1>2, <1>3, NoneAssumption DEF Content

\* The faults that happened are counted up to the bound.
LEMMA FaultType == ASSUME TypeOK, Fault \/ UNCHANGED faults PROVE faults' \in 0..MaxFaults
BY MaxFaultsAssumption DEF TypeOK, Fault

\* What every directory may hold.
LEMMA Contents == None \in Content /\ Broken \in Content /\ Bundles \subseteq Content
BY DEF Content

\* Every variable keeps its type.
LEMMA TypesStep ==
  ASSUME IInv, [Next]_vars PROVE TypeOK'
<1> USE DEF IInv, TypeOK, Working, BeforeSwap, Swap, Undo, At, Root, disk, memory
<1>1. ASSUME NEW k \in Installs, Begin(k) PROVE TypeOK'
  <2>1. PICK j \in Job : Begin(k)!2!(j)
    BY <1>1 DEF Begin
  <2>2. job' \in [Installs -> Job \cup {None}] /\ (\A i \in Installs : i # k => job'[i] = job[i])
    BY <2>1
  <2>3. j.root \in Roots /\ j # None
    BY NoneAssumption DEF Job
  <2>4. usable' \in [Installs -> BOOLEAN]
    BY <2>1 DEF Verified
  <2>5. receipt # None => receipt.by # k /\ receipt.by \in Installs
    BY <1>1 DEF Begin, Earned, Named, Receipt
  <2>6. before' \in [Installs -> Content] /\ lock' \in [Roots -> Installs \cup {None}]
    BY <2>1, <2>3
  <2> QED
    BY <1>1, <2>1, <2>2, <2>3, <2>4, <2>5, <2>6 DEF Begin
<1>2. ASSUME NEW k \in Installs, CheckExisting(k) PROVE TypeOK'
  <2>1. ending' \in [Installs -> Ending]
    BY <1>2 DEF CheckExisting, Step, Fault, Installed, Verified, Ending
  <2>2. faults' \in 0..MaxFaults
    BY <1>2, FaultType DEF CheckExisting, Step, Installed, Verified
  <2> QED
    BY <1>2, <2>1, <2>2, JobType, Contents DEF CheckExisting, Step, Fault, Installed, Verified
<1>3. ASSUME NEW k \in Installs, Fetch(k) PROVE TypeOK'
  BY <1>3, JobType, Contents, FaultType DEF Fetch, Step
<1>4. ASSUME NEW k \in Installs, Smoke(k) PROVE TypeOK'
  BY <1>4, JobType, Contents, FaultType DEF Smoke, Step
<1>5. ASSUME NEW k \in Installs, FailBeforeSwap(k) PROVE TypeOK'
  <2>1. ending' \in [Installs -> Ending]
    BY <1>5 DEF FailBeforeSwap, Fault, Ending
  <2>2. faults' \in 0..MaxFaults
    BY <1>5, FaultType DEF FailBeforeSwap
  <2> QED
    BY <1>5, <2>1, <2>2, JobType, Contents DEF FailBeforeSwap, Fault
<1>6. ASSUME NEW k \in Installs, CopySkill(k) PROVE TypeOK'
  BY <1>6, JobType, Contents, FaultType DEF CopySkill, Step
<1>7. ASSUME NEW k \in Installs, ActivateRuntime(k) PROVE TypeOK'
  BY <1>7, JobType, Contents, FaultType DEF ActivateRuntime, Step, Reused
<1>8. ASSUME NEW k \in Installs, SetAside(k) PROVE TypeOK'
  BY <1>8, JobType, Contents, FaultType DEF SetAside, Step, Retain
<1>9. ASSUME NEW k \in Installs, Place(k) PROVE TypeOK'
  BY <1>9, JobType, Contents, FaultType DEF Place, Step
<1>10. ASSUME NEW k \in Installs, Commit(k) PROVE TypeOK'
  BY <1>10, JobType, Contents, FaultType DEF Commit, Step, NewReceipt
<1>11. ASSUME NEW k \in Installs, CleanUp(k) PROVE TypeOK'
  <2>1. ending' \in [Installs -> Ending]
    BY <1>11 DEF CleanUp, Step, Fault, Ending
  <2>2. faults' \in 0..MaxFaults
    BY <1>11, FaultType DEF CleanUp, Step
  <2>3. retained' \in [Installs -> Content]
    BY <1>11, JobType, Contents DEF CleanUp, Step, Fault
  <2> QED
    BY <1>11, <2>1, <2>2, <2>3, JobType, Contents DEF CleanUp, Step, Fault
<1>12. ASSUME NEW k \in Installs, Throw(k) PROVE TypeOK'
  <2>1. ending' \in [Installs -> Ending]
    BY <1>12 DEF Throw, Fault, Ending
  <2>2. faults' \in 0..MaxFaults
    BY <1>12, FaultType DEF Throw
  <2> QED
    BY <1>12, <2>1, <2>2, JobType, Contents DEF Throw, Fault
<1>13. ASSUME NEW k \in Installs, RemovePlaced(k) PROVE TypeOK'
  <2>1. ending' \in [Installs -> Ending]
    BY <1>13 DEF RemovePlaced, Step, Fault, WithoutPlaced, Ending
  <2>2. faults' \in 0..MaxFaults
    BY <1>13, FaultType DEF RemovePlaced, Step, WithoutPlaced
  <2>3. skill' \in [Roots -> Content]
    BY <1>13, JobType, Contents DEF RemovePlaced, Step, Fault, WithoutPlaced
  <2> QED
    BY <1>13, <2>1, <2>2, <2>3, JobType, Contents DEF RemovePlaced, Step, Fault, WithoutPlaced
<1>14. ASSUME NEW k \in Installs, Restore(k) PROVE TypeOK'
  <2>1. ending' \in [Installs -> Ending]
    BY <1>14 DEF Restore, Step, Fault, Ending
  <2>2. faults' \in 0..MaxFaults
    BY <1>14, FaultType DEF Restore, Step
  <2>3. skill' \in [Roots -> Content]
    BY <1>14, JobType, Contents DEF Restore, Step, Fault
  <2>4. retained' \in [Installs -> Content]
    BY <1>14, JobType, Contents DEF Restore, Step, Fault
  <2>5. stage' \in [Installs -> Working \cup {"idle", "ended"}]
    <3>1. \E s \in {"discard", "finally"} : stage' = [stage EXCEPT ![k] = s]
      BY <1>14 DEF Restore, Step
    <3>2. {"discard", "finally"} \subseteq Working \cup {"idle", "ended"}
      OBVIOUS
    <3> QED
      BY <3>1, <3>2
  <2>6. \A i \in Installs : stage'[i] \in Working => job'[i] # None
    BY <1>14 DEF Restore, Step, Fault
  <2>7. UNCHANGED <<receipt, runtime, smoked, lock, job, had, placed, before, usable, launch>>
    BY <1>14 DEF Restore
  <2> QED
    BY <2>1, <2>2, <2>3, <2>4, <2>5, <2>6, <2>7
<1>15. ASSUME NEW k \in Installs, DiscardRuntime(k) PROVE TypeOK'
  BY <1>15, JobType, Contents, FaultType DEF DiscardRuntime, Step, Fault
<1>16. ASSUME NEW k \in Installs, Finally(k) PROVE TypeOK'
  <2>1. ending' \in [Installs -> Ending]
    BY <1>16 DEF Finally, Step, Release, Forget, Ending
  <2>2. usable' \in [Installs -> BOOLEAN]
    BY <1>16 DEF Finally, Step, Release, Forget
  <2> QED
    BY <1>16, <2>1, <2>2, JobType, Contents DEF Finally, Step, Release, Forget
<1>17. ASSUME NEW k \in Installs, Cancel(k) PROVE TypeOK'
  <2>1. ending' \in [Installs -> Ending]
    BY <1>17 DEF Cancel, Fault, Ending
  <2>2. faults' \in 0..MaxFaults
    BY <1>17, FaultType DEF Cancel
  <2> QED
    BY <1>17, <2>1, <2>2, JobType, Contents DEF Cancel, Fault
<1>18. ASSUME NEW k \in Installs, Crash(k) PROVE TypeOK'
  <2>1. ending' \in [Installs -> Ending]
    BY <1>18 DEF Crash, Fault, Forget, Ending
  <2>2. faults' \in 0..MaxFaults
    BY <1>18, FaultType DEF Crash, Forget
  <2>3. usable' \in [Installs -> BOOLEAN]
    BY <1>18 DEF Crash, Fault, Forget
  <2> QED
    BY <1>18, <2>1, <2>2, <2>3, JobType, Contents DEF Crash, Fault, Forget
<1>19. CASE Damage
  BY <1>19, JobType, Contents, FaultType DEF Damage, Fault, ForAll
<1>20. CASE ReadReceipt \/ Start \/ Exit \/ UNCHANGED vars
  BY <1>20, JobType, Contents, FaultType DEF ReadReceipt, Start, Exit, NotLaunched, vars
<1> QED
  BY <1>1, <1>2, <1>3, <1>4, <1>5, <1>6, <1>7, <1>8, <1>9, <1>10, <1>11, <1>12, <1>13, <1>14,
    <1>15, <1>16, <1>17, <1>18, <1>19, <1>20 DEF Next, Install

\* A stage of the work goes over into the next one: the mutex stays.
LEMMA LockMoves ==
  ASSUME TypeOK, OneInstallPerRoot, NEW k \in Installs, NEW s \in Working,
         stage[k] \in Working, stage' = [stage EXCEPT ![k] = s], UNCHANGED <<lock, job>>
  PROVE  OneInstallPerRoot'
BY DEF TypeOK, OneInstallPerRoot, Root

\* The work ends, and the mutex is free.
LEMMA LockEnds ==
  ASSUME TypeOK, OneInstallPerRoot, NEW k \in Installs, stage[k] \in Working,
         stage' = [stage EXCEPT ![k] = "ended"],
         lock' = [lock EXCEPT ![Root(k)] = None], UNCHANGED job
  PROVE  OneInstallPerRoot'
<1>1. "ended" \notin Working
  BY DEF Working, BeforeSwap, Swap, Undo
<1>2. None \notin Installs
  BY InstallsAssumption, NoneAssumption
<1> SUFFICES ASSUME NEW i \in Installs, NEW r \in Roots
             PROVE  lock'[r] = i <=> stage'[i] \in Working /\ Root(i)' = r
  BY DEF OneInstallPerRoot
<1>3. lock[r] = i <=> stage[i] \in Working /\ Root(i) = r
  BY DEF OneInstallPerRoot
<1>4. lock[r] = k <=> Root(k) = r
  BY DEF OneInstallPerRoot
<1>5. Root(i)' = Root(i) /\ stage'[i] = (IF i = k THEN "ended" ELSE stage[i])
  BY DEF TypeOK, Root
<1>6. lock'[r] = (IF r = Root(k) THEN None ELSE lock[r])
  BY DEF TypeOK
<1> QED
  BY <1>1, <1>2, <1>3, <1>4, <1>5, <1>6

\* The mutex stays with the install at work.
LEMMA LockStep ==
  ASSUME IInv, [Next]_vars PROVE OneInstallPerRoot'
<1> USE DEF At, Root, disk, memory
<1> DEFINE Moves(k) ==
  CheckExisting(k) \/ Fetch(k) \/ Smoke(k) \/ FailBeforeSwap(k) \/ CopySkill(k) \/
  ActivateRuntime(k) \/ SetAside(k) \/ Place(k) \/ Commit(k) \/ CleanUp(k) \/ Throw(k) \/
  RemovePlaced(k) \/ Restore(k) \/ DiscardRuntime(k) \/ Cancel(k)
<1>0. TypeOK /\ OneInstallPerRoot
  BY DEF IInv
<1> USE <1>0
<1>1. ASSUME NEW k \in Installs, Begin(k) PROVE OneInstallPerRoot'
  <2>1. PICK j \in Job : Begin(k)!2!(j)
    BY <1>1 DEF Begin
  <2>2. j.root \in Roots
    BY DEF Job
  <2>3. stage[k] = "idle" /\ "idle" \notin Working /\ "ended" \notin Working /\ "check" \in Working
    BY <1>1 DEF Begin, Working, BeforeSwap, Swap, Undo
  <2>4. CASE lock[j.root] = None
    <3>1. /\ lock' = [lock EXCEPT ![j.root] = k] /\ stage' = [stage EXCEPT ![k] = "check"]
          /\ job' = [job EXCEPT ![k] = j]
      BY <2>1, <2>4
    <3>2. \A r \in Roots : lock[r] # k
      BY <2>3 DEF OneInstallPerRoot
    <3>3. \A i \in Installs : lock[j.root] # i
      BY <2>4, InstallsAssumption, NoneAssumption
    <3> SUFFICES ASSUME NEW i \in Installs, NEW r \in Roots
                 PROVE  lock'[r] = i <=> stage'[i] \in Working /\ Root(i)' = r
      BY DEF OneInstallPerRoot
    <3>4. /\ lock'[r] = (IF r = j.root THEN k ELSE lock[r])
          /\ stage'[i] = (IF i = k THEN "check" ELSE stage[i])
          /\ Root(i)' = (IF i = k THEN j.root ELSE Root(i))
      BY <3>1, <2>2 DEF TypeOK
    <3>5. lock[r] = i <=> stage[i] \in Working /\ Root(i) = r
      BY DEF OneInstallPerRoot
    <3> QED
      BY <2>3, <3>2, <3>3, <3>4, <3>5
  <2>5. CASE lock[j.root] # None
    <3>1. stage' = [stage EXCEPT ![k] = "ended"] /\ UNCHANGED <<lock, job>>
      BY <2>1, <2>5
    <3> QED
      BY <3>1, <2>3 DEF OneInstallPerRoot, TypeOK
  <2> QED
    BY <2>4, <2>5
<1>2. ASSUME NEW k \in Installs, Moves(k) PROVE OneInstallPerRoot'
  <2>1. stage[k] \in Working /\ UNCHANGED <<lock, job>>
    BY <1>2 DEF CheckExisting, Step, Fetch, Smoke, FailBeforeSwap, CopySkill, ActivateRuntime,
      SetAside, Place, Commit, CleanUp, Throw, RemovePlaced, Restore, DiscardRuntime, Cancel,
      Working, BeforeSwap, Swap, Undo
  <2>2. \E s \in Working : stage' = [stage EXCEPT ![k] = s]
    BY <1>2 DEF CheckExisting, Step, Fetch, Smoke, FailBeforeSwap, CopySkill, ActivateRuntime,
      SetAside, Place, Commit, CleanUp, Throw, RemovePlaced, Restore, DiscardRuntime, Cancel,
      Reused, Working, BeforeSwap, Swap, Undo
  <2> QED
    BY <2>1, <2>2, LockMoves
<1>3. ASSUME NEW k \in Installs, Finally(k) \/ Crash(k) PROVE OneInstallPerRoot'
  <2>1. stage[k] \in Working
    BY <1>3 DEF Finally, Crash, Step, Working, BeforeSwap, Swap, Undo
  <2> QED
    BY <1>3, <2>1, LockEnds DEF Finally, Crash, Step, Release, Forget
<1>4. CASE Damage \/ ReadReceipt \/ Start \/ Exit \/ UNCHANGED vars
  <2>1. UNCHANGED <<stage, lock, job>>
    BY <1>4 DEF Damage, ReadReceipt, Start, Exit, vars
  <2> QED
    BY <2>1 DEF OneInstallPerRoot
<1> QED
  BY <1>1, <1>2, <1>3, <1>4 DEF Next, Install

\* What has not begun leaves nothing.
LEMMA NotBegunStep ==
  ASSUME IInv, [Next]_vars PROVE NotBegun'
<1> USE DEF NotBegun, At, Root, disk, memory
<1>0. TypeOK /\ NotBegun
  BY DEF IInv
<1> USE <1>0 DEF TypeOK, Working, BeforeSwap, Swap, Undo
<1>1. ASSUME NEW k \in Installs, Begin(k) PROVE NotBegun'
  BY <1>1 DEF Begin
<1>2. ASSUME NEW k \in Installs, CheckExisting(k) PROVE NotBegun'
  BY <1>2, ZenonT(40) DEF CheckExisting, Step, Fault, Installed, Verified
<1>3. ASSUME NEW k \in Installs, Fetch(k) PROVE NotBegun'
  BY <1>3 DEF Fetch, Step
<1>4. ASSUME NEW k \in Installs, Smoke(k) PROVE NotBegun'
  BY <1>4 DEF Smoke, Step
<1>5. ASSUME NEW k \in Installs, FailBeforeSwap(k) PROVE NotBegun'
  BY <1>5 DEF FailBeforeSwap, Fault
<1>6. ASSUME NEW k \in Installs, CopySkill(k) PROVE NotBegun'
  BY <1>6 DEF CopySkill, Step
<1>7. ASSUME NEW k \in Installs, ActivateRuntime(k) PROVE NotBegun'
  BY <1>7 DEF ActivateRuntime, Step, Reused
<1>8. ASSUME NEW k \in Installs, SetAside(k) PROVE NotBegun'
  BY <1>8 DEF SetAside, Step, Retain
<1>9. ASSUME NEW k \in Installs, Place(k) PROVE NotBegun'
  BY <1>9 DEF Place, Step
<1>10. ASSUME NEW k \in Installs, Commit(k) PROVE NotBegun'
  BY <1>10 DEF Commit, Step, NewReceipt
<1>11. ASSUME NEW k \in Installs, CleanUp(k) PROVE NotBegun'
  BY <1>11 DEF CleanUp, Step, Fault
<1>12. ASSUME NEW k \in Installs, Throw(k) PROVE NotBegun'
  BY <1>12 DEF Throw, Fault
<1>13. ASSUME NEW k \in Installs, RemovePlaced(k) PROVE NotBegun'
  BY <1>13 DEF RemovePlaced, Step, Fault, WithoutPlaced
<1>14. ASSUME NEW k \in Installs, Restore(k) PROVE NotBegun'
  <2>1. \A i \in Installs : stage'[i] = "idle" => i # k /\ stage[i] = "idle"
    BY <1>14 DEF Restore, Step
  <2>2. \A i \in Installs : i # k => retained'[i] = retained[i] /\ ending'[i] = ending[i]
    BY <1>14, ZenonT(40) DEF Restore
  <2> QED
    BY <1>14, <2>1, <2>2 DEF Restore
<1>15. ASSUME NEW k \in Installs, DiscardRuntime(k) PROVE NotBegun'
  BY <1>15 DEF DiscardRuntime, Step, Fault
<1>16. ASSUME NEW k \in Installs, Finally(k) PROVE NotBegun'
  BY <1>16 DEF Finally, Step, Release, Forget
<1>17. ASSUME NEW k \in Installs, Cancel(k) PROVE NotBegun'
  BY <1>17 DEF Cancel, Fault
<1>18. ASSUME NEW k \in Installs, Crash(k) PROVE NotBegun'
  BY <1>18 DEF Crash, Fault, Forget
<1>19. CASE Damage
  BY <1>19 DEF Damage, Fault, ForAll
<1>20. CASE ReadReceipt \/ Start \/ Exit \/ UNCHANGED vars
  BY <1>20 DEF ReadReceipt, Start, Exit, NotLaunched, vars
<1> QED
  BY <1>1, <1>2, <1>3, <1>4, <1>5, <1>6, <1>7, <1>8, <1>9, <1>10, <1>11, <1>12, <1>13, <1>14,
    <1>15, <1>16, <1>17, <1>18, <1>19, <1>20 DEF Next, Install

\* The launcher works with a receipt that was read, now or before.
LEMMA LaunchReads ==
  ASSUME ReadReceipt \/ Start \/ Exit \/ UNCHANGED vars
  PROVE  launch'.receipt \in {None, receipt, launch.receipt}
<1>1. CASE ReadReceipt
  BY <1>1 DEF ReadReceipt
<1>2. CASE Start
  BY <1>2 DEF Start, NotLaunched
<1>3. CASE Exit
  BY <1>3 DEF Exit, NotLaunched
<1> QED
  BY <1>1, <1>2, <1>3 DEF vars

\* A receipt keeps what it names.
LEMMA EarnedStep ==
  ASSUME IInv, [Next]_vars PROVE Earned'
<1> USE DEF Earned, Named, TypeOK, Working, BeforeSwap, Swap, Undo, At, Root, disk, memory
<1>0. TypeOK /\ Earned /\ Standing
  BY DEF IInv
<1>a. receipt # None => receipt \in Receipt /\ receipt.by \in Installs
  BY <1>0 DEF Receipt
<1>b. launch.receipt # None => launch.receipt \in Receipt /\ launch.receipt.by \in Installs
  BY <1>0 DEF Receipt
<1> USE <1>0, <1>a, <1>b
<1>1. ASSUME NEW k \in Installs, Begin(k) PROVE Earned'
  <2>1. stage[k] = "idle"
    BY <1>1 DEF Begin
  <2>2. /\ UNCHANGED <<receipt, launch, smoked, runtime, ending>>
        /\ \A i \in Installs : i # k => stage'[i] = stage[i] /\ job'[i] = job[i]
    BY <1>1, ZenonT(40) DEF Begin
  <2>3. receipt # None => receipt.by # k
    BY <2>1
  <2>4. launch.receipt # None => launch.receipt.by # k
    BY <2>1
  <2>5. Named(receipt)'
    BY <2>2, <2>3
  <2>6. Named(launch.receipt)'
    BY <2>2, <2>4
  <2> QED
    BY <2>2, <2>3, <2>5, <2>6
<1>2. ASSUME NEW k \in Installs, CheckExisting(k) PROVE Earned'
  BY <1>2, ZenonT(40) DEF CheckExisting, Step, Fault, Installed, Verified
<1>3. ASSUME NEW k \in Installs, Fetch(k) PROVE Earned'
  BY <1>3 DEF Fetch, Step
<1>4. ASSUME NEW k \in Installs, Smoke(k) PROVE Earned'
  BY <1>4 DEF Smoke, Step
<1>5. ASSUME NEW k \in Installs, FailBeforeSwap(k) PROVE Earned'
  BY <1>5 DEF FailBeforeSwap, Fault
<1>6. ASSUME NEW k \in Installs, CopySkill(k) PROVE Earned'
  BY <1>6 DEF CopySkill, Step
<1>7. ASSUME NEW k \in Installs, ActivateRuntime(k) PROVE Earned'
  BY <1>7 DEF ActivateRuntime, Step, Reused
<1>8. ASSUME NEW k \in Installs, SetAside(k) PROVE Earned'
  BY <1>8 DEF SetAside, Step, Retain
<1>9. ASSUME NEW k \in Installs, Place(k) PROVE Earned'
  BY <1>9 DEF Place, Step
<1>10. ASSUME NEW k \in Installs, Commit(k) PROVE Earned'
  <2>1. stage[k] = "commit" /\ stage[k] \in Working
    BY <1>10 DEF Commit, Step
  <2>2. /\ receipt' = NewReceipt(k) /\ stage' = [stage EXCEPT ![k] = "clean"]
        /\ UNCHANGED <<launch, smoked, runtime, ending, job>>
    BY <1>10 DEF Commit, Step
  <2>3. receipt'.by = k /\ receipt'.root = Root(k) /\ receipt'.bundle = job[k].bundle
    BY <2>2 DEF NewReceipt
  <2>4. smoked[k] /\ runtime[k] = job[k].bundle /\ ending[k] = "none"
    BY <2>1 DEF Standing, Stand, Staged, Ends
  <2>7. stage'[k] = "clean" /\ smoked'[k] /\ runtime'[k] = receipt'.bundle /\ job'[k] = job[k]
    BY <2>2, <2>3, <2>4
  <2>5. Named(receipt)'
    BY <2>3, <2>7 DEF Named
  <2>6. Named(launch.receipt)'
    BY <2>1, <2>2
  <2> QED
    BY <2>2, <2>3, <2>4, <2>5, <2>6
<1>11. ASSUME NEW k \in Installs, CleanUp(k) PROVE Earned'
  BY <1>11 DEF CleanUp, Step, Fault
<1>12. ASSUME NEW k \in Installs, Throw(k) PROVE Earned'
  BY <1>12 DEF Throw, Fault
<1>13. ASSUME NEW k \in Installs, RemovePlaced(k) PROVE Earned'
  BY <1>13 DEF RemovePlaced, Step, Fault, WithoutPlaced
<1>14. ASSUME NEW k \in Installs, Restore(k) PROVE Earned'
  BY <1>14 DEF Restore, Step, Fault
<1>15. ASSUME NEW k \in Installs, DiscardRuntime(k) PROVE Earned'
  BY <1>15 DEF DiscardRuntime, Step, Fault
<1>16. ASSUME NEW k \in Installs, Finally(k) PROVE Earned'
  BY <1>16 DEF Finally, Step, Release, Forget
<1>17. ASSUME NEW k \in Installs, Cancel(k) PROVE Earned'
  BY <1>17 DEF Cancel, Fault
<1>18. ASSUME NEW k \in Installs, Crash(k) PROVE Earned'
  BY <1>18 DEF Crash, Fault, Forget
<1>19. CASE Damage
  BY <1>19 DEF Damage, Fault, ForAll
<1>20. CASE ReadReceipt \/ Start \/ Exit \/ UNCHANGED vars
  <2>1. UNCHANGED <<receipt, stage, job, smoked, runtime, ending>>
    BY <1>20 DEF ReadReceipt, Start, Exit, vars
  <2> QED
    BY <1>20, <2>1, LaunchReads
<1> QED
  BY <1>1, <1>2, <1>3, <1>4, <1>5, <1>6, <1>7, <1>8, <1>9, <1>10, <1>11, <1>12, <1>13, <1>14,
    <1>15, <1>16, <1>17, <1>18, <1>19, <1>20 DEF Next, Install

\* Two installs at work have two roots.
LEMMA Apart ==
  ASSUME OneInstallPerRoot, TypeOK, NEW k \in Installs, NEW i \in Installs, i # k,
         stage[k] \in Working, stage[i] \in Working
  PROVE  Root(i) # Root(k) /\ Root(i) \in Roots
BY JobType DEF OneInstallPerRoot, Root

\* What stays the same stands.
LEMMA SameStands ==
  ASSUME NEW i \in Installs, Stand(i), Same(i)
  PROVE  Stand(i)'
<1>1. Root(i)' = Root(i)
  BY DEF Same, Root
<1>2. Ends(i)'
  BY DEF Same, Stand, Ends, Undo, BeforeSwap, Swap
<1>3. Staged(i)'
  BY DEF Same, Stand, Staged, Swap, BeforeSwap
<1>4. Forward(i)'
  BY <1>1 DEF Same, Stand, Forward, Untouched, Aside, BeforeSwap
<1>5. Back(i)'
  BY <1>1 DEF Same, Stand, Back, Untouched, Aside
<1>6. Done(i)'
  BY <1>1 DEF Same, Stand, Done
<1> QED
  BY <1>2, <1>3, <1>4, <1>5, <1>6 DEF Stand

\* A step of an install is about the install itself.
LEMMA MoverStands ==
  ASSUME TypeOK, OneInstallPerRoot, Standing, NEW k \in Installs, stage[k] \in Working,
         Others(k), stage'[k] \in Working => Stand(k)'
  PROVE  Standing'
<1> SUFFICES ASSUME NEW i \in Installs, stage'[i] \in Working PROVE Stand(i)'
  BY DEF Standing, Working, BeforeSwap, Swap, Undo
<1>1. CASE i = k
  BY <1>1
<1>2. CASE i # k
  <2>1. stage[i] \in Working
    BY <1>2 DEF Others
  <2>2. Root(i) # Root(k) /\ Root(i) \in Roots
    BY <1>2, <2>1, Apart
  <2>3. Same(i)
    BY <1>2, <2>2 DEF Others, Same
  <2> QED
    BY <2>1, <2>3, SameStands DEF Standing
<1> QED
  BY <1>1, <1>2

\* Every install stands somewhere on its way.
LEMMA StandingStep ==
  ASSUME IInv, [Next]_vars PROVE Standing'
<1> USE DEF At, Root, disk, memory
<1>0. TypeOK /\ OneInstallPerRoot /\ NotBegun /\ Standing /\ Earned
  BY DEF IInv
<1> USE <1>0
<1>1. ASSUME NEW k \in Installs, Begin(k) PROVE Standing'
  <2>0. PICK j \in Job : Begin(k)!2!(j)
    BY <1>1 DEF Begin
  <2>1. /\ stage[k] = "idle" /\ UNCHANGED <<disk, had, placed, ending>>
        /\ \A i \in Installs \ {k} :
             stage'[i] = stage[i] /\ job'[i] = job[i] /\ before'[i] = before[i]
    BY <1>1 DEF Begin, TypeOK
  <2>2. ASSUME NEW i \in Installs \ {k}, stage'[i] \in Working PROVE Stand(i)'
    <3>1. stage[i] \in Working /\ Same(i)
      BY <2>1, <2>2 DEF Same, TypeOK
    <3> QED
      BY <3>1, SameStands DEF Standing
  <2>3. ASSUME stage'[k] \in Working PROVE Stand(k)'
    <3>2. stage'[k] = "check" /\ job'[k] = j /\ before'[k] = skill[j.root]
      BY <2>0, <2>1, <2>3 DEF TypeOK, Working, BeforeSwap, Swap, Undo
    <3>3. runtime[k] = None /\ retained[k] = None /\ ~placed[k] /\ ending[k] = "none"
      BY <2>1 DEF NotBegun
    <3> QED
      BY <2>1, <3>2, <3>3 DEF Stand, Ends, Staged, Forward, Back, Done, Untouched, Aside,
        Undo, BeforeSwap, Swap
  <2> QED
    BY <2>2, <2>3 DEF Standing, Working, BeforeSwap, Swap, Undo
<1>2. ASSUME NEW k \in Installs, CheckExisting(k) PROVE Standing'
  <2>1. stage[k] \in Working
    BY <1>2 DEF CheckExisting, Step, Installed, Verified, Working, BeforeSwap, Swap, Undo
  <2>2. Others(k)
    BY <1>2, <2>1 DEF CheckExisting, Step, Fault, Installed, Verified, Others, TypeOK
  <2>3. /\ stage[k] = "check"
        /\ \/ stage'[k] = "fetch" /\ ending'[k] = ending[k]
           \/ stage'[k] = "finally" /\ ending'[k] \in {"failure", "late failure"}
           \/ stage'[k] = "finally" /\ ending'[k] = "success" /\ Installed(k)
    BY <1>2, <2>1 DEF CheckExisting, Step, Installed, Verified, TypeOK
  <2>4. /\ job'[k] = job[k] /\ before'[k] = before[k] /\ had'[k] = had[k]
        /\ placed'[k] = placed[k] /\ runtime'[k] = runtime[k] /\ smoked'[k] = smoked[k]
        /\ retained'[k] = retained[k] /\ skill'[Root(k)] = skill[Root(k)] /\ receipt' = receipt
    BY <1>2, <2>1 DEF CheckExisting, Step, Installed, Verified, TypeOK
  <2>5. Stand(k)
    BY <2>1 DEF Standing
  <2>6. Root(k)' = Root(k)
    BY <2>4
  <2>7. Stand(k)'
    BY <2>3, <2>4, <2>5, <2>6 DEF Stand, Ends, Staged, Forward, Back, Done, Untouched, Aside,
      Undo, BeforeSwap, Swap, Installed, Verified
  <2> QED
    BY <2>1, <2>2, <2>7, MoverStands
<1>3. ASSUME NEW k \in Installs, Fetch(k) PROVE Standing'
  <2>1. stage[k] \in Working
    BY <1>3 DEF Fetch, Step, Working, BeforeSwap, Swap, Undo
  <2>2. Others(k)
    BY <1>3, <2>1 DEF Fetch, Step, Others, TypeOK
  <2>3. /\ stage[k] = "fetch" /\ stage'[k] = "smoke"
    BY <1>3, <2>1 DEF Fetch, Step, TypeOK
  <2>4. /\ job'[k] = job[k] /\ ending'[k] = ending[k] /\ before'[k] = before[k]
        /\ had'[k] = had[k] /\ placed'[k] = placed[k] /\ runtime'[k] = runtime[k]
        /\ smoked'[k] = smoked[k] /\ retained'[k] = retained[k]
        /\ skill'[Root(k)] = skill[Root(k)] /\ receipt' = receipt
    BY <1>3, <2>1 DEF Fetch, Step, TypeOK
  <2>5. Stand(k)
    BY <2>1 DEF Standing
  <2>6. Root(k)' = Root(k)
    BY <2>4
  <2>7. Stand(k)'
    BY <2>3, <2>4, <2>5, <2>6 DEF Stand, Ends, Staged, Forward, Back, Done, Untouched, Aside,
      Undo, BeforeSwap, Swap
  <2> QED
    BY <2>1, <2>2, <2>7, MoverStands
<1>4. ASSUME NEW k \in Installs, Smoke(k) PROVE Standing'
  <2>1. stage[k] \in Working
    BY <1>4 DEF Smoke, Step, Working, BeforeSwap, Swap, Undo
  <2>2. Others(k)
    BY <1>4, <2>1 DEF Smoke, Step, Others, TypeOK
  <2>3. /\ stage[k] = "smoke" /\ stage'[k] = "copy" /\ smoked'[k]
    BY <1>4, <2>1 DEF Smoke, Step, TypeOK
  <2>4. /\ job'[k] = job[k] /\ ending'[k] = ending[k] /\ before'[k] = before[k]
        /\ had'[k] = had[k] /\ placed'[k] = placed[k] /\ runtime'[k] = runtime[k]
        /\ retained'[k] = retained[k] /\ skill'[Root(k)] = skill[Root(k)] /\ receipt' = receipt
    BY <1>4, <2>1 DEF Smoke, Step, TypeOK
  <2>5. Stand(k)
    BY <2>1 DEF Standing
  <2>6. Root(k)' = Root(k)
    BY <2>4
  <2>7. Stand(k)'
    BY <2>3, <2>4, <2>5, <2>6 DEF Stand, Ends, Staged, Forward, Back, Done, Untouched, Aside,
      Undo, BeforeSwap, Swap
  <2> QED
    BY <2>1, <2>2, <2>7, MoverStands
<1>5. ASSUME NEW k \in Installs, FailBeforeSwap(k) PROVE Standing'
  <2>1. stage[k] \in Working
    BY <1>5 DEF FailBeforeSwap, Working, BeforeSwap, Swap, Undo
  <2>2. Others(k)
    BY <1>5, <2>1 DEF FailBeforeSwap, Fault, Others, TypeOK
  <2>3. /\ stage[k] \in BeforeSwap /\ stage'[k] = "finally" /\ ending'[k] = "failure"
    BY <1>5, <2>1 DEF FailBeforeSwap, TypeOK
  <2>4. /\ job'[k] = job[k] /\ before'[k] = before[k] /\ had'[k] = had[k]
        /\ placed'[k] = placed[k] /\ runtime'[k] = runtime[k] /\ smoked'[k] = smoked[k]
        /\ retained'[k] = retained[k] /\ skill'[Root(k)] = skill[Root(k)] /\ receipt' = receipt
    BY <1>5, <2>1 DEF FailBeforeSwap, TypeOK
  <2>5. Stand(k)
    BY <2>1 DEF Standing
  <2>6. Root(k)' = Root(k)
    BY <2>4
  <2>7. Stand(k)'
    BY <2>3, <2>4, <2>5, <2>6 DEF Stand, Ends, Staged, Forward, Back, Done, Untouched, Aside,
      Undo, BeforeSwap, Swap
  <2> QED
    BY <2>1, <2>2, <2>7, MoverStands
<1>6. ASSUME NEW k \in Installs, CopySkill(k) PROVE Standing'
  <2>1. stage[k] \in Working
    BY <1>6 DEF CopySkill, Step, Working, BeforeSwap, Swap, Undo
  <2>2. Others(k)
    BY <1>6, <2>1 DEF CopySkill, Step, Others, TypeOK
  <2>3. /\ stage[k] = "copy" /\ stage'[k] = "runtime" /\ (had'[k] <=> skill[Root(k)] # None)
    BY <1>6, <2>1 DEF CopySkill, Step, TypeOK
  <2>4. /\ job'[k] = job[k] /\ ending'[k] = ending[k] /\ before'[k] = before[k]
        /\ placed'[k] = placed[k] /\ runtime'[k] = runtime[k] /\ smoked'[k] = smoked[k]
        /\ retained'[k] = retained[k] /\ skill'[Root(k)] = skill[Root(k)] /\ receipt' = receipt
    BY <1>6, <2>1 DEF CopySkill, Step, TypeOK
  <2>5. Stand(k)
    BY <2>1 DEF Standing
  <2>6. Root(k)' = Root(k)
    BY <2>4
  <2>7. Stand(k)'
    BY <2>3, <2>4, <2>5, <2>6 DEF Stand, Ends, Staged, Forward, Back, Done, Untouched, Aside,
      Undo, BeforeSwap, Swap
  <2> QED
    BY <2>1, <2>2, <2>7, MoverStands
<1>7. ASSUME NEW k \in Installs, ActivateRuntime(k) PROVE Standing'
  <2>1. stage[k] \in Working
    BY <1>7 DEF ActivateRuntime, Step, Reused, Working, BeforeSwap, Swap, Undo
  <2>2. Others(k)
    BY <1>7, <2>1 DEF ActivateRuntime, Step, Reused, Others, TypeOK
  <2>3. /\ stage[k] = "runtime" /\ runtime'[k] = job[k].bundle
        /\ stage'[k] = IF Reused(k) THEN "commit" ELSE IF had[k] THEN "aside" ELSE "place"
    BY <1>7, <2>1 DEF ActivateRuntime, Step, Reused, TypeOK
  <2>4. /\ job'[k] = job[k] /\ ending'[k] = ending[k] /\ before'[k] = before[k]
        /\ had'[k] = had[k] /\ placed'[k] = placed[k] /\ smoked'[k] = smoked[k]
        /\ retained'[k] = retained[k] /\ skill'[Root(k)] = skill[Root(k)] /\ receipt' = receipt
    BY <1>7, <2>1 DEF ActivateRuntime, Step, Reused, TypeOK
  <2>5. Stand(k)
    BY <2>1 DEF Standing
  <2>6. Root(k)' = Root(k)
    BY <2>4
  <2>7. Stand(k)'
    BY <2>3, <2>4, <2>5, <2>6 DEF Stand, Ends, Staged, Forward, Back, Done, Untouched, Aside,
      Undo, BeforeSwap, Swap, Reused
  <2> QED
    BY <2>1, <2>2, <2>7, MoverStands
<1>8. ASSUME NEW k \in Installs, SetAside(k) PROVE Standing'
  <2>1. stage[k] \in Working
    BY <1>8 DEF SetAside, Step, Retain, Working, BeforeSwap, Swap, Undo
  <2>2. Others(k)
    BY <1>8, <2>1, JobType DEF SetAside, Step, Retain, Others, TypeOK
  <2>3. /\ stage[k] = "aside" /\ stage'[k] = "place"
        /\ retained'[k] = skill[Root(k)] /\ skill'[Root(k)] = None
    BY <1>8, <2>1, JobType DEF SetAside, Step, Retain, TypeOK
  <2>4. /\ job'[k] = job[k] /\ ending'[k] = ending[k] /\ before'[k] = before[k]
        /\ had'[k] = had[k] /\ placed'[k] = placed[k] /\ runtime'[k] = runtime[k]
        /\ smoked'[k] = smoked[k] /\ receipt' = receipt
    BY <1>8, <2>1, JobType DEF SetAside, Step, Retain, TypeOK
  <2>5. Stand(k)
    BY <2>1 DEF Standing
  <2>6. Root(k)' = Root(k)
    BY <2>4
  <2>7. Stand(k)'
    BY <2>3, <2>4, <2>5, <2>6 DEF Stand, Ends, Staged, Forward, Back, Done, Untouched, Aside,
      Undo, BeforeSwap, Swap
  <2> QED
    BY <2>1, <2>2, <2>7, MoverStands
<1>9. ASSUME NEW k \in Installs, Place(k) PROVE Standing'
  <2>1. stage[k] \in Working
    BY <1>9 DEF Place, Step, Working, BeforeSwap, Swap, Undo
  <2>2. Others(k)
    BY <1>9, <2>1, JobType DEF Place, Step, Others, TypeOK
  <2>3. /\ stage[k] = "place" /\ stage'[k] = "commit"
        /\ skill'[Root(k)] = job[k].bundle /\ placed'[k]
    BY <1>9, <2>1, JobType DEF Place, Step, TypeOK
  <2>4. /\ job'[k] = job[k] /\ ending'[k] = ending[k] /\ before'[k] = before[k]
        /\ had'[k] = had[k] /\ runtime'[k] = runtime[k] /\ smoked'[k] = smoked[k]
        /\ retained'[k] = retained[k] /\ receipt' = receipt
    BY <1>9, <2>1, JobType DEF Place, Step, TypeOK
  <2>5. Stand(k)
    BY <2>1 DEF Standing
  <2>6. Root(k)' = Root(k)
    BY <2>4
  <2>7. Stand(k)'
    BY <2>3, <2>4, <2>5, <2>6 DEF Stand, Ends, Staged, Forward, Back, Done, Untouched, Aside,
      Undo, BeforeSwap, Swap
  <2> QED
    BY <2>1, <2>2, <2>7, MoverStands
<1>10. ASSUME NEW k \in Installs, Commit(k) PROVE Standing'
  <2>1. stage[k] \in Working
    BY <1>10 DEF Commit, Step, Working, BeforeSwap, Swap, Undo
  <2>2. Others(k)
    BY <1>10, <2>1, JobType DEF Commit, Step, Others, TypeOK, NewReceipt
  <2>3. /\ stage[k] = "commit" /\ stage'[k] = "clean"
        /\ receipt' = NewReceipt(k) /\ receipt' # None /\ receipt'.bundle = job[k].bundle
    BY <1>10, <2>1, JobType DEF Commit, Step, TypeOK, NewReceipt
  <2>4. /\ job'[k] = job[k] /\ ending'[k] = ending[k] /\ before'[k] = before[k]
        /\ had'[k] = had[k] /\ placed'[k] = placed[k] /\ runtime'[k] = runtime[k]
        /\ smoked'[k] = smoked[k] /\ retained'[k] = retained[k]
        /\ skill'[Root(k)] = skill[Root(k)]
    BY <1>10, <2>1, JobType DEF Commit, Step, TypeOK
  <2>5. Stand(k)
    BY <2>1 DEF Standing
  <2>6. Root(k)' = Root(k)
    BY <2>4
  <2>7. Stand(k)'
    BY <2>3, <2>4, <2>5, <2>6 DEF Stand, Ends, Staged, Forward, Back, Done, Untouched, Aside,
      Undo, BeforeSwap, Swap, NewReceipt
  <2> QED
    BY <2>1, <2>2, <2>7, MoverStands
<1>11. ASSUME NEW k \in Installs, CleanUp(k) PROVE Standing'
  <2>1. stage[k] \in Working
    BY <1>11 DEF CleanUp, Step, Working, BeforeSwap, Swap, Undo
  <2>2. Others(k)
    BY <1>11, <2>1 DEF CleanUp, Step, Fault, Others, TypeOK
  <2>3. /\ stage[k] = "clean" /\ stage'[k] = "finally"
        /\ ending'[k] \in {"success", "late failure"}
    BY <1>11, <2>1 DEF CleanUp, Step, TypeOK
  <2>4. /\ job'[k] = job[k] /\ before'[k] = before[k] /\ had'[k] = had[k]
        /\ placed'[k] = placed[k] /\ runtime'[k] = runtime[k] /\ smoked'[k] = smoked[k]
        /\ skill'[Root(k)] = skill[Root(k)] /\ receipt' = receipt
    BY <1>11, <2>1 DEF CleanUp, Step, TypeOK
  <2>5. Stand(k)
    BY <2>1 DEF Standing
  <2>6. Root(k)' = Root(k)
    BY <2>4
  <2>7. Stand(k)'
    BY <2>3, <2>4, <2>5, <2>6 DEF Stand, Ends, Staged, Forward, Back, Done, Untouched, Aside,
      Undo, BeforeSwap, Swap
  <2> QED
    BY <2>1, <2>2, <2>7, MoverStands
<1>12. ASSUME NEW k \in Installs, Throw(k) PROVE Standing'
  <2>1. stage[k] \in Working
    BY <1>12 DEF Throw, Working, BeforeSwap, Swap, Undo
  <2>2. Others(k)
    BY <1>12, <2>1 DEF Throw, Fault, Others, TypeOK
  <2>3. /\ stage[k] \in Swap /\ stage'[k] = "remove" /\ ending'[k] = "failure"
    BY <1>12, <2>1 DEF Throw, TypeOK
  <2>4. /\ job'[k] = job[k] /\ before'[k] = before[k] /\ had'[k] = had[k]
        /\ placed'[k] = placed[k] /\ runtime'[k] = runtime[k] /\ smoked'[k] = smoked[k]
        /\ retained'[k] = retained[k] /\ skill'[Root(k)] = skill[Root(k)] /\ receipt' = receipt
    BY <1>12, <2>1 DEF Throw, TypeOK
  <2>5. Stand(k)
    BY <2>1 DEF Standing
  <2>6. Root(k)' = Root(k)
    BY <2>4
  <2>7. Stand(k)'
    BY <2>3, <2>4, <2>5, <2>6 DEF Stand, Ends, Staged, Forward, Back, Done, Untouched, Aside,
      Undo, BeforeSwap, Swap
  <2> QED
    BY <2>1, <2>2, <2>7, MoverStands
<1>13. ASSUME NEW k \in Installs, RemovePlaced(k) PROVE Standing'
  <2>1. stage[k] \in Working
    BY <1>13 DEF RemovePlaced, Step, WithoutPlaced, Working, BeforeSwap, Swap, Undo
  <2>2. Others(k)
    BY <1>13, <2>1, JobType DEF RemovePlaced, Step, Fault, WithoutPlaced, Others, TypeOK
  <2>3. /\ stage[k] = "remove" /\ stage'[k] = "restore"
        /\ \/ skill'[Root(k)] = WithoutPlaced(k) /\ ending'[k] = ending[k]
           \/ ending'[k] = "unclean failure"
    BY <1>13, <2>1, JobType DEF RemovePlaced, Step, WithoutPlaced, TypeOK
  <2>4. /\ job'[k] = job[k] /\ before'[k] = before[k] /\ had'[k] = had[k]
        /\ placed'[k] = placed[k] /\ runtime'[k] = runtime[k] /\ smoked'[k] = smoked[k]
        /\ retained'[k] = retained[k] /\ receipt' = receipt
    BY <1>13, <2>1, JobType DEF RemovePlaced, Step, WithoutPlaced, TypeOK
  <2>5. Stand(k)
    BY <2>1 DEF Standing
  <2>6. Root(k)' = Root(k)
    BY <2>4
  <2>7. Stand(k)'
    BY <2>3, <2>4, <2>5, <2>6 DEF Stand, Ends, Staged, Forward, Back, Done, Untouched, Aside,
      Undo, BeforeSwap, Swap, WithoutPlaced
  <2> QED
    BY <2>1, <2>2, <2>7, MoverStands
<1>14. ASSUME NEW k \in Installs, Restore(k) PROVE Standing'
  <2>1. stage[k] \in Working
    BY <1>14 DEF Restore, Step, Working, BeforeSwap, Swap, Undo
  <2>2. Others(k)
    BY <1>14, <2>1, JobType DEF Restore, Step, Fault, Others, TypeOK
  <2>3. /\ stage[k] = "restore"
        /\ \/ /\ stage'[k] = "discard" /\ ending'[k] = ending[k]
              /\ IF retained[k] = None
                 THEN skill'[Root(k)] = skill[Root(k)] /\ retained'[k] = retained[k]
                 ELSE /\ skill'[Root(k)] = IF skill[Root(k)] = None THEN retained[k] ELSE Broken
                      /\ retained'[k] = None
           \/ stage'[k] = "finally" /\ ending'[k] = "unclean failure"
    BY <1>14, <2>1, JobType DEF Restore, Step, TypeOK
  <2>4. /\ job'[k] = job[k] /\ before'[k] = before[k] /\ had'[k] = had[k]
        /\ placed'[k] = placed[k] /\ runtime'[k] = runtime[k] /\ smoked'[k] = smoked[k]
        /\ receipt' = receipt
    BY <1>14, <2>1, JobType DEF Restore, Step, TypeOK
  <2>5. Stand(k)
    BY <2>1 DEF Standing
  <2>6. Root(k)' = Root(k)
    BY <2>4
  <2>7. Stand(k)'
    BY <2>3, <2>4, <2>5, <2>6 DEF Stand, Ends, Staged, Forward, Back, Done, Untouched, Aside,
      Undo, BeforeSwap, Swap
  <2> QED
    BY <2>1, <2>2, <2>7, MoverStands
<1>15. ASSUME NEW k \in Installs, DiscardRuntime(k) PROVE Standing'
  <2>1. stage[k] \in Working
    BY <1>15 DEF DiscardRuntime, Step, Working, BeforeSwap, Swap, Undo
  <2>2. Others(k)
    BY <1>15, <2>1 DEF DiscardRuntime, Step, Fault, Others, TypeOK
  <2>3. /\ stage[k] = "discard" /\ stage'[k] = "finally" /\ runtime'[k] \in {None, Broken}
    BY <1>15, <2>1 DEF DiscardRuntime, Step, TypeOK
  <2>4. /\ job'[k] = job[k] /\ ending'[k] = ending[k] /\ before'[k] = before[k]
        /\ had'[k] = had[k] /\ placed'[k] = placed[k] /\ smoked'[k] = smoked[k]
        /\ retained'[k] = retained[k] /\ skill'[Root(k)] = skill[Root(k)] /\ receipt' = receipt
    BY <1>15, <2>1 DEF DiscardRuntime, Step, TypeOK
  <2>5. Stand(k)
    BY <2>1 DEF Standing
  <2>6. Root(k)' = Root(k)
    BY <2>4
  <2>7. Stand(k)'
    BY <2>3, <2>4, <2>5, <2>6 DEF Stand, Ends, Staged, Forward, Back, Done, Untouched, Aside,
      Undo, BeforeSwap, Swap
  <2> QED
    BY <2>1, <2>2, <2>7, MoverStands
<1>16. ASSUME NEW k \in Installs, Finally(k) PROVE Standing'
  <2>1. stage[k] \in Working
    BY <1>16 DEF Finally, Step, Release, Forget, Working, BeforeSwap, Swap, Undo
  <2>2. Others(k)
    BY <1>16, <2>1 DEF Finally, Step, Release, Forget, Others, TypeOK
  <2>3. stage'[k] \notin Working
    BY <1>16, <2>1 DEF Finally, Step, Release, Forget, TypeOK, Working, BeforeSwap, Swap, Undo
  <2> QED
    BY <2>1, <2>2, <2>3, MoverStands
<1>17. ASSUME NEW k \in Installs, Cancel(k) PROVE Standing'
  <2>1. stage[k] \in Working
    BY <1>17 DEF Cancel, Working, BeforeSwap, Swap, Undo
  <2>2. Others(k)
    BY <1>17, <2>1 DEF Cancel, Fault, Others, TypeOK
  <2>3. /\ stage'[k] = "finally" /\ ending'[k] = "cancelled"
    BY <1>17, <2>1 DEF Cancel, TypeOK
  <2>4. /\ job'[k] = job[k] /\ before'[k] = before[k] /\ had'[k] = had[k]
        /\ placed'[k] = placed[k] /\ runtime'[k] = runtime[k] /\ smoked'[k] = smoked[k]
        /\ retained'[k] = retained[k] /\ skill'[Root(k)] = skill[Root(k)] /\ receipt' = receipt
    BY <1>17, <2>1 DEF Cancel, TypeOK
  <2>5. Stand(k)
    BY <2>1 DEF Standing
  <2>6. Root(k)' = Root(k)
    BY <2>4
  <2>7. Stand(k)'
    BY <2>3, <2>4, <2>5, <2>6 DEF Stand, Ends, Staged, Forward, Back, Done, Untouched, Aside,
      Undo, BeforeSwap, Swap
  <2> QED
    BY <2>1, <2>2, <2>7, MoverStands
<1>18. ASSUME NEW k \in Installs, Crash(k) PROVE Standing'
  <2>1. stage[k] \in Working
    BY <1>18 DEF Crash, Forget, Working, BeforeSwap, Swap, Undo
  <2>2. Others(k)
    BY <1>18, <2>1 DEF Crash, Fault, Forget, Others, TypeOK
  <2>3. stage'[k] \notin Working
    BY <1>18, <2>1 DEF Crash, Forget, TypeOK, Working, BeforeSwap, Swap, Undo
  <2> QED
    BY <2>1, <2>2, <2>3, MoverStands
<1>19. CASE Damage
  <2>1. /\ UNCHANGED <<receipt, smoked, retained, stage, job, had, placed, before, ending>>
        /\ \A i \in Installs : stage[i] \in Working =>
             skill'[Root(i)] = skill[Root(i)] /\ runtime'[i] = runtime[i]
    <3>1. None \notin Installs /\ "ended" \notin Working
      BY InstallsAssumption, NoneAssumption DEF Working, BeforeSwap, Swap, Undo
    <3>2. \A i \in Installs : stage[i] \in Working => Root(i) \in Roots /\ lock[Root(i)] = i
      BY JobType DEF OneInstallPerRoot
    <3> QED
      BY <1>19, <3>1, <3>2 DEF Damage, TypeOK
  <2>2. \A i \in Installs : stage[i] \in Working => Same(i)
    BY <2>1 DEF Same
  <2> QED
    BY <2>1, <2>2, SameStands DEF Standing, Working, BeforeSwap, Swap, Undo
<1>20. CASE ReadReceipt \/ Start \/ Exit \/ UNCHANGED vars
  <2>1. \A i \in Installs : stage'[i] = stage[i] /\ Same(i)
    BY <1>20 DEF ReadReceipt, Start, Exit, vars, Same
  <2> QED
    BY <2>1, SameStands DEF Standing, Working, BeforeSwap, Swap, Undo
<1> QED
  BY <1>1, <1>2, <1>3, <1>4, <1>5, <1>6, <1>7, <1>8, <1>9, <1>10, <1>11, <1>12, <1>13, <1>14,
    <1>15, <1>16, <1>17, <1>18, <1>19, <1>20 DEF Next, Install

LEMMA InvInit == Init => IInv
<1> SUFFICES ASSUME Init PROVE IInv
  OBVIOUS
<1> USE DEF Init, ForAll, NotLaunched
<1>1. TypeOK
  BY MaxFaultsAssumption, Contents DEF TypeOK, Ending, Working, BeforeSwap, Swap, Undo
<1>2. OneInstallPerRoot /\ Standing
  BY InstallsAssumption, NoneAssumption
     DEF OneInstallPerRoot, Standing, Working, BeforeSwap, Swap, Undo
<1>3. NotBegun /\ Earned
  BY DEF NotBegun, Earned, Named
<1> QED
  BY <1>1, <1>2, <1>3 DEF IInv

LEMMA InvStep == IInv /\ [Next]_vars => IInv'
BY TypesStep, LockStep, NotBegunStep, EarnedStep, StandingStep DEF IInv

LEMMA Invariance == Spec => []IInv
BY InvInit, InvStep, PTL DEF Spec

-----------------------------------------------------------------------------
(* What follows from it.                                                   *)

\* Every variable has its type, whatever the installs do and wherever they stop.
THEOREM TypeCorrect == Spec => []TypeOK
<1>1. IInv => TypeOK
  BY DEF IInv
<1> QED
  BY Invariance, <1>1, PTL

\* The mutex of Enter-InstallerLock: of every root exactly one install is at work,
\* and no end of an install (return, throw, Ctrl-C, death) leaves its mutex held.
THEOREM OneInstallHoldsARoot == Spec => []OneInstallPerRoot
<1>1. IInv => OneInstallPerRoot
  BY DEF IInv
<1> QED
  BY Invariance, <1>1, PTL

\* What the receipt names was smoked and is never removed, not even by the install
\* that fails after it wrote it (receiptCommitted).
THEOREM ReceiptsAreEarned == Spec => []ReceiptIsEarned
<1>1. IInv => ReceiptIsEarned
  <2> SUFFICES ASSUME IInv, NEW rec \in {receipt, launch.receipt} \ {None}
               PROVE  smoked[rec.by] /\ runtime[rec.by] \in {rec.bundle, Broken}
    BY DEF ReceiptIsEarned
  <2>1. Named(rec)
    BY DEF IInv, Earned
  <2> QED
    BY <2>1 DEF Named
<1> QED
  BY Invariance, <1>1, PTL

\* The catch blocks of Install-VerifiedBundleAtomically undo the swap wherever it threw.
THEOREM FailuresRestore == Spec => []FailureRestores
<1>1. IInv => FailureRestores
  <2> SUFFICES ASSUME IInv, NEW i \in Installs, stage[i] = "finally", ending[i] = "failure"
               PROVE  /\ skill[Root(i)] = before[i] /\ retained[i] = None
                      /\ runtime[i] \in {None, Broken} /\ (receipt # None => receipt.by # i)
    BY DEF FailureRestores
  <2>1. Back(i)
    BY DEF IInv, Standing, Stand, Working
  <2>2. receipt # None => ending[receipt.by] # "failure"
    BY DEF IInv, Earned
  <2> QED
    BY <2>1, <2>2 DEF Back, Untouched
<1> QED
  BY Invariance, <1>1, PTL

\* Success is never reported of a Skill or of a receipt that is not the bundle's.
THEOREM SuccessIsInstalled == Spec => []SuccessMeansInstalled
<1>1. IInv => SuccessMeansInstalled
  BY DEF IInv, Standing, Stand, Done, Working, SuccessMeansInstalled
<1> QED
  BY Invariance, <1>1, PTL

\* In no stage of the swap or of its undoing is the old Skill nowhere.
THEOREM PreviousSkillSurvives == Spec => []PreviousSkillIsKept
<1>1. IInv => PreviousSkillIsKept
  <2> SUFFICES ASSUME IInv, NEW i \in Installs, stage[i] \in Swap \cup Undo,
                      ending[i] # "unclean failure"
               PROVE  before[i] \in {skill[Root(i)], retained[i]}
    BY DEF PreviousSkillIsKept
  <2>1. Ends(i) /\ Forward(i) /\ Back(i)
    BY DEF IInv, Standing, Stand, Working
  <2> QED
    BY <2>1 DEF Ends, Forward, Back, Untouched, Aside, Swap, Undo
<1> QED
  BY Invariance, <1>1, PTL

=============================================================================
