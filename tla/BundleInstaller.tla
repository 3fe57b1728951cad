--------------------------- MODULE BundleInstaller ---------------------------
(***************************************************************************)
(* The Windows installer of the execution bundle and the launcher of what  *)
(* it installed.  Every install is one process: it locks its install root, *)
(* stages and smokes a runtime, swaps the Skill below the install root and *)
(* commits by replacing the one receipt of the state root.  Any step may   *)
(* throw, the user may press Ctrl-C (catch blocks are skipped, finally     *)
(* blocks are not), the process may die (its mutex is then abandoned).     *)
(* Installs of different roots share the state root, and the launcher      *)
(* verifies and starts what the receipt names at any time.                 *)
(*                                                                         *)
(* Abstractions.  A directory is the bundle its content is of, or Broken.  *)
(* Download, extraction and payload verification are one step: what they   *)
(* leave is whole or they throw.  The staging directory and the copy of    *)
(* the Skill that is moved into place are read by no other process; what   *)
(* is left of them is not kept track of.  What is damaged is one of the    *)
(* files the launcher verifies, and no Skill is while an install works on  *)
(* its root.                                                               *)
(***************************************************************************)
EXTENDS Integers, FiniteSets

CONSTANTS
  Installs,   \* invocations of the installer, in the order they begin: 1..n
  Roots,      \* install roots that share one state root
  Bundles,    \* what an installer installs: the archive pinned in it
  None,       \* no directory, no receipt, no process
  Broken,     \* a directory whose content is not that of a bundle
  MaxFaults   \* exceptions, cancellations, crashes and damages that may happen

Content == Bundles \cup {None, Broken}
Job == [root : Roots, bundle : Bundles]
Receipt == [by : Installs, root : Roots, bundle : Bundles]

ASSUME InstallsAssumption == Installs \subseteq Nat
ASSUME NoneAssumption ==
  /\ None \notin Bundles \cup Nat /\ None \notin Job /\ None \notin Receipt
  /\ Broken \notin Bundles /\ None # Broken
ASSUME MaxFaultsAssumption == MaxFaults \in Nat

\* Before the swap nothing is to be undone; in the swap the catch block undoes it.
BeforeSwap == {"check", "fetch", "smoke", "copy"}
\* Mutant: receiptCommitted is not looked at.
SwapAndAfter == {"runtime", "aside", "place", "commit", "clean"}
Swap == {"runtime", "aside", "place", "commit"}
Undo == {"remove", "restore", "discard"}
Working == BeforeSwap \cup Swap \cup Undo \cup {"clean", "finally"}
Ending == {"none", "success", "late failure", "failure", "unclean failure", "cancelled"}

VARIABLES
  receipt, skill, lock,         \* of the state root; of every install root
  runtime, smoked, retained,    \* of every install: below runtime/, diagnostics/, the root
  stage, job, had, placed,      \* of every install: where it is, and its local memory
  ending, before, usable,       \* history: how it ends, and what it found
  faults, launch                \* so far; the launcher

disk == <<receipt, skill, runtime, smoked, retained>>
memory == <<job, had, placed, before, usable>>
vars == <<disk, lock, stage, memory, ending, faults, launch>>

At(f, x, value) == [f EXCEPT ![x] = value]
ForAll(value) == [i \in Installs |-> value]
Root(i) == job[i].root

NotLaunched == [phase |-> "idle", root |-> None, receipt |-> None]

Init ==
  /\ receipt = None /\ skill = [r \in Roots |-> None] /\ lock = [r \in Roots |-> None]
  /\ runtime = ForAll(None) /\ smoked = ForAll(FALSE) /\ retained = ForAll(None)
  /\ stage = ForAll("idle") /\ job = ForAll(None) /\ had = ForAll(FALSE) /\ placed = ForAll(FALSE)
  /\ ending = ForAll("none") /\ before = ForAll(None) /\ usable = ForAll(FALSE)
  /\ faults = 0 /\ launch = NotLaunched

\* What the receipt names is there, was smoked, and is what lies below the root.
Verified(r, rec) ==
  /\ rec # None /\ rec.root = r
  /\ runtime[rec.by] = rec.bundle /\ smoked[rec.by]
  /\ skill[r] = rec.bundle

-----------------------------------------------------------------------------
(* Invoke-CompleteExecutionInstaller                                       *)

Step(i, from, to) == stage[i] = from /\ stage' = At(stage, i, to)
Fault == faults < MaxFaults /\ faults' = faults + 1

\* Enter-InstallerLock does not wait.
Begin(i) ==
  /\ stage[i] = "idle" /\ \A j \in Installs : j < i => stage[j] # "idle"
  /\ \E j \in Job :
       IF lock[j.root] = None
       THEN /\ lock' = At(lock, j.root, i) /\ stage' = At(stage, i, "check")
            /\ job' = At(job, i, j) /\ before' = At(before, i, skill[j.root])
            /\ usable' = At(usable, i, Verified(j.root, receipt))
       ELSE /\ stage' = At(stage, i, "ended")
            /\ UNCHANGED <<lock, job, before, usable>>
  /\ UNCHANGED <<disk, had, placed, ending, faults, launch>>

\* Test-ExistingReceipt: the bundle is installed already.
Installed(i) == Verified(Root(i), receipt) /\ receipt.bundle = job[i].bundle

\* Without -Repair or -Force an installation is either kept or reported as damaged;
\* the removal of the drive alias can make the call fail.
CheckExisting(i) ==
  /\ stage[i] = "check"
  /\ \E repair \in BOOLEAN :
       IF repair \/ receipt = None
       THEN Step(i, "check", "fetch") /\ UNCHANGED <<ending, faults>>
       ELSE /\ Step(i, "check", "finally")
            /\ \/ /\ ending' = At(ending, i, IF Installed(i) THEN "success" ELSE "failure")
                  /\ UNCHANGED faults
               \/ Installed(i) /\ Fault /\ ending' = At(ending, i, "late failure")
  /\ UNCHANGED <<disk, lock, memory, launch>>

Fetch(i) ==
  /\ Step(i, "fetch", "smoke")
  /\ UNCHANGED <<disk, lock, memory, ending, faults, launch>>

Smoke(i) ==
  /\ Step(i, "smoke", "copy") /\ smoked' = At(smoked, i, TRUE)
  /\ UNCHANGED <<receipt, skill, runtime, retained, lock, memory, ending, faults, launch>>

\* What throws before the swap is left to the finally block.
FailBeforeSwap(i) ==
  /\ stage[i] \in BeforeSwap /\ Fault
  /\ stage' = At(stage, i, "finally") /\ ending' = At(ending, i, "failure")
  /\ UNCHANGED <<disk, lock, memory, launch>>

-----------------------------------------------------------------------------
(* Install-VerifiedBundleAtomically                                        *)

\* The Skill is kept if it is the bundle's.
Reused(i) == skill[Root(i)] = job[i].bundle

CopySkill(i) ==
  /\ Step(i, "copy", "runtime") /\ had' = At(had, i, skill[Root(i)] # None)
  /\ UNCHANGED <<disk, lock, job, placed, before, usable, ending, faults, launch>>

\* From the staging directory to the name the receipt will have.
ActivateRuntime(i) ==
  /\ Step(i, "runtime", IF Reused(i) THEN "commit" ELSE IF had[i] THEN "aside" ELSE "place")
  /\ runtime' = At(runtime, i, job[i].bundle)
  /\ UNCHANGED <<receipt, skill, smoked, retained, lock, memory, ending, faults, launch>>

\* Mutant: the old Skill is removed.
NotRetained(i) == retained
Retain(i) == At(retained, i, skill[Root(i)])

SetAside(i) ==
  /\ Step(i, "aside", "place")
  /\ retained' = Retain(i) /\ skill' = At(skill, Root(i), None)
  /\ UNCHANGED <<receipt, runtime, smoked, lock, memory, ending, faults, launch>>

Place(i) ==
  /\ Step(i, "place", "commit")
  /\ skill' = At(skill, Root(i), job[i].bundle) /\ placed' = At(placed, i, TRUE)
  /\ UNCHANGED <<receipt, runtime, smoked, retained, lock, job, had, before, usable, ending,
                 faults, launch>>

NewReceipt(i) == [by |-> i, root |-> Root(i), bundle |-> job[i].bundle]

\* Write-AtomicReceipt: the receipt of whichever root is replaced.
Commit(i) ==
  /\ Step(i, "commit", "clean") /\ receipt' = NewReceipt(i)
  /\ UNCHANGED <<skill, runtime, smoked, retained, lock, memory, ending, faults, launch>>

\* The Skill set aside is removed, if it can be; then the drive alias, or the call fails.
CleanUp(i) ==
  /\ Step(i, "clean", "finally")
  /\ \/ retained' = At(retained, i, None) /\ ending' = At(ending, i, "success") /\ UNCHANGED faults
     \/ Fault /\ UNCHANGED retained /\ ending' = At(ending, i, "success")
     \/ Fault /\ retained' = At(retained, i, None) /\ ending' = At(ending, i, "late failure")
  /\ UNCHANGED <<receipt, skill, runtime, smoked, lock, memory, launch>>

Throw(i) ==
  /\ stage[i] \in Swap /\ Fault
  /\ stage' = At(stage, i, "remove") /\ ending' = At(ending, i, "failure")
  /\ UNCHANGED <<disk, lock, memory, launch>>

\* Mutant: the Skill that was put into place is not removed.
NothingToRemove(i) == skill[Root(i)]
WithoutPlaced(i) == IF placed[i] THEN None ELSE skill[Root(i)]

\* Remove-Item of the new Skill; what it cannot remove it leaves silently.
RemovePlaced(i) ==
  /\ Step(i, "remove", "restore")
  /\ \/ skill' = At(skill, Root(i), WithoutPlaced(i)) /\ UNCHANGED <<faults, ending>>
     \/ /\ placed[i] /\ Fault
        /\ skill' = At(skill, Root(i), Broken) /\ ending' = At(ending, i, "unclean failure")
  /\ UNCHANGED <<receipt, runtime, smoked, retained, lock, memory, launch>>

\* Move-Item of the Skill set aside; a directory that is still there swallows it.
Restore(i) ==
  /\ \/ /\ Step(i, "restore", "discard")
        /\ IF retained[i] = None THEN UNCHANGED <<skill, retained>>
           ELSE /\ skill' = At(skill, Root(i),
                              IF skill[Root(i)] = None THEN retained[i] ELSE Broken)
                /\ retained' = At(retained, i, None)
        /\ UNCHANGED <<faults, ending>>
     \/ /\ Step(i, "restore", "finally") /\ retained[i] # None /\ Fault
        /\ ending' = At(ending, i, "unclean failure") /\ UNCHANGED <<skill, retained>>
  /\ UNCHANGED <<receipt, runtime, smoked, lock, memory, launch>>

DiscardRuntime(i) ==
  /\ Step(i, "discard", "finally")
  /\ \/ runtime' = At(runtime, i, None) /\ UNCHANGED faults
     \/ runtime[i] # None /\ runtime' = At(runtime, i, Broken) /\ Fault
  /\ UNCHANGED <<receipt, skill, smoked, retained, lock, memory, ending, launch>>

-----------------------------------------------------------------------------
(* finally, Ctrl-C and the death of the process                            *)

Release(i) == At(lock, Root(i), None)

\* The memory of the process is gone; usable is kept of what did not succeed.
Forget(i) ==
  /\ had' = At(had, i, FALSE) /\ placed' = At(placed, i, FALSE)
  /\ ending' = At(ending, i, "none") /\ before' = At(before, i, None)
  /\ usable' = At(usable, i, usable[i] /\ ending[i] # "success")

\* The staging directory is removed, if it can be, and the mutex released.
Finally(i) ==
  /\ Step(i, "finally", "ended") /\ lock' = Release(i) /\ Forget(i)
  /\ UNCHANGED <<disk, job, faults, launch>>

\* Ctrl-C: no catch block runs.
Cancel(i) ==
  /\ stage[i] \in Working \ {"finally"} /\ Fault
  /\ stage' = At(stage, i, "finally") /\ ending' = At(ending, i, "cancelled")
  /\ UNCHANGED <<disk, lock, memory, launch>>

\* An abandoned mutex is acquired by whoever asks for it next.
Crash(i) ==
  /\ stage[i] \in Working /\ Fault
  /\ stage' = At(stage, i, "ended") /\ lock' = At(lock, Root(i), None) /\ Forget(i)
  /\ UNCHANGED <<disk, job, launch>>

\* A user or another program changes what was installed; no install is to blame for that.
Damage ==
  /\ Fault /\ usable' = ForAll(FALSE)
  /\ \/ \E i \in Installs : /\ runtime[i] \in Bundles /\ stage[i] = "ended"
                            /\ runtime' = At(runtime, i, Broken) /\ UNCHANGED skill
     \/ \E r \in Roots : /\ skill[r] \in Bundles /\ lock[r] = None
                         /\ skill' = At(skill, r, Broken) /\ UNCHANGED runtime
  /\ UNCHANGED <<receipt, smoked, retained, lock, stage, job, had, placed, before, ending, launch>>

-----------------------------------------------------------------------------
(* verifyInstalledRuntime and forwardInstalledRunnerCommand                *)

ReadReceipt ==
  /\ launch.phase = "idle" /\ receipt # None
  /\ \E r \in Roots : launch' = [phase |-> "read", root |-> r, receipt |-> receipt]
  /\ UNCHANGED <<disk, lock, stage, memory, ending, faults>>

\* What is verified after the receipt was read is what it named then.
Start ==
  /\ launch.phase = "read"
  /\ launch' = IF Verified(launch.root, launch.receipt)
               THEN [phase |-> "running", root |-> launch.root, receipt |-> launch.receipt]
               ELSE NotLaunched
  /\ UNCHANGED <<disk, lock, stage, memory, ending, faults>>

Exit ==
  /\ launch.phase = "running"
  /\ launch' = NotLaunched
  /\ UNCHANGED <<disk, lock, stage, memory, ending, faults>>

-----------------------------------------------------------------------------

Install(i) ==
  \/ Begin(i) \/ CheckExisting(i) \/ Fetch(i) \/ Smoke(i) \/ FailBeforeSwap(i)
  \/ CopySkill(i) \/ ActivateRuntime(i) \/ SetAside(i) \/ Place(i) \/ Commit(i) \/ CleanUp(i)
  \/ Throw(i) \/ RemovePlaced(i) \/ Restore(i) \/ DiscardRuntime(i) \/ Finally(i)
  \/ Cancel(i) \/ Crash(i)

Next == (\E i \in Installs : Install(i)) \/ Damage \/ ReadReceipt \/ Start \/ Exit

Spec == Init /\ [][Next]_vars

-----------------------------------------------------------------------------
(* Properties                                                              *)

\* Every variable has its type; the receipt records the job of its install.
TypeOK ==
  /\ receipt \in Receipt \cup {None} /\ (receipt # None => Root(receipt.by) = receipt.root)
  /\ skill \in [Roots -> Content] /\ lock \in [Roots -> Installs \cup {None}]
  /\ runtime \in [Installs -> Content] /\ retained \in [Installs -> Content]
  /\ smoked \in [Installs -> BOOLEAN]
  /\ stage \in [Installs -> Working \cup {"idle", "ended"}]
  /\ job \in [Installs -> Job \cup {None}]
  /\ \A i \in Installs : stage[i] \in Working => job[i] # None
  /\ had \in [Installs -> BOOLEAN] /\ placed \in [Installs -> BOOLEAN]
  /\ ending \in [Installs -> Ending] /\ before \in [Installs -> Content]
  /\ usable \in [Installs -> BOOLEAN] /\ faults \in 0..MaxFaults
  /\ launch \in [phase : {"idle", "read", "running"}, root : Roots \cup {None},
                 receipt : Receipt \cup {None}]
  /\ launch.phase # "idle" => launch.receipt # None

\* The mutex: exactly the installs at work hold the one of their root, however they end.
OneInstallPerRoot ==
  \A i \in Installs : \A r \in Roots : lock[r] = i <=> stage[i] \in Working /\ Root(i) = r

\* The runtime that the receipt names, or that a launcher read of and runs, passed
\* the smoke test and stays: no install that fails, is cancelled or dies removes it
\* (receiptCommitted, retained runtimes).
ReceiptIsEarned ==
  \A rec \in {receipt, launch.receipt} \ {None} :
    smoked[rec.by] /\ runtime[rec.by] \in {rec.bundle, Broken}

\* An exception leaves everything as it was: Skill, receipt, runtimes, unless the
\* rollback itself could not remove or move something.
FailureRestores ==
  \A i \in Installs : stage[i] = "finally" /\ ending[i] = "failure" =>
    /\ skill[Root(i)] = before[i] /\ retained[i] = None /\ runtime[i] \in {None, Broken}
    /\ receipt # None => receipt.by # i

\* Success is reported only of what lies below the install root, and of a receipt
\* for it, unless an install of another root has replaced the receipt.
SuccessMeansInstalled ==
  \A i \in Installs : stage[i] = "finally" /\ ending[i] = "success" =>
    /\ skill[Root(i)] = job[i].bundle /\ receipt # None
    /\ receipt.root = Root(i) => receipt.bundle = job[i].bundle

\* Wherever in the swap the process is stopped, the Skill that was there is
\* somewhere below the root, unless the rollback could not move it back.
PreviousSkillIsKept ==
  \A i \in Installs : stage[i] \in Swap \cup Undo /\ ending[i] # "unclean failure" =>
    before[i] \in {skill[Root(i)], retained[i]}

\* docs/superpowers/specs/2026-07-18-eighth-skill-complete-installation-design.md:66:
\* "Existing verified installations remain usable after a failed update."  TLC refutes it, so
\* that no run checks it (README, "What the code does not promise").
ExistingStaysUsable ==
  \A i \in Installs :
    stage[i] = "ended" /\ usable[i] /\ (\A j \in Installs : j > i => stage[j] = "idle")
      => Verified(Root(i), receipt)
=============================================================================
