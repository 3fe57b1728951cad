-------------------------- MODULE AssetHistoryProofs --------------------------
(***************************************************************************)
(* For any identities, findings, number of scans and stops: what finalize  *)
(* delivers is of one run; every lineage is rebuilt from its batches as it *)
(* was written; and the history it tells is what happened.                 *)
(*                                                                         *)
(* The first invariant (IInv) is about the files, and of a lineage only    *)
(* its being copied from file to file matters.  The second (HistoryInv)    *)
(* is about the lineages: Good, which a batch preserves (BatchIsGood).     *)
(*                                                                         *)
(* The second half is about the chains of ChainRecovery: for any functions *)
(* and wrappers, a chain tells the way through its function, and what      *)
(* follows on the two outcomes of a condition is kept apart.               *)
(***************************************************************************)
EXTENDS ChainRecovery, AssetHistory, SequenceTheorems, WellFoundedInduction, TLAPS

\* The runs of the files come one after another: cognition-input.json is the last file of
\* a scan, and a cognition is of what it was written from.
Ordered ==
  /\ cognition.run \in Nat /\ input.run \in Nat /\ runData.run \in Nat /\ scans \in Nat
  /\ cognition.run <= input.run /\ input.run <= runData.run /\ runData.run <= scans

\* Once the input is of the run of run-data, so is the lineage.
Synced == runData # None /\ input.run = runData.run => lineageFile.lineage = runData.lineage

\* A command at work has these fields.
JobOf(j) ==
  [command |-> j.command, left |-> j.left, run |-> j.run, lineage |-> j.lineage,
   shown |-> j.shown, presented |-> j.presented, facts |-> j.facts, stage4 |-> j.stage4,
   excel |-> j.excel, word |-> j.word]

\* A scan that is about to write its i-th file.
ScanStage(i) ==
  /\ job = JobOf(job) /\ job.left = SubSeq(ScanFiles, i, 5)
  /\ job.run = scans /\ input.run < job.run /\ job.lineage = job.stage4
  /\ IF i = 1 THEN runData.run < job.run
     ELSE runData.run = job.run /\ runData.lineage = job.stage4
  /\ i >= 3 => lineageFile.lineage = job.lineage

\* A finalize that is about to write its i-th file.
FinalizeStage(i) ==
  /\ job = JobOf(job) /\ job.left = SubSeq(FinalizeFiles, i, 6)
  /\ job.lineage = job.stage4 /\ lineageFile.lineage = job.lineage
  /\ runData.run = job.run /\ runData.lineage = job.stage4 /\ runData.facts = job.facts
  /\ job.word.fingerprint = Fingerprint(job.run, job.shown)
  /\ job.excel.fingerprint = Fingerprint(job.run, job.shown)
  /\ job.shown \subseteq job.presented
  /\ i >= 2 => runData.shown = job.shown
  /\ i >= 3 => EvidenceIsDerived(runData, job.lineage)
  /\ i >= 4 => lineageFile.presented = job.presented
  /\ i >= 5 => excel = job.excel
  /\ i >= 6 => word = job.word

Working ==
  /\ job.command \in {"none", "finalized", "scan", "finalize"}
  /\ job.command = "scan" => \E i \in 1..5 : ScanStage(i)
  /\ job.command = "finalize" => \E i \in 1..6 : FinalizeStage(i)

IInv == Ordered /\ Synced /\ Working /\ FinalizedIsOneRun

-----------------------------------------------------------------------------
LEMMA SuffixOf ==
  ASSUME NEW n \in Nat, NEW S, NEW s \in Seq(S), Len(s) = n, NEW i \in 1..n
  PROVE  /\ Head(SubSeq(s, i, n)) = s[i] /\ (Len(SubSeq(s, i, n)) > 1) = (i < n)
         /\ i < n => Tail(SubSeq(s, i, n)) = SubSeq(s, i + 1, n)
<1> DEFINE t == SubSeq(s, i, n)
<1>1. /\ t \in Seq(S) /\ Len(t) = n - i + 1
      /\ \A k \in 1..Len(t) : t[k] = s[i + k - 1]
  BY SubSeqProperties
<1>2. Head(t) = s[i]
  BY <1>1
<1>3. ASSUME i < n
      PROVE  Tail(t) = SubSeq(s, i + 1, n)
  <2> DEFINE u == SubSeq(s, i + 1, n)
  <2>1. /\ u \in Seq(S) /\ Len(u) = n - i
        /\ \A k \in 1..Len(u) : u[k] = s[i + k]
    BY <1>3, SubSeqProperties
  <2>2. /\ Tail(t) \in Seq(S) /\ Len(Tail(t)) = n - i
        /\ \A k \in 1..Len(Tail(t)) : Tail(t)[k] = t[k + 1]
    <3> HIDE DEF t, u
    <3>1. Len(t) > 1 /\ t # <<>> BY <1>1, <1>3
    <3> QED BY <1>1, <3>1, HeadTailProperties
  <2>3. \A k \in 1..(n - i) : Tail(t)[k] = u[k]
    BY <1>1, <1>3, <2>1, <2>2
  <2> HIDE DEF t, u
  <2> QED
    BY <2>1, <2>2, <2>3, SeqEqual DEF u
<1> QED
  BY <1>1, <1>2, <1>3

LEMMA FilesAre ==
  /\ ScanFiles \in Seq({"run-data", "lineage", "excel", "word", "input"})
  /\ Len(ScanFiles) = 5
  /\ FinalizeFiles \in Seq({"run-data", "views", "lineage", "excel", "word", "documents"})
  /\ Len(FinalizeFiles) = 6
BY DEF ScanFiles, FinalizeFiles

\* The file that is written next, and what is left then.
LEMMA ScanFile ==
  ASSUME NEW i \in 1..5, job.left = SubSeq(ScanFiles, i, 5)
  PROVE  /\ Head(job.left) = ScanFiles[i] /\ (Len(job.left) > 1) = (i < 5)
         /\ i < 5 => Tail(job.left) = SubSeq(ScanFiles, i + 1, 5)
BY FilesAre, SuffixOf

LEMMA FinalizeFile ==
  ASSUME NEW i \in 1..6, job.left = SubSeq(FinalizeFiles, i, 6)
  PROVE  /\ Head(job.left) = FinalizeFiles[i] /\ (Len(job.left) > 1) = (i < 6)
         /\ i < 6 => Tail(job.left) = SubSeq(FinalizeFiles, i + 1, 6)
BY FilesAre, SuffixOf

\* A file less is left, and nothing else changes of a command at work.
LEMMA OneFileLess ==
  ASSUME job = JobOf(job), job' = [job EXCEPT !.left = Tail(@)]
  PROVE  /\ job' = JobOf(job') /\ job'.left = Tail(job.left) /\ job'.command = job.command
         /\ job'.run = job.run /\ job'.lineage = job.lineage /\ job'.shown = job.shown
         /\ job'.presented = job.presented /\ job'.facts = job.facts
         /\ job'.stage4 = job.stage4 /\ job'.excel = job.excel /\ job'.word = job.word
BY DEF JobOf

LEMMA InitOK == Init => IInv
BY DEF Init, None, NoJob, IInv, Ordered, Synced, Working, FinalizedIsOneRun

-----------------------------------------------------------------------------
(* The files of a scan.                                                     *)

LEMMA ScanWrites ==
  ASSUME IInv, WriteFile, job.command = "scan"
  PROVE  IInv'
<1>1. PICK i \in 1..5 : ScanStage(i)
  BY DEF IInv, Working
<1>2. /\ Head(job.left) = ScanFiles[i] /\ (Len(job.left) > 1) = (i < 5)
      /\ i < 5 => Tail(job.left) = SubSeq(ScanFiles, i + 1, 5)
  BY <1>1, ScanFile DEF ScanStage
<1>3. ScanFiles[i] # "views" /\ ScanFiles[i] # "documents"
  BY DEF ScanFiles
<1>4. /\ runData' = IF ScanFiles[i] = "run-data"
                     THEN [run |-> job.run, facts |-> job.facts, lineage |-> job.stage4,
                           shown |-> job.shown]
                     ELSE runData
      /\ lineageFile' = IF ScanFiles[i] = "lineage"
                         THEN [lineage |-> job.lineage, presented |-> job.presented]
                         ELSE lineageFile
      /\ input' = IF ScanFiles[i] = "input"
                   THEN [run |-> job.run, shown |-> DOMAIN job.lineage.entities] ELSE input
      /\ UNCHANGED <<scans, cognition>>
      /\ i < 5 => job' = [job EXCEPT !.left = Tail(@)]
      /\ i = 5 => job' = [NoJob EXCEPT !.command = "none"]
  BY <1>2, <1>3 DEF WriteFile
<1> USE DEF IInv, Ordered, Synced, ScanStage
<1>5. ASSUME i < 5
      PROVE  Working' /\ FinalizedIsOneRun'
  <2>1. job' = [job EXCEPT !.left = Tail(@)] /\ job = JobOf(job)
    BY <1>1, <1>4, <1>5
  <2>2. /\ job' = JobOf(job') /\ job'.left = SubSeq(ScanFiles, i + 1, 5)
        /\ job'.command = "scan"
        /\ job'.run = job.run /\ job'.lineage = job.lineage /\ job'.stage4 = job.stage4
    BY <1>2, <1>5, <2>1, OneFileLess
  <2>3. ScanStage(i + 1)'
    <3>1. /\ i = 1 <=> ScanFiles[i] = "run-data"
          /\ i = 2 <=> ScanFiles[i] = "lineage"
          /\ ScanFiles[i] # "input"
      BY <1>5 DEF ScanFiles
    <3> QED
      BY <1>1, <1>4, <2>2, <3>1 DEF JobOf
  <2>4. i + 1 \in 1..5
    BY <1>5
  <2> QED
    BY <2>2, <2>3, <2>4 DEF Working, FinalizedIsOneRun
<1>6. ASSUME i = 5
      PROVE  Working' /\ FinalizedIsOneRun'
  <2>1. job'.command = "none"
    BY <1>4, <1>6 DEF NoJob
  <2> QED
    BY <2>1 DEF Working, FinalizedIsOneRun
<1>7. Ordered' /\ Synced'
  <2>1. CASE i = 1
    <3>1. /\ runData'.run = job.run /\ input' = input
      BY <1>4, <2>1 DEF ScanFiles
    <3> QED
      BY <1>1, <1>4, <2>1, <3>1
  <2>2. CASE i = 2
    <3>1. /\ runData' = runData /\ input' = input
      BY <1>4, <2>2 DEF ScanFiles
    <3> QED
      BY <1>1, <1>4, <2>2, <3>1
  <2>3. CASE i \in {3, 4}
    <3>1. runData' = runData /\ input' = input /\ lineageFile' = lineageFile
      BY <1>4, <2>3 DEF ScanFiles
    <3> QED
      BY <1>1, <1>4, <2>3, <3>1
  <2>4. CASE i = 5
    <3>1. /\ runData' = runData /\ input'.run = job.run /\ lineageFile' = lineageFile
      BY <1>4, <2>4 DEF ScanFiles
    <3> QED
      BY <1>1, <1>4, <2>4, <3>1
  <2> QED
    BY <2>1, <2>2, <2>3, <2>4
<1> QED
  BY <1>5, <1>6, <1>7

-----------------------------------------------------------------------------
(* The files of finalize.                                                   *)

\* No file of finalize changes what orders the runs.
LEMMA FinalizeKeepsRuns ==
  ASSUME IInv, NEW i \in 1..6, FinalizeStage(i),
         runData' = runData \/ (runData'.run = job.run /\ runData'.lineage = job.stage4),
         lineageFile' = lineageFile \/ lineageFile'.lineage = job.lineage,
         UNCHANGED <<input, scans, cognition>>
  PROVE  Ordered' /\ Synced'
BY DEF IInv, Ordered, Synced, FinalizeStage

LEMMA FinalizeWrites ==
  ASSUME IInv, WriteFile, job.command = "finalize"
  PROVE  IInv'
<1>1. PICK i \in 1..6 : FinalizeStage(i)
  BY DEF IInv, Working
<1> DEFINE file == FinalizeFiles[i]
           rejected == file = "views" /\ ~EvidenceIsDerived(runData, job.lineage)
<1>2. /\ Head(job.left) = file /\ (Len(job.left) > 1) = (i < 6)
      /\ i < 6 => Tail(job.left) = SubSeq(FinalizeFiles, i + 1, 6)
  BY <1>1, FinalizeFile DEF FinalizeStage
<1>3. /\ file = "run-data" <=> i = 1
      /\ file = "views" <=> i = 2
      /\ file = "lineage" <=> i = 3
      /\ file = "excel" <=> i = 4
      /\ file = "word" <=> i = 5
      /\ file = "documents" <=> i = 6
      /\ file # "input"
  BY DEF FinalizeFiles
<1> HIDE DEF file
<1>4. /\ runData' = IF i = 1
                     THEN [run |-> job.run, facts |-> job.facts, lineage |-> job.stage4,
                           shown |-> job.shown]
                     ELSE runData
      /\ lineageFile' = IF i = 3 THEN [lineage |-> job.lineage, presented |-> job.presented]
                         ELSE lineageFile
      /\ excel' = IF i = 4 THEN job.excel ELSE excel
      /\ word' = IF i = 5 THEN job.word ELSE word
      /\ documents' = IF i = 6 THEN [word |-> word, excel |-> excel] ELSE documents
      /\ UNCHANGED <<input, scans, cognition>>
      /\ job' = IF rejected THEN NoJob
                ELSE IF i < 6 THEN [job EXCEPT !.left = Tail(@)]
                ELSE [NoJob EXCEPT !.command = "finalized"]
  BY <1>2, <1>3 DEF WriteFile
<1>5. Ordered' /\ Synced'
  BY <1>1, <1>4, FinalizeKeepsRuns
<1>6. CASE rejected
  <2>1. job'.command = "none"
    BY <1>4, <1>6 DEF NoJob
  <2> QED
    BY <1>5, <2>1 DEF IInv, Working, FinalizedIsOneRun
<1>7. CASE ~rejected /\ i < 6
  <2>1. job' = [job EXCEPT !.left = Tail(@)] /\ job = JobOf(job)
    BY <1>1, <1>4, <1>7 DEF FinalizeStage
  <2>2. /\ job' = JobOf(job') /\ job'.left = SubSeq(FinalizeFiles, i + 1, 6)
        /\ job'.command = "finalize"
        /\ job'.run = job.run /\ job'.lineage = job.lineage /\ job'.shown = job.shown
        /\ job'.presented = job.presented /\ job'.facts = job.facts
        /\ job'.stage4 = job.stage4 /\ job'.excel = job.excel /\ job'.word = job.word
    BY <1>2, <1>7, <2>1, OneFileLess
  <2>3. /\ lineageFile'.lineage = job.lineage
        /\ runData'.run = job.run /\ runData'.lineage = job.stage4 /\ runData'.facts = job.facts
        /\ runData'.shown = job.shown
    BY <1>1, <1>4 DEF FinalizeStage
  <2>4. i >= 2 => EvidenceIsDerived(runData, job.lineage) /\ runData' = runData
    BY <1>1, <1>3, <1>4, <1>7 DEF FinalizeStage
  <2>5. i + 1 >= 3 => EvidenceIsDerived(runData', job'.lineage)
    BY <2>2, <2>4
  <2>6. /\ i + 1 >= 4 => lineageFile'.presented = job.presented
        /\ i + 1 >= 5 => excel' = job.excel
        /\ i + 1 >= 6 => word' = job.word
    BY <1>1, <1>4 DEF FinalizeStage
  <2>7. FinalizeStage(i + 1)'
    <3>1. /\ job.lineage = job.stage4 /\ job.shown \subseteq job.presented
          /\ job.word.fingerprint = Fingerprint(job.run, job.shown)
          /\ job.excel.fingerprint = Fingerprint(job.run, job.shown)
      BY <1>1 DEF FinalizeStage
    <3>2. (EvidenceIsDerived(runData, job.lineage))' <=> EvidenceIsDerived(runData', job'.lineage)
      BY DEF EvidenceIsDerived
    <3> QED
      BY <2>2, <2>3, <2>5, <2>6, <3>1, <3>2 DEF FinalizeStage, Fingerprint, JobOf
  <2>8. i + 1 \in 1..6
    BY <1>7
  <2> QED
    BY <1>5, <2>2, <2>7, <2>8 DEF IInv, Working, FinalizedIsOneRun
<1>8. CASE ~rejected /\ i = 6
  <2>1. job'.command = "finalized"
    BY <1>4, <1>8 DEF NoJob
  <2>2. /\ UNCHANGED <<runData, lineageFile>> /\ documents' = [word |-> word, excel |-> excel]
    BY <1>4, <1>8
  <2>3. FinalizedIsOneRun'
    BY <1>1, <1>8, <2>2 DEF FinalizedIsOneRun, FinalizeStage, EvidenceIsDerived, Fingerprint
  <2> QED
    BY <1>5, <2>1, <2>3 DEF IInv, Working
<1> QED
  BY <1>6, <1>7, <1>8

-----------------------------------------------------------------------------
(* The beginnings of the commands, and their ends before the time.          *)

LEMMA IntegrateStep ==
  ASSUME IInv, NEW found, NEW incremental, Integrate(found, incremental)
  PROVE  IInv'
<1>1. /\ job'.command = "scan" /\ job'.left = ScanFiles /\ job'.run = scans + 1
      /\ job' = JobOf(job') /\ job'.lineage = job'.stage4
      /\ scans' = scans + 1 /\ UNCHANGED <<runData, lineageFile, input, cognition>>
  BY DEF Integrate, JobOf, files
<1>2. SubSeq(ScanFiles, 1, 5) = ScanFiles
  BY FilesAre, SubSeqFull
<1>3. Ordered' /\ Synced'
  BY <1>1 DEF IInv, Ordered, Synced
<1>4. ScanStage(1)'
  BY <1>1, <1>2 DEF ScanStage, IInv, Ordered, JobOf, ScanFiles
<1> QED
  BY <1>1, <1>3, <1>4 DEF IInv, Working, FinalizedIsOneRun

\* finalize reads the lineage of the run of run-data, by the cognition's run.
LEMMA FinalizeBegins ==
  ASSUME IInv, Finalize
  PROVE  IInv'
<1>1. /\ job'.command = "finalize" /\ job'.left = FinalizeFiles /\ job' = JobOf(job')
      /\ job'.run = runData.run /\ job'.lineage = lineageFile.lineage
      /\ job'.stage4 = runData.lineage /\ job'.facts = runData.facts
      /\ job'.word.fingerprint = Fingerprint(job'.run, job'.shown)
      /\ job'.excel.fingerprint = Fingerprint(job'.run, job'.shown)
      /\ job'.shown \subseteq job'.presented
      /\ UNCHANGED <<runData, lineageFile, input, cognition, scans>>
  BY DEF Finalize, JobOf, files, BuildWordProjection, BuildExcelProjection, ApplyCognition
<1>2. cognition.run = runData.run /\ runData # None
  BY DEF Finalize, CognitionIsValid
<1>3. lineageFile.lineage = runData.lineage
  BY <1>2 DEF IInv, Ordered, Synced
<1>4. SubSeq(FinalizeFiles, 1, 6) = FinalizeFiles
  BY FilesAre, SubSeqFull
<1>5. Ordered' /\ Synced'
  BY <1>1 DEF IInv, Ordered, Synced
<1>6. FinalizeStage(1)'
  BY <1>1, <1>3, <1>4 DEF FinalizeStage, JobOf, FinalizeFiles, Fingerprint
<1> QED
  BY <1>1, <1>5, <1>6 DEF IInv, Working, FinalizedIsOneRun

LEMMA WriteCognitionStep ==
  ASSUME IInv, NEW shown, WriteCognition(shown)
  PROVE  IInv'
<1>1. /\ cognition'.run = input.run /\ Idle
      /\ UNCHANGED <<runData, lineageFile, documents, input, scans, job>>
  BY DEF WriteCognition, files
<1>2. Ordered' /\ Synced' /\ FinalizedIsOneRun'
  BY <1>1 DEF IInv, Ordered, Synced, FinalizedIsOneRun, EvidenceIsDerived
<1>3. Working'
  BY <1>1 DEF IInv, Working, Idle
<1> QED
  BY <1>2, <1>3 DEF IInv

LEMMA CrashStep ==
  ASSUME IInv, Crash
  PROVE  IInv'
BY DEF Crash, files, NoJob, IInv, Ordered, Synced, Working, FinalizedIsOneRun

LEMMA StepOK == IInv /\ [Next]_vars => IInv'
<1> SUFFICES ASSUME IInv, [Next]_vars
             PROVE  IInv'
  OBVIOUS
<1>1. CASE UNCHANGED vars
  BY <1>1 DEF vars, files, IInv, Ordered, Synced, Working, ScanStage, FinalizeStage, JobOf,
    FinalizedIsOneRun, EvidenceIsDerived, Fingerprint
<1>2. CASE WriteFile
  BY <1>2, ScanWrites, FinalizeWrites DEF WriteFile, Idle, IInv, Working
<1> QED
  BY <1>1, <1>2, IntegrateStep, FinalizeBegins, WriteCognitionStep, CrashStep DEF Next

\* What finalize has delivered is of one run and rests on its facts, for any findings, any
\* number of scans and finalizes and any files at which one of them stopped: the input of
\* the cognition is written last, and its run is compared (bin/finalize.mjs, collector.mjs).
THEOREM DeliversOneRun == Spec => []FinalizedIsOneRun
<1>1. IInv => FinalizedIsOneRun
  BY DEF IInv
<1> QED
  BY <1>1, InitOK, StepOK, PTL DEF Spec

-----------------------------------------------------------------------------
(* What is built step by step.                                              *)

\* Every nonempty set of numbers has a least one.
LEMMA Least ==
  ASSUME NEW T, T \subseteq Nat, T # {}
  PROVE  \E m \in T : \A n \in T : m <= n
<1> DEFINE R == {ss \in Nat \X Nat : ss[1] < ss[2]}
<1>1. IsWellFoundedOn(R, Nat)
  BY NatLessThanWellFounded DEF OpToRel
<1>2. PICK m \in T : \A n \in T : <<n, m>> \notin R
  <2> HIDE DEF R
  <2> QED
    BY <1>1, WFMin
<1>3. ASSUME NEW n \in T PROVE m <= n
  <2>1. ~(<<n, m>>[1] < <<n, m>>[2])
    BY <1>2
  <2>2. m \in Nat /\ n \in Nat /\ ~(n < m)
    BY <2>1
  <2> QED
    BY <2>2
<1> QED
  BY <1>3

\* What holds of 0 and of the next number holds of all.
LEMMA Induction ==
  ASSUME NEW n \in Nat, NEW T, 0 \in T, \A k \in 1..n : k - 1 \in T => k \in T
  PROVE  \A k \in 0..n : k \in T
<1> DEFINE Missing == {k \in 0..n : k \notin T}
<1> SUFFICES ASSUME Missing # {}
             PROVE  FALSE
  OBVIOUS
<1>1. PICK m \in Missing : \A k \in Missing : m <= k
  <2>1. Missing \subseteq Nat
    OBVIOUS
  <2> HIDE DEF Missing
  <2> QED
    BY <2>1, Least
<1>2. m \in 1..n /\ m \notin T
  BY <1>1
<1>3. m - 1 \in 0..n /\ m - 1 \notin Missing
  BY <1>1, <1>2
<1> QED
  BY <1>2, <1>3

\* The lineages between the first and the last candidate of a batch.
Steps(f, lineage, snapshot) ==
  /\ f[0] = Begun(lineage)
  /\ \A k \in 1..Len(Identities) :
       f[k] = Applied(f[k - 1], Identities[k], snapshot, Len(lineage.batches) + 1)

LEMMA ApplyBatchSteps ==
  ASSUME NEW l, NEW s
  PROVE  \E f : Steps(f, l, s) /\ ApplyBatch(l, s) = f[Len(Identities)]
<1> DEFINE N == Len(Identities)
           B == Len(l.batches) + 1
           Of(g, n) == g = [k \in 0..n |-> IF k = 0 THEN Begun(l)
                                          ELSE Applied(g[k - 1], Identities[k], s, B)]
           T == {n \in 0..N : \E g : Of(g, n)}
<1>1. N \in Nat
  BY IdentitiesAssumption
<1>2. 0 \in T
  <2> DEFINE g == [k \in 0..0 |-> Begun(l)]
  <2>1. Of(g, 0)
    OBVIOUS
  <2> HIDE DEF g, Of
  <2> QED
    BY <1>1, <2>1
<1>3. ASSUME NEW n \in 1..N, n - 1 \in T
      PROVE  n \in T
  <2>1. PICK g : Of(g, n - 1)
    BY <1>3
  <2> DEFINE h == [k \in 0..n |-> IF k < n THEN g[k] ELSE Applied(g[n - 1], Identities[n], s, B)]
  <2>2. ASSUME NEW k \in 0..n
        PROVE  h[k] = IF k = 0 THEN Begun(l) ELSE Applied(h[k - 1], Identities[k], s, B)
    <3>1. CASE k = 0
      BY <2>1, <3>1
    <3>2. CASE k # 0 /\ k < n
      <4>1. k \in 0..(n - 1) /\ k - 1 \in 0..n /\ k - 1 < n
        BY <3>2
      <4>2. h[k] = g[k] /\ h[k - 1] = g[k - 1]
        BY <3>2, <4>1
      <4>3. g[k] = Applied(g[k - 1], Identities[k], s, B)
        BY <2>1, <3>2, <4>1
      <4> QED
        BY <3>2, <4>2, <4>3
    <3>3. CASE k = n
      <4>1. n - 1 \in 0..n /\ n - 1 < n /\ n # 0
        OBVIOUS
      <4>2. h[n - 1] = g[n - 1]
        BY <4>1
      <4> QED
        BY <3>3, <4>1, <4>2
    <3> QED
      BY <3>1, <3>2, <3>3
  <2>3. Of(h, n)
    BY <2>2
  <2> HIDE DEF h, Of
  <2> QED
    BY <2>3
<1>4. \E g : Of(g, N)
  <2> HIDE DEF T
  <2>1. \A k \in 0..N : k \in T
    BY <1>1, <1>2, <1>3, Induction
  <2>2. N \in T
    BY <1>1, <2>1
  <2> HIDE DEF Of
  <2> QED
    BY <2>2 DEF T
<1> DEFINE f == CHOOSE g : Of(g, N)
<1>5. Of(f, N)
  BY <1>4
<1>6. ApplyBatch(l, s) = f[N]
  BY DEF ApplyBatch
<1>7. Steps(f, l, s)
  <2> HIDE DEF f
  <2>1. 0 \in 0..N /\ \A k \in 1..N : k \in 0..N /\ k # 0
    BY <1>1
  <2> QED
    BY <1>5, <2>1 DEF Steps
<1> QED
  BY <1>6, <1>7

\* The lineages between the first and the last batch.
Replays(f, before) ==
  /\ f[0] = CreateLineage
  /\ \A k \in 1..Len(before.batches) : f[k] = ApplyBatch(f[k - 1], Recorded(before.batches[k]))

LEMMA BuildLineageReplays ==
  ASSUME NEW l, Len(l.batches) \in Nat
  PROVE  \E f : Replays(f, l) /\ BuildLineage(l) = f[Len(l.batches)]
<1> DEFINE N == Len(l.batches)
           Of(g, n) == g = [k \in 0..n |-> IF k = 0 THEN CreateLineage
                                          ELSE ApplyBatch(g[k - 1], Recorded(l.batches[k]))]
           T == {n \in 0..N : \E g : Of(g, n)}
<1>1. N \in Nat
  OBVIOUS
<1>2. 0 \in T
  <2> DEFINE g == [k \in 0..0 |-> CreateLineage]
  <2>1. Of(g, 0)
    OBVIOUS
  <2> HIDE DEF g, Of
  <2> QED
    BY <1>1, <2>1
<1>3. ASSUME NEW n \in 1..N, n - 1 \in T
      PROVE  n \in T
  <2>1. PICK g : Of(g, n - 1)
    BY <1>3
  <2> DEFINE h == [k \in 0..n |-> IF k < n THEN g[k]
                                  ELSE ApplyBatch(g[n - 1], Recorded(l.batches[n]))]
  <2>2. ASSUME NEW k \in 0..n
        PROVE  h[k] = IF k = 0 THEN CreateLineage
                      ELSE ApplyBatch(h[k - 1], Recorded(l.batches[k]))
    <3>1. CASE k = 0
      BY <2>1, <3>1
    <3>2. CASE k # 0 /\ k < n
      <4>1. k \in 0..(n - 1) /\ k - 1 \in 0..n /\ k - 1 < n
        BY <3>2
      <4>2. h[k] = g[k] /\ h[k - 1] = g[k - 1]
        BY <3>2, <4>1
      <4>3. g[k] = ApplyBatch(g[k - 1], Recorded(l.batches[k]))
        BY <2>1, <3>2, <4>1
      <4> QED
        BY <3>2, <4>2, <4>3
    <3>3. CASE k = n
      <4>1. n - 1 \in 0..n /\ n - 1 < n /\ n # 0
        OBVIOUS
      <4>2. h[n - 1] = g[n - 1]
        BY <4>1
      <4> QED
        BY <3>3, <4>1, <4>2
    <3> QED
      BY <3>1, <3>2, <3>3
  <2>3. Of(h, n)
    BY <2>2
  <2> HIDE DEF h, Of
  <2> QED
    BY <2>3
<1>4. \E g : Of(g, N)
  <2> HIDE DEF T
  <2>1. \A k \in 0..N : k \in T
    BY <1>1, <1>2, <1>3, Induction
  <2>2. N \in T
    BY <1>1, <2>1
  <2> HIDE DEF Of
  <2> QED
    BY <2>2 DEF T
<1> DEFINE f == CHOOSE g : Of(g, N)
<1>5. Of(f, N)
  BY <1>4
<1>6. BuildLineage(l) = f[N]
  BY DEF BuildLineage
<1>7. Replays(f, l)
  <2> HIDE DEF f
  <2>1. 0 \in 0..N /\ \A k \in 1..N : k \in 0..N /\ k # 0
    OBVIOUS
  <2> QED
    BY <1>5, <2>1 DEF Replays
<1> QED
  BY <1>6, <1>7
-----------------------------------------------------------------------------
(* The lineages between two candidates, in closed form.                     *)

IsSeq(s) == \E C : s \in Seq(C)

IsEntity(e) ==
  e = [display |-> e.display, content |-> e.content, first |-> e.first, last |-> e.last,
       revisions |-> e.revisions]

IsLineage(l) ==
  /\ l = [entities |-> l.entities, registry |-> l.registry, batches |-> l.batches]
  /\ l.entities = [id \in DOMAIN l.entities |-> l.entities[id]]
  /\ \A id \in DOMAIN l.entities : IsEntity(l.entities[id])
  /\ IsSeq(l.batches)

Numbers(registry, kind) == {r.display : r \in {x \in registry : Kind(x.identity) = kind}}

\* Every identity in the lineage is registered with its display id, those of a kind are
\* 1, 2, ... without a gap, and no two identities of a kind have the same.
Numbered(l) ==
  /\ \A id \in DOMAIN l.entities :
       \E r \in l.registry : r.identity = id /\ r.display = l.entities[id].display
  /\ \A kind : \E m \in Nat : Numbers(l.registry, kind) = 1..m
  /\ \A i, j \in DOMAIN l.entities :
       Kind(i) = Kind(j) /\ l.entities[i].display = l.entities[j].display => i = j

NewEntity(display, content, batch) ==
  [display |-> display, content |-> content, first |-> batch, last |-> batch, revisions |-> <<>>]

ChangedEntity(old, content, batch) ==
  [old EXCEPT !.content = content, !.last = batch, !.revisions = Revised(old, content, batch)]

\* The batch when the identities D of the snapshot have been applied to l, and are e.
BatchOf(l, s, D, e) ==
  [changed |-> {id \in D : id \in DOMAIN l.entities => l.entities[id].content # s[id].content},
   entities |-> [id \in D |-> e[id]]]

\* The lineage then.
Between(a, l, s, D) ==
  /\ a = [entities |-> a.entities, registry |-> a.registry, batches |-> a.batches]
  /\ a.batches = Append(l.batches, BatchOf(l, s, D, a.entities))
  /\ a.entities = [id \in DOMAIN l.entities \cup D |-> a.entities[id]]
  /\ \A id \in DOMAIN l.entities \ D : a.entities[id] = l.entities[id]
  /\ \A id \in DOMAIN l.entities \cap D :
       a.entities[id] = ChangedEntity(l.entities[id], s[id].content, Len(l.batches) + 1)
  /\ \A id \in D \ DOMAIN l.entities :
       a.entities[id] = NewEntity(a.entities[id].display, s[id].content, Len(l.batches) + 1)

LEMMA SeqIsFcn ==
  ASSUME NEW E, NEW p \in Seq(E)
  PROVE  p = [k \in 1..Len(p) |-> p[k]]
OBVIOUS

LEMMA ReplaceLast ==
  ASSUME NEW E, NEW p \in Seq(E), NEW q \in Seq(E), NEW n \in Nat \ {0}, Len(p) = n, Len(q) = n,
         \A k \in 1..n : k # n => p[k] = q[k]
  PROVE  [p EXCEPT ![n] = q[n]] = q
<1>1. p = [k \in 1..n |-> p[k]] /\ q = [k \in 1..n |-> q[k]]
  BY SeqIsFcn
<1>2. [p EXCEPT ![n] = q[n]] = [k \in 1..n |-> IF k = n THEN q[n] ELSE p[k]]
  BY <1>1
<1> QED
  BY <1>1, <1>2

LEMMA AppendSeq ==
  ASSUME NEW s, IsSeq(s), NEW x
  PROVE  /\ IsSeq(Append(s, x)) /\ Len(s) \in Nat /\ Len(Append(s, x)) = Len(s) + 1
         /\ Append(s, x)[Len(s) + 1] = x /\ \A k \in 1..Len(s) : Append(s, x)[k] = s[k]
         /\ DOMAIN s = 1..Len(s) /\ DOMAIN Append(s, x) = 1..(Len(s) + 1)
<1>1. PICK C : s \in Seq(C)
  BY DEF IsSeq
<1> DEFINE E == C \cup {x}
           p == Append(s, x)
           n == Len(s) + 1
<1>2. s \in Seq(E)
  BY <1>1
<1>3. p \in Seq(E)
  BY <1>2
<1>4. /\ Len(s) \in Nat /\ Len(p) = n
      /\ p[n] = x /\ \A k \in 1..Len(s) : p[k] = s[k]
      /\ DOMAIN s = 1..Len(s)
  BY <1>2
<1>5. DOMAIN p = 1..n
  BY <1>3, <1>4
<1> QED
  BY <1>3, <1>4, <1>5 DEF IsSeq

LEMMA AppendReplaced ==
  ASSUME NEW s, IsSeq(s), NEW x, NEW y
  PROVE  [Append(s, x) EXCEPT ![Len(s) + 1] = y] = Append(s, y)
<1>1. PICK C : s \in Seq(C)
  BY DEF IsSeq
<1> DEFINE E == C \cup {x, y}
           p == Append(s, x)
           q == Append(s, y)
           n == Len(s) + 1
<1>2. s \in Seq(E)
  BY <1>1
<1>3. p \in Seq(E) /\ q \in Seq(E)
  BY <1>2
<1>4. /\ Len(s) \in Nat /\ Len(p) = n /\ Len(q) = n
      /\ p[n] = x /\ \A k \in 1..Len(s) : p[k] = s[k]
      /\ q[n] = y /\ \A k \in 1..Len(s) : q[k] = s[k]
      /\ DOMAIN s = 1..Len(s)
  BY <1>2
<1>5. DOMAIN p = 1..n
  BY <1>3, <1>4
<1>6. [p EXCEPT ![n] = y] = q
  <2>1. \A k \in 1..n : k # n => p[k] = q[k]
    BY <1>4
  <2>2. n \in Nat \ {0}
    BY <1>4
  <2> HIDE DEF p, q, n, E
  <2> QED
    BY <1>3, <1>4, <2>1, <2>2, ReplaceLast
<1> QED
  BY <1>6

\* The display ids of a kind are without a gap: the next one is the first that is free.
LEMMA NextNumber ==
  ASSUME NEW registry, NEW kind, NEW m \in Nat, Numbers(registry, kind) = 1..m
  PROVE  NextDisplayNumber(registry, kind) = m + 1
<1> DEFINE shown == {r.display : r \in {x \in registry : Kind(x.identity) = kind}}
<1>0. shown = 1..m
  BY DEF Numbers
<1>1. CASE \E r \in registry : Kind(r.identity) = kind
  <2>1. m \in shown /\ m > 0
    <3>1. PICK r \in registry : Kind(r.identity) = kind
      BY <1>1
    <3>2. r.display \in shown
      BY <3>1
    <3> HIDE DEF shown
    <3> QED
      BY <1>0, <3>2
  <2> DEFINE top == CHOOSE n \in shown : \A r \in registry : Kind(r.identity) = kind => r.display <= n
  <2>2. ASSUME NEW n \in shown
        PROVE  (\A r \in registry : Kind(r.identity) = kind => r.display <= n) <=> n = m
    <3>1. ASSUME NEW r \in registry, Kind(r.identity) = kind
          PROVE  r.display \in 1..m
      BY <1>0, <3>1
    <3>2. PICK q \in registry : Kind(q.identity) = kind /\ q.display = m
      BY <2>1
    <3> QED
      BY <1>0, <3>1, <3>2
  <2>3. top = m
    <3> HIDE DEF shown
    <3> QED
      BY <2>1, <2>2
  <2>4. NextDisplayNumber(registry, kind) = 1 + top
    BY <1>1 DEF NextDisplayNumber
  <2> HIDE DEF top
  <2> QED
    BY <2>3, <2>4
<1>2. CASE ~\E r \in registry : Kind(r.identity) = kind
  <2>1. shown = {}
    BY <1>2
  <2>2. m = 0
    BY <1>0, <2>1
  <2> QED
    BY <1>2, <2>2 DEF NextDisplayNumber
<1> QED
  BY <1>1, <1>2

\* One more identity of the snapshot.
Grown(b, a, id, entity) ==
  /\ DOMAIN b.entities = DOMAIN a.entities \cup {id}
  /\ b.entities[id] = entity
  /\ \A x \in DOMAIN a.entities : x # id => b.entities[x] = a.entities[x]

PutInto(b, a, l, s, id, entity, changed) ==
  /\ changed <=> (id \in DOMAIN l.entities => l.entities[id].content # s[id].content)
  /\ b = [entities |-> With(a.entities, id, entity), registry |-> b.registry,
          batches |-> Put(a, id, entity, changed, Len(l.batches) + 1).batches]
  /\ IF id \in DOMAIN l.entities
     THEN entity = ChangedEntity(l.entities[id], s[id].content, Len(l.batches) + 1)
     ELSE entity = NewEntity(entity.display, s[id].content, Len(l.batches) + 1)

LEMMA PutStep ==
  ASSUME NEW l, IsLineage(l), NEW s, NEW D, NEW a, Between(a, l, s, D), NEW id, id \notin D,
         NEW entity, NEW changed \in BOOLEAN, NEW b, PutInto(b, a, l, s, id, entity, changed)
  PROVE  Between(b, l, s, D \cup {id}) /\ Grown(b, a, id, entity)
<1> DEFINE n == Len(l.batches) + 1
           E == D \cup {id}
<1> PICK c : c = BatchOf(l, s, D, a.entities)
  OBVIOUS
<1>1. /\ b.entities = With(a.entities, id, entity)
      /\ b.batches = Put(a, id, entity, changed, n).batches
      /\ DOMAIN b = {"entities", "registry", "batches"}
  BY DEF PutInto
<1>2. /\ b.entities = [x \in DOMAIN a.entities \cup {id} |-> IF x = id THEN entity ELSE a.entities[x]]
  BY <1>1 DEF With
<1>3. /\ DOMAIN b.entities = DOMAIN a.entities \cup {id}
      /\ b.entities[id] = entity
      /\ \A x \in DOMAIN a.entities : x # id => b.entities[x] = a.entities[x]
      /\ Grown(b, a, id, entity)
  BY <1>2 DEF Grown
<1>4. DOMAIN a.entities = DOMAIN l.entities \cup D
  BY DEF Between
<1>5. b.batches = Append(l.batches, BatchOf(l, s, E, b.entities))
  <2>1. b.batches = Append(l.batches, [changed |-> IF changed THEN c.changed \cup {id} ELSE c.changed,
                                       entities |-> With(c.entities, id, entity)])
    <3>1. IsSeq(l.batches)
      BY DEF IsLineage
    <3> DEFINE d == [changed |-> IF changed THEN c.changed \cup {id} ELSE c.changed,
                     entities |-> With(c.entities, id, entity)]
    <3>2. a.batches = Append(l.batches, c)
      BY DEF Between
    <3>3. /\ Append(l.batches, c)[n] = c
          /\ [Append(l.batches, c) EXCEPT ![n] = d] = Append(l.batches, d)
      <4> HIDE DEF d
      <4> QED
        BY <3>1, AppendSeq, AppendReplaced, Zenon
    <3>4. Put(a, id, entity, changed, n).batches = [a.batches EXCEPT ![n] = d]
      <4>1. a.batches[n] = c
        BY <3>2, <3>3
      <4> HIDE DEF n
      <4> QED
        BY <4>1 DEF Put
    <3> HIDE DEF n, d
    <3> QED
      BY <1>1, <3>2, <3>3, <3>4 DEF d
  <2>2. (IF changed THEN c.changed \cup {id} ELSE c.changed)
          = {x \in E : x \in DOMAIN l.entities => l.entities[x].content # s[x].content}
    BY DEF BatchOf, PutInto
  <2>3. With(c.entities, id, entity) = [x \in E |-> b.entities[x]]
    <3>1. c.entities = [x \in D |-> a.entities[x]]
      BY DEF BatchOf
    <3> QED
      BY <1>3, <1>4, <3>1 DEF With
  <2> QED
    BY <2>1, <2>2, <2>3 DEF BatchOf
<1>6. Between(b, l, s, E)
  <2> HIDE DEF E, n
  <2>1. b = [entities |-> b.entities, registry |-> b.registry, batches |-> b.batches]
    BY <1>1 DEF PutInto
  <2>2. b.entities = [x \in DOMAIN l.entities \cup E |-> b.entities[x]]
    BY <1>2, <1>4 DEF E
  <2>3. \A x \in DOMAIN l.entities \ E : b.entities[x] = l.entities[x]
    BY <1>3, <1>4 DEF E, Between
  <2>4. \A x \in DOMAIN l.entities \cap E :
          b.entities[x] = ChangedEntity(l.entities[x], s[x].content, n)
    BY <1>3, <1>4 DEF E, n, Between, PutInto
  <2>5. \A x \in E \ DOMAIN l.entities :
          b.entities[x] = NewEntity(b.entities[x].display, s[x].content, n)
    BY <1>3, <1>4 DEF E, n, Between, PutInto
  <2> QED
    BY <1>5, <2>1, <2>2, <2>3, <2>4, <2>5 DEF Between, n
<1> QED
  BY <1>3, <1>6

\* A known identity.
KeepsKnown(b, a, id) ==
  /\ b.registry = a.registry
  /\ DOMAIN b.entities = DOMAIN a.entities
  /\ b.entities[id].display = a.entities[id].display
  /\ \A x \in DOMAIN a.entities : x # id => b.entities[x] = a.entities[x]

LEMMA UpdatedStep ==
  ASSUME NEW l, IsLineage(l), NEW s, NEW D, NEW a, Between(a, l, s, D),
         NEW id \in DOMAIN s \ D, id \in DOMAIN a.entities,
         NEW b, b = Applied(a, id, s, Len(l.batches) + 1)
  PROVE  Between(b, l, s, D \cup {id}) /\ KeepsKnown(b, a, id)
<1> DEFINE n == Len(l.batches) + 1
           old == a.entities[id]
           entity == ChangedEntity(old, s[id].content, n)
           changed == old.content # s[id].content
<1>1. id \in DOMAIN l.entities /\ old = l.entities[id] /\ IsEntity(old)
  BY DEF Between, IsLineage
<1>2. b = Put(a, id, entity, changed, n)
  BY DEF Applied, Updated, ChangedEntity
<1>3. b.registry = a.registry /\ b.entities = With(a.entities, id, entity)
      /\ b = [entities |-> b.entities, registry |-> b.registry, batches |-> b.batches]
  <2> HIDE DEF n, entity, changed
  <2> QED
    BY <1>2 DEF Put
<1>4. entity.display = old.display
  BY <1>1 DEF ChangedEntity, IsEntity
<1>5. Between(b, l, s, D \cup {id}) /\ Grown(b, a, id, entity)
  <2>1. changed \in BOOLEAN
        /\ (changed <=> (id \in DOMAIN l.entities => l.entities[id].content # s[id].content))
    BY <1>1
  <2>2. entity = ChangedEntity(l.entities[id], s[id].content, Len(l.batches) + 1)
    BY <1>1
  <2>3. b = [entities |-> With(a.entities, id, entity), registry |-> b.registry,
             batches |-> Put(a, id, entity, changed, Len(l.batches) + 1).batches]
    <3> HIDE DEF entity, changed
    <3> QED
      BY <1>2, <1>3
  <2>4. IF id \in DOMAIN l.entities
        THEN entity = ChangedEntity(l.entities[id], s[id].content, Len(l.batches) + 1)
        ELSE entity = NewEntity(entity.display, s[id].content, Len(l.batches) + 1)
    BY <1>1, <2>2
  <2> HIDE DEF entity, changed
  <2>5. PutInto(b, a, l, s, id, entity, changed)
    BY <2>1, <2>3, <2>4 DEF PutInto
  <2> QED
    BY <2>1, <2>5, PutStep
<1> HIDE DEF entity
<1> QED
  BY <1>3, <1>4, <1>5 DEF Grown, KeepsKnown

\* A new identity.
TakesNew(b, a, id, d, n) ==
  /\ b.registry = a.registry \cup {[identity |-> id, display |-> d, batch |-> n]}
  /\ DOMAIN b.entities = DOMAIN a.entities \cup {id} /\ b.entities[id].display = d
  /\ \A x \in DOMAIN a.entities : x # id => b.entities[x] = a.entities[x]

LEMMA AddedStep ==
  ASSUME NEW l, IsLineage(l), NEW s, NEW D, NEW a, Between(a, l, s, D),
         NEW id \in DOMAIN s \ D, id \notin DOMAIN a.entities,
         NEW n, n = Len(l.batches) + 1, NEW b, b = Applied(a, id, s, n), NEW d,
         d = IF s[id].display # 0 THEN s[id].display ELSE NextDisplayNumber(a.registry, Kind(id))
  PROVE  Between(b, l, s, D \cup {id}) /\ TakesNew(b, a, id, d, n)
<1> DEFINE entity == NewEntity(d, s[id].content, n)
           p == Put(a, id, entity, TRUE, n)
<1>1. id \notin DOMAIN l.entities
  BY DEF Between
<1>2. b = [p EXCEPT !.registry = @ \cup {[identity |-> id, display |-> d, batch |-> n]}]
  BY DEF Applied, Added, NewEntity
<1>3. /\ p = [entities |-> p.entities, registry |-> p.registry, batches |-> p.batches]
      /\ p.entities = With(a.entities, id, entity) /\ p.registry = a.registry
  <2> HIDE DEF entity
  <2> QED
    BY DEF Put
<1>4. /\ b = [entities |-> b.entities, registry |-> b.registry, batches |-> b.batches]
      /\ b.entities = p.entities /\ b.batches = p.batches
      /\ b.registry = a.registry \cup {[identity |-> id, display |-> d, batch |-> n]}
  <2> HIDE DEF p
  <2> QED
    BY <1>2, <1>3
<1>5. entity.display = d
  BY DEF NewEntity
<1>6. Between(b, l, s, D \cup {id}) /\ Grown(b, a, id, entity)
  <2>1. TRUE <=> (id \in DOMAIN l.entities => l.entities[id].content # s[id].content)
    BY <1>1
  <2>2. entity = NewEntity(entity.display, s[id].content, Len(l.batches) + 1)
    BY <1>5
  <2>3. b = [entities |-> With(a.entities, id, entity), registry |-> b.registry,
             batches |-> Put(a, id, entity, TRUE, Len(l.batches) + 1).batches]
    <3> HIDE DEF entity
    <3> QED
      BY <1>3, <1>4
  <2>4. IF id \in DOMAIN l.entities
        THEN entity = ChangedEntity(l.entities[id], s[id].content, Len(l.batches) + 1)
        ELSE entity = NewEntity(entity.display, s[id].content, Len(l.batches) + 1)
    BY <1>1, <2>2
  <2> HIDE DEF entity
  <2>5. PutInto(b, a, l, s, id, entity, TRUE)
    BY <2>1, <2>3, <2>4 DEF PutInto
  <2> QED
    BY <2>5, PutStep
<1> HIDE DEF entity
<1> QED
  BY <1>4, <1>5, <1>6 DEF Grown, TakesNew

\* The display ids stay without a gap.
LEMMA KnownKeepsNumbers ==
  ASSUME NEW a, Numbered(a), NEW id, NEW b, KeepsKnown(b, a, id)
  PROVE  Numbered(b)
BY DEF Numbered, KeepsKnown

LEMMA NewTakesNextNumber ==
  ASSUME NEW a, Numbered(a), NEW id, id \notin DOMAIN a.entities, NEW b, NEW n, NEW d,
         d = NextDisplayNumber(a.registry, Kind(id)), TakesNew(b, a, id, d, n)
  PROVE  Numbered(b) /\ d \in Nat \ {0}
<1> DEFINE new == [identity |-> id, display |-> d, batch |-> n]
<1>1. PICK m \in Nat : Numbers(a.registry, Kind(id)) = 1..m
  BY DEF Numbered
<1>2. d = m + 1
  BY <1>1, NextNumber
<1>3. new.identity = id /\ new.display = d
  OBVIOUS
<1>4. ASSUME NEW kind
      PROVE  Numbers(b.registry, kind) = IF kind = Kind(id) THEN Numbers(a.registry, kind) \cup {d}
                                    ELSE Numbers(a.registry, kind)
  <2> HIDE DEF new
  <2> QED
    BY <1>3 DEF new, TakesNew, Numbers
<1>5. \A kind : \E k \in Nat : Numbers(b.registry, kind) = 1..k
  <2> TAKE kind
  <2>1. CASE kind = Kind(id)
    <3>1. Numbers(b.registry, kind) = (1..m) \cup {m + 1}
      BY <1>1, <1>2, <1>4, <2>1
    <3>2. (1..m) \cup {m + 1} = 1..(m + 1) /\ m + 1 \in Nat
      OBVIOUS
    <3> QED
      BY <3>1, <3>2
  <2>2. CASE kind # Kind(id)
    <3>1. \E k \in Nat : Numbers(a.registry, kind) = 1..k
      BY DEF Numbered
    <3> QED
      BY <1>4, <2>2, <3>1
  <2> QED
    BY <2>1, <2>2
<1>6. ASSUME NEW x \in DOMAIN a.entities, Kind(x) = Kind(id)
      PROVE  a.entities[x].display \in 1..m
  <2>1. PICK r \in a.registry : r.identity = x /\ r.display = a.entities[x].display
    BY DEF Numbered
  <2>2. r.display \in Numbers(a.registry, Kind(id))
    BY <1>6, <2>1 DEF Numbers
  <2> QED
    BY <1>1, <2>1, <2>2
<1>7. \A i, j \in DOMAIN b.entities :
        Kind(i) = Kind(j) /\ b.entities[i].display = b.entities[j].display => i = j
  BY <1>2, <1>6 DEF Numbered, TakesNew
<1>8. \A x \in DOMAIN b.entities :
        \E r \in b.registry : r.identity = x /\ r.display = b.entities[x].display
  <2> TAKE x \in DOMAIN b.entities
  <2>1. CASE x = id
    <3>1. new \in b.registry /\ b.entities[id].display = d
      BY DEF TakesNew
    <3> HIDE DEF new
    <3> QED
      BY <1>3, <2>1, <3>1
  <2>2. CASE x # id
    BY <2>2 DEF Numbered, TakesNew
  <2> QED
    BY <2>1, <2>2
<1> QED
  BY <1>2, <1>5, <1>7, <1>8 DEF Numbered

-----------------------------------------------------------------------------
(* A whole batch.                                                           *)

\* The identities of the snapshot among the first k.
Seen(s, k) == {Identities[j] : j \in 1..k} \cap DOMAIN s

LEMMA SeenGrows ==
  ASSUME NEW s, NEW k \in 1..Len(Identities)
  PROVE  /\ Identities[k] \notin Seen(s, k - 1) /\ Seen(s, k - 1) \subseteq Seen(s, k)
         /\ Seen(s, k) = IF Identities[k] \in DOMAIN s THEN Seen(s, k - 1) \cup {Identities[k]}
                         ELSE Seen(s, k - 1)
         /\ Seen(s, 0) = {}
<1>1. Len(Identities) \in Nat /\ DOMAIN Identities = 1..Len(Identities)
  BY IdentitiesAssumption
<1>2. 1..k = 1..(k - 1) \cup {k} /\ k \notin 1..(k - 1) /\ 1..k \subseteq DOMAIN Identities
  BY <1>1
<1>3. \A j \in 1..(k - 1) : Identities[j] # Identities[k]
  BY <1>2, IdentitiesAssumption
<1> QED
  BY <1>2, <1>3 DEF Seen

\* An analysis gives no display ids.
Fresh(s) == \A id \in DOMAIN s : s[id].display = 0

\* The lineage after k of the candidates.
Reached(f, l, s, k) == Between(f[k], l, s, Seen(s, k)) /\ Numbered(f[k])

LEMMA BegunReached ==
  ASSUME NEW l, IsLineage(l), Numbered(l), NEW s, NEW f, Steps(f, l, s)
  PROVE  Reached(f, l, s, 0)
<1> DEFINE none == [changed |-> {}, entities |-> [id \in {} |-> 0]]
<1>1. Seen(s, 0) = {}
  BY DEF Seen
<1>2. /\ f[0] = [entities |-> l.entities, registry |-> l.registry, batches |-> Append(l.batches, none)]
  BY DEF Steps, Begun, IsLineage
<1>3. f[0].entities = l.entities /\ f[0].registry = l.registry
      /\ f[0].batches = Append(l.batches, none)
  BY <1>2
<1>4. BatchOf(l, s, {}, f[0].entities) = none
  BY DEF BatchOf
<1>5. Numbered(f[0])
  BY <1>3 DEF Numbered
<1>6. Between(f[0], l, s, {})
  <2> HIDE DEF none
  <2> QED
    BY <1>2, <1>3, <1>4 DEF Between, IsLineage
<1> QED
  BY <1>1, <1>5, <1>6 DEF Reached

\* What one candidate does.
CandidateDone(f, s, k) ==
  /\ \A id \in Seen(s, k - 1) : f[k].entities[id] = f[k - 1].entities[id]
  /\ Identities[k] \in DOMAIN s /\ Identities[k] \notin DOMAIN f[k - 1].entities =>
       /\ f[k].entities[Identities[k]].display
            = NextDisplayNumber(f[k - 1].registry, Kind(Identities[k]))
       /\ f[k].entities[Identities[k]].display # 0

LEMMA OneCandidate ==
  ASSUME NEW l, IsLineage(l), NEW s, Fresh(s), NEW f, Steps(f, l, s),
         NEW k \in 1..Len(Identities), Reached(f, l, s, k - 1)
  PROVE  Reached(f, l, s, k) /\ CandidateDone(f, s, k)
<1> DEFINE n == Len(l.batches) + 1
<1> PICK id, a, D : id = Identities[k] /\ a = f[k - 1] /\ D = Seen(s, k - 1)
  OBVIOUS
<1>1. Between(a, l, s, D) /\ Numbered(a)
  BY DEF Reached
<1>2. f[k] = Applied(a, id, s, n)
  BY DEF Steps
<1>3. id \notin D /\ Seen(s, k) = IF id \in DOMAIN s THEN D \cup {id} ELSE D
  BY SeenGrows
<1>4. D \subseteq DOMAIN a.entities
  BY <1>1 DEF Between
<1>5. CASE id \notin DOMAIN s
  <2>1. f[k] = a /\ Seen(s, k) = D
    BY <1>2, <1>3, <1>5 DEF Applied
  <2> QED
    BY <1>1, <1>5, <2>1 DEF Reached, CandidateDone
<1>6. CASE id \in DOMAIN s /\ id \in DOMAIN a.entities
  <2> PICK b : b = f[k]
    OBVIOUS
  <2>1. Between(b, l, s, D \cup {id}) /\ KeepsKnown(b, a, id)
    BY <1>1, <1>2, <1>3, <1>6, UpdatedStep
  <2>2. Numbered(b)
    BY <1>1, <2>1, KnownKeepsNumbers
  <2> QED
    BY <1>3, <1>4, <1>6, <2>1, <2>2 DEF Reached, CandidateDone, KeepsKnown
<1>7. CASE id \in DOMAIN s /\ id \notin DOMAIN a.entities
  <2> PICK b, d : b = f[k] /\ d = NextDisplayNumber(a.registry, Kind(id))
    OBVIOUS
  <2>0. s[id].display = 0
    BY <1>7 DEF Fresh
  <2>3. d = IF s[id].display # 0 THEN s[id].display ELSE NextDisplayNumber(a.registry, Kind(id))
    BY <2>0
  <2>4. b = Applied(a, id, s, n) /\ id \in DOMAIN s \ D
    BY <1>2, <1>3, <1>7
  <2>5. Between(a, l, s, D) /\ id \notin DOMAIN a.entities /\ n = Len(l.batches) + 1
    BY <1>1, <1>7
  <2>1. Between(b, l, s, D \cup {id}) /\ TakesNew(b, a, id, d, n)
    <3> HIDE DEF n
    <3> QED
      BY <2>3, <2>4, <2>5, AddedStep, ZenonT(30)
  <2>2. Numbered(b) /\ d \in Nat \ {0}
    <3> HIDE DEF n
    <3> QED
      BY <1>1, <1>7, <2>1, NewTakesNextNumber
  <2> QED
    BY <1>3, <1>4, <1>7, <2>1, <2>2 DEF Reached, CandidateDone, TakesNew
<1> QED
  BY <1>5, <1>6, <1>7

LEMMA AllCandidates ==
  ASSUME NEW l, IsLineage(l), Numbered(l), NEW s, Fresh(s), NEW f, Steps(f, l, s)
  PROVE  \A k \in 0..Len(Identities) : Reached(f, l, s, k)
<1> DEFINE N == Len(Identities)
           T == {k \in 0..N : Reached(f, l, s, k)}
<1>1. N \in Nat
  BY IdentitiesAssumption
<1>2. 0 \in T
  BY <1>1, BegunReached
<1>3. \A k \in 1..N : k - 1 \in T => k \in T
  BY <1>1, OneCandidate
<1>4. \A k \in 0..N : k \in T
  <2> HIDE DEF T
  <2> QED
    BY <1>1, <1>2, <1>3, Induction
<1> QED
  BY <1>4

\* What was entered of an identity stays to the end of the batch.
LEMMA EnteredStays ==
  ASSUME NEW l, IsLineage(l), Numbered(l), NEW s, Fresh(s), NEW f, Steps(f, l, s),
         NEW k \in 0..Len(Identities), NEW id \in Seen(s, k)
  PROVE  f[Len(Identities)].entities[id] = f[k].entities[id]
<1> DEFINE N == Len(Identities)
           Stays(j) == \A x \in Seen(s, j) : f[N].entities[x] = f[j].entities[x]
           T == {m \in 0..N : Stays(N - m)}
<1>1. N \in Nat
  BY IdentitiesAssumption
<1>2. 0 \in T
  BY <1>1
<1>3. ASSUME NEW m \in 1..N, m - 1 \in T
      PROVE  m \in T
  <2> PICK j : j = N - m + 1
    OBVIOUS
  <2>1. j \in 1..N /\ N - (m - 1) = j /\ N - m = j - 1 /\ j - 1 \in 0..N
    BY <1>1
  <2>2. Stays(j)
    BY <1>3, <2>1
  <2>3. /\ \A x \in Seen(s, j - 1) : f[j].entities[x] = f[j - 1].entities[x]
        /\ Seen(s, j - 1) \subseteq Seen(s, j)
    <3>1. Reached(f, l, s, j - 1)
      BY <2>1, AllCandidates
    <3>2. Seen(s, j - 1) \subseteq Seen(s, j)
      BY <2>1, SeenGrows
    <3>3. CandidateDone(f, s, j)
      BY <2>1, <3>1, OneCandidate
    <3> QED
      BY <3>2, <3>3 DEF CandidateDone
  <2>4. Stays(j - 1)
    BY <2>2, <2>3
  <2> QED
    BY <2>1, <2>4
<1>4. \A m \in 0..N : m \in T
  <2> HIDE DEF T
  <2> QED
    BY <1>1, <1>2, <1>3, Induction
<1>5. N - k \in 0..N /\ N - (N - k) = k
  BY <1>1
<1>6. Stays(k)
  BY <1>4, <1>5
<1> QED
  BY <1>6

-----------------------------------------------------------------------------
(* A batch that is replayed.                                                *)

LEMMA ContentIs ==
  ASSUME NEW e, IsEntity(e), NEW content, NEW n
  PROVE  LET x == ChangedEntity(e, content, n)
         IN /\ IsEntity(x) /\ x.content = content /\ x.display = e.display /\ x.first = e.first
            /\ x.last = n /\ x.revisions = Revised(e, content, n)
<1> PICK r : r = Revised(e, content, n)
  OBVIOUS
<1>1. e = [display |-> e.display, content |-> e.content, first |-> e.first, last |-> e.last,
           revisions |-> e.revisions]
  BY DEF IsEntity
<1>2. ChangedEntity(e, content, n) = [e EXCEPT !.content = content, !.last = n, !.revisions = r]
  BY DEF ChangedEntity
<1>3. ChangedEntity(e, content, n)
        = [display |-> e.display, content |-> content, first |-> e.first, last |-> n,
           revisions |-> r]
  BY <1>1, <1>2
<1> QED
  BY <1>3 DEF IsEntity

LEMMA NewIs ==
  ASSUME NEW d, NEW content, NEW n
  PROVE  LET x == NewEntity(d, content, n)
         IN /\ IsEntity(x) /\ x.content = content /\ x.display = d /\ x.first = n
            /\ x.last = n /\ x.revisions = <<>>
BY DEF NewEntity, IsEntity

\* The entities of a batch, and what is recorded of it.
LEMMA RecordedIs ==
  ASSUME NEW l, IsLineage(l), NEW s, NEW D, NEW a, Between(a, l, s, D)
  PROVE  LET r == Recorded(a.batches[Len(l.batches) + 1])
         IN /\ DOMAIN r = D
            /\ \A id \in D : r[id].content = s[id].content /\ r[id].display = a.entities[id].display
            /\ \A id \in D : a.entities[id].content = s[id].content
<1> DEFINE n == Len(l.batches) + 1
<1> PICK c, r : c = BatchOf(l, s, D, a.entities) /\ r = Recorded(a.batches[n])
  OBVIOUS
<1>1. a.batches[n] = c
  <2>1. a.batches = Append(l.batches, c) /\ IsSeq(l.batches)
    BY DEF Between, IsLineage
  <2>2. Append(l.batches, c)[n] = c
    BY <2>1, AppendSeq
  <2> QED
    BY <2>1, <2>2
<1>2. c.entities = [id \in D |-> a.entities[id]]
  BY DEF BatchOf
<1>3. r = [id \in D |-> [content |-> a.entities[id].content, display |-> a.entities[id].display]]
  <2>1. r = Recorded(c)
    BY <1>1
  <2> QED
    BY <1>2, <2>1 DEF Recorded
<1>4. ASSUME NEW id \in D
      PROVE  a.entities[id].content = s[id].content
  <2>1. CASE id \in DOMAIN l.entities
    <3>1. IsEntity(l.entities[id])
      BY <2>1 DEF IsLineage
    <3>2. a.entities[id] = ChangedEntity(l.entities[id], s[id].content, n)
      BY <2>1 DEF Between
    <3> HIDE DEF n
    <3> QED
      BY <3>1, <3>2, ContentIs
  <2>2. CASE id \notin DOMAIN l.entities
    <3>1. a.entities[id] = NewEntity(a.entities[id].display, s[id].content, n)
      BY <2>2 DEF Between
    <3> HIDE DEF n
    <3> QED
      BY <3>1, NewIs
  <2> QED
    BY <2>1, <2>2
<1> QED
  BY <1>3, <1>4

\* The batch as it was recorded makes the same lineage again.
LEMMA BatchReplays ==
  ASSUME NEW l, IsLineage(l), Numbered(l), NEW s, Fresh(s), NEW a, a = ApplyBatch(l, s)
  PROVE  /\ Between(a, l, s, Seen(s, Len(Identities))) /\ Numbered(a)
         /\ ApplyBatch(l, Recorded(a.batches[Len(l.batches) + 1])) = a
<1> PICK N, n : N = Len(Identities) /\ n = Len(l.batches) + 1
  OBVIOUS
<1> PICK D, r : D = Seen(s, N) /\ r = Recorded(a.batches[n])
  OBVIOUS
<1>1. N \in Nat
  BY IdentitiesAssumption
<1>2. PICK f : Steps(f, l, s) /\ a = f[N]
  BY ApplyBatchSteps
<1>3. PICK g : Steps(g, l, r) /\ ApplyBatch(l, r) = g[N]
  BY ApplyBatchSteps
<1>4. \A k \in 0..N : Reached(f, l, s, k)
  BY <1>2, AllCandidates
<1>5. Between(a, l, s, D) /\ Numbered(a)
  BY <1>1, <1>2, <1>4 DEF Reached
<1>6. /\ DOMAIN r = D
      /\ \A id \in D : r[id].content = s[id].content /\ r[id].display = a.entities[id].display
  BY <1>5, RecordedIs
<1> DEFINE T == {k \in 0..N : g[k] = f[k]}
<1>7. 0 \in T
  BY <1>1, <1>2, <1>3 DEF Steps
<1>8. ASSUME NEW k \in 1..N, k - 1 \in T
      PROVE  k \in T
  <2> PICK id, b : id = Identities[k] /\ b = f[k - 1]
    OBVIOUS
  <2>1. /\ f[k] = Applied(b, id, s, n)
        /\ g[k] = Applied(b, id, r, n)
    BY <1>2, <1>3, <1>8 DEF Steps
  <2>2. id \in D <=> id \in DOMAIN s
    BY DEF Seen
  <2>3. CASE id \notin DOMAIN s
    BY <1>6, <2>1, <2>2, <2>3 DEF Applied
  <2>4. CASE id \in DOMAIN s /\ id \in DOMAIN b.entities
    <3>1. r[id].content = s[id].content
      BY <1>6, <2>2, <2>4
    <3>2. Updated(b, id, r[id], n) = Updated(b, id, s[id], n)
      BY <3>1 DEF Updated
    <3> QED
      BY <1>6, <2>1, <2>2, <2>4, <3>2 DEF Applied
  <2>5. CASE id \in DOMAIN s /\ id \notin DOMAIN b.entities
    <3> PICK d : d = NextDisplayNumber(b.registry, Kind(id))
      OBVIOUS
    <3>1. Reached(f, l, s, k - 1)
      BY <1>1, <1>4
    <3>2. CandidateDone(f, s, k)
      BY <1>2, <3>1, OneCandidate
    <3>3. f[k].entities[id].display = d /\ d # 0
      BY <2>5, <3>2 DEF CandidateDone
    <3>4. a.entities[id] = f[k].entities[id]
      <4>1. id \in Seen(s, k) /\ k \in 0..Len(Identities)
        BY <1>1, <2>5 DEF Seen
      <4> QED
        BY <1>2, <4>1, EnteredStays
    <3>5. r[id].display = d /\ r[id].content = s[id].content
      BY <1>6, <2>2, <2>5, <3>3, <3>4
    <3>6. s[id].display = 0
      BY <2>5 DEF Fresh
    <3>7. Added(b, id, r[id], n) = Added(b, id, s[id], n)
      BY <3>3, <3>5, <3>6 DEF Added
    <3> QED
      BY <1>6, <2>1, <2>2, <2>5, <3>7 DEF Applied
  <2> QED
    BY <2>3, <2>4, <2>5
<1>9. g[N] = f[N]
  <2> HIDE DEF T
  <2>1. \A k \in 0..N : k \in T
    BY <1>1, <1>7, <1>8, Induction
  <2> QED
    BY <1>1, <2>1 DEF T
<1> QED
  BY <1>2, <1>3, <1>5, <1>9

\* When the batches before make the lineage before, all batches make the lineage.
LEMMA AllReplay ==
  ASSUME NEW l, IsSeq(l.batches), BuildLineage(l) = l, NEW a, NEW c,
         a.batches = Append(l.batches, c), ApplyBatch(l, Recorded(c)) = a
  PROVE  BuildLineage(a) = a
<1> PICK m : m = Len(l.batches)
  OBVIOUS
<1>1. /\ m \in Nat /\ Len(a.batches) = m + 1 /\ a.batches[m + 1] = c
      /\ \A k \in 1..m : a.batches[k] = l.batches[k]
  BY AppendSeq
<1>2. PICK f : Replays(f, l) /\ BuildLineage(l) = f[m]
  BY <1>1, BuildLineageReplays
<1>3. PICK g : Replays(g, a) /\ BuildLineage(a) = g[m + 1]
  <2>1. Len(a.batches) \in Nat
    BY <1>1
  <2> QED
    BY <1>1, <2>1, BuildLineageReplays
<1> DEFINE T == {k \in 0..m : g[k] = f[k]}
<1>4. 0 \in T
  BY <1>1, <1>2, <1>3 DEF Replays
<1>5. ASSUME NEW k \in 1..m, k - 1 \in T
      PROVE  k \in T
  <2>1. g[k] = ApplyBatch(g[k - 1], Recorded(a.batches[k]))
    BY <1>1, <1>3 DEF Replays
  <2>2. f[k] = ApplyBatch(f[k - 1], Recorded(l.batches[k]))
    BY <1>1, <1>2 DEF Replays
  <2> QED
    BY <1>1, <1>5, <2>1, <2>2
<1>6. g[m] = l
  <2> HIDE DEF T
  <2>1. \A k \in 0..m : k \in T
    BY <1>1, <1>4, <1>5, Induction
  <2> QED
    BY <1>1, <1>2, <2>1 DEF T
<1>7. g[m + 1] = ApplyBatch(g[m], Recorded(c))
  <2>1. m + 1 \in 1..Len(a.batches) /\ (m + 1) - 1 = m
    BY <1>1
  <2> QED
    BY <1>1, <1>3, <2>1 DEF Replays
<1> QED
  BY <1>3, <1>6, <1>7

-----------------------------------------------------------------------------
(* The history of an entity, and its rows.                                  *)

\* Each revision goes on where the one before ended, at a later batch, and the last ends
\* at what the entity is now.
GoesOn(r, k, first, last) ==
  /\ r[k].from # r[k].to /\ r[k].batch \in Nat
  /\ r[k].batch > first /\ r[k].batch <= last
  /\ k > 1 => r[k].from = r[k - 1].to /\ r[k].batch > r[k - 1].batch
ToldOf(e, n) ==
  /\ e.first \in Nat /\ e.last \in Nat /\ e.first <= e.last /\ e.last <= n /\ IsSeq(e.revisions)
  /\ \A k \in DOMAIN e.revisions : GoesOn(e.revisions, k, e.first, e.last)
  /\ e.revisions # <<>> => e.revisions[Len(e.revisions)].to = e.content

Told(l) == \A id \in DOMAIN l.entities : ToldOf(l.entities[id], Len(l.batches))

IsRow(l, b, id) ==
  /\ b \in DOMAIN l.batches /\ id \in DOMAIN l.batches[b].entities
  /\ b = 1 \/ id \in l.batches[b].changed

\* The last row of an entity shows it as it is now.
ShownIn(l, id, b) ==
  /\ IsRow(l, b, id) /\ l.batches[b].entities[id].content = l.entities[id].content
  /\ \A c : IsRow(l, c, id) => c <= b
Shown(l) == \A id \in DOMAIN l.entities : \E b : ShownIn(l, id, b)

LEMMA RevisedIsTold ==
  ASSUME NEW e, IsEntity(e), NEW m \in Nat, ToldOf(e, m), NEW content
  PROVE  ToldOf(ChangedEntity(e, content, m + 1), m + 1)
<1>0. PICK x, r, q : /\ x = ChangedEntity(e, content, m + 1) /\ r = e.revisions
                     /\ q = Revised(e, content, m + 1)
  OBVIOUS
<1>1. /\ x.content = content /\ x.first = e.first /\ x.last = m + 1 /\ x.revisions = q
  BY <1>0, ContentIs
<1>2. /\ e.first \in Nat /\ e.last \in Nat /\ e.first <= e.last /\ e.last <= m /\ IsSeq(r)
      /\ \A k \in DOMAIN r : GoesOn(r, k, e.first, e.last)
      /\ r # <<>> => r[Len(r)].to = e.content
  BY <1>0 DEF ToldOf
<1>3. CASE e.content = content
  <2>1. q = r
    BY <1>0, <1>3 DEF Revised
  <2>2. \A k \in DOMAIN r : GoesOn(r, k, e.first, m + 1)
    BY <1>2 DEF GoesOn
  <2> QED
    BY <1>1, <1>2, <1>0, <1>3, <2>1, <2>2 DEF ToldOf
<1>4. CASE e.content # content
  <2>a. PICK new : new = [batch |-> m + 1, from |-> e.content, to |-> content]
    OBVIOUS
  <2>1. q = Append(r, new)
    BY <1>0, <1>4, <2>a DEF Revised
  <2>0. IsSeq(r)
    BY <1>2
  <2>2. /\ IsSeq(q) /\ Len(r) \in Nat /\ Len(q) = Len(r) + 1 /\ q[Len(r) + 1] = new
        /\ \A k \in 1..Len(r) : q[k] = r[k]
        /\ DOMAIN r = 1..Len(r) /\ DOMAIN q = 1..(Len(r) + 1)
    <3>1. /\ IsSeq(Append(r, new)) /\ Len(r) \in Nat /\ Len(Append(r, new)) = Len(r) + 1
          /\ Append(r, new)[Len(r) + 1] = new /\ \A k \in 1..Len(r) : Append(r, new)[k] = r[k]
          /\ DOMAIN r = 1..Len(r) /\ DOMAIN Append(r, new) = 1..(Len(r) + 1)
      BY <2>0, AppendSeq
    <3> QED
      BY <2>1, <3>1
  <2>3. new.batch = m + 1 /\ new.from = e.content /\ new.to = content
    BY <2>a
  <2>4. Len(r) > 0 => r # <<>> /\ r[Len(r)].to = e.content /\ r[Len(r)].batch <= e.last
                      /\ r[Len(r)].batch \in Nat
    BY <1>2, <2>2 DEF GoesOn
  <2>5. ASSUME NEW k \in DOMAIN q
        PROVE  GoesOn(q, k, e.first, m + 1)
    <3>1. CASE k \in 1..Len(r)
      <4>1. q[k] = r[k] /\ (k > 1 => q[k - 1] = r[k - 1])
        <5>1. k > 1 => k - 1 \in 1..Len(r)
          BY <2>2, <3>1
        <5> QED
          BY <2>2, <3>1, <5>1
      <4>2. GoesOn(r, k, e.first, e.last)
        BY <1>2, <2>2, <3>1
      <4> QED
        BY <1>2, <4>1, <4>2 DEF GoesOn
    <3>2. CASE k = Len(r) + 1
      <4>1. k > 1 => Len(r) > 0 /\ k - 1 = Len(r) /\ q[k - 1] = r[Len(r)]
        BY <2>2, <3>2
      <4> QED
        BY <1>2, <1>4, <2>2, <2>3, <2>4, <3>2, <4>1 DEF GoesOn
    <3> QED
      BY <2>2, <3>1, <3>2
  <2>6. q[Len(q)].to = content
    BY <2>2, <2>3
  <2> QED
    BY <1>1, <1>2, <1>0, <2>2, <2>5, <2>6 DEF ToldOf
<1> QED
  BY <1>3, <1>4

LEMMA BatchIsTold ==
  ASSUME NEW l, IsLineage(l), Told(l), NEW s, NEW D, NEW a, Between(a, l, s, D)
  PROVE  Told(a)
<1> PICK m : m = Len(l.batches)
  OBVIOUS
<1>1. m \in Nat /\ Len(a.batches) = m + 1
  <2>1. IsSeq(l.batches) /\ \E c : a.batches = Append(l.batches, c)
    BY DEF IsLineage, Between
  <2> QED
    BY <2>1, AppendSeq
<1>2. ASSUME NEW id \in DOMAIN a.entities
      PROVE  ToldOf(a.entities[id], m + 1)
  <2>1. CASE id \in DOMAIN l.entities \ D
    <3>1. a.entities[id] = l.entities[id] /\ ToldOf(l.entities[id], m)
      BY <2>1 DEF Between, Told
    <3> QED
      BY <1>1, <3>1 DEF ToldOf
  <2>2. CASE id \in DOMAIN l.entities \cap D
    <3>1. /\ a.entities[id] = ChangedEntity(l.entities[id], s[id].content, m + 1)
          /\ ToldOf(l.entities[id], m) /\ IsEntity(l.entities[id])
      BY <2>2 DEF Between, Told, IsLineage
    <3> QED
      BY <1>1, <3>1, RevisedIsTold
  <2>3. CASE id \in D \ DOMAIN l.entities
    <3> PICK e : e = a.entities[id]
      OBVIOUS
    <3>1. e = NewEntity(e.display, s[id].content, m + 1)
      BY <2>3 DEF Between
    <3>2. e.first = m + 1 /\ e.last = m + 1 /\ e.revisions = <<>>
      BY <3>1, NewIs
    <3>3. IsSeq(<<>>) /\ DOMAIN <<>> = {}
      <4>1. <<>> \in Seq({})
        OBVIOUS
      <4> QED
        BY <4>1 DEF IsSeq
    <3> QED
      BY <1>1, <3>2, <3>3 DEF ToldOf
  <2>4. DOMAIN a.entities = DOMAIN l.entities \cup D
    BY DEF Between
  <2> QED
    BY <2>1, <2>2, <2>3, <2>4
<1> QED
  BY <1>1, <1>2 DEF Told

LEMMA BatchIsShown ==
  ASSUME NEW l, IsLineage(l), Shown(l), NEW s, NEW D, NEW a, Between(a, l, s, D)
  PROVE  Shown(a)
<1> PICK m, c : m = Len(l.batches) /\ c = BatchOf(l, s, D, a.entities)
  OBVIOUS
<1>1. /\ m \in Nat /\ DOMAIN l.batches = 1..m /\ DOMAIN a.batches = 1..(m + 1)
      /\ a.batches[m + 1] = c /\ \A k \in 1..m : a.batches[k] = l.batches[k]
  <2>1. IsSeq(l.batches) /\ a.batches = Append(l.batches, c)
    BY DEF IsLineage, Between
  <2> QED
    BY <2>1, AppendSeq
<1>2. /\ DOMAIN c.entities = D /\ \A id \in D : c.entities[id] = a.entities[id]
      /\ c.changed = {id \in D : id \in DOMAIN l.entities => l.entities[id].content # s[id].content}
  BY DEF BatchOf
<1>3. \A id, b : b \in 1..m => (IsRow(a, b, id) <=> IsRow(l, b, id))
  BY <1>1 DEF IsRow
<1>4. \A id, b : IsRow(a, b, id) => b \in 1..(m + 1)
  BY <1>1 DEF IsRow
<1>5. \A id : IsRow(a, m + 1, id) <=> id \in D /\ (m = 0 \/ id \in c.changed)
  BY <1>1, <1>2 DEF IsRow
<1>6. ASSUME NEW id \in DOMAIN a.entities, IsRow(a, m + 1, id)
      PROVE  ShownIn(a, id, m + 1)
  <2>1. a.batches[m + 1].entities[id].content = a.entities[id].content
    BY <1>1, <1>2, <1>5, <1>6
  <2>2. \A b : IsRow(a, b, id) => b <= m + 1
    BY <1>1, <1>4
  <2> QED
    BY <1>6, <2>1, <2>2 DEF ShownIn
<1>7. ASSUME NEW id \in DOMAIN a.entities, ~IsRow(a, m + 1, id)
      PROVE  \E b : ShownIn(a, id, b)
  <2>1. id \in DOMAIN l.entities /\ a.entities[id].content = l.entities[id].content
    <3>1. CASE id \in D
      <4>1. id \in DOMAIN l.entities /\ l.entities[id].content = s[id].content
        BY <1>2, <1>5, <1>7, <3>1
      <4>2. a.entities[id].content = s[id].content
        BY <3>1, RecordedIs
      <4> QED
        BY <4>1, <4>2
    <3>2. CASE id \notin D
      BY <3>2 DEF Between
    <3> QED
      BY <3>1, <3>2
  <2>2. PICK b : ShownIn(l, id, b)
    BY <2>1 DEF Shown
  <2>3. b \in 1..m
    BY <1>1, <2>2 DEF ShownIn, IsRow
  <2>4. IsRow(a, b, id) /\ a.batches[b].entities[id].content = a.entities[id].content
    BY <1>1, <1>3, <2>1, <2>2, <2>3 DEF ShownIn
  <2>5. ASSUME NEW k, IsRow(a, k, id)
        PROVE  k <= b
    <3>1. k \in 1..m
      BY <1>1, <1>4, <1>7, <2>5
    <3>2. IsRow(l, k, id)
      BY <1>3, <2>5, <3>1
    <3> QED
      BY <2>2, <3>2 DEF ShownIn
  <2> QED
    BY <2>4, <2>5 DEF ShownIn
<1> QED
  BY <1>6, <1>7 DEF Shown

LEMMA BatchIsLineage ==
  ASSUME NEW l, IsLineage(l), NEW s, NEW D, NEW a, Between(a, l, s, D)
  PROVE  IsLineage(a)
<1>1. IsSeq(a.batches)
  <2>1. IsSeq(l.batches) /\ \E c : a.batches = Append(l.batches, c)
    BY DEF IsLineage, Between
  <2> QED
    BY <2>1, AppendSeq
<1>2. ASSUME NEW id \in DOMAIN a.entities
      PROVE  IsEntity(a.entities[id])
  <2>1. CASE id \in DOMAIN l.entities \ D
    BY <2>1 DEF Between, IsLineage
  <2>2. CASE id \in DOMAIN l.entities \cap D
    <3>1. /\ IsEntity(l.entities[id])
          /\ a.entities[id] = ChangedEntity(l.entities[id], s[id].content, Len(l.batches) + 1)
      BY <2>2 DEF Between, IsLineage
    <3> QED
      BY <3>1, ContentIs
  <2>3. CASE id \in D \ DOMAIN l.entities
    <3>1. a.entities[id]
            = NewEntity(a.entities[id].display, s[id].content, Len(l.batches) + 1)
      BY <2>3 DEF Between
    <3> QED
      BY <3>1, NewIs
  <2>4. DOMAIN a.entities = DOMAIN l.entities \cup D
    BY DEF Between
  <2> QED
    BY <2>1, <2>2, <2>3, <2>4
<1>3. a.entities = [id \in DOMAIN a.entities |-> a.entities[id]]
  BY DEF Between
<1> QED
  BY <1>1, <1>2, <1>3 DEF IsLineage, Between

-----------------------------------------------------------------------------
(* A lineage as scans make it.                                              *)

Good(l) == IsLineage(l) /\ Numbered(l) /\ Told(l) /\ Shown(l) /\ BuildLineage(l) = l

LEMMA FirstIsGood == Good(CreateLineage)
<1> PICK l : l = CreateLineage
  OBVIOUS
<1>1. /\ l = [entities |-> l.entities, registry |-> l.registry, batches |-> l.batches]
      /\ l.entities = [id \in {} |-> 0] /\ l.registry = {} /\ l.batches = <<>>
  BY DEF CreateLineage
<1>2. DOMAIN l.entities = {} /\ IsSeq(l.batches) /\ Len(l.batches) = 0
  <2>1. <<>> \in Seq({}) /\ Len(<<>>) = 0
    OBVIOUS
  <2> QED
    BY <1>1, <2>1 DEF IsSeq
<1>3. IsLineage(l) /\ Told(l) /\ Shown(l)
  BY <1>1, <1>2 DEF IsLineage, Told, Shown
<1>4. Numbered(l)
  <2>1. ASSUME NEW kind
        PROVE  Numbers(l.registry, kind) = 1..0
    BY <1>1 DEF Numbers
  <2> QED
    BY <1>1, <1>2, <2>1 DEF Numbered
<1>5. BuildLineage(l) = l
  <2>1. PICK f : Replays(f, l) /\ BuildLineage(l) = f[0]
    BY <1>2, BuildLineageReplays
  <2> QED
    BY <2>1 DEF Replays
<1> QED
  BY <1>3, <1>4, <1>5 DEF Good

LEMMA BatchIsGood ==
  ASSUME NEW l, Good(l), NEW s, Fresh(s)
  PROVE  Good(ApplyBatch(l, s))
<1> PICK a, D, c : /\ a = ApplyBatch(l, s) /\ D = Seen(s, Len(Identities))
                   /\ c = BatchOf(l, s, D, a.entities)
  OBVIOUS
<1>1. IsLineage(l) /\ Numbered(l) /\ Told(l) /\ Shown(l) /\ BuildLineage(l) = l
  BY DEF Good
<1>2. /\ Between(a, l, s, D) /\ Numbered(a)
      /\ ApplyBatch(l, Recorded(a.batches[Len(l.batches) + 1])) = a
  BY <1>1, BatchReplays
<1>3. IsLineage(a) /\ Told(a) /\ Shown(a)
  BY <1>1, <1>2, BatchIsLineage, BatchIsTold, BatchIsShown
<1>4. BuildLineage(a) = a
  <2>1. IsSeq(l.batches) /\ a.batches = Append(l.batches, c)
    BY <1>1, <1>2 DEF IsLineage, Between
  <2>2. a.batches[Len(l.batches) + 1] = c
    BY <2>1, AppendSeq
  <2> QED
    BY <1>1, <1>2, <2>1, <2>2, AllReplay
<1> QED
  BY <1>2, <1>3, <1>4 DEF Good

-----------------------------------------------------------------------------
(* The lineages in the files.                                               *)

\* Every lineage, in a file or on its way to one, is as scans make it.
LineagesGood ==
  /\ runData # None => Good(runData.lineage)
  /\ lineageFile # None => Good(lineageFile.lineage)
  /\ job.command \in {"scan", "finalize"} => Good(job.lineage) /\ Good(job.stage4)

\* The Excel file shows the lineage.
ExcelOfLineage ==
  /\ job.command = "finalize" => job.excel.rows = ExcelRows(job.lineage)
  /\ job.command = "finalized" => excel.rows = ExcelRows(lineageFile.lineage)

HistoryInv == IInv /\ LineagesGood /\ ExcelOfLineage

LEMMA HistoryBegins == Init => HistoryInv
BY InitOK DEF HistoryInv, LineagesGood, ExcelOfLineage, Init, NoJob

LEMMA IntegrateKeepsHistory ==
  ASSUME HistoryInv, NEW found, NEW incremental, Integrate(found, incremental)
  PROVE  LineagesGood' /\ ExcelOfLineage'
<1> PICK s : s = [id \in DOMAIN found |-> [content |-> found[id], display |-> 0]]
  OBVIOUS
<1> PICK p : p = IF incremental /\ runData # None THEN BuildLineage(runData.lineage)
                 ELSE CreateLineage
  OBVIOUS
<1>1. Fresh(s)
  BY DEF Fresh
<1>2. Good(p)
  BY FirstIsGood DEF HistoryInv, LineagesGood, Good
<1>3. Good(ApplyBatch(p, s))
  BY <1>1, <1>2, BatchIsGood
<1>4. /\ job'.command = "scan" /\ job'.lineage = ApplyBatch(p, s) /\ job'.stage4 = job'.lineage
      /\ UNCHANGED <<runData, lineageFile>>
  BY DEF Integrate, files
<1> QED
  BY <1>3, <1>4 DEF HistoryInv, LineagesGood, ExcelOfLineage

LEMMA FinalizeKeepsHistory ==
  ASSUME HistoryInv, Finalize
  PROVE  LineagesGood' /\ ExcelOfLineage'
<1>1. /\ runData # None /\ lineageFile # None /\ UNCHANGED <<runData, lineageFile>>
      /\ job'.command = "finalize" /\ job'.lineage = lineageFile.lineage
      /\ job'.stage4 = runData.lineage /\ job'.excel.rows = ExcelRows(lineageFile.lineage)
  BY DEF Finalize, files, BuildExcelProjection
<1> QED
  BY <1>1 DEF HistoryInv, LineagesGood, ExcelOfLineage

LEMMA WritesKeepHistory ==
  ASSUME HistoryInv, WriteFile
  PROVE  LineagesGood' /\ ExcelOfLineage'
<1>1. job.command \in {"scan", "finalize"}
  BY DEF HistoryInv, IInv, Working, WriteFile, Idle
<1>2. /\ runData' = runData \/ runData'.lineage = job.stage4
      /\ lineageFile' = lineageFile \/ lineageFile'.lineage = job.lineage
  BY DEF WriteFile
<1>3. Good(job.lineage) /\ Good(job.stage4)
  BY <1>1 DEF HistoryInv, LineagesGood
<1>4. \/ job' = [job EXCEPT !.left = Tail(@)]
      \/ job'.command = "none"
      \/ job'.command = "finalized" /\ job.command = "finalize" /\ Len(job.left) <= 1
         /\ ~(Head(job.left) = "views" /\ ~EvidenceIsDerived(runData, job.lineage))
  <2>1. Len(job.left) \in Nat
    <3>1. CASE job.command = "scan"
      <4>1. PICK i \in 1..5 : job.left = SubSeq(ScanFiles, i, 5)
        BY <3>1 DEF HistoryInv, IInv, Working, ScanStage
      <4> QED
        BY <4>1, FilesAre, SubSeqProperties
    <3>2. CASE job.command = "finalize"
      <4>1. PICK i \in 1..6 : job.left = SubSeq(FinalizeFiles, i, 6)
        BY <3>2 DEF HistoryInv, IInv, Working, FinalizeStage
      <4> QED
        BY <4>1, FilesAre, SubSeqProperties
    <3> QED
      BY <1>1, <3>1, <3>2
  <2> QED
    BY <2>1 DEF WriteFile, NoJob
<1>5. CASE job' = [job EXCEPT !.left = Tail(@)]
  <2>1. job = JobOf(job)
    BY <1>1 DEF HistoryInv, IInv, Working, ScanStage, FinalizeStage
  <2>2. /\ job'.command = job.command /\ job'.lineage = job.lineage /\ job'.stage4 = job.stage4
        /\ job'.excel = job.excel
    BY <1>5, <2>1, OneFileLess
  <2> QED
    BY <1>1, <1>2, <1>3, <2>2 DEF HistoryInv, LineagesGood, ExcelOfLineage
<1>6. CASE job'.command = "none"
  BY <1>2, <1>3, <1>6 DEF HistoryInv, LineagesGood, ExcelOfLineage
<1>7. CASE job'.command = "finalized" /\ job.command = "finalize" /\ Len(job.left) <= 1
           /\ ~(Head(job.left) = "views" /\ ~EvidenceIsDerived(runData, job.lineage))
  <2>1. PICK i \in 1..6 : FinalizeStage(i)
    BY <1>7 DEF HistoryInv, IInv, Working
  <2>2. i = 6 /\ Head(job.left) = FinalizeFiles[6]
    BY <1>7, <2>1, FinalizeFile DEF FinalizeStage
  <2>3. excel' = job.excel /\ lineageFile'.lineage = job.lineage
    BY <2>1, <2>2 DEF WriteFile, FinalizeStage, FinalizeFiles
  <2> QED
    BY <1>2, <1>3, <1>7, <2>3 DEF HistoryInv, LineagesGood, ExcelOfLineage
<1> QED
  BY <1>4, <1>5, <1>6, <1>7

LEMMA HistoryStep == HistoryInv /\ [Next]_vars => HistoryInv'
<1> SUFFICES ASSUME HistoryInv, [Next]_vars
             PROVE  LineagesGood' /\ ExcelOfLineage'
  BY StepOK DEF HistoryInv
<1>1. CASE UNCHANGED vars
  BY <1>1 DEF vars, files, HistoryInv, LineagesGood, ExcelOfLineage
<1>2. ASSUME NEW shown, WriteCognition(shown)
      PROVE  LineagesGood' /\ ExcelOfLineage'
  BY <1>2 DEF WriteCognition, files, HistoryInv, LineagesGood, ExcelOfLineage
<1>3. CASE Crash
  BY <1>3 DEF Crash, NoJob, files, HistoryInv, LineagesGood, ExcelOfLineage
<1> QED
  BY <1>1, <1>2, <1>3, IntegrateKeepsHistory, FinalizeKeepsHistory, WritesKeepHistory DEF Next

\* The lineage a later scan rebuilds from the recorded batches is the lineage that was
\* written, for any findings that come and go over any number of scans, and display ids
\* are unique (previousBatches, buildLineage, nextDisplayNumber).
THEOREM HistoriesReplay == Spec => []ReplayIsFaithful
<1>1. HistoryInv => ReplayIsFaithful
  <2> SUFFICES ASSUME HistoryInv, NEW l \in Lineages
               PROVE  /\ BuildLineage(l.lineage) = l.lineage
                      /\ \A i, j \in DOMAIN l.lineage.entities :
                           Kind(i) = Kind(j)
                             /\ l.lineage.entities[i].display = l.lineage.entities[j].display
                             => i = j
    BY DEF ReplayIsFaithful
  <2>1. Good(l.lineage)
    BY DEF Lineages, HistoryInv, LineagesGood
  <2> QED
    BY <2>1 DEF Good, Numbered
<1> QED
  BY <1>1, HistoryBegins, HistoryStep, PTL DEF Spec

\* Of a row, the Excel file has the batch, the identity and the entity.
LEMMA ExcelRowsAre ==
  ASSUME NEW l
  PROVE  /\ \A b, id : IsRow(l, b, id) =>
              [batch |-> b, identity |-> id, entity |-> l.batches[b].entities[id]] \in ExcelRows(l)
         /\ \A row \in ExcelRows(l) : IsRow(l, row.batch, row.identity)
<1> DEFINE Row(b, id) == [batch |-> b, identity |-> id, entity |-> l.batches[b].entities[id]]
           Of(b) == {Row(b, id) : id \in {x \in DOMAIN l.batches[b].entities :
                                            b = 1 \/ x \in l.batches[b].changed}}
<1>1. ExcelRows(l) = UNION {Of(b) : b \in DOMAIN l.batches}
  BY DEF ExcelRows
<1>2. ASSUME NEW b, NEW id, IsRow(l, b, id)
      PROVE  Row(b, id) \in ExcelRows(l)
  <2>1. b \in DOMAIN l.batches /\ Row(b, id) \in Of(b)
    BY <1>2 DEF IsRow
  <2> HIDE DEF Of, Row
  <2> QED
    BY <1>1, <2>1
<1>3. ASSUME NEW row \in ExcelRows(l)
      PROVE  IsRow(l, row.batch, row.identity)
  <2>1. PICK b \in DOMAIN l.batches : row \in Of(b)
    <3> HIDE DEF Of
    <3> QED
      BY <1>1
  <2>2. PICK id \in DOMAIN l.batches[b].entities :
          (b = 1 \/ id \in l.batches[b].changed) /\ row = Row(b, id)
    BY <2>1
  <2>3. row = [batch |-> b, identity |-> id, entity |-> l.batches[b].entities[id]]
    BY <2>2, Zenon
  <2>4. row.batch = b /\ row.identity = id
    BY ONLY <2>3, Zenon
  <2> QED
    BY <2>2, <2>4 DEF IsRow
<1> QED
  BY <1>2, <1>3

\* The revisions of every entity are the changes between the batches that saw it, in
\* their order, and the last row of an entity in the Excel file is what it is now
\* (applyBatch, buildExcelProjection): for any findings, scans and stops.
THEOREM HistoriesAreTold == Spec => []HistoryIsTold
<1>1. HistoryInv => RevisionsTellTheHistory
  <2> SUFFICES ASSUME HistoryInv, NEW l \in Lineages, NEW id \in DOMAIN l.lineage.entities
               PROVE  LET entity == l.lineage.entities[id]
                          r == entity.revisions
                      IN /\ \A k \in DOMAIN r :
                              /\ r[k].from # r[k].to
                              /\ r[k].batch > entity.first /\ r[k].batch <= entity.last
                              /\ k > 1 => r[k].from = r[k - 1].to /\ r[k].batch > r[k - 1].batch
                         /\ r # <<>> => r[Len(r)].to = entity.content
    BY DEF RevisionsTellTheHistory
  <2>1. Good(l.lineage)
    BY DEF Lineages, HistoryInv, LineagesGood
  <2>2. ToldOf(l.lineage.entities[id], Len(l.lineage.batches))
    BY <2>1 DEF Good, Told
  <2> QED
    BY <2>2 DEF ToldOf, GoesOn
<1>2. HistoryInv => ExcelShowsTheCurrent
  <2> SUFFICES ASSUME HistoryInv, excel # None, lineageFile # None, job.command = "finalized",
                      NEW id \in DOMAIN lineageFile.lineage.entities
               PROVE  \E row \in excel.rows :
                        /\ row.identity = id
                        /\ row.entity.content = lineageFile.lineage.entities[id].content
                        /\ \A other \in excel.rows : other.identity = id => other.batch <= row.batch
    BY DEF ExcelShowsTheCurrent
  <2>0. PICK l : l = lineageFile.lineage
    OBVIOUS
  <2>1. Good(l) /\ excel.rows = ExcelRows(l) /\ id \in DOMAIN l.entities
    BY <2>0 DEF HistoryInv, LineagesGood, ExcelOfLineage
  <2>2. PICK b : ShownIn(l, id, b)
    BY <2>1 DEF Good, Shown
  <2>3. PICK row : row = [batch |-> b, identity |-> id, entity |-> l.batches[b].entities[id]]
    OBVIOUS
  <2>4. row.batch = b /\ row.identity = id /\ row.entity = l.batches[b].entities[id]
    BY <2>3
  <2>5. row \in ExcelRows(l) /\ row.entity.content = l.entities[id].content
    BY <2>2, <2>3, <2>4, ExcelRowsAre DEF ShownIn
  <2>6. ASSUME NEW other \in ExcelRows(l), other.identity = id
        PROVE  other.batch <= row.batch
    <3>1. IsRow(l, other.batch, id)
      BY <2>6, ExcelRowsAre
    <3> QED
      BY <2>2, <2>4, <3>1 DEF ShownIn
  <2> QED
    BY <2>0, <2>1, <2>4, <2>5, <2>6
<1>3. HistoryInv => HistoryIsTold
  BY <1>1, <1>2 DEF HistoryIsTold
<1> QED
  BY <1>3, HistoryBegins, HistoryStep, PTL DEF Spec

Guards == Branches("guard")
Condition(i) == <<"condition", At(i, 0, 0)>>
Terminal(i) == <<"terminal", At(i, 0, 0)>>

\* The part of the chain before the false outcome of guard g.
UpTo(g) == {Entry} \cup {Condition(j) : j \in {k \in Guards : k <= g}}
                   \cup {Terminal(j) : j \in {k \in Guards : k <= g}}

\* The post-processing of one outcome of a response condition.
Block(i, o) == {<<"post", t>> : t \in TextsOf(i, o)}

Responses == Branches("if_else")
Outcomes == {"true", "false"}
SideOf(outcome) == IF outcome = "true" THEN 1 ELSE 2
EdgesOf(i, o) == {e \in edges : e.branch = i /\ e.outcome = o}
Early == {"focus", "relations", "begin"}
Late == {"recovery", "apis", "responses", "posts", "finish", "done"}

\* What is still to be placed is of the kind the step places.
TodoIsOf ==
  /\ pc = "guards" => todo \subseteq {Placed(i) : i \in Guards}
  /\ pc = "apis" => todo \subseteq ApiReferences
  /\ pc = "responses" => todo \subseteq {Placed(i) : i \in Branches("if_else")}
  /\ pc = "posts" => todo \subseteq Linear

\* The chain is of what selectAnalysisFocus and recoverL2 found.
Grounded ==
  /\ focus \in {"", Priority(asset)}
  /\ pc \notin {"focus", "relations"} /\ (pc = "done" => type # "none") => relations = RecoverL2
  /\ \A n \in nodes : n[1] = "api_reference" => \E c \in ApiReferences : n[2] = c.at

\* The chain has not begun, or it has with the type of the action.
Started ==
  /\ pc \in Early \cup Late \cup {"guards"}
  /\ pc \in Early \/ type = "none" =>
       nodes = {} /\ edges = {} /\ previous = NoNode /\ pending = 0
  /\ pc \in Early => type = "none"
  /\ type = "none" => pc \in Early \cup {"done"}
  /\ type = "none" \/ type = ActionType
  /\ type = "recovery" => pc \in {"guards", "recovery", "finish", "done"}
  /\ type # "recovery" => pc \notin {"recovery", "finish"}
  /\ pc \in {"guards", "recovery"} => previous # NoNode

\* The open guard is the previous node.
PendingIsPrevious == pending = 0 \/ (pending \in Guards /\ previous = Condition(pending))

\* Whatever holds the entry and is not left by an edge holds the previous node.
WayToPrevious == \A t : Entry \in t /\ Closed(t, edges) => previous \in t

\* Guard g cuts the chain in two: UpTo(g), which only its false outcome leaves, and the
\* rest, from which no edge leads back.
Cut(g) ==
  /\ \A e \in edges : e.from \in UpTo(g) => e.to \in UpTo(g) \/ (e.branch = g /\ e.outcome = "false")
  /\ \A e \in edges : e.to \in UpTo(g) => e.from \in UpTo(g)
  /\ \A e \in edges : e.branch = g /\ e.outcome = "false" => e.to \notin UpTo(g)
  /\ \A e \in edges : e.branch = g /\ e.outcome = "true" => e.to = Terminal(g)
  /\ \A e \in edges : e.from # Terminal(g)
  /\ previous # Terminal(g)

\* Guards are placed in the order of the source.
InOrder(g) ==
  IF pc = "guards" /\ Placed(g) \in todo
  THEN previous \in UpTo(g) /\ pending < g
  ELSE /\ pc = "guards" => \A h \in Guards : Placed(h) \in todo => g < h
       /\ pc \notin Early /\ previous \in UpTo(g) => pending = g

\* What an outcome of a response condition leads to stands in its block.
InBlock(i) == \A e \in edges : e.branch = i => e.outcome \in Outcomes /\ e.to \in Block(i, e.outcome)

\* An edge from a response condition, or from post-processing of one, is of an outcome of
\* a response condition, and stays in its block.
Leaves(n) ==
  \/ Responses # {} /\ n[1] = "post"
  \/ n \in {Condition(i) : i \in Responses}
IsOfOutcome(e) ==
  /\ e.branch \in Responses /\ e.outcome \in Outcomes
  /\ e.from \in {Condition(e.branch)} \cup Block(e.branch, e.outcome)
  /\ e.to \in Block(e.branch, e.outcome)
OnOutcome == \A e \in edges : Leaves(e.from) => IsOfOutcome(e)

\* From the condition the edges of an outcome lead to all of its block.
Whole(i) ==
  \A o \in Outcomes : \A t :
    Condition(i) \in t /\ Closed(t, EdgesOf(i, o)) => Block(i, o) \subseteq t

\* Conditions not placed are still to be placed, and nothing follows the first that is placed.
WholeInTurn ==
  /\ pc = "responses" => \A i \in Responses : Placed(i) \in todo \/ Whole(i)
  /\ pc = "responses" => previous = NoNode \/ \A i \in Responses : Placed(i) \in todo
  /\ pc = "posts" \/ (pc = "done" /\ type \notin {"none", "recovery"}) =>
       \A i \in Responses : Whole(i)
  /\ pc = "posts" /\ todo # {} => Responses = {}

WayInv == OnOutcome /\ ~Leaves(previous) /\ WholeInTurn

\* The edges of a recovery are the only ones at its nodes.
Replaying ==
  /\ \A e \in edges : e.branch \in Branches("recovery") =>
       IF e.outcome = "true" THEN e.to[1] \in {"public_recovery", "replay"}
       ELSE e.to[1] = "continuation"
  /\ \A e \in edges : /\ e.from[1] \notin {"continuation", "replay"}
                      /\ e.from[1] = "public_recovery" => e.to[1] = "replay"
  /\ previous[1] \notin {"continuation", "replay", "public_recovery"}

\* What RecoveryIsReplayed says of a complete chain.
Replayed ==
  \E i \in Ifs :
    /\ Stmt(i).cond = "401" /\ Stmt(i).ends = "replay"
    /\ <<"replay", ReplayAt(i)>> \in ReachableFrom({Entry}, edges)
    /\ \A e \in edges : e.to[1] = "replay" => e.from[1] = "public_recovery" /\ e.branch = i

BaseInv ==
  /\ fn \in FunctionType
  /\ TodoIsOf /\ Grounded /\ Started /\ PendingIsPrevious
  /\ pc \in {"guards", "recovery"} => WayToPrevious /\ \A e \in edges : e.to[1] # "replay"
  /\ pc \in {"finish", "done"} /\ type = "recovery" => Replayed

SplitInv ==
  ApisOutsideBranches =>
    /\ \A g \in Guards : Cut(g) /\ InOrder(g)
    /\ \A i \in Responses : InBlock(i)
    /\ Replaying

ChainInv == BaseInv /\ SplitInv
-----------------------------------------------------------------------------
(* Facts of a function, the same in every state.                            *)

LEMMA FnKept ==
  ASSUME fn' = fn
  PROVE  /\ Guards' = Guards /\ ApiReferences' = ApiReferences
         /\ Ifs' = Ifs /\ \A k : Branches(k)' = Branches(k)
         /\ \A i : Stmt(i)' = Stmt(i) /\ ReplayAt(i)' = ReplayAt(i)
         /\ Linear' = Linear /\ PostProcessing' = PostProcessing
         /\ ApisOutsideBranches' = ApisOutsideBranches /\ ActionType' = ActionType
         /\ RecoverL2' = RecoverL2 /\ \A i, o : TextsOf(i, o)' = TextsOf(i, o)
<1>1. Ifs' = Ifs /\ \A i : Stmt(i)' = Stmt(i)
  BY Zenon DEF Ifs, Stmt
<1>2. \A i : IsRecovery(i)' = IsRecovery(i) /\ IsGuard(i)' = IsGuard(i)
             /\ IsIfElse(i)' = IsIfElse(i) /\ ReplayAt(i)' = ReplayAt(i)
  BY Zenon DEF IsRecovery, IsGuard, IsIfElse, ReplayAt, Stmt
<1>3. \A i : BranchKind(i)' = BranchKind(i)
  BY <1>2, Zenon DEF BranchKind
<1>4. Guards' = Guards /\ AllBranches' = AllBranches /\ \A k : Branches(k)' = Branches(k)
  BY <1>1, <1>3, Zenon DEF Guards, Branches, AllBranches
<1>5. Calls' = Calls
  BY DEF Calls, Stmt, Ifs
<1>6. ApiReferences' = ApiReferences
  BY <1>5, Zenon DEF ApiReferences
<1>7. \A c : BranchOf(c)' = BranchOf(c) /\ OutcomeOf(c)' = OutcomeOf(c)
  BY <1>4, Zenon DEF BranchOf, OutcomeOf
<1>8. \A c : BranchPost(c)' = BranchPost(c)
  BY <1>7, Zenon DEF BranchPost
<1>9. PostProcessing' = PostProcessing
  <2>1. Posting' = Posting
    BY <1>5, Zenon DEF Posting
  <2>2. \A c, k : InBranch(c, k)' = InBranch(c, k)
    BY <1>3, <1>7, Zenon DEF InBranch
  <2>3. RecoveryPosts' = RecoveryPosts
    BY <1>1, <1>2, <1>4, <1>8, <2>1, <2>2, Zenon DEF RecoveryPosts
  <2> QED
    BY <1>1, <1>4, <1>8, <2>1, <2>2, <2>3, Zenon DEF PostProcessing
<1>10. Linear' = Linear
  BY <1>9, Zenon DEF Linear
<1>11. ApisOutsideBranches' = ApisOutsideBranches
  BY <1>6, <1>7, Zenon DEF ApisOutsideBranches
<1>12. ConditionKinds' = ConditionKinds
  BY <1>1, <1>4, Zenon DEF ConditionKinds
<1>13. ActionType' = ActionType
  BY <1>4, <1>6, <1>12, Zenon DEF ActionType
<1>14. RecoverL2' = RecoverL2
  BY <1>5, <1>6, <1>12, Zenon DEF RecoverL2
<1>15. \A i, o : TextsOf(i, o)' = TextsOf(i, o)
  BY <1>5, Zenon DEF TextsOf, Posting
<1> QED
  BY <1>1, <1>2, <1>3, <1>4, <1>6, <1>9, <1>10, <1>11, <1>13, <1>14, <1>15

LEMMA UpToKept ==
  ASSUME fn' = fn
  PROVE  \A g : UpTo(g)' = UpTo(g)
BY FnKept, Zenon DEF UpTo

LEMMA BlockKept ==
  ASSUME fn' = fn
  PROVE  Responses' = Responses /\ \A i, o : Block(i, o)' = Block(i, o)
BY FnKept, Zenon DEF Block, Responses

LEMMA StatementsAreNumbered ==
  ASSUME fn \in FunctionType
  PROVE  /\ Ifs \subseteq Nat \ {0}
         /\ \A i \in Ifs : Stmt(i).then \in Seq(CallKinds) /\ Stmt(i).else \in Seq(CallKinds)
<1> DEFINE Statement == [type : {"call"}, call : CallKinds]
                       \cup [type : {"assign"}, text : Updates] \cup IfType
<1>1. fn.body \in Seq(Statement)
  BY DEF FunctionType
<1>2. ASSUME NEW i \in Ifs
      PROVE  i \in Nat \ {0} /\ Stmt(i) \in IfType
  <2>1. i \in DOMAIN fn.body /\ Stmt(i).type = "if" BY DEF Ifs
  <2>2. i \in Nat \ {0} /\ fn.body[i] \in Statement BY <1>1, <2>1
  <2>3. Stmt(i) \in IfType BY <2>1, <2>2 DEF Stmt
  <2> QED BY <2>2, <2>3
<1>3. ASSUME NEW s \in IfType PROVE s.then \in Seq(CallKinds) /\ s.else \in Seq(CallKinds)
  BY DEF IfType
<1> QED BY <1>2, <1>3

LEMMA BranchesAreIfs ==
  ASSUME fn \in FunctionType, NEW kind \in {"guard", "if_else", "recovery"}
  PROVE  /\ Branches(kind) \subseteq Nat \ {0} /\ Branches(kind) \subseteq AllBranches
         /\ \A i \in Branches(kind) : i \in Ifs /\ BranchKind(i) = kind
BY StatementsAreNumbered DEF Branches, AllBranches

\* A place tells the statement: nodes of different statements differ.
LEMMA NodesDiffer ==
  /\ \A i, j : Condition(i) = Condition(j) => i = j
  /\ \A i, j : Terminal(i) = Terminal(j) => i = j
  /\ \A i, j : Condition(i) # Terminal(j)
  /\ \A i : Condition(i) # Entry /\ Terminal(i) # Entry /\ Condition(i) # NoNode
  /\ Entry # NoNode
<1>1. \A i, j : Condition(i) = Condition(j) => i = j BY DEF Condition, At
<1>2. \A i, j : Terminal(i) = Terminal(j) => i = j BY DEF Terminal, At
<1>3. \A i, j : Condition(i) # Terminal(j) BY DEF Condition, Terminal
<1>4. \A i : Condition(i) # Entry /\ Terminal(i) # Entry /\ Condition(i) # NoNode
  BY DEF Condition, Terminal, Entry, NoNode
<1>5. Entry # NoNode BY DEF Entry, NoNode
<1> QED BY <1>1, <1>2, <1>3, <1>4, <1>5

LEMMA UpToHolds ==
  ASSUME fn \in FunctionType, NEW g \in Guards
  PROVE  /\ Entry \in UpTo(g) /\ Terminal(g) \in UpTo(g) /\ NoNode \notin UpTo(g)
         /\ \A i : (Condition(i) \in UpTo(g)) = (i \in Guards /\ i <= g)
         /\ \A i : (Terminal(i) \in UpTo(g)) = (i \in Guards /\ i <= g)
         /\ \A n : n \in UpTo(g) => n[1] \in {"function", "condition", "terminal"}
<1>0. g \in Nat BY BranchesAreIfs DEF Guards
<1>1. Entry \in UpTo(g) /\ Terminal(g) \in UpTo(g) BY <1>0 DEF UpTo
<1>2. \A i : (Condition(i) \in UpTo(g)) = (i \in Guards /\ i <= g) BY NodesDiffer DEF UpTo
<1>3. \A i : (Terminal(i) \in UpTo(g)) = (i \in Guards /\ i <= g) BY NodesDiffer DEF UpTo
<1>4. \A n : n \in UpTo(g) => n[1] \in {"function", "condition", "terminal"}
  BY DEF UpTo, Entry, Condition, Terminal
<1>5. NoNode \notin UpTo(g) 
  <2> NoNode[1] \notin {"function", "condition", "terminal"} BY DEF NoNode
  <2> QED BY <1>4
<1> QED BY <1>1, <1>2, <1>3, <1>4, <1>5

LEMMA SequentialShape ==
  ASSUME PendingIsPrevious, NEW node, NEW relation, NEW e \in SequentialEdges(node, relation)
  PROVE  /\ e.from = previous /\ e.to = node /\ e.branch = pending
         /\ (pending # 0 => e.outcome = "false") /\ (pending = 0 => e.outcome = "")
<1>1. CASE pending # 0
  <2>1. e = Edge(<<"condition", At(pending, 0, 0)>>, node, "guard_continue", pending, "false")
    BY <1>1 DEF SequentialEdges
  <2>2. previous = <<"condition", At(pending, 0, 0)>>
    BY <1>1 DEF PendingIsPrevious, Condition
  <2> QED BY <1>1, <2>1, <2>2 DEF Edge
<1>2. CASE pending = 0
  <2>1. e = Edge(previous, node, relation, 0, "")
    BY <1>2 DEF SequentialEdges
  <2> QED BY <1>2, <2>1 DEF Edge
<1> QED BY <1>1, <1>2

LEMMA SequentialExists ==
  ASSUME PendingIsPrevious, previous # NoNode, NEW node, NEW relation
  PROVE  \E e \in SequentialEdges(node, relation) : e.from = previous /\ e.to = node
BY DEF PendingIsPrevious, SequentialEdges, Edge, Condition

LEMMA RecoveryIsTyped ==
  /\ ActionType = "recovery" => Branches("recovery") # {}
  /\ ActionType # "recovery" => Branches("recovery") = {}
BY DEF ActionType

-----------------------------------------------------------------------------
(* Post-processing.                                                         *)

LEMMA WithinBoth ==
  ASSUME NEW S, NEW s \in Seq(S), NEW t \in Seq(S)
  PROVE  /\ Len(s) + Len(t) \in Nat
         /\ DOMAIN s \subseteq 1..(Len(s) + Len(t)) /\ DOMAIN t \subseteq 1..(Len(s) + Len(t))
<1>1. Len(s) \in Nat /\ Len(t) \in Nat /\ DOMAIN s = 1..Len(s) /\ DOMAIN t = 1..Len(t)
  OBVIOUS
<1> QED BY <1>1

LEMMA CallsArePlaced ==
  ASSUME fn \in FunctionType, NEW c \in Calls
  PROVE  /\ c.block \in {0, 1, 2}
         /\ c.block = 0 => c.at = At(c.stmt, 0, 0)
         /\ c.block # 0 => /\ c.stmt \in Ifs
                           /\ \E k \in 1..(Len(Stmt(c.stmt).then) + Len(Stmt(c.stmt).else)) :
                                c.at = At(c.stmt, c.block, k)
<1> DEFINE plain == {[kind |-> Stmt(i).call, at |-> At(i, 0, 0), stmt |-> i, block |-> 0] :
                 i \in {j \in DOMAIN fn.body : Stmt(j).type = "call"}}
           thens == UNION {{[kind |-> Stmt(i).then[k], at |-> At(i, 1, k), stmt |-> i, block |-> 1] :
                         k \in DOMAIN Stmt(i).then} : i \in Ifs}
           elses == UNION {{[kind |-> Stmt(i).else[k], at |-> At(i, 2, k), stmt |-> i, block |-> 2] :
                         k \in DOMAIN Stmt(i).else} : i \in {j \in Ifs : Stmt(j).hasElse}}
<1>1. CASE \E i \in DOMAIN fn.body :
             c = [kind |-> Stmt(i).call, at |-> At(i, 0, 0), stmt |-> i, block |-> 0]
  BY <1>1
<1>2. CASE \E i \in Ifs : \E k \in DOMAIN Stmt(i).then :
             c = [kind |-> Stmt(i).then[k], at |-> At(i, 1, k), stmt |-> i, block |-> 1]
  <2> PICK i \in Ifs : \E k \in DOMAIN Stmt(i).then :
             c = [kind |-> Stmt(i).then[k], at |-> At(i, 1, k), stmt |-> i, block |-> 1]
    BY <1>2
  <2>0. PICK k \in DOMAIN Stmt(i).then :
             c = [kind |-> Stmt(i).then[k], at |-> At(i, 1, k), stmt |-> i, block |-> 1]
    OBVIOUS
  <2>1. Stmt(i).then \in Seq(CallKinds) /\ Stmt(i).else \in Seq(CallKinds)
    BY StatementsAreNumbered
  <2>2. k \in 1..(Len(Stmt(i).then) + Len(Stmt(i).else)) BY <2>1, WithinBoth
  <2>3. c.stmt = i /\ c.block = 1 /\ c.at = At(i, 1, k) BY <2>0
  <2>4. c.block # 0 /\ c.block \in {0, 1, 2} BY <2>3
  <2> QED BY <2>2, <2>3, <2>4, Zenon
<1>3. CASE \E i \in Ifs : \E k \in DOMAIN Stmt(i).else :
             c = [kind |-> Stmt(i).else[k], at |-> At(i, 2, k), stmt |-> i, block |-> 2]
  <2> PICK i \in Ifs : \E k \in DOMAIN Stmt(i).else :
             c = [kind |-> Stmt(i).else[k], at |-> At(i, 2, k), stmt |-> i, block |-> 2]
    BY <1>3
  <2>0. PICK k \in DOMAIN Stmt(i).else :
             c = [kind |-> Stmt(i).else[k], at |-> At(i, 2, k), stmt |-> i, block |-> 2]
    OBVIOUS
  <2>1. Stmt(i).then \in Seq(CallKinds) /\ Stmt(i).else \in Seq(CallKinds)
    BY StatementsAreNumbered
  <2>2. k \in 1..(Len(Stmt(i).then) + Len(Stmt(i).else)) BY <2>1, WithinBoth
  <2>3. c.stmt = i /\ c.block = 2 /\ c.at = At(i, 2, k) BY <2>0
  <2>4. c.block # 0 /\ c.block \in {0, 1, 2} BY <2>3
  <2> QED BY <2>2, <2>3, <2>4, Zenon
<1>4. CASE c \in thens
  <2>1. PICK i \in Ifs :
          c \in {[kind |-> Stmt(i).then[k], at |-> At(i, 1, k), stmt |-> i, block |-> 1] :
                 k \in DOMAIN Stmt(i).then}
    BY <1>4, Zenon
  <2>2. PICK k \in DOMAIN Stmt(i).then :
          c = [kind |-> Stmt(i).then[k], at |-> At(i, 1, k), stmt |-> i, block |-> 1]
    BY <2>1, Zenon
  <2> QED BY <1>2, <2>2, Zenon
<1>5. CASE c \in elses
  <2>1. PICK i \in Ifs :
          c \in {[kind |-> Stmt(i).else[k], at |-> At(i, 2, k), stmt |-> i, block |-> 2] :
                 k \in DOMAIN Stmt(i).else}
    BY <1>5, Zenon
  <2>2. PICK k \in DOMAIN Stmt(i).else :
          c = [kind |-> Stmt(i).else[k], at |-> At(i, 2, k), stmt |-> i, block |-> 2]
    BY <2>1, Zenon
  <2> QED BY <1>3, <2>2, Zenon
<1>6. CASE c \in plain
  BY <1>1, <1>6, Zenon
<1>7. c \in plain \cup thens \cup elses BY SMT DEF Calls
<1> HIDE DEF plain, thens, elses
<1> QED BY <1>4, <1>5, <1>6, <1>7

\* A post of an outcome of a response condition is a call in its block.
LEMMA PostIsInItsBlock ==
  ASSUME fn \in FunctionType, NEW p \in PostProcessing, NEW i \in Responses,
         p.branch = i, p.outcome \in Outcomes
  PROVE  /\ p.text \in TextsOf(i, p.outcome)
         /\ \E k \in 1..(Len(Stmt(i).then) + Len(Stmt(i).else)) : p.at = At(i, SideOf(p.outcome), k)
<1>0. i \in Nat \ {0} /\ BranchKind(i) = "if_else" BY BranchesAreIfs DEF Responses
<1>1. CASE \E c \in Posting : p = BranchPost(c) /\ BranchOf(c) # 0
  <2> PICK c \in Posting : p = BranchPost(c) /\ BranchOf(c) # 0 BY <1>1
  <2>0. c \in Calls BY DEF Posting
  <2>1. p.at = c.at /\ p.branch = BranchOf(c) /\ p.outcome = OutcomeOf(c) /\ p.text = c.kind
    BY DEF BranchPost, Post
  <2>2. c.block # 0 /\ c.stmt = i BY <2>1 DEF BranchOf
  <2>3. c.block = SideOf(p.outcome)
    BY <2>0, <2>1, <2>2, CallsArePlaced DEF OutcomeOf, SideOf
  <2>4. p.text \in TextsOf(i, p.outcome) BY <2>1, <2>2, <2>3 DEF TextsOf, SideOf
  <2> QED BY <2>0, <2>1, <2>2, <2>3, <2>4, CallsArePlaced
<1>2. ASSUME p \in RecoveryPosts PROVE FALSE
  <2>1. ASSUME NEW c \in Posting, p = BranchPost(c), InBranch(c, "recovery") PROVE FALSE
    <3>1. p.branch = BranchOf(c) BY <2>1 DEF BranchPost, Post
    <3> QED BY <1>0, <2>1, <3>1 DEF InBranch
  <2>2. ASSUME NEW j \in Branches("recovery"), p.branch = j PROVE FALSE
    BY <1>0, <2>2, BranchesAreIfs
  <2>3. ASSUME NEW j \in Branches("recovery"),
               p = Post("auth_recovery", Stmt(j).cond, At(j, 0, 0), j, "true")
        PROVE  p.branch = j
    BY <2>3 DEF Post
  <2>4. ASSUME NEW j \in Branches("recovery"),
               p = Post("replay_or_retry", "request(config)", ReplayAt(j), j, "true")
        PROVE  p.branch = j
    BY <2>4 DEF Post
  <2> QED BY <1>2, <2>1, <2>2, <2>3, <2>4, Zenon DEF RecoveryPosts
<1>3. ASSUME NEW j \in Branches("if_else"), p = Post("response_branch", Stmt(j).cond, At(j, 0, 0), j, "")
      PROVE  FALSE
  BY <1>3 DEF Post, Outcomes
<1>4. ASSUME NEW c \in Posting, p = PlainPost(c) PROVE FALSE
  BY <1>0, <1>4 DEF Post, PlainPost
<1>5. ASSUME NEW j \in DOMAIN fn.body, p = Post("state_update", Stmt(j).text, At(j, 0, 0), 0, "")
      PROVE  FALSE
  BY <1>0, <1>5 DEF Post
<1>6. \/ \E c \in Posting : p = BranchPost(c) /\ BranchOf(c) # 0
      \/ p \in RecoveryPosts
      \/ \E j \in Branches("if_else") : p = Post("response_branch", Stmt(j).cond, At(j, 0, 0), j, "")
      \/ \E c \in Posting : p = PlainPost(c)
      \/ \E j \in DOMAIN fn.body : p = Post("state_update", Stmt(j).text, At(j, 0, 0), 0, "")
  BY Zenon DEF PostProcessing, Deduplicated, InBranch
<1> QED BY <1>1, <1>2, <1>3, <1>4, <1>5, <1>6

\* Of what stands in one block there is a first and a last.
InOneBlock(s, i, b, n) == \A p \in s : \E k \in 1..n : p.at = At(i, b, k)
HasFirst(s) == \E p \in s : \A q \in s : ~Before(q.at, p.at)
HasLast(s) == \E p \in s : \A q \in s : ~Before(p.at, q.at)

LEMMA LastPost ==
  ASSUME NEW i \in Nat, NEW b \in {1, 2}, NEW n \in Nat, NEW s, s # {}, InOneBlock(s, i, b, n)
  PROVE  HasLast(s)
<1> USE DEF InOneBlock
<1> DEFINE t == {n - k : k \in {j \in 1..n : \E p \in s : p.at = At(i, b, j)}}
<1>1. t \subseteq Nat /\ t # {} OBVIOUS
<1>2. PICK m \in t : \A x \in t : ~ (<<x, m>> \in OpToRel(<, Nat))
  BY <1>1, NatLessThanWellFounded, WFMin
<1>3. \A x \in t : ~(x < m)
  BY <1>1, <1>2 DEF OpToRel
<1>4. PICK k \in 1..n : m = n - k /\ \E p \in s : p.at = At(i, b, k) OBVIOUS
<1>5. PICK p \in s : p.at = At(i, b, k) BY <1>4
<1>6. ASSUME NEW q \in s PROVE ~Before(p.at, q.at)
  <2>1. PICK j \in 1..n : q.at = At(i, b, j) OBVIOUS
  <2>2. n - j \in t BY <2>1
  <2>3. ~(n - j < m) BY <1>3, <2>2
  <2>4. ~(k < j) BY <1>4, <2>3
  <2> QED BY <1>5, <2>1, <2>4 DEF Before, At
<1> QED BY <1>6 DEF HasLast

LEMMA FirstPost ==
  ASSUME NEW i \in Nat, NEW b \in {1, 2}, NEW n \in Nat, NEW s, s # {}, InOneBlock(s, i, b, n)
  PROVE  HasFirst(s)
<1> USE DEF InOneBlock
<1> DEFINE t == {k \in 1..n : \E p \in s : p.at = At(i, b, k)}
<1>1. t \subseteq Nat /\ t # {} OBVIOUS
<1>2. PICK m \in t : \A x \in t : ~ (<<x, m>> \in OpToRel(<, Nat))
  BY <1>1, NatLessThanWellFounded, WFMin
<1>3. \A x \in t : ~(x < m)
  BY <1>1, <1>2 DEF OpToRel
<1>4. PICK p \in s : p.at = At(i, b, m) OBVIOUS
<1>5. ASSUME NEW q \in s PROVE ~Before(q.at, p.at)
  <2>1. PICK j \in 1..n : q.at = At(i, b, j) OBVIOUS
  <2>2. ~(j < m) BY <1>3, <2>1
  <2> QED BY <1>4, <2>1, <2>2 DEF Before, At
<1> QED BY <1>5 DEF HasFirst

\* The posts of an outcome.
PostsOf(i, o) == {p \in PostProcessing : p.branch = i /\ p.outcome = o}

LEMMA PostsInOneBlock ==
  ASSUME fn \in FunctionType, NEW i \in Responses, NEW o \in Outcomes,
         NEW s, s # {}, s \subseteq PostsOf(i, o)
  PROVE  HasFirst(s) /\ HasLast(s)
<1>1. i \in Nat /\ i \in Ifs BY BranchesAreIfs DEF Responses
<1>2. Stmt(i).then \in Seq(CallKinds) /\ Stmt(i).else \in Seq(CallKinds)
  BY <1>1, StatementsAreNumbered
<1>3. PICK n \in Nat : n = Len(Stmt(i).then) + Len(Stmt(i).else)
  BY <1>2, WithinBoth
<1>4. PICK b \in {1, 2} : b = SideOf(o) BY DEF SideOf
<1>5. InOneBlock(s, i, b, n)
  BY <1>3, <1>4, PostIsInItsBlock DEF InOneBlock, PostsOf
<1> QED BY <1>1, <1>5, FirstPost, LastPost, Zenon

LEMMA LastOfBlock ==
  ASSUME fn \in FunctionType, NEW i \in Responses, NEW o \in Outcomes,
         NEW s, s # {}, s \subseteq PostsOf(i, o)
  PROVE  (CHOOSE p \in s : \A q \in s : ~Before(p.at, q.at)) \in s
<1>1. HasLast(s) BY PostsInOneBlock
<1> QED BY <1>1, Zenon DEF HasLast

\* The node of a post of an outcome is in the block of the outcome.
LEMMA PostNodeIsInBlock ==
  ASSUME fn \in FunctionType, NEW i \in Responses, NEW o \in Outcomes, NEW p \in PostsOf(i, o)
  PROVE  PostNode(p) \in Block(i, o)
BY PostIsInItsBlock DEF PostsOf, Block, PostNode

\* And each node of the block is of a post: the first call of several survives Deduplicated.
LEMMA BlockIsOfPosts ==
  ASSUME fn \in FunctionType, NEW i \in Responses, NEW o \in Outcomes, NEW x \in TextsOf(i, o)
  PROVE  \E p \in PostsOf(i, o) : p.text = x
<1> DEFINE s == {c \in Posting : c.stmt = i /\ c.block = SideOf(o) /\ c.kind = x}
<1>0. i \in Nat \ {0} /\ i \in Ifs /\ BranchKind(i) = "if_else" /\ i \in AllBranches
  BY BranchesAreIfs DEF Responses
<1>1. s # {} BY DEF TextsOf, SideOf
<1>2. Stmt(i).then \in Seq(CallKinds) /\ Stmt(i).else \in Seq(CallKinds)
  BY <1>0, StatementsAreNumbered
<1>3. PICK n \in Nat : n = Len(Stmt(i).then) + Len(Stmt(i).else)
  BY <1>2, WithinBoth
<1>4. PICK b \in {1, 2} : b = SideOf(o) BY DEF SideOf
<1>5. InOneBlock(s, i, b, n)
  <2> SUFFICES ASSUME NEW c \in s PROVE \E k \in 1..n : c.at = At(i, b, k)
    BY Zenon DEF InOneBlock
  <2>1. c \in Calls /\ c.stmt = i /\ c.block = b /\ c.block # 0 BY <1>4 DEF Posting
  <2>2. \E k \in 1..(Len(Stmt(i).then) + Len(Stmt(i).else)) : c.at = At(i, b, k)
    BY <2>1, CallsArePlaced, Zenon
  <2> QED BY <1>3, <2>2, Zenon
<1>6. HasFirst(s) BY <1>0, <1>1, <1>5, FirstPost, Zenon
<1>7. PICK c \in s : \A d \in s : ~Before(d.at, c.at) BY <1>6, Zenon DEF HasFirst
<1>8. c \in Posting /\ BranchOf(c) = i /\ InBranch(c, "if_else") /\ OutcomeOf(c) = o
  <2>1. c \in Posting /\ c.stmt = i /\ c.block = SideOf(o) /\ c.block # 0 BY <1>4
  <2>2. BranchOf(c) = i BY <1>0, <2>1 DEF BranchOf
  <2>3. InBranch(c, "if_else") BY <1>0, <2>2 DEF InBranch
  <2>4. OutcomeOf(c) = o BY <1>0, <2>1, <2>2 DEF OutcomeOf, SideOf, Outcomes
  <2> QED BY <2>1, <2>2, <2>3, <2>4
<1>9. BranchPost(c).branch = i /\ BranchPost(c).outcome = o /\ BranchPost(c).text = x
      /\ BranchPost(c).at = c.at
  BY <1>8 DEF BranchPost, Post
<1> DEFINE posts == {BranchPost(d) : d \in {y \in Posting : InBranch(y, "if_else")}}
           others == RecoveryPosts
             \cup {Post("response_branch", Stmt(j).cond, At(j, 0, 0), j, "") : j \in Branches("if_else")}
             \cup {PlainPost(d) : d \in {y \in Posting :
                     ~InBranch(y, "if_else") /\ ~InBranch(y, "recovery")}}
             \cup {Post("state_update", Stmt(j).text, At(j, 0, 0), 0, "") :
                     j \in {k \in DOMAIN fn.body : Stmt(k).type = "assign"}}
<1>10. PostProcessing = Deduplicated(posts \cup others)
  BY Zenon DEF PostProcessing
<1>11. ASSUME NEW q \in posts, Before(q.at, c.at), q.text = x, q.branch = i, q.outcome = o
       PROVE  FALSE
  <2>1. PICK d \in Posting : q = BranchPost(d) /\ InBranch(d, "if_else") OBVIOUS
  <2>2. q.text = d.kind /\ q.branch = BranchOf(d) /\ q.outcome = OutcomeOf(d) /\ q.at = d.at
    BY <2>1 DEF BranchPost, Post
  <2>3. d \in Calls /\ d.block # 0 /\ d.stmt = i
    BY <1>0, <1>11, <2>2 DEF BranchOf, Posting
  <2>4. d.block = SideOf(o)
    BY <1>0, <1>11, <2>2, <2>3, CallsArePlaced DEF OutcomeOf, SideOf, Outcomes
  <2> QED BY <1>7, <1>11, <2>2, <2>3, <2>4
<1>12. ASSUME NEW q \in others, q.branch = i, q.outcome = o PROVE FALSE
  <2>1. ASSUME q \in RecoveryPosts PROVE FALSE
    <3>1. ASSUME NEW d \in Posting, q = BranchPost(d), InBranch(d, "recovery") PROVE FALSE
      <4>1. q.branch = BranchOf(d) BY <3>1 DEF BranchPost, Post
      <4> QED BY <1>0, <1>12, <3>1, <4>1 DEF InBranch
    <3>2. ASSUME NEW j \in Branches("recovery"), q.branch = j PROVE FALSE
      BY <1>0, <1>12, <3>2, BranchesAreIfs
    <3>3. ASSUME NEW j \in Branches("recovery"),
                 q = Post("auth_recovery", Stmt(j).cond, At(j, 0, 0), j, "true")
          PROVE  q.branch = j
      BY <3>3 DEF Post
    <3>4. ASSUME NEW j \in Branches("recovery"),
                 q = Post("replay_or_retry", "request(config)", ReplayAt(j), j, "true")
          PROVE  q.branch = j
      BY <3>4 DEF Post
    <3> QED BY <2>1, <3>1, <3>2, <3>3, <3>4, Zenon DEF RecoveryPosts
  <2>2. ASSUME NEW j, q = Post("response_branch", Stmt(j).cond, At(j, 0, 0), j, "") PROVE FALSE
    BY <1>12, <2>2 DEF Post, Outcomes
  <2>3. ASSUME NEW d, q = PlainPost(d) PROVE FALSE
    BY <1>0, <1>12, <2>3 DEF Post, PlainPost
  <2>4. ASSUME NEW j, q = Post("state_update", Stmt(j).text, At(j, 0, 0), 0, "") PROVE FALSE
    BY <1>0, <1>12, <2>4 DEF Post
  <2> QED BY <1>12, <2>1, <2>2, <2>3, <2>4, Zenon
<1>13. BranchPost(c) \in posts BY <1>8
<1> HIDE DEF posts, others
<1>14. BranchPost(c) \in PostProcessing BY <1>9, <1>10, <1>11, <1>12, <1>13 DEF Deduplicated
<1> QED BY <1>9, <1>14 DEF PostsOf
-----------------------------------------------------------------------------
(* Every action keeps BaseInv.                                              *)

LEMMA ReplayedKept ==
  ASSUME fn' = fn, edges' = edges, Replayed
  PROVE  Replayed'
<1> PICK i \in Ifs :
      /\ Stmt(i).cond = "401" /\ Stmt(i).ends = "replay"
      /\ <<"replay", ReplayAt(i)>> \in ReachableFrom({Entry}, edges)
      /\ \A e \in edges : e.to[1] = "replay" => e.from[1] = "public_recovery" /\ e.branch = i
  BY DEF Replayed
<1>1. i \in Ifs' /\ Stmt(i)' = Stmt(i) /\ ReplayAt(i)' = ReplayAt(i)
  BY FnKept
<1>2. ReachableFrom({Entry}, edges)' = ReachableFrom({Entry}, edges)
  BY Zenon DEF ReachableFrom, Closed
<1> QED BY <1>1, <1>2 DEF Replayed

\* A step that leaves the chain alone.
LEMMA ChainLeftAlone ==
  ASSUME BaseInv, UNCHANGED <<asset, fn, type, nodes, edges, previous, pending>>
  PROVE  /\ (fn \in FunctionType)' /\ PendingIsPrevious'
         /\ WayToPrevious => WayToPrevious'
         /\ Replayed => Replayed'
         /\ \A n \in nodes' : n[1] = "api_reference" => \E c \in ApiReferences' : n[2] = c.at
<1>1. (fn \in FunctionType)' BY DEF BaseInv, FunctionType
<1>2. PendingIsPrevious' BY FnKept DEF BaseInv, PendingIsPrevious
<1>3. WayToPrevious => WayToPrevious' BY DEF WayToPrevious, Closed
<1>4. Replayed => Replayed' BY ReplayedKept
<1>5. \A n \in nodes' : n[1] = "api_reference" => \E c \in ApiReferences' : n[2] = c.at
  BY FnKept DEF BaseInv, Grounded
<1> QED BY <1>1, <1>2, <1>3, <1>4, <1>5

LEMMA ControlKeepsBase ==
  ASSUME BaseInv,
         \/ SelectAnalysisFocus \/ RunL2 \/ EndGuards \/ EndApis \/ EndResponses \/ Finish
         \/ UNCHANGED chainVars
  PROVE  BaseInv'
<1>1. UNCHANGED <<asset, fn, type, nodes, edges, previous, pending>>
  BY DEF SelectAnalysisFocus, RunL2, EndGuards, EndApis, EndResponses, Finish, chainVars
<1>2. TodoIsOf'
  BY <1>1, FnKept DEF BaseInv, Started, TodoIsOf, SelectAnalysisFocus, RunL2, EndGuards, EndApis,
     EndResponses, Finish, chainVars, Placed
<1>3. Grounded'
  <2>1. (focus \in {"", Priority(asset)})'
    BY <1>1 DEF BaseInv, Grounded, SelectAnalysisFocus, RunL2, EndGuards, EndApis, EndResponses,
       Finish, chainVars
  <2>2. (pc \notin {"focus", "relations"} /\ (pc = "done" => type # "none")
           => relations = RecoverL2)'
    BY <1>1, FnKept DEF BaseInv, Started, Grounded, SelectAnalysisFocus, RunL2, EndGuards, EndApis,
       EndResponses, Finish, chainVars, Early
  <2> QED BY <1>1, <2>1, <2>2, ChainLeftAlone DEF Grounded
<1>4. Started'
  BY <1>1, FnKept DEF BaseInv, Started, SelectAnalysisFocus, RunL2, EndGuards, EndApis,
     EndResponses, Finish, chainVars, Early, Late
<1>5. (pc \in {"guards", "recovery"} => WayToPrevious /\ \A e \in edges : e.to[1] # "replay")'
  <2>1. pc' \in {"guards", "recovery"} => pc \in {"guards", "recovery"}
    BY DEF SelectAnalysisFocus, RunL2, EndGuards, EndApis, EndResponses, Finish, chainVars
  <2> QED BY <1>1, <2>1, ChainLeftAlone DEF BaseInv
<1>6. (pc \in {"finish", "done"} /\ type = "recovery" => Replayed)'
  <2>1. pc' \in {"finish", "done"} /\ type = "recovery" => pc \in {"finish", "done"}
    BY DEF SelectAnalysisFocus, RunL2, EndGuards, EndApis, EndResponses, Finish, chainVars,
       BaseInv, Started, Early
  <2> QED BY <1>1, <2>1, ChainLeftAlone DEF BaseInv
<1> QED BY <1>1, <1>2, <1>3, <1>4, <1>5, <1>6, ChainLeftAlone DEF BaseInv

LEMMA GroundedKept ==
  ASSUME BaseInv, UNCHANGED <<asset, fn, focus, relations>>,
         pc \notin {"focus", "relations", "done"},
         \A n \in nodes' : n[1] = "api_reference" =>
           n \in nodes \/ \E c \in ApiReferences : n[2] = c.at
  PROVE  Grounded'
<1>1. (focus \in {"", Priority(asset)})' BY DEF BaseInv, Grounded
<1>2. (relations = RecoverL2)' BY FnKept DEF BaseInv, Grounded
<1>3. \A n \in nodes' : n[1] = "api_reference" => \E c \in ApiReferences' : n[2] = c.at
  BY FnKept DEF BaseInv, Grounded
<1> QED BY <1>1, <1>2, <1>3 DEF Grounded

LEMMA BeginKeepsBase ==
  ASSUME BaseInv, BeginChain
  PROVE  BaseInv'
<1>1. pc = "begin" /\ nodes = {} /\ edges = {} /\ pending = 0 /\ previous = NoNode
      /\ UNCHANGED <<asset, fn, focus, relations, edges, pending>> /\ type' = ActionType
  BY DEF BeginChain, BaseInv, Started, Early
<1>2. \/ type' = "none" /\ pc' = "done" /\ nodes' = {} /\ previous' = NoNode
      \/ /\ type' # "none" /\ pc' = "guards" /\ nodes' = {Entry} /\ previous' = Entry
         /\ todo' = {Placed(i) : i \in Guards}
  BY <1>1 DEF BeginChain, Guards
<1>3. TodoIsOf' BY <1>1, <1>2, FnKept DEF TodoIsOf, Placed
<1>4. Grounded'
  <2>1. \A n \in nodes' : n[1] # "api_reference" BY <1>2 DEF Entry
  <2> QED BY <1>1, <2>1, GroundedKept
<1>5. Started' BY <1>1, <1>2, FnKept, NodesDiffer DEF Started, Early, Late
<1>6. PendingIsPrevious' BY <1>1 DEF PendingIsPrevious
<1>7. (pc \in {"guards", "recovery"} => WayToPrevious /\ \A e \in edges : e.to[1] # "replay")'
  BY <1>1, <1>2 DEF WayToPrevious
<1>8. ~(pc \in {"finish", "done"} /\ type = "recovery")' BY <1>2
<1>9. (fn \in FunctionType)' BY <1>1 DEF BaseInv, FunctionType
<1> QED BY <1>3, <1>4, <1>5, <1>6, <1>7, <1>8, <1>9 DEF BaseInv

\* A node placed after the previous one is on the way too.
LEMMA WayToNext ==
  ASSUME PendingIsPrevious, WayToPrevious, previous # NoNode, NEW node, NEW relation,
         SequentialEdges(node, relation) \subseteq edges', edges \subseteq edges'
  PROVE  \A t : Entry \in t /\ Closed(t, edges') => previous \in t /\ node \in t
<1> TAKE t
<1> HAVE Entry \in t /\ Closed(t, edges')
<1>1. Closed(t, edges) BY DEF Closed
<1>2. previous \in t BY <1>1 DEF WayToPrevious
<1>3. PICK e \in SequentialEdges(node, relation) : e.from = previous /\ e.to = node
  BY SequentialExists
<1> QED BY <1>2, <1>3 DEF Closed

LEMMA GuardKeepsBase ==
  ASSUME BaseInv, AddGuard
  PROVE  BaseInv'
<1> PICK b \in todo :
      /\ pc = "guards" /\ IsNext(b, todo) /\ todo' = todo \ {b}
      /\ nodes' = nodes \cup {<<"condition", b.at>>, <<"terminal", b.at>>}
      /\ edges' = edges \cup SequentialEdges(<<"condition", b.at>>, "guard_condition")
           \cup {Edge(<<"condition", b.at>>, <<"terminal", b.at>>, "guard_stop", b.stmt, "true")}
      /\ pending' = b.stmt /\ previous' = <<"condition", b.at>>
      /\ UNCHANGED <<asset, fn, pc, focus, relations, type, stop>>
  BY DEF AddGuard
<1>1. PICK i \in Guards : b = Placed(i) BY DEF BaseInv, TodoIsOf
<1>2. b.at = At(i, 0, 0) /\ b.stmt = i /\ <<"condition", b.at>> = Condition(i)
  BY <1>1 DEF Placed, Condition
<1>3. TodoIsOf' BY FnKept DEF BaseInv, TodoIsOf, Placed
<1>4. Grounded'
  <2>1. \A n \in nodes' : n[1] = "api_reference" => n \in nodes OBVIOUS
  <2> QED BY <2>1, GroundedKept
<1>5. Started' BY <1>2, FnKept, NodesDiffer DEF BaseInv, Started, Early
<1>6. PendingIsPrevious' BY <1>2, FnKept DEF PendingIsPrevious
<1>7. WayToPrevious'
  <2>1. PendingIsPrevious /\ WayToPrevious /\ previous # NoNode BY DEF BaseInv, Started
  <2> QED BY <2>1, WayToNext DEF WayToPrevious
<1>8. \A e \in edges' : e.to[1] # "replay"
  <2>1. ASSUME NEW e \in SequentialEdges(<<"condition", b.at>>, "guard_condition")
        PROVE  e.to[1] # "replay"
    <3>1. e.to = Condition(i) BY <1>2, SequentialShape DEF BaseInv
    <3> QED BY <3>1 DEF Condition
  <2>2. ASSUME NEW e \in edges PROVE e.to[1] # "replay" BY DEF BaseInv
  <2>3. Edge(<<"condition", b.at>>, <<"terminal", b.at>>, "guard_stop", b.stmt, "true").to[1]
          # "replay"
    BY DEF Edge
  <2> QED BY <2>1, <2>2, <2>3
<1>9. (fn \in FunctionType)' BY DEF BaseInv, FunctionType
<1> QED BY <1>3, <1>4, <1>5, <1>6, <1>7, <1>8, <1>9 DEF BaseInv

LEMMA RecoveryKeepsBase ==
  ASSUME BaseInv, AddRecovery
  PROVE  BaseInv'
<1>2. PICK i \in Branches("recovery") : AddRecovery!(i)
  BY Zenon DEF AddRecovery
<1> DEFINE unauthorized == <<"condition", At(i, 0, 0)>>
           refresh == <<"public_recovery", At(i, 1, 0)>>
           replay == <<"replay", ReplayAt(i)>>
           next == <<"continuation", At(i + 1, 0, 0)>>
           goesOn == i + 1 \in DOMAIN fn.body
           into == SequentialEdges(unauthorized, "response_condition")
           past == IF goesOn
                   THEN {Edge(unauthorized, next, "recovery_fallthrough", i, "false")} ELSE {}
<1>1. /\ pc = "recovery"
      /\ nodes' = nodes \cup {unauthorized, refresh, replay} \cup IF goesOn THEN {next} ELSE {}
      /\ edges' = edges \cup into
           \cup {Edge(unauthorized, refresh, "auth_recovery", i, "true"),
                 Edge(refresh, replay, "replay", i, "true")} \cup past
      /\ previous' = unauthorized /\ pending' = 0 /\ pc' = "finish"
      /\ UNCHANGED <<asset, fn, focus, relations, type, todo, stop>>
  BY <1>2, Zenon
<1>3. TodoIsOf' BY <1>1 DEF TodoIsOf
<1>4. Grounded'
  <2>1. \A n \in nodes' : n[1] = "api_reference" => n \in nodes BY <1>1
  <2> QED BY <1>1, <2>1, GroundedKept
<1>5. Started'
  <2>1. unauthorized # NoNode BY DEF NoNode
  <2> QED BY <1>1, <2>1, FnKept DEF BaseInv, Started, Early, Late
<1>6. PendingIsPrevious' BY <1>1 DEF PendingIsPrevious
<1>7. Replayed'
  <2>0. PendingIsPrevious /\ WayToPrevious /\ previous # NoNode
        /\ \A e \in edges : e.to[1] # "replay"
    BY <1>1 DEF BaseInv, Started
  <2>1. ASSUME NEW t, Entry \in t, Closed(t, edges')
        PROVE  replay \in t
    <3>1. unauthorized \in t BY <1>1, <2>0, <2>1, WayToNext
    <3>2. Edge(unauthorized, refresh, "auth_recovery", i, "true") \in edges'
          /\ Edge(refresh, replay, "replay", i, "true") \in edges'
      BY <1>1
    <3>3. refresh \in t BY <2>1, <3>1, <3>2 DEF Closed, Edge
    <3> QED BY <2>1, <3>2, <3>3 DEF Closed, Edge
  <2>2. replay \in {Entry} \cup {e.to : e \in edges'}
    <3>1. Edge(refresh, replay, "replay", i, "true") \in edges' BY <1>1
    <3>2. Edge(refresh, replay, "replay", i, "true").to = replay BY DEF Edge
    <3> QED BY <3>1, <3>2
  <2>3. replay \in ReachableFrom({Entry}, edges')
    BY <2>1, <2>2 DEF ReachableFrom
  <2>4. ASSUME NEW e \in edges', e.to[1] = "replay"
        PROVE  e.from[1] = "public_recovery" /\ e.branch = i
    <3>1. e \notin edges BY <2>0, <2>4
    <3>2. e \notin into
      <4>1. e \in into => e.to = unauthorized BY <2>0, SequentialShape
      <4> QED BY <2>4, <4>1
    <3>3. e \notin past BY <2>4 DEF Edge
    <3>4. e # Edge(unauthorized, refresh, "auth_recovery", i, "true") BY <2>4 DEF Edge
    <3>5. e = Edge(refresh, replay, "replay", i, "true") BY <1>1, <3>1, <3>2, <3>3, <3>4
    <3> QED BY <3>5 DEF Edge
  <2>5. i \in Ifs /\ IsRecovery(i)
    BY <1>2, BranchesAreIfs DEF BaseInv, BranchKind
  <2>6. Stmt(i).cond = "401" /\ Stmt(i).ends = "replay"
    BY <2>5 DEF IsRecovery
  <2>7. i \in Ifs' /\ Stmt(i)' = Stmt(i) /\ ReplayAt(i)' = ReplayAt(i)
    BY <1>1, <2>5, FnKept
  <2>8. Stmt(i)'.cond = "401" /\ Stmt(i)'.ends = "replay"
    BY <2>6, <2>7
  <2>9. replay = <<"replay", ReplayAt(i)'>> BY <2>7
  <2>10. <<"replay", ReplayAt(i)'>> \in ReachableFrom({Entry}, edges')
    BY <2>3, <2>9
  <2> HIDE DEF replay
  <2> QED BY <2>4, <2>7, <2>8, <2>10 DEF Replayed
<1>8. (fn \in FunctionType)' BY <1>1 DEF BaseInv, FunctionType
<1> QED BY <1>1, <1>3, <1>4, <1>5, <1>6, <1>7, <1>8 DEF BaseInv

\* The steps after the guards of a chain that is not of a recovery.
LEMMA PlacingKeepsBase ==
  ASSUME BaseInv, AddApi \/ AddResponse \/ AddPost
  PROVE  BaseInv'
<1>1. /\ pc \in {"apis", "responses", "posts"} /\ UNCHANGED <<asset, fn, pc, focus, relations, type>>
      /\ todo' \subseteq todo /\ pending' = 0
  BY DEF AddApi, AddResponse, AddPost
<1>2. \A n \in nodes' : n[1] = "api_reference" =>
        n \in nodes \/ \E c \in ApiReferences : n[2] = c.at
  <2>1. CASE AddApi
    <3> PICK c \in todo : pc = "apis" /\ nodes' = nodes \cup {<<"api_reference", c.at>>}
      BY <2>1 DEF AddApi
    <3>1. c \in ApiReferences BY DEF BaseInv, TodoIsOf
    <3> QED BY <3>1
  <2>2. CASE AddResponse
    <3> PICK b \in todo : AddResponse!(b) BY <2>2, Zenon DEF AddResponse
    <3>1. \A n \in nodes' : n \in nodes \/ n = <<"condition", b.at>> \/ \E x : n = <<"post", x>>
      BY DEF PostNode
    <3> QED BY <3>1
  <2>3. CASE AddPost
    <3> PICK p \in todo : nodes' = nodes \cup {<<"post", p.text>>} BY <2>3 DEF AddPost, PostNode
    <3> QED OBVIOUS
  <2> QED BY <1>1, <2>1, <2>2, <2>3
<1>3. TodoIsOf' BY <1>1, FnKept DEF BaseInv, TodoIsOf, Placed
<1>4. Grounded' BY <1>1, <1>2, GroundedKept
<1>5. Started' BY <1>1, FnKept DEF BaseInv, Started, Early
<1>6. PendingIsPrevious' BY <1>1 DEF PendingIsPrevious
<1>7. (fn \in FunctionType)' BY <1>1 DEF BaseInv, FunctionType
<1> QED BY <1>1, <1>3, <1>4, <1>5, <1>6, <1>7 DEF BaseInv

LEMMA BaseInvariant == ChainSpec => []BaseInv
<1>1. ChainInit => BaseInv
  <2> SUFFICES ASSUME ChainInit PROVE BaseInv OBVIOUS
  <2> USE DEF ChainInit
  <2>1. fn \in FunctionType BY InputsAssumption
  <2>2. TodoIsOf /\ Grounded BY DEF TodoIsOf, Grounded
  <2>3. Started BY DEF Started, Early, Late
  <2>4. PendingIsPrevious BY DEF PendingIsPrevious
  <2> QED BY <2>1, <2>2, <2>3, <2>4 DEF BaseInv
<1>2. BaseInv /\ [ChainNext]_chainVars => BaseInv'
  BY ControlKeepsBase, BeginKeepsBase, GuardKeepsBase, RecoveryKeepsBase, PlacingKeepsBase
     DEF ChainNext
<1> QED BY <1>1, <1>2, PTL DEF ChainSpec
-----------------------------------------------------------------------------
(* Every action keeps SplitInv.                                             *)

\* What a step adds to the edges: the way to a node, and more.
Adds(node, relation, more) == edges' = edges \cup SequentialEdges(node, relation) \cup more

LEMMA SequentialOf ==
  ASSUME BaseInv, NEW node, NEW relation
  PROVE  \A e \in SequentialEdges(node, relation) :
           /\ e.from = previous /\ e.to = node /\ e.branch = pending
           /\ (pending # 0 => e.outcome = "false")
<1>1. PendingIsPrevious BY DEF BaseInv
<1>2. ASSUME NEW e \in SequentialEdges(node, relation)
      PROVE  /\ e.from = previous /\ e.to = node /\ e.branch = pending
             /\ (pending # 0 => e.outcome = "false") /\ (pending = 0 => e.outcome = "")
  BY ONLY <1>1, <1>2, SequentialShape, Zenon
<1> QED BY <1>2

LEMMA CutKept ==
  ASSUME BaseInv, fn' = fn, NEW g \in Guards, Cut(g), previous \in UpTo(g) => pending = g,
         NEW node, NEW relation, NEW more, Adds(node, relation, more), node \notin UpTo(g),
         \A e \in more : e.from \notin UpTo(g) /\ e.to \notin UpTo(g) /\ e.branch # g,
         previous' \notin UpTo(g)
  PROVE  Cut(g)'
<1>1. UpTo(g)' = UpTo(g) BY UpToKept
<1>2. g # 0 BY BranchesAreIfs DEF BaseInv, Guards
<1>3. Terminal(g) \in UpTo(g) BY UpToHolds DEF BaseInv
<1> DEFINE Fits(e) ==
      /\ e.from \in UpTo(g) => e.to \in UpTo(g) \/ (e.branch = g /\ e.outcome = "false")
      /\ e.to \in UpTo(g) => e.from \in UpTo(g)
      /\ e.branch = g /\ e.outcome = "false" => e.to \notin UpTo(g)
      /\ e.branch = g /\ e.outcome = "true" => e.to = Terminal(g)
      /\ e.from # Terminal(g)
<1>4. \A e \in edges : Fits(e) BY DEF Cut
<1>5. \A e \in SequentialEdges(node, relation) : Fits(e)
  <2> TAKE e \in SequentialEdges(node, relation)
  <2>1. /\ e.from = previous /\ e.to = node /\ e.branch = pending
        /\ (pending # 0 => e.outcome = "false")
    BY SequentialOf
  <2>2. previous # Terminal(g) BY DEF Cut
  <2> QED BY <1>2, <2>1, <2>2
<1>6. \A e \in more : Fits(e) BY <1>3
<1>7. \A e \in edges' : Fits(e)
  <2> HIDE DEF Fits
  <2> QED BY <1>4, <1>5, <1>6 DEF Adds
<1>8. previous' # Terminal(g) BY <1>3
<1> QED BY <1>1, <1>7, <1>8 DEF Cut

LEMMA InBlockKept ==
  ASSUME BaseInv, fn' = fn, NEW i \in Responses, InBlock(i),
         NEW node, NEW relation, NEW more, Adds(node, relation, more),
         \A e \in more : e.branch = i => e.outcome \in Outcomes /\ e.to \in Block(i, e.outcome)
  PROVE  InBlock(i)'
<1>1. pending # i
  <2>1. i \in Nat \ {0} /\ BranchKind(i) = "if_else" BY BranchesAreIfs DEF BaseInv, Responses
  <2>2. pending \in Guards => BranchKind(pending) = "guard" BY BranchesAreIfs DEF BaseInv, Guards
  <2> QED BY <2>1, <2>2 DEF BaseInv, PendingIsPrevious
<1>2. \A e \in SequentialEdges(node, relation) : e.branch # i
  BY <1>1, SequentialOf
<1>3. \A e \in edges' : e.branch = i => e.outcome \in Outcomes /\ e.to \in Block(i, e.outcome)
  BY <1>2 DEF Adds, InBlock
<1> QED BY <1>3, BlockKept DEF InBlock

LEMMA ReplayingKept ==
  ASSUME BaseInv, fn' = fn, Replaying,
         NEW node, NEW relation, NEW more, Adds(node, relation, more),
         \A e \in more :
           /\ e.branch \in Branches("recovery") =>
                IF e.outcome = "true" THEN e.to[1] \in {"public_recovery", "replay"}
                ELSE e.to[1] = "continuation"
           /\ e.from[1] \notin {"continuation", "replay"}
           /\ e.from[1] = "public_recovery" => e.to[1] = "replay",
         previous'[1] \notin {"continuation", "replay", "public_recovery"}
  PROVE  Replaying'
<1>1. pending \notin Branches("recovery")
  <2>1. \A i \in Branches("recovery") : i # 0 /\ BranchKind(i) = "recovery"
    BY BranchesAreIfs DEF BaseInv
  <2>2. pending \in Guards => BranchKind(pending) = "guard" BY BranchesAreIfs DEF BaseInv, Guards
  <2> QED BY <2>1, <2>2 DEF BaseInv, PendingIsPrevious
<1> DEFINE Fits(e) ==
      /\ e.branch \in Branches("recovery") =>
           IF e.outcome = "true" THEN e.to[1] \in {"public_recovery", "replay"}
           ELSE e.to[1] = "continuation"
      /\ e.from[1] \notin {"continuation", "replay"}
      /\ e.from[1] = "public_recovery" => e.to[1] = "replay"
<1>2. \A e \in edges : Fits(e) BY DEF Replaying
<1>3. \A e \in SequentialEdges(node, relation) : Fits(e)
  <2> TAKE e \in SequentialEdges(node, relation)
  <2>1. e.from = previous /\ e.branch = pending BY SequentialOf
  <2> QED BY <1>1, <2>1 DEF Replaying
<1>4. \A e \in edges' : Fits(e)
  <2> HIDE DEF Fits
  <2>1. \A e \in more : Fits(e) BY DEF Fits
  <2> QED BY <1>2, <1>3, <2>1 DEF Adds
<1>5. Branches("recovery")' = Branches("recovery") BY FnKept
<1> QED BY <1>4, <1>5 DEF Replaying

LEMMA ControlKeepsSplit ==
  ASSUME ChainInv,
         \/ SelectAnalysisFocus \/ RunL2 \/ EndGuards \/ EndApis \/ EndResponses \/ Finish
         \/ UNCHANGED chainVars
  PROVE  SplitInv'
<1>1. UNCHANGED <<fn, edges, previous, pending>>
  BY DEF SelectAnalysisFocus, RunL2, EndGuards, EndApis, EndResponses, Finish, chainVars
<1> SUFFICES ASSUME ApisOutsideBranches'
             PROVE  /\ \A g \in Guards' : Cut(g)' /\ InOrder(g)'
                    /\ \A i \in Responses' : InBlock(i)'
                    /\ Replaying'
  BY DEF SplitInv
<1>2. /\ \A g \in Guards : Cut(g) /\ InOrder(g)
      /\ \A i \in Responses : InBlock(i)
      /\ Replaying
  BY <1>1, FnKept DEF ChainInv, SplitInv
<1>3. ASSUME NEW g \in Guards PROVE Cut(g)'
  <2>1. UpTo(g)' = UpTo(g) BY <1>1, UpToKept
  <2> QED BY <1>1, <1>2, <2>1 DEF Cut
<1>4. ASSUME NEW g \in Guards PROVE InOrder(g)'
  <2>0. /\ UpTo(g)' = UpTo(g) /\ Guards' = Guards /\ \A i : Placed(i)' = Placed(i)
        /\ NoNode \notin UpTo(g)
    BY <1>1, UpToKept, FnKept, UpToHolds DEF Placed, ChainInv, BaseInv
  <2>1. CASE pc' = "guards"
    <3>1. UNCHANGED <<pc, todo>>
      BY <2>1 DEF SelectAnalysisFocus, RunL2, EndGuards, EndApis, EndResponses, Finish, chainVars
    <3> QED BY <1>1, <1>2, <2>0, <2>1, <3>1 DEF InOrder
  <2>2. CASE pc' # "guards" /\ pc \in Early
    <3>1. previous' \notin UpTo(g) BY <1>1, <2>0, <2>2 DEF ChainInv, BaseInv, Started
    <3> QED BY <2>0, <2>2, <3>1 DEF InOrder
  <2>3. CASE pc' # "guards" /\ pc \notin Early
    <3>1. pc = "guards" => todo = {}
      BY <2>3 DEF SelectAnalysisFocus, RunL2, EndGuards, EndApis, EndResponses, Finish, chainVars
    <3>2. previous \in UpTo(g) => pending = g
      BY <1>2, <2>3, <3>1 DEF InOrder
    <3> QED BY <1>1, <2>0, <2>3, <3>2 DEF InOrder
  <2> QED BY <2>1, <2>2, <2>3
<1>5. ASSUME NEW i \in Responses PROVE InBlock(i)'
  BY <1>1, <1>2, BlockKept DEF InBlock
<1>6. Replaying' BY <1>1, <1>2, FnKept DEF Replaying
<1> QED BY <1>1, <1>3, <1>4, <1>5, <1>6, FnKept, BlockKept

LEMMA BeginKeepsSplit ==
  ASSUME ChainInv, BeginChain
  PROVE  SplitInv'
<1>1. /\ pc = "begin" /\ edges = {} /\ pending = 0 /\ previous = NoNode
      /\ fn' = fn /\ edges' = edges /\ pending' = pending
  BY DEF BeginChain, ChainInv, BaseInv, Started, Early
<1>2. \/ pc' = "done" /\ previous' = NoNode
      \/ pc' = "guards" /\ previous' = Entry /\ todo' = {Placed(i) : i \in Guards}
  BY <1>1 DEF BeginChain, Guards
<1>3. ASSUME NEW g \in Guards PROVE Cut(g)' /\ InOrder(g)'
  <2>1. /\ UpTo(g)' = UpTo(g) /\ Guards' = Guards /\ Entry \in UpTo(g) /\ NoNode \notin UpTo(g)
        /\ Terminal(g) \in UpTo(g)
    BY <1>1, UpToKept, FnKept, UpToHolds DEF ChainInv, BaseInv
  <2>2. Terminal(g) # Entry /\ 0 < g
    BY NodesDiffer, BranchesAreIfs DEF ChainInv, BaseInv, Guards
  <2>3. Cut(g)' BY <1>1, <1>2, <2>1, <2>2 DEF Cut
  <2>4. InOrder(g)'
    <3>1. CASE pc' = "done" /\ previous' = NoNode
      BY <2>1, <3>1 DEF InOrder
    <3>2. CASE pc' = "guards" /\ previous' = Entry /\ todo' = {Placed(i) : i \in Guards}
      <4>1. Placed(g)' \in todo' BY <3>2 DEF Placed
      <4> QED BY <1>1, <2>1, <2>2, <3>2, <4>1 DEF InOrder
    <3> QED BY <1>2, <3>1, <3>2
  <2> QED BY <2>3, <2>4
<1>4. ASSUME NEW i \in Responses PROVE InBlock(i)'
  BY <1>1 DEF InBlock
<1>5. Replaying'
  <2>0. Entry[1] = "function" /\ NoNode[1] = "" BY DEF Entry, NoNode
  <2>1. previous'[1] \in {"function", ""} BY <1>2, <2>0
  <2> QED BY <1>1, <2>1 DEF Replaying
<1> QED BY <1>1, <1>3, <1>4, <1>5, FnKept, BlockKept DEF SplitInv

LEMMA GuardKeepsSplit ==
  ASSUME ChainInv, AddGuard, ApisOutsideBranches
  PROVE  /\ \A g \in Guards : Cut(g)' /\ InOrder(g)'
         /\ \A i \in Responses : InBlock(i)'
         /\ Replaying'
<1>0. /\ BaseInv
      /\ \A g \in Guards : Cut(g) /\ InOrder(g)
      /\ \A i \in Responses : InBlock(i)
      /\ Replaying
  BY DEF ChainInv, SplitInv
<1> PICK x \in todo : AddGuard!(x) BY Zenon DEF AddGuard
<1>1. PICK b \in Guards : x = Placed(b) BY DEF BaseInv, TodoIsOf, ChainInv
<1>2. x.at = At(b, 0, 0) /\ x.stmt = b BY <1>1 DEF Placed
<1> DEFINE more == {Edge(Condition(b), Terminal(b), "guard_stop", b, "true")}
<1>3. /\ pc = "guards" /\ pc' = pc /\ fn' = fn
      /\ Adds(Condition(b), "guard_condition", more)
      /\ pending' = b /\ previous' = Condition(b) /\ todo' = todo \ {Placed(b)}
  BY <1>1, <1>2 DEF Adds, Condition, Terminal
<1>4. \A e \in more : /\ e.from = Condition(b) /\ e.to = Terminal(b) /\ e.branch = b
                      /\ e.outcome = "true"
  BY DEF Edge
<1> HIDE DEF more
<1>5. \A h \in Guards : Placed(h) \in todo => b <= h
  <2> TAKE h \in Guards
  <2>1. Placed(h) \in todo => ~Before(At(h, 0, 0), At(b, 0, 0))
    BY <1>1, <1>2 DEF IsNext, Placed
  <2>2. b \in Nat /\ h \in Nat BY <1>0, BranchesAreIfs DEF BaseInv, Guards
  <2> QED BY <2>1, <2>2 DEF Before, At
<1>6. ASSUME NEW g \in Guards PROVE Cut(g)' /\ InOrder(g)'
  <2>0. /\ UpTo(g)' = UpTo(g) /\ Guards' = Guards /\ \A i : Placed(i)' = Placed(i)
        /\ b \in Nat \ {0} /\ g \in Nat \ {0}
    BY <1>0, <1>3, UpToKept, FnKept, BranchesAreIfs DEF Placed, BaseInv, Guards
  <2>1. CASE Placed(g) \in todo
    <3>1. b <= g /\ previous \in UpTo(g) /\ pending < g BY <1>0, <1>3, <1>5, <2>1 DEF InOrder
    <3>2. Condition(b) \in UpTo(g) /\ Terminal(b) \in UpTo(g) /\ Condition(b) # Terminal(g)
      BY <1>0, <3>1, UpToHolds, NodesDiffer DEF BaseInv
    <3> DEFINE Fits(e) ==
          /\ e.from \in UpTo(g) => e.to \in UpTo(g) \/ (e.branch = g /\ e.outcome = "false")
          /\ e.to \in UpTo(g) => e.from \in UpTo(g)
          /\ e.branch = g /\ e.outcome = "false" => e.to \notin UpTo(g)
          /\ e.branch = g /\ e.outcome = "true" => e.to = Terminal(g)
          /\ e.from # Terminal(g)
    <3>3. \A e \in edges : Fits(e) BY <1>0 DEF Cut
    <3>4. \A e \in SequentialEdges(Condition(b), "guard_condition") : Fits(e)
      <4> TAKE e \in SequentialEdges(Condition(b), "guard_condition")
      <4>1. e.from = previous /\ e.to = Condition(b) /\ e.branch = pending BY <1>0, SequentialOf
      <4>2. pending # g
        <5>1. pending \in Nat BY <1>0, BranchesAreIfs DEF BaseInv, PendingIsPrevious, Guards
        <5> QED BY <2>0, <3>1, <5>1
      <4>3. previous # Terminal(g) BY <1>0 DEF Cut
      <4> QED BY <3>1, <3>2, <4>1, <4>2, <4>3
    <3>5. \A e \in more : Fits(e)
      <4>1. b = g => Terminal(b) = Terminal(g) OBVIOUS
      <4> QED BY <1>4, <3>2, <4>1
    <3>6. \A e \in edges' : Fits(e)
      <4> HIDE DEF Fits
      <4> QED BY <1>3, <3>3, <3>4, <3>5 DEF Adds
    <3>7. Cut(g)' BY <1>3, <2>0, <3>2, <3>6 DEF Cut
    <3>8. InOrder(g)'
      <4>1. CASE b = g
        <5>1. Placed(g)' \notin todo' BY <1>3, <2>0, <4>1
        <5>2. \A h \in Guards : Placed(h) \in todo' => g < h
          <6> TAKE h \in Guards
          <6>1. h \in Nat /\ (Placed(h) = Placed(b) => h = b)
            BY <1>0, BranchesAreIfs DEF Placed, BaseInv, Guards
          <6>2. Placed(h) \in todo' => b <= h /\ h # b BY <1>3, <1>5
          <6> QED BY <2>0, <4>1, <6>1, <6>2
        <5> QED BY <1>3, <2>0, <4>1, <5>1, <5>2 DEF InOrder
      <4>2. CASE b # g
        <5>1. Placed(g)' \in todo' BY <1>3, <2>0, <2>1, <4>2 DEF Placed
        <5>2. b < g BY <2>0, <3>1, <4>2
        <5> QED BY <1>3, <2>0, <3>2, <5>1, <5>2 DEF InOrder
      <4> QED BY <4>1, <4>2
    <3> QED BY <3>7, <3>8
  <2>2. CASE Placed(g) \notin todo
    <3>1. g < b /\ (previous \in UpTo(g) => pending = g)
      BY <1>0, <1>1, <1>3, <2>2 DEF InOrder, Early
    <3>2. Condition(b) \notin UpTo(g) /\ Terminal(b) \notin UpTo(g)
      BY <1>0, <2>0, <3>1, UpToHolds DEF BaseInv
    <3>3. \A e \in more : e.from \notin UpTo(g) /\ e.to \notin UpTo(g) /\ e.branch # g
      BY <1>4, <2>0, <3>1, <3>2
    <3>4. Cut(g)' BY <1>0, <1>3, <3>1, <3>2, <3>3, CutKept
    <3>5. InOrder(g)' BY <1>0, <1>3, <2>0, <2>2, <3>1, <3>2 DEF InOrder
    <3> QED BY <3>4, <3>5
  <2> QED BY <2>1, <2>2
<1>7. ASSUME NEW i \in Responses PROVE InBlock(i)'
  <2>1. b # i BY <1>0, BranchesAreIfs DEF BaseInv, Guards, Responses
  <2> QED BY <1>0, <1>3, <1>4, <2>1, InBlockKept
<1>8. Replaying'
  <2>1. Condition(b)[1] = "condition" BY DEF Condition
  <2>2. b \notin Branches("recovery") BY <1>0, BranchesAreIfs DEF BaseInv, Guards
  <2> QED BY <1>0, <1>3, <1>4, <2>1, <2>2, ReplayingKept
<1> QED BY <1>6, <1>7, <1>8

\* A step past the guards, which places a node beyond all of them.
LEMMA BeyondGuards ==
  ASSUME ChainInv, ApisOutsideBranches, fn' = fn, NEW g \in Guards,
         pc \notin Early \cup {"guards"}, pc' \notin Early \cup {"guards"},
         NEW node, NEW relation, NEW more, Adds(node, relation, more), node \notin UpTo(g),
         \A e \in more : e.from \notin UpTo(g) /\ e.to \notin UpTo(g) /\ e.branch # g,
         previous' \notin UpTo(g)
  PROVE  Cut(g)' /\ InOrder(g)'
<1>1. BaseInv /\ Cut(g) /\ InOrder(g) BY DEF ChainInv, SplitInv
<1>2. previous \in UpTo(g) => pending = g BY <1>1 DEF InOrder
<1>3. Cut(g)' BY <1>1, <1>2, CutKept
<1>4. UpTo(g)' = UpTo(g) BY UpToKept
<1>5. InOrder(g)' BY <1>4 DEF InOrder
<1> QED BY <1>3, <1>5

LEMMA RecoveryKeepsSplit ==
  ASSUME ChainInv, AddRecovery, ApisOutsideBranches
  PROVE  /\ \A g \in Guards : Cut(g)' /\ InOrder(g)'
         /\ \A i \in Responses : InBlock(i)'
         /\ Replaying'
<1>0. /\ BaseInv
      /\ \A i \in Responses : InBlock(i)
      /\ Replaying
  BY DEF ChainInv, SplitInv
<1> PICK r \in Branches("recovery") : AddRecovery!(r) BY Zenon DEF AddRecovery
<1> DEFINE refresh == <<"public_recovery", At(r, 1, 0)>>
           replay == <<"replay", ReplayAt(r)>>
           next == <<"continuation", At(r + 1, 0, 0)>>
           more == {Edge(Condition(r), refresh, "auth_recovery", r, "true"),
                    Edge(refresh, replay, "replay", r, "true")}
                   \cup IF r + 1 \in DOMAIN fn.body
                        THEN {Edge(Condition(r), next, "recovery_fallthrough", r, "false")}
                        ELSE {}
<1>1. /\ pc = "recovery" /\ pc' = "finish" /\ fn' = fn
      /\ Adds(Condition(r), "response_condition", more) /\ previous' = Condition(r)
  BY DEF Adds, Condition
<1>2. \A e \in more : /\ e.branch = r
                      /\ \/ e.from = Condition(r) /\ e.to = refresh /\ e.outcome = "true"
                         \/ e.from = refresh /\ e.to = replay /\ e.outcome = "true"
                         \/ e.from = Condition(r) /\ e.to = next /\ e.outcome = "false"
  BY DEF Edge
<1>3. /\ Condition(r)[1] = "condition" /\ refresh[1] = "public_recovery"
      /\ replay[1] = "replay" /\ next[1] = "continuation"
  BY DEF Condition
<1> HIDE DEF more, refresh, replay, next
<1>4. BranchKind(r) = "recovery" BY <1>0, BranchesAreIfs DEF BaseInv
<1>5. ASSUME NEW g \in Guards PROVE Cut(g)' /\ InOrder(g)'
  <2>1. r # g /\ r \notin Guards BY <1>0, <1>4, BranchesAreIfs DEF BaseInv, Guards
  <2>2. /\ \A n \in UpTo(g) : n[1] \in {"function", "condition", "terminal"}
        /\ Condition(r) \notin UpTo(g)
    BY <1>0, <2>1, UpToHolds DEF BaseInv
  <2>3. refresh \notin UpTo(g) /\ replay \notin UpTo(g) /\ next \notin UpTo(g)
    BY <1>3, <2>2
  <2>4. \A e \in more : e.from \notin UpTo(g) /\ e.to \notin UpTo(g) /\ e.branch # g
    BY <1>2, <2>1, <2>2, <2>3
  <2> QED BY <1>1, <2>2, <2>4, BeyondGuards DEF Early
<1>6. ASSUME NEW i \in Responses PROVE InBlock(i)'
  <2>1. r # i BY <1>0, <1>4, BranchesAreIfs DEF BaseInv, Responses
  <2> QED BY <1>0, <1>1, <1>2, <2>1, InBlockKept
<1>7. Replaying'
  <2>1. \A e \in more :
           /\ e.branch \in Branches("recovery") =>
                IF e.outcome = "true" THEN e.to[1] \in {"public_recovery", "replay"}
                ELSE e.to[1] = "continuation"
           /\ e.from[1] \notin {"continuation", "replay"}
           /\ e.from[1] = "public_recovery" => e.to[1] = "replay"
    BY <1>2, <1>3
  <2> QED BY <1>0, <1>1, <1>3, <2>1, ReplayingKept
<1> QED BY <1>5, <1>6, <1>7

\* The edges to the post-processing of a response condition.
LEMMA ResponseEdges ==
  ASSUME BaseInv, AddResponse
  PROVE  \E i \in Responses : \E more :
           /\ pc = "responses" /\ pc' = pc /\ fn' = fn /\ previous' = NoNode
           /\ todo' = todo \ {Placed(i)} /\ type' = type
           /\ Adds(Condition(i), "response_condition", more)
           /\ \A e \in more : e.branch = i /\ IsOfOutcome(e)
           /\ \A o \in Outcomes : \A t :
                Condition(i) \in t /\ Closed(t, {e \in more : e.branch = i /\ e.outcome = o})
                  => Block(i, o) \subseteq t
<1>0. PICK x \in todo : AddResponse!(x) BY Zenon DEF AddResponse
<1>1. PICK i \in Responses : x = Placed(i) BY <1>0 DEF BaseInv, TodoIsOf, Responses
<1>2. x.at = At(i, 0, 0) /\ x.stmt = i BY <1>1 DEF Placed
<1> DEFINE of(outcome) == {p \in PostProcessing : p.branch = i /\ p.outcome = outcome}
           before(p) == {q \in of(p.outcome) : Before(q.at, p.at)}
           last(s) == CHOOSE p \in s : \A q \in s : ~Before(p.at, q.at)
           both == of("true") \cup of("false")
           edge(p) == Edge(IF before(p) = {} THEN Condition(i) ELSE PostNode(last(before(p))),
                           PostNode(p), p.kind, i, p.outcome)
           more == {edge(p) : p \in both}
<1>3. /\ pc = "responses" /\ pc' = pc /\ fn' = fn /\ previous' = NoNode
      /\ todo' = todo \ {Placed(i)} /\ type' = type
      /\ Adds(Condition(i), "response_condition", more)
  BY <1>0, <1>1, <1>2 DEF Adds, Condition
<1>4. fn \in FunctionType BY DEF BaseInv
<1>5. \A o : of(o) = PostsOf(i, o) BY DEF PostsOf
<1>6. ASSUME NEW p \in both
      PROVE  /\ edge(p).branch = i /\ edge(p).to = PostNode(p) /\ edge(p).outcome = p.outcome
             /\ edge(p).from = IF before(p) = {} THEN Condition(i) ELSE PostNode(last(before(p)))
             /\ p.outcome \in Outcomes /\ p \in PostsOf(i, p.outcome)
             /\ before(p) # {} => last(before(p)) \in before(p)
  <2>1. p.outcome \in Outcomes /\ p \in PostsOf(i, p.outcome) BY DEF Outcomes, PostsOf
  <2>2. before(p) \subseteq PostsOf(i, p.outcome) BY <1>5
  <2>3. ASSUME before(p) # {} PROVE last(before(p)) \in before(p)
    <3> HIDE DEF before
    <3> QED BY <1>4, <2>1, <2>2, <2>3, LastOfBlock
  <2>4. /\ edge(p).branch = i /\ edge(p).to = PostNode(p) /\ edge(p).outcome = p.outcome
        /\ edge(p).from = IF before(p) = {} THEN Condition(i) ELSE PostNode(last(before(p)))
    BY DEF Edge
  <2> HIDE DEF edge, before, last
  <2> QED BY <2>1, <2>3, <2>4
<1>7. \A p : before(p) \subseteq PostsOf(i, p.outcome) BY <1>5
<1>8. ASSUME NEW e \in more PROVE e.branch = i /\ IsOfOutcome(e)
  <2>1. PICK p \in both : e = edge(p) OBVIOUS
  <2> HIDE DEF edge, before, last, both
  <2>2. PostNode(p) \in Block(i, p.outcome) BY <1>4, <1>6, PostNodeIsInBlock
  <2>3. ASSUME before(p) # {} PROVE PostNode(last(before(p))) \in Block(i, p.outcome)
    BY <1>4, <1>6, <1>7, <2>3, PostNodeIsInBlock
  <2> QED BY <1>6, <2>1, <2>2, <2>3 DEF IsOfOutcome
<1>9. ASSUME NEW o \in Outcomes, NEW t, Condition(i) \in t,
             Closed(t, {e \in more : e.branch = i /\ e.outcome = o})
      PROVE  Block(i, o) \subseteq t
  <2> DEFINE bad == {p \in PostsOf(i, o) : PostNode(p) \notin t}
  <2>1. ASSUME bad # {} PROVE FALSE
    <3>1. HasFirst(bad) BY <1>4, <2>1, PostsInOneBlock
    <3>2. PICK p \in bad : \A q \in bad : ~Before(q.at, p.at) BY <3>1 DEF HasFirst
    <3>3. p \in both /\ p.outcome = o BY DEF PostsOf, Outcomes
    <3>4. edge(p) \in more BY <3>3
    <3>5. before(p) = {q \in PostsOf(i, o) : Before(q.at, p.at)} BY <3>3 DEF PostsOf
    <3> HIDE DEF edge, before, last, both, more
    <3>6. edge(p).from \notin t
      BY <1>6, <1>9, <3>2, <3>3, <3>4 DEF Closed
    <3>7. last(before(p)) \in before(p) /\ PostNode(last(before(p))) \notin t
      BY <1>6, <1>9, <3>3, <3>6
    <3>8. last(before(p)) \in bad BY <3>5, <3>7
    <3> QED BY <3>2, <3>5, <3>7, <3>8
  <2>2. ASSUME NEW text \in TextsOf(i, o) PROVE <<"post", text>> \in t
    <3>1. PICK p \in PostsOf(i, o) : p.text = text BY <1>4, BlockIsOfPosts
    <3> QED BY <2>1, <3>1 DEF PostNode
  <2> QED BY <2>2 DEF Block
<1> HIDE DEF more
<1> QED BY <1>3, <1>8, <1>9

\* A step that adds the way to a node of the row and no more.
LEMMA RowKeepsSplit ==
  ASSUME ChainInv, ApisOutsideBranches, fn' = fn,
         pc \in {"apis", "posts"}, pc' = pc,
         NEW node, NEW relation, Adds(node, relation, {}), previous' = node,
         node[1] \in {"api_reference", "post"}
  PROVE  /\ \A g \in Guards : Cut(g)' /\ InOrder(g)'
         /\ \A i \in Responses : InBlock(i)'
         /\ Replaying'
<1>0. /\ BaseInv
      /\ \A i \in Responses : InBlock(i)
      /\ Replaying
  BY DEF ChainInv, SplitInv
<1>1. ASSUME NEW g \in Guards PROVE Cut(g)' /\ InOrder(g)'
  <2>1. node \notin UpTo(g) BY <1>0, UpToHolds DEF BaseInv
  <2> QED BY <2>1, BeyondGuards DEF Early
<1>2. ASSUME NEW i \in Responses PROVE InBlock(i)'
  BY <1>0, InBlockKept
<1>3. Replaying' BY <1>0, ReplayingKept
<1> QED BY <1>1, <1>2, <1>3

LEMMA ApiKeepsSplit ==
  ASSUME ChainInv, AddApi, ApisOutsideBranches
  PROVE  /\ \A g \in Guards : Cut(g)' /\ InOrder(g)'
         /\ \A i \in Responses : InBlock(i)'
         /\ Replaying'
<1>1. PICK c \in todo : AddApi!(c) BY Zenon DEF AddApi
<1> DEFINE node == <<"api_reference", c.at>>
<1>2. pc = "apis" /\ pc' = pc /\ fn' = fn /\ previous' = node BY <1>1
<1>3. BranchOf(c) = 0
  <2>1. c \in ApiReferences BY <1>2 DEF ChainInv, BaseInv, TodoIsOf
  <2> QED BY <2>1 DEF ApisOutsideBranches
<1>4. Adds(node, "api_reference", {}) BY <1>1, <1>3 DEF Adds
<1>5. node[1] = "api_reference" OBVIOUS
<1> HIDE DEF node
<1> QED BY <1>2, <1>4, <1>5, RowKeepsSplit

LEMMA PostKeepsSplit ==
  ASSUME ChainInv, AddPost, ApisOutsideBranches
  PROVE  /\ \A g \in Guards : Cut(g)' /\ InOrder(g)'
         /\ \A i \in Responses : InBlock(i)'
         /\ Replaying'
<1>1. PICK p \in todo : AddPost!(p) BY Zenon DEF AddPost
<1> DEFINE node == PostNode(p)
<1>2. pc = "posts" /\ pc' = pc /\ fn' = fn /\ previous' = node BY <1>1
<1>3. Adds(node, p.kind, {}) BY <1>1 DEF Adds
<1>4. node[1] = "post" BY DEF PostNode
<1> HIDE DEF node
<1> QED BY <1>2, <1>3, <1>4, RowKeepsSplit

LEMMA ResponseKeepsSplit ==
  ASSUME ChainInv, AddResponse, ApisOutsideBranches
  PROVE  /\ \A g \in Guards : Cut(g)' /\ InOrder(g)'
         /\ \A i \in Responses : InBlock(i)'
         /\ Replaying'
<1>0. /\ BaseInv
      /\ \A i \in Responses : InBlock(i)
      /\ Replaying
  BY DEF ChainInv, SplitInv
<1>1. PICK r \in Responses : \E more :
        /\ pc = "responses" /\ pc' = pc /\ fn' = fn /\ previous' = NoNode
        /\ Adds(Condition(r), "response_condition", more)
        /\ \A e \in more : e.branch = r /\ IsOfOutcome(e)
  BY <1>0, ResponseEdges
<1>2. PICK more :
        /\ pc = "responses" /\ pc' = pc /\ fn' = fn /\ previous' = NoNode
        /\ Adds(Condition(r), "response_condition", more)
        /\ \A e \in more : e.branch = r /\ IsOfOutcome(e)
  BY <1>1
<1>3. BranchKind(r) = "if_else" BY <1>0, BranchesAreIfs DEF BaseInv, Responses
<1>4. \A i, o : \A n \in Block(i, o) : n[1] = "post" BY DEF Block
<1>5. Condition(r)[1] = "condition" /\ NoNode[1] = "" BY DEF Condition, NoNode
<1>6. \A e \in more : /\ e.from = Condition(r) \/ e.from[1] = "post"
                      /\ e.to[1] = "post"
  BY <1>2, <1>4 DEF IsOfOutcome
<1>7. ASSUME NEW g \in Guards PROVE Cut(g)' /\ InOrder(g)'
  <2>1. r # g /\ r \notin Guards BY <1>0, <1>3, BranchesAreIfs DEF BaseInv, Guards
  <2>2. /\ \A n \in UpTo(g) : n[1] \in {"function", "condition", "terminal"}
        /\ Condition(r) \notin UpTo(g) /\ NoNode \notin UpTo(g)
    BY <1>0, <2>1, UpToHolds DEF BaseInv
  <2>3. \A e \in more : e.from \notin UpTo(g) /\ e.to \notin UpTo(g) /\ e.branch # g
    BY <1>2, <1>6, <2>1, <2>2
  <2> QED BY <1>2, <2>2, <2>3, BeyondGuards DEF Early
<1>8. ASSUME NEW i \in Responses PROVE InBlock(i)'
  BY <1>0, <1>2, InBlockKept DEF IsOfOutcome
<1>9. Replaying'
  <2>1. r \notin Branches("recovery") BY <1>0, <1>3, BranchesAreIfs DEF BaseInv
  <2>2. \A e \in more : e.from[1] \in {"condition", "post"} BY <1>5, <1>6
  <2> QED BY <1>0, <1>2, <1>5, <2>1, <2>2, ReplayingKept
<1> QED BY <1>7, <1>8, <1>9

LEMMA StepKeepsSplit ==
  ASSUME ChainInv, [ChainNext]_chainVars
  PROVE  SplitInv'
<1>1. CASE \/ SelectAnalysisFocus \/ RunL2 \/ EndGuards \/ EndApis \/ EndResponses \/ Finish
           \/ UNCHANGED chainVars
  BY <1>1, ControlKeepsSplit
<1>2. CASE BeginChain
  BY <1>2, BeginKeepsSplit
<1>3. CASE AddGuard \/ AddRecovery \/ AddApi \/ AddResponse \/ AddPost
  <2>1. fn' = fn BY <1>3 DEF AddGuard, AddRecovery, AddApi, AddResponse, AddPost
  <2> SUFFICES ASSUME ApisOutsideBranches
               PROVE  /\ \A g \in Guards : Cut(g)' /\ InOrder(g)'
                      /\ \A i \in Responses : InBlock(i)'
                      /\ Replaying'
    BY <2>1, FnKept, BlockKept, Zenon DEF SplitInv
  <2> QED
    BY <1>3, GuardKeepsSplit, RecoveryKeepsSplit, ApiKeepsSplit, ResponseKeepsSplit, PostKeepsSplit
<1> QED BY <1>1, <1>2, <1>3 DEF ChainNext

LEMMA InitiallySplit == ChainInit => SplitInv
<1> SUFFICES ASSUME ChainInit, ApisOutsideBranches
             PROVE  /\ \A g \in Guards : Cut(g) /\ InOrder(g)
                    /\ \A i \in Responses : InBlock(i)
                    /\ Replaying
  BY DEF SplitInv
<1>1. pc = "focus" /\ edges = {} /\ previous = NoNode BY DEF ChainInit
<1>2. NoNode[1] = "" BY DEF NoNode
<1>3. \A g : Terminal(g) # NoNode BY DEF Terminal, NoNode
<1>5. \A g \in Guards : Cut(g) BY <1>1, <1>3 DEF Cut
<1>6. \A g \in Guards : InOrder(g) BY <1>1 DEF InOrder, Early
<1>7. \A i \in Responses : InBlock(i) BY <1>1 DEF InBlock
<1>8. Replaying BY <1>1, <1>2 DEF Replaying
<1> QED BY <1>5, <1>6, <1>7, <1>8

\* The invariant the properties of chains follow from.
THEOREM ChainInvariant == ChainSpec => []ChainInv
<1>1. ChainInit => SplitInv BY InitiallySplit
<1>2. ChainInv /\ [ChainNext]_chainVars => SplitInv' BY StepKeepsSplit
<1> QED BY <1>1, <1>2, BaseInvariant, PTL DEF ChainSpec, ChainInv
-----------------------------------------------------------------------------
(* Every action keeps WayInv.                                               *)

LEMMA LeavesKept ==
  ASSUME fn' = fn
  PROVE  /\ \A n : Leaves(n)' = Leaves(n) /\ \A e : IsOfOutcome(e)' = IsOfOutcome(e)
         /\ \A i : Condition(i)' = Condition(i) /\ Placed(i)' = Placed(i)
<1>1. \A i : Condition(i)' = Condition(i) /\ Placed(i)' = Placed(i) BY DEF Condition, Placed
<1>2. \A n : Leaves(n)' = Leaves(n) BY <1>1, BlockKept, Zenon DEF Leaves
<1>3. \A e : IsOfOutcome(e)' = IsOfOutcome(e) BY <1>1, BlockKept, Zenon DEF IsOfOutcome
<1> QED BY <1>1, <1>2, <1>3

\* What is told stays told, for edges are only added.
LEMMA WholeKept ==
  ASSUME fn' = fn, edges \subseteq edges', NEW i, Whole(i)
  PROVE  Whole(i)'
<1>1. \A o, t : Closed(t, EdgesOf(i, o))' => Closed(t, EdgesOf(i, o)) BY DEF Closed, EdgesOf
<1>2. \A o : Block(i, o)' = Block(i, o) /\ Condition(i)' = Condition(i) BY BlockKept, LeavesKept
<1> QED BY <1>1, <1>2 DEF Whole

\* Neither the entry nor a guard or 401 condition is where outcomes leave from.
LEMMA RowIsElsewhere ==
  ASSUME BaseInv
  PROVE  /\ ~Leaves(Entry) /\ ~Leaves(NoNode)
         /\ \A i \in Guards \cup Branches("recovery") : ~Leaves(Condition(i))
         /\ \A n : n[1] \notin {"condition", "post"} => ~Leaves(n)
<1>1. \A i \in Guards \cup Branches("recovery") : i \notin Responses
  BY BranchesAreIfs DEF BaseInv, Guards, Responses
<1>2. \A i : Condition(i)[1] = "condition" BY DEF Condition
<1>3. \A n : n[1] \notin {"condition", "post"} => ~Leaves(n) BY <1>2 DEF Leaves
<1>4. Entry[1] = "function" /\ NoNode[1] = "" BY DEF Entry, NoNode
<1>5. \A i \in Guards \cup Branches("recovery") : ~Leaves(Condition(i))
  BY <1>1, <1>2, NodesDiffer DEF Leaves
<1> QED BY <1>3, <1>4, <1>5

\* A step that adds the way to a node, and edges of outcomes or from elsewhere.
LEMMA OutcomesKept ==
  ASSUME BaseInv, WayInv, fn' = fn, NEW node, NEW relation, NEW more, Adds(node, relation, more),
         \A e \in more : Leaves(e.from) => IsOfOutcome(e)
  PROVE  OnOutcome'
<1>1. \A e \in SequentialEdges(node, relation) : ~Leaves(e.from) BY SequentialOf DEF WayInv
<1>2. \A e \in edges' : Leaves(e.from) => IsOfOutcome(e)
  BY <1>1 DEF Adds, WayInv, OnOutcome
<1> QED BY <1>2, LeavesKept DEF OnOutcome

LEMMA ControlKeepsWays ==
  ASSUME BaseInv, WayInv,
         \/ SelectAnalysisFocus \/ RunL2 \/ EndGuards \/ EndApis \/ EndResponses \/ Finish
         \/ UNCHANGED chainVars
  PROVE  WayInv'
<1>1. UNCHANGED <<fn, type, edges, previous>>
  BY DEF SelectAnalysisFocus, RunL2, EndGuards, EndApis, EndResponses, Finish, chainVars
<1>2. OnOutcome' /\ ~Leaves(previous)' BY <1>1, LeavesKept DEF WayInv, OnOutcome
<1>3. \A i : Whole(i) => Whole(i)' BY <1>1, WholeKept
<1>4. Responses' = Responses /\ \A i : Placed(i)' = Placed(i) BY <1>1, BlockKept, LeavesKept
<1>5. WholeInTurn'
  <2>1. CASE EndApis
    <3>1. pc' = "responses" /\ todo' = {Placed(i) : i \in Responses}
      BY <2>1 DEF EndApis, Responses
    <3> QED BY <1>4, <3>1 DEF WholeInTurn
  <2>2. CASE EndResponses
    <3>1. /\ pc = "responses" /\ pc' = "posts" /\ todo = {}
          /\ todo' = IF previous = NoNode THEN {} ELSE Linear
      BY <2>2 DEF EndResponses
    <3>2. previous = NoNode \/ Responses = {} BY <3>1 DEF WayInv, WholeInTurn
    <3>3. \A i \in Responses : Whole(i)' BY <1>3, <3>1 DEF WayInv, WholeInTurn
    <3> QED BY <1>4, <3>1, <3>2, <3>3 DEF WholeInTurn
  <2>3. CASE Finish
    <3>1. pc' = "done" /\ (type # "recovery" => pc = "posts")
      BY <2>3 DEF Finish, BaseInv, Started
    <3> QED BY <1>1, <1>3, <1>4, <3>1 DEF WayInv, WholeInTurn
  <2>4. CASE SelectAnalysisFocus \/ RunL2 \/ EndGuards
    <3>1. pc' \notin {"responses", "posts"} /\ (pc' = "done" => type = "none")
      BY <1>1, <2>4 DEF SelectAnalysisFocus, RunL2, EndGuards, BaseInv, Started, Early
    <3> QED BY <1>1, <3>1 DEF WholeInTurn
  <2>5. CASE UNCHANGED chainVars
    BY <1>1, <1>3, <1>4, <2>5 DEF chainVars, WayInv, WholeInTurn
  <2> QED BY <2>1, <2>2, <2>3, <2>4, <2>5
<1> QED BY <1>2, <1>5 DEF WayInv

LEMMA RowKeepsWays ==
  ASSUME BaseInv, WayInv, BeginChain \/ AddGuard \/ AddRecovery \/ AddApi
  PROVE  WayInv'
<1>1. /\ fn' = fn /\ pc' \notin {"responses", "posts"}
      /\ pc' = "done" => type' \in {"none", "recovery"}
  BY DEF BeginChain, AddGuard, AddRecovery, AddApi, BaseInv, Started
<1>2. WholeInTurn' BY <1>1 DEF WholeInTurn
<1>3. OnOutcome' /\ ~Leaves(previous')
  <2>1. CASE BeginChain
    <3>1. edges' = edges /\ (previous' = previous \/ previous' = Entry)
      BY <2>1 DEF BeginChain
    <3> QED BY <1>1, <3>1, LeavesKept, RowIsElsewhere DEF WayInv, OnOutcome
  <2>2. CASE AddGuard
    <3>1. PICK x \in todo : AddGuard!(x) BY <2>2, Zenon DEF AddGuard
    <3>2. PICK g \in Guards : x = Placed(g) BY <3>1 DEF BaseInv, TodoIsOf
    <3>3. x.at = At(g, 0, 0) BY <3>2 DEF Placed
    <3> DEFINE more == {Edge(Condition(g), <<"terminal", x.at>>, "guard_stop", x.stmt, "true")}
    <3>4. Adds(Condition(g), "guard_condition", more) /\ previous' = Condition(g)
      BY <3>1, <3>3 DEF Adds, Condition
    <3>5. \A e \in more : e.from = Condition(g) BY DEF Edge
    <3> HIDE DEF more
    <3> QED BY <1>1, <3>4, <3>5, OutcomesKept, RowIsElsewhere
  <2>3. CASE AddRecovery
    <3>1. PICK r \in Branches("recovery") : AddRecovery!(r) BY <2>3, Zenon DEF AddRecovery
    <3> DEFINE refresh == <<"public_recovery", At(r, 1, 0)>>
               more == {Edge(Condition(r), refresh, "auth_recovery", r, "true"),
                        Edge(refresh, <<"replay", ReplayAt(r)>>, "replay", r, "true")}
                       \cup IF r + 1 \in DOMAIN fn.body
                            THEN {Edge(Condition(r), <<"continuation", At(r + 1, 0, 0)>>,
                                       "recovery_fallthrough", r, "false")}
                            ELSE {}
    <3>2. Adds(Condition(r), "response_condition", more) /\ previous' = Condition(r)
      BY <3>1 DEF Adds, Condition
    <3>3. \A e \in more : e.from \in {Condition(r), refresh} BY DEF Edge
    <3>4. refresh[1] = "public_recovery" OBVIOUS
    <3> HIDE DEF more, refresh
    <3>5. ~Leaves(refresh) BY <3>4, RowIsElsewhere
    <3>6. ~Leaves(Condition(r)) BY RowIsElsewhere
    <3>7. \A e \in more : ~Leaves(e.from) BY <3>3, <3>5, <3>6
    <3> QED BY <1>1, <3>2, <3>6, <3>7, OutcomesKept
  <2>4. CASE AddApi
    <3>1. PICK c \in todo : AddApi!(c) BY <2>4, Zenon DEF AddApi
    <3> DEFINE node == <<"api_reference", c.at>>
               into == SequentialEdges(node, "api_reference")
    <3>2. \A e \in edges' : e \in edges \/ e.from = previous
      <4>1. \A e \in into : e.from = previous BY SequentialOf
      <4>2. edges' = edges \cup IF BranchOf(c) = 0 THEN into
               ELSE {[e EXCEPT !.branch = BranchOf(c), !.outcome = OutcomeOf(c)] : e \in into}
        BY <3>1
      <4>3. ASSUME NEW e \in into
            PROVE  [e EXCEPT !.branch = BranchOf(c), !.outcome = OutcomeOf(c)].from = e.from
        <5>1. \E f, t, r, b, o : e = Edge(f, t, r, b, o)
          <6>1. CASE pending # 0
            BY <6>1, Zenon DEF SequentialEdges
          <6>2. CASE pending = 0
            <7>1. e \in (IF previous # NoNode
                        THEN {Edge(previous, node, "api_reference", 0, "")} ELSE {})
              BY <6>2 DEF SequentialEdges
            <7> QED BY <7>1, Zenon
          <6> QED BY <6>1, <6>2
        <5> QED BY <5>1 DEF Edge
      <4> HIDE DEF into
      <4>4. \A e \in into :
              [e EXCEPT !.branch = BranchOf(c), !.outcome = OutcomeOf(c)].from = previous
        BY <4>1, <4>3
      <4> QED BY <4>1, <4>2, <4>4
    <3>3. previous' = node /\ node[1] = "api_reference" BY <3>1
    <3> QED BY <1>1, <3>2, <3>3, LeavesKept, RowIsElsewhere DEF WayInv, OnOutcome
  <2> QED BY <2>1, <2>2, <2>3, <2>4
<1> QED BY <1>1, <1>2, <1>3, LeavesKept DEF WayInv

LEMMA ResponseKeepsWays ==
  ASSUME BaseInv, WayInv, AddResponse
  PROVE  WayInv'
<1>1. PICK i \in Responses : \E more :
        /\ pc = "responses" /\ pc' = pc /\ fn' = fn /\ previous' = NoNode
        /\ todo' = todo \ {Placed(i)} /\ type' = type
        /\ Adds(Condition(i), "response_condition", more)
        /\ \A e \in more : e.branch = i /\ IsOfOutcome(e)
        /\ \A o \in Outcomes : \A t :
             Condition(i) \in t /\ Closed(t, {e \in more : e.branch = i /\ e.outcome = o})
               => Block(i, o) \subseteq t
  BY ResponseEdges
<1>2. PICK more :
        /\ pc = "responses" /\ pc' = pc /\ fn' = fn /\ previous' = NoNode
        /\ todo' = todo \ {Placed(i)} /\ type' = type
        /\ Adds(Condition(i), "response_condition", more)
        /\ \A e \in more : e.branch = i /\ IsOfOutcome(e)
        /\ \A o \in Outcomes : \A t :
             Condition(i) \in t /\ Closed(t, {e \in more : e.branch = i /\ e.outcome = o})
               => Block(i, o) \subseteq t
  BY <1>1
<1>3. OnOutcome' BY <1>2, OutcomesKept
<1>4. ~Leaves(previous') BY <1>2, RowIsElsewhere
<1>5. Whole(i)'
  <2>1. edges' = edges \cup SequentialEdges(Condition(i), "response_condition") \cup more
    BY <1>2 DEF Adds
  <2>2. \A o, t : Closed(t, EdgesOf(i, o))'
                 => Closed(t, {e \in more : e.branch = i /\ e.outcome = o})
    BY <2>1 DEF Closed, EdgesOf
  <2>3. \A o : Block(i, o)' = Block(i, o) /\ Condition(i)' = Condition(i)
    BY <1>2, BlockKept, LeavesKept
  <2> QED BY <1>2, <2>2, <2>3 DEF Whole
<1>6. WholeInTurn'
  <2>1. ASSUME NEW j \in Responses, Placed(j) \notin todo' PROVE Whole(j)'
    <3>1. CASE Placed(j) = Placed(i)
      <4>1. j = i BY <3>1 DEF Placed
      <4> QED BY <1>5, <4>1
    <3>2. CASE Placed(j) # Placed(i)
      <4>1. Whole(j) BY <1>2, <2>1, <3>2 DEF WayInv, WholeInTurn
      <4> QED BY <1>2, <4>1, WholeKept DEF Adds
    <3> QED BY <3>1, <3>2
  <2> QED BY <1>2, <2>1, BlockKept, LeavesKept DEF WholeInTurn
<1> QED BY <1>2, <1>3, <1>4, <1>6, LeavesKept DEF WayInv

LEMMA PostKeepsWays ==
  ASSUME BaseInv, WayInv, AddPost
  PROVE  WayInv'
<1>1. PICK p \in todo : AddPost!(p) BY Zenon DEF AddPost
<1>2. /\ pc = "posts" /\ pc' = pc /\ fn' = fn /\ previous' = PostNode(p) /\ Responses = {}
  BY <1>1 DEF WayInv, WholeInTurn
<1>3. Responses' = {} BY <1>2, BlockKept
<1>4. \A n : ~Leaves(n)' BY <1>3 DEF Leaves
<1> QED BY <1>2, <1>3, <1>4 DEF WayInv, OnOutcome, WholeInTurn

\* The edges of the outcomes, for every function, also with API calls inside branches.
LEMMA WayInvariant == ChainSpec => []WayInv
<1>1. ChainInit => WayInv
  <2> SUFFICES ASSUME ChainInit PROVE WayInv OBVIOUS
  <2>1. edges = {} /\ pc = "focus" /\ previous = NoNode BY DEF ChainInit
  <2>2. NoNode[1] = "" /\ \A i : Condition(i)[1] = "condition" BY DEF NoNode, Condition
  <2> QED BY <2>1, <2>2 DEF WayInv, OnOutcome, WholeInTurn, Leaves
<1>2. BaseInv /\ WayInv /\ [ChainNext]_chainVars => WayInv'
  BY ControlKeepsWays, RowKeepsWays, ResponseKeepsWays, PostKeepsWays DEF ChainNext
<1> QED BY <1>1, <1>2, BaseInvariant, PTL DEF ChainSpec
-----------------------------------------------------------------------------
(* What follows of a complete chain.                                        *)

\* Nothing outside a set that holds the start and that no edge leaves is reached.
LEMMA StaysInside ==
  ASSUME NEW s, NEW es, NEW t, s \subseteq t, Closed(t, es)
  PROVE  ReachableFrom(s, es) \subseteq t
<1> DEFINE ends == s \cup {e.to : e \in es}
           inside == ends \cap t
<1>1. inside \in SUBSET ends /\ s \subseteq inside OBVIOUS
<1>2. Closed(inside, es) BY DEF Closed
<1> QED BY <1>1, <1>2 DEF ReachableFrom

LEMMA CompleteChain ==
  ASSUME BaseInv, Complete
  PROVE  /\ relations = RecoverL2 /\ type = ActionType
         /\ type = "recovery" => Replayed
         /\ \A n \in nodes : n[1] = "api_reference" => \E c \in ApiReferences : n[2] = c.at
BY DEF BaseInv, Complete, Grounded, Started

LEMMA GroundedChains == BaseInv => OnlyTrustedGoDeep
<1> SUFFICES ASSUME BaseInv PROVE OnlyTrustedGoDeep OBVIOUS
<1>1. focus \in {"HIGH", "MEDIUM"} =>
        Trusted(asset) \/ asset.promoted \/ (asset.class = "third_party" /\ asset.critical)
  BY DEF BaseInv, Grounded, Priority
<1>2. ASSUME Complete, NEW n \in nodes, n[1] = "api_reference"
      PROVE  \E r \in relations : r[1] = "api_reference" /\ r[3] = n[2]
  <2>1. PICK c \in ApiReferences : n[2] = c.at BY <1>2, CompleteChain
  <2>2. <<"api_reference", c.kind, c.at>> \in relations
    BY <1>2, CompleteChain DEF RecoverL2
  <2> QED BY <2>1, <2>2
<1> QED BY <1>1, <1>2 DEF OnlyTrustedGoDeep

LEMMA GuardsCut == ChainInv => GuardsAreInTheWay
<1> SUFFICES ASSUME ChainInv, Complete, ApisOutsideBranches, NEW g \in Guards,
                    NEW c \in ApiReferences
             PROVE  <<"api_reference", c.at>> \notin
                      ReachableFrom({Entry}, {e \in edges : ~(e.branch = g /\ e.outcome = "false")})
  BY DEF GuardsAreInTheWay, Guards
<1> DEFINE others == {e \in edges : ~(e.branch = g /\ e.outcome = "false")}
<1>1. Cut(g) BY DEF ChainInv, SplitInv
<1>2. Closed(UpTo(g), others) BY <1>1 DEF Cut, Closed
<1>3. {Entry} \subseteq UpTo(g) /\ \A n \in UpTo(g) : n[1] # "api_reference"
  BY UpToHolds DEF ChainInv, BaseInv
<1>4. ReachableFrom({Entry}, others) \subseteq UpTo(g) BY <1>2, <1>3, StaysInside
<1> HIDE DEF others
<1>5. <<"api_reference", c.at>>[1] = "api_reference" OBVIOUS
<1>6. <<"api_reference", c.at>> \notin ReachableFrom({Entry}, others) BY <1>3, <1>4, <1>5
<1> QED BY <1>6 DEF others

\* On every way to an API call stands the false outcome of every guard, what a chain refers to
\* is grounded, and a replay comes after the refresh of its 401 block (candidateChain).
THEOREM EveryChainIsTheWay == ChainSpec => []ChainIsTheWay
<1>1. ChainInv => ChainIsTheWay
  <2> SUFFICES ASSUME ChainInv PROVE ChainIsTheWay OBVIOUS
  <2>1. BaseInv BY DEF ChainInv
  <2>2. RecoveryIsReplayed
    BY <2>1, CompleteChain DEF RecoveryIsReplayed, Replayed
  <2> QED BY <2>1, <2>2, GroundedChains, GuardsCut DEF ChainIsTheWay
<1> QED BY <1>1, ChainInvariant, PTL

LEMMA FollowsInside ==
  ASSUME NEW i, NEW outcome, NEW t, Closed(t, edges),
         \A e \in edges : e.branch = i /\ e.outcome = outcome => e.to \in t
  PROVE  Following(i, outcome) \subseteq t
<1>1. {e.to : e \in {x \in edges : x.branch = i /\ x.outcome = outcome}} \subseteq t OBVIOUS
<1> QED BY <1>1, StaysInside DEF Following

LEMMA GuardSeparates ==
  ASSUME ChainInv, ApisOutsideBranches, NEW i \in Guards
  PROVE  Following(i, "true") \cap Following(i, "false") = {}
<1> DEFINE past == {e.to : e \in edges} \ UpTo(i)
<1>1. Cut(i) /\ Terminal(i) \in UpTo(i) BY UpToHolds DEF ChainInv, BaseInv, SplitInv
<1>2. Following(i, "true") \subseteq {Terminal(i)}
  <2>1. Closed({Terminal(i)}, edges) BY <1>1 DEF Cut, Closed
  <2>2. \A e \in edges : e.branch = i /\ e.outcome = "true" => e.to \in {Terminal(i)}
    BY <1>1 DEF Cut
  <2> QED BY <2>1, <2>2, FollowsInside
<1>3. Following(i, "false") \subseteq past
  <2>1. Closed(past, edges) BY <1>1 DEF Cut, Closed
  <2>2. \A e \in edges : e.branch = i /\ e.outcome = "false" => e.to \in past
    BY <1>1 DEF Cut
  <2> HIDE DEF past
  <2> QED BY <2>1, <2>2, FollowsInside
<1> QED BY <1>1, <1>2, <1>3

\* The way of an outcome from its condition is the condition and its block.
LEMMA WaysAreWhole ==
  ASSUME WayInv, NEW i \in Responses, Whole(i), NEW o \in Outcomes
  PROVE  ReachableFrom({Condition(i)}, EdgesOf(i, o)) = {Condition(i)} \cup Block(i, o)
<1> DEFINE way == {Condition(i)} \cup Block(i, o)
           ends == {Condition(i)} \cup {e.to : e \in EdgesOf(i, o)}
<1>1. \A n \in way : Leaves(n)
  <2>1. \A n \in Block(i, o) : n[1] = "post" BY DEF Block
  <2> QED BY <2>1 DEF Leaves
<1>2. Closed(way, EdgesOf(i, o))
  <2>1. ASSUME NEW e \in EdgesOf(i, o), e.from \in way PROVE e.to \in Block(i, o)
    <3> HIDE DEF way
    <3> QED BY <1>1, <2>1 DEF EdgesOf, WayInv, OnOutcome, IsOfOutcome
  <2> QED BY <2>1 DEF Closed
<1>3. ReachableFrom({Condition(i)}, EdgesOf(i, o)) \subseteq way BY <1>2, StaysInside
<1>4. Closed(ends, EdgesOf(i, o)) BY DEF Closed
<1>5. way \subseteq ends BY <1>4 DEF Whole
<1>6. \A t : {Condition(i)} \subseteq t /\ Closed(t, EdgesOf(i, o)) => way \subseteq t
  BY DEF Whole
<1> HIDE DEF way
<1>7. way \subseteq ReachableFrom({Condition(i)}, EdgesOf(i, o))
  BY <1>5, <1>6 DEF ReachableFrom
<1> QED BY <1>3, <1>7 DEF way

LEMMA ResponseSeparates ==
  ASSUME ChainInv, WayInv, ApisOutsideBranches, NEW i \in Responses, NothingRepeats(i)
  PROVE  Following(i, "true") \cap Following(i, "false") = {}
<1>1. InBlock(i) BY DEF ChainInv, SplitInv
<1>2. ASSUME NEW o \in Outcomes PROVE Following(i, o) \subseteq Block(i, o)
  <2>1. ASSUME NEW e \in edges, e.from \in Block(i, o) PROVE e.to \in Block(i, o)
    <3>1. PICK x \in TextsOf(i, o) : e.from = <<"post", x>> BY <2>1 DEF Block
    <3>2. Leaves(e.from) BY <3>1 DEF Leaves
    <3>3. IsOfOutcome(e) BY <3>2 DEF WayInv, OnOutcome
    <3>4. e.from # Condition(e.branch) BY <3>1 DEF Condition
    <3>5. e.from \in Block(e.branch, e.outcome) BY <3>3, <3>4 DEF IsOfOutcome
    <3>6. x \in TextsOf(e.branch, e.outcome) BY <3>1, <3>5 DEF Block
    <3>7. <<i, o>> = <<e.branch, e.outcome>>
      BY <3>1, <3>3, <3>6 DEF NothingRepeats, IsOfOutcome, Outcomes, Responses
    <3> QED BY <3>3, <3>7 DEF IsOfOutcome
  <2>2. Closed(Block(i, o), edges) BY <2>1 DEF Closed
  <2>3. \A e \in edges : e.branch = i /\ e.outcome = o => e.to \in Block(i, o) BY <1>1 DEF InBlock
  <2> QED BY <2>2, <2>3, FollowsInside
<1>3. Block(i, "true") \cap Block(i, "false") = {}
  <2>1. TextsOf(i, "true") \cap TextsOf(i, "false") = {}
    BY DEF NothingRepeats, Responses
  <2> QED BY <2>1 DEF Block
<1>4. "true" \in Outcomes /\ "false" \in Outcomes BY DEF Outcomes
<1> QED BY <1>2, <1>3, <1>4

LEMMA RecoverySeparates ==
  ASSUME ChainInv, ApisOutsideBranches, NEW i \in Branches("recovery")
  PROVE  Following(i, "true") \cap Following(i, "false") = {}
<1> DEFINE refreshed == {n \in {e.to : e \in edges} : n[1] \in {"public_recovery", "replay"}}
           passed == {n \in {e.to : e \in edges} : n[1] = "continuation"}
<1>1. Replaying BY DEF ChainInv, SplitInv
<1>2. Closed(refreshed, edges) /\ Closed(passed, edges) BY <1>1 DEF Replaying, Closed
<1>3. \A e \in edges : /\ e.branch = i /\ e.outcome = "true" => e.to \in refreshed
                       /\ e.branch = i /\ e.outcome = "false" => e.to \in passed
  BY <1>1 DEF Replaying
<1>4. refreshed \cap passed = {} OBVIOUS
<1> HIDE DEF refreshed, passed
<1>5. Following(i, "true") \subseteq refreshed BY <1>2, <1>3, FollowsInside
<1>6. Following(i, "false") \subseteq passed BY <1>2, <1>3, FollowsInside
<1> QED BY <1>3, <1>4, <1>5, <1>6

\* From a response condition the edges of an outcome lead to all of its block of the source
\* and to nothing else; and what follows on one outcome of a condition does not follow on
\* the other, unless a text stands in two blocks (candidateChain, branchSummary).
THEOREM EveryOutcomeIsTold == ChainSpec => []OutcomesAreTold
<1>1. ChainInv /\ WayInv => OutcomesAreWhole
  <2> SUFFICES ASSUME BaseInv, WayInv, Complete, type # "recovery",
                      NEW i \in Responses, NEW o \in Outcomes
               PROVE  ReachableFrom({Condition(i)}, EdgesOf(i, o)) = {Condition(i)} \cup Block(i, o)
    BY Zenon DEF OutcomesAreWhole, ChainInv, Responses, Outcomes, Condition, Block, EdgesOf
  <2>1. Whole(i) BY DEF WayInv, WholeInTurn, Complete
  <2> QED BY <2>1, WaysAreWhole
<1>2. ChainInv /\ WayInv => OutcomesAreApart
  <2> SUFFICES ASSUME ChainInv, WayInv, ApisOutsideBranches, NEW i \in AllBranches,
                      i \in Branches("if_else") => NothingRepeats(i)
               PROVE  Following(i, "true") \cap Following(i, "false") = {}
    BY Zenon DEF OutcomesAreApart
  <2>1. i \in Guards \/ i \in Responses \/ i \in Branches("recovery")
    BY DEF AllBranches, Branches, Guards, Responses, BranchKind
  <2>2. CASE i \in Guards BY <2>2, GuardSeparates
  <2>3. CASE i \in Responses BY <2>3, ResponseSeparates DEF Responses
  <2>4. CASE i \in Branches("recovery") BY <2>4, RecoverySeparates
  <2> QED BY <2>1, <2>2, <2>3, <2>4
<1>3. ChainInv /\ WayInv => OutcomesAreTold BY <1>1, <1>2 DEF OutcomesAreTold
<1> QED BY <1>3, ChainInvariant, WayInvariant, PTL
=============================================================================
