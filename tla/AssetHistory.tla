---------------------------- MODULE AssetHistory ----------------------------
(***************************************************************************)
(* js-test-mapper, stages 4 and 5: every scan rebuilds the lineage of      *)
(* routes, chains, rules and risks from the batches of the previous        *)
(* run-data, applies what it found as a new batch, and writes five files;  *)
(* finalize reads them again with the cognition somebody wrote from the    *)
(* last of them, and writes them anew with the two documents.  Either may  *)
(* stop between two files.                                                 *)
(*                                                                         *)
(* Abstractions.  An entity is its identity (the digest of its technical   *)
(* anchors), <<kind, n>>; what else is said of it is one content, resting  *)
(* on one fact.  A run is the number of its scan.                          *)
(***************************************************************************)
EXTENDS Naturals, Sequences, FiniteSets, SequencesExt

CONSTANTS
  Identities,     \* all identities, in the order of their digests
  Snapshots,      \* what an analysis may find: of some identities the content
  MaxScans        \* bound: scans of one history

VARIABLES
  scans,          \* scans begun
  runData, lineageFile, excel, word, input, views,   \* the files of evidence/
  cognition,      \* cognition.json, as somebody wrote it
  documents,      \* the Word and the Excel file
  job             \* the command that runs: its files still to be written

files == <<runData, lineageFile, excel, word, input, views>>
vars == <<scans, files, cognition, documents, job>>

Kind(id) == id[1]
All == ToSet(Identities)

\* An identity is there once.
ASSUME IdentitiesAssumption ==
  /\ Identities \in Seq(All)
  /\ \A i, j \in DOMAIN Identities : Identities[i] = Identities[j] => i = j

-----------------------------------------------------------------------------
(* The lineage.                                                             *)

CreateLineage == [entities |-> [id \in {} |-> 0], registry |-> {}, batches |-> <<>>]

\* Mutant: the largest number is given out again
LastDisplayNumber(registry, kind) ==
  IF \E r \in registry : Kind(r.identity) = kind
  THEN CHOOSE n \in {r.display : r \in {x \in registry : Kind(x.identity) = kind}} :
         \A r \in registry : Kind(r.identity) = kind => r.display <= n
  ELSE 1

NextDisplayNumber(registry, kind) ==
  IF \E r \in registry : Kind(r.identity) = kind
  THEN 1 + CHOOSE n \in {r.display : r \in {x \in registry : Kind(x.identity) = kind}} :
             \A r \in registry : Kind(r.identity) = kind => r.display <= n
  ELSE 1

\* Mutant: a revision is recorded whenever the entity is seen again
RevisionEachTime(old, content, batch) ==
  Append(old.revisions, [batch |-> batch, from |-> old.content, to |-> content])

Revised(old, content, batch) ==
  IF old.content = content THEN old.revisions
  ELSE Append(old.revisions, [batch |-> batch, from |-> old.content, to |-> content])

With(f, id, entity) == [x \in DOMAIN f \cup {id} |-> IF x = id THEN entity ELSE f[x]]

\* The entity as it is now, in the lineage and in the batch at hand.
Put(lineage, id, entity, changed, batch) ==
  LET at == lineage.batches[batch]
  IN [entities |-> With(lineage.entities, id, entity),
      registry |-> lineage.registry,
      batches |-> [lineage.batches EXCEPT ![batch] =
        [changed |-> IF changed THEN at.changed \cup {id} ELSE at.changed,
         entities |-> With(at.entities, id, entity)]]]

\* A new entity; its display id is kept when the batch is replayed.
Added(lineage, id, raw, batch) ==
  LET display == IF raw.display # 0 THEN raw.display
                 ELSE NextDisplayNumber(lineage.registry, Kind(id))
      entity == [display |-> display, content |-> raw.content, first |-> batch, last |-> batch,
                 revisions |-> <<>>]
  IN [Put(lineage, id, entity, TRUE, batch) EXCEPT
        !.registry = @ \cup {[identity |-> id, display |-> display, batch |-> batch]}]

\* A known entity takes the new content and keeps its display id.
Updated(lineage, id, raw, batch) ==
  LET old == lineage.entities[id]
      entity == [old EXCEPT !.content = raw.content, !.last = batch,
                            !.revisions = Revised(old, raw.content, batch)]
  IN Put(lineage, id, entity, old.content # raw.content, batch)

Applied(lineage, id, snapshot, batch) ==
  IF id \notin DOMAIN snapshot THEN lineage
  ELSE IF id \in DOMAIN lineage.entities THEN Updated(lineage, id, snapshot[id], batch)
  ELSE Added(lineage, id, snapshot[id], batch)

Begun(lineage) ==
  [lineage EXCEPT !.batches = Append(@, [changed |-> {}, entities |-> [id \in {} |-> 0]])]

\* applyBatch: the candidates in the order of their identities.
ApplyBatch(lineage, snapshot) ==
  LET after[k \in 0..Len(Identities)] ==
        IF k = 0 THEN Begun(lineage)
        ELSE Applied(after[k - 1], Identities[k], snapshot, Len(lineage.batches) + 1)
  IN after[Len(Identities)]

\* previousBatches: a batch as it was recorded.
Recorded(b) == [id \in DOMAIN b.entities |-> [content |-> b.entities[id].content,
                                              display |-> b.entities[id].display]]

\* buildLineage: every batch again.
BuildLineage(previous) ==
  LET replayed[k \in 0..Len(previous.batches)] ==
        IF k = 0 THEN CreateLineage
        ELSE ApplyBatch(replayed[k - 1], Recorded(previous.batches[k]))
  IN replayed[Len(previous.batches)]

FactsOf(snapshot) == {<<id, snapshot[id].content>> : id \in DOMAIN snapshot}

-----------------------------------------------------------------------------
(* The projections.                                                         *)

Fingerprint(run, shown) == <<run, shown>>

\* The first batch in full, of the others what they added or updated.
ExcelRows(lineage) ==
  UNION {{[batch |-> b, identity |-> id, entity |-> lineage.batches[b].entities[id]] :
            id \in {x \in DOMAIN lineage.batches[b].entities :
                      b = 1 \/ x \in lineage.batches[b].changed}} : b \in DOMAIN lineage.batches}

BuildExcelProjection(run, shown, lineage) ==
  [fingerprint |-> Fingerprint(run, shown), rows |-> ExcelRows(lineage)]
BuildWordProjection(run, shown, lineage) ==
  [fingerprint |-> Fingerprint(run, shown), entities |-> lineage.entities]

\* validateStage4Data: display ids are unique, and what is shown is known.
Stage4IsValid(lineage, x, w) ==
  /\ \A r, s \in lineage.registry :
       r.display = s.display /\ Kind(r.identity) = Kind(s.identity) => r = s
  /\ \A row \in x.rows : \E r \in lineage.registry :
       r.identity = row.identity /\ r.display = row.entity.display
  /\ x.fingerprint = w.fingerprint

\* assertEntityReferences: of routes, chains and risks, every fact is one of the run.
EvidenceIsDerived(run, lineage) ==
  \A id \in DOMAIN lineage.entities :
    Kind(id) # "rule" => <<id, lineage.entities[id].content>> \in run.facts

\* validateCognition: of this run, and about entities it knows.
CognitionIsValid(c, run) == c.run = run.run /\ c.shown \subseteq DOMAIN run.lineage.entities

\* applyCognitionToLineage: what an earlier cognition has put there stays.
ApplyCognition(presented, c) == presented \cup c.shown

-----------------------------------------------------------------------------
None == [run |-> 0]
NoJob == [command |-> "none", left |-> <<>>]
Idle == job.command \in {"none", "finalized"}

Init ==
  /\ scans = 0 /\ runData = None /\ lineageFile = None /\ excel = None /\ word = None
  /\ input = None /\ views = None /\ cognition = None /\ documents = None /\ job = NoJob

\* Mutant: the input of the cognition is there before what it is about
ScanFilesInputFirst == <<"input", "run-data", "lineage", "excel", "word">>

ScanFiles == <<"run-data", "lineage", "excel", "word", "input">>
FinalizeFiles == <<"run-data", "views", "lineage", "excel", "word", "documents">>

\* integrateStage3Stage4, with what the analysis found, and with the run-data
\* there is as previous run or with none.
Integrate(found, incremental) ==
  LET previous == IF incremental /\ runData # None THEN BuildLineage(runData.lineage)
                  ELSE CreateLineage
      snapshot == [id \in DOMAIN found |-> [content |-> found[id], display |-> 0]]
      lineage == ApplyBatch(previous, snapshot)
      run == scans + 1
  IN
  /\ Idle /\ scans < MaxScans /\ scans' = run
  /\ job' = [command |-> "scan", left |-> ScanFiles, run |-> run, lineage |-> lineage,
             shown |-> {}, presented |-> {}, facts |-> FactsOf(snapshot), stage4 |-> lineage,
             excel |-> BuildExcelProjection(run, {}, lineage),
             word |-> BuildWordProjection(run, {}, lineage)]
  /\ UNCHANGED <<files, cognition, documents>>

\* Somebody writes the cognition from cognition-input.json: it presents some
\* of the entities.
WriteCognition(shown) ==
  /\ Idle /\ input # None /\ shown \subseteq input.shown
  /\ cognition' = [run |-> input.run, shown |-> shown]
  /\ UNCHANGED <<scans, files, documents, job>>

\* finalize reads, validates and projects before it writes anything.
Finalize ==
  LET lineage == lineageFile.lineage
      x == BuildExcelProjection(runData.run, cognition.shown, lineage)
      w == BuildWordProjection(runData.run, cognition.shown, lineage)
  IN
  /\ Idle /\ cognition # None /\ runData # None /\ lineageFile # None
  /\ CognitionIsValid(cognition, runData) /\ Stage4IsValid(lineage, x, w)
  /\ job' = [command |-> "finalize", left |-> FinalizeFiles, run |-> runData.run,
             lineage |-> lineage, shown |-> cognition.shown, facts |-> runData.facts,
             presented |-> ApplyCognition(lineageFile.presented, cognition),
             stage4 |-> runData.lineage, excel |-> x, word |-> w]
  /\ UNCHANGED <<scans, files, cognition, documents>>

\* The next file; writeEvidenceViews throws when an entity is not derived
\* from the run.
WriteFile ==
  LET file == Head(job.left)
      written(f, new, old) == IF file = f THEN new ELSE old
      rejected == file = "views" /\ ~EvidenceIsDerived(runData, job.lineage)
  IN
  /\ ~Idle
  /\ runData' = written("run-data", [run |-> job.run, facts |-> job.facts,
                                     lineage |-> job.stage4, shown |-> job.shown], runData)
  /\ lineageFile' = written("lineage", [lineage |-> job.lineage, presented |-> job.presented],
                            lineageFile)
  /\ excel' = written("excel", job.excel, excel)
  /\ word' = written("word", job.word, word)
  /\ input' = written("input", [run |-> job.run, shown |-> DOMAIN job.lineage.entities], input)
  /\ views' = written("views", IF rejected THEN views ELSE [run |-> job.run], views)
  /\ documents' = written("documents", [word |-> word, excel |-> excel], documents)
  /\ job' = IF rejected THEN NoJob
            ELSE IF Len(job.left) > 1 THEN [job EXCEPT !.left = Tail(@)]
            ELSE [NoJob EXCEPT !.command = IF job.command = "finalize" THEN "finalized" ELSE "none"]
  /\ UNCHANGED <<scans, cognition>>

Crash == ~Idle /\ job' = NoJob /\ UNCHANGED <<scans, files, cognition, documents>>

Next ==
  \/ \E found \in Snapshots, incremental \in BOOLEAN : Integrate(found, incremental)
  \/ \E shown \in {{}, All} : WriteCognition(shown \cap input.shown)
  \/ Finalize \/ WriteFile \/ Crash
Spec == Init /\ [][Next]_vars

-----------------------------------------------------------------------------
Lineages == {l \in {runData, lineageFile} : l # None}

\* The lineage a later scan rebuilds from the recorded batches is the lineage
\* that was written, display ids and revisions included (previousBatches,
\* buildLineage), and no two entities of a kind share a display id.
ReplayIsFaithful ==
  \A l \in Lineages :
    /\ BuildLineage(l.lineage) = l.lineage
    /\ \A i, j \in DOMAIN l.lineage.entities :
         Kind(i) = Kind(j) /\ l.lineage.entities[i].display = l.lineage.entities[j].display => i = j

\* The revisions of an entity are the changes between the batches that saw it:
\* each goes on where the one before ended, the last ends at the content.
RevisionsTellTheHistory ==
  \A l \in Lineages : \A id \in DOMAIN l.lineage.entities :
    LET entity == l.lineage.entities[id]
        r == entity.revisions
    IN /\ \A k \in DOMAIN r : /\ r[k].from # r[k].to
                              /\ r[k].batch > entity.first /\ r[k].batch <= entity.last
                              /\ k > 1 => r[k].from = r[k - 1].to /\ r[k].batch > r[k - 1].batch
       /\ r # <<>> => r[Len(r)].to = entity.content

\* Read from the newest batch on, the first row of an entity shows it as it is
\* now, whatever batch last changed it (buildExcelProjection, rowsForKind).
ExcelShowsTheCurrent ==
  excel # None /\ lineageFile # None /\ job.command = "finalized" =>
    \A id \in DOMAIN lineageFile.lineage.entities :
      \E row \in excel.rows :
        /\ row.identity = id /\ row.entity.content = lineageFile.lineage.entities[id].content
        /\ \A other \in excel.rows : other.identity = id => other.batch <= row.batch

\* When finalize has ended, the lineage and both documents are those of the one run of
\* run-data, with the cognition of that run, and every entity rests on a fact of it,
\* wherever a scan or an earlier finalize has stopped (bin/finalize.mjs).
FinalizedIsOneRun ==
  job.command = "finalized" =>
    /\ lineageFile.lineage = runData.lineage
    /\ documents.word.fingerprint = documents.excel.fingerprint
    /\ documents.word.fingerprint = Fingerprint(runData.run, runData.shown)
    /\ EvidenceIsDerived(runData, lineageFile.lineage)
    /\ runData.shown \subseteq lineageFile.presented

\* The history that is shown is what happened, revision by revision, to what is now.
HistoryIsTold == RevisionsTellTheHistory /\ ExcelShowsTheCurrent
=============================================================================
