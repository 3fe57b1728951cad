-------------------------- MODULE ContractPackage ---------------------------
(***************************************************************************)
(* The contract compiler: the cases it reads from a workbook, the contract *)
(* it builds of them and of the author's structured overrides, the ZIP it  *)
(* packs, and what validate asks of such a ZIP.                            *)
(*                                                                         *)
(* Abstractions.  A content is that of FieldMapping, with the same         *)
(* columns.  A hash is the content it is taken of, so a package lists none *)
(* of its own.  Archives are intact or not: an override keeps what orders  *)
(* the cases (dependencies, exclusive locks) and whether it settles what   *)
(* the workbook leaves open.                                               *)
(***************************************************************************)
EXTENDS FieldMapping

None == [none |-> TRUE]
CaseFields == {"id", "title", "precondition", "steps", "expected", "priority"}
Priorities == {<<"P0">>, <<"P1">>, <<"P2">>}
\* The headers the compiler takes for a field; the Runner knows only the first.
Aliases(field) == IF field = "steps" THEN {"steps", "step notes"} ELSE {field}

\* Any cell of any sheet, its header row included, may hold what looks like a secret.
HasInlineSecret(content) ==
  \E s \in DOMAIN content.sheets :
    LET sheet == content.sheets[s] IN
    \E r \in DOMAIN sheet.rows : \E c \in DOMAIN sheet.rows[r] : Contains(sheet.rows[r][c], "secret")

MappingFor(columns, explicit) ==
  IF explicit # None THEN explicit
  ELSE [f \in CaseFields |->
          LET i == SelectInSeq(columns, LAMBDA c : c \in Aliases(f))
          IN  IF i = 0 THEN "" ELSE columns[i]]
IndexesOf(columns, explicit) ==
  [f \in CaseFields |->
     SelectInSeq(columns, LAMBDA c : c = MappingFor(columns, explicit)[f])]

\* Rows without an id, and sheets without an id or a title, are passed over.
CasesOfSheet(sheet, explicit) ==
  LET at == IndexesOf(sheet.columns, explicit)
      text(r, f) == IF at[f] = 0 THEN Blank ELSE r.raw[at[f]]
      all == RowsOf(sheet)
      rows == Kept(all, {i \in DOMAIN all : text(all[i], "id") # Blank})
  IN  IF at["id"] = 0 \/ at["title"] = 0 THEN <<>>
      ELSE [i \in DOMAIN rows |->
              [id |-> text(rows[i], "id"), sheet |-> sheet.name, row |-> rows[i].row,
               values |-> [f \in CaseFields |-> text(rows[i], f)]]]

WithRows(content) == {s \in DOMAIN content.sheets : Len(content.sheets[s].rows) > 0}
IsStandard(columns) ==
  IsPrefix(ElevenColumns, IF columns[1] = "number" THEN Tail(columns) ELSE columns)
\* The first sheet with rows decides whether the workbook is a standard one.
FormatOf(content) ==
  IF \E s \in WithRows(content) :
       /\ \A t \in WithRows(content) : s <= t
       /\ IsStandard(content.sheets[s].columns)
  THEN "standard" ELSE "non_standard"

InspectWorkbook(content, explicit) ==
  LET cases == ConcatAll([s \in DOMAIN content.sheets |->
                 IF s \in WithRows(content) THEN CasesOfSheet(content.sheets[s], explicit)
                 ELSE <<>>])
  IN  IF \/ content.format # "workbook"
         \/ HasInlineSecret(content)
         \/ \E i, j \in DOMAIN cases : i # j /\ cases[i].id = cases[j].id
      THEN Refused
      ELSE [cases |-> cases,
            requiresConfirmation |-> FormatOf(content) = "non_standard" /\ explicit = None]

-----------------------------------------------------------------------------
(* The contract                                                            *)

Unresolved(case) ==
  {f \in {"precondition", "steps", "expected"} : case.values[f] = Blank}
  \cup {f \in {"priority"} : case.values[f] \notin Priorities}

\* An override replaces any part of a case, never what says which case it is.
MergeOverride(case, override) ==
  [id |-> case.id, sheet |-> case.sheet, values |-> case.values,
   unresolved |-> IF override.settles THEN {} ELSE Unresolved(case),
   dependencies |-> override.dependencies, locks |-> override.locks]
NoOverride == [settles |-> FALSE, dependencies |-> {}, locks |-> {}]

Ids(cases) == [i \in DOMAIN cases |-> cases[i].id]

\* Some chain of dependencies leads from a to b: b is in every set of cases that holds what
\* a depends on, and what any case of the set depends on.
Follows(cases, a, set) ==
  \A i \in DOMAIN cases :
    cases[i].id \in set \cup {a} => cases[i].dependencies \cap ToSet(Ids(cases)) \subseteq set
DependsOn(cases, a, b) == \A set \in SUBSET ToSet(Ids(cases)) : Follows(cases, a, set) => b \in set
AssertAcyclic(cases) == \A a \in ToSet(Ids(cases)) : ~DependsOn(cases, a, a)

Holders(cases, lock, before) == {j \in 1..(before - 1) : lock \in cases[j].locks}
\* Mutant: the owner of a lock stays the first case that asks for it.
AgainstTheFirst(cases) ==
  \A i \in DOMAIN cases :
    /\ cases[i].dependencies \subseteq ToSet(Ids(cases))
    /\ \A lock \in cases[i].locks :
         Holders(cases, lock, i) # {} =>
           cases[Min(Holders(cases, lock, i))].id \in cases[i].dependencies
\* Dependencies are known, and who takes a lock depends on who had it last.
AssertConsistency(cases) ==
  \A i \in DOMAIN cases :
    /\ cases[i].dependencies \subseteq ToSet(Ids(cases))
    /\ \A lock \in cases[i].locks :
         Holders(cases, lock, i) # {} =>
           cases[Max(Holders(cases, lock, i))].id \in cases[i].dependencies

BuildContract(cases, overrides) ==
  LET override(id) == IF id \in DOMAIN overrides THEN overrides[id] ELSE NoOverride
      contract == [i \in DOMAIN cases |-> MergeOverride(cases[i], override(cases[i].id))]
  IN  IF AssertConsistency(contract) /\ AssertAcyclic(contract)
      THEN [cases |-> contract] ELSE Refused

-----------------------------------------------------------------------------
(* The package                                                             *)

UnresolvedCount(contract) ==
  Cardinality(UNION {{<<i, f>> : f \in contract[i].unresolved} : i \in DOMAIN contract})
StatusOf(contract) == IF UnresolvedCount(contract) = 0 THEN "READY" ELSE "NOT_READY"

\* The source is packed as it was read the second time, after the inspection.
Pack(inspected, contract, source) ==
  [intact |-> TRUE, source |-> source, contract |-> contract,
   mapping |-> [i \in DOMAIN inspected |->
                  [id |-> inspected[i].id, sheet |-> inspected[i].sheet, row |-> inspected[i].row]],
   manifest |-> [ids |-> Ids(contract), status |-> StatusOf(contract), source |-> source]]
Torn == [intact |-> FALSE]    \* an archive that is still being copied

\* The schema of a contract: there are cases, and each has a title and a priority.
SchemaHolds(contract) ==
  /\ contract # <<>>
  /\ \A i \in DOMAIN contract : /\ contract[i].values["title"] # Blank
                                /\ contract[i].values["priority"] \in Priorities
\* Mutant: each row of the mapping stands in the source, which may have more.
NamedInSource(package, source) ==
  \A i \in DOMAIN package.mapping : \E j \in DOMAIN source :
    package.mapping[i] = [id |-> source[j].id, sheet |-> source[j].sheet, row |-> source[j].row]
SourceMatches(package, source) ==
  /\ Ids(source) = Ids(package.contract)
  /\ Len(package.mapping) = Len(source)
  /\ \A i \in DOMAIN source :
       /\ package.mapping[i] = [id |-> source[i].id, sheet |-> source[i].sheet, row |-> source[i].row]
       /\ package.contract[i].sheet = source[i].sheet

\* The workbook inside is inspected without the mapping the compiler was given.
ValidatePackage(package) ==
  IF ~package.intact THEN {"zip"}
  ELSE LET source == InspectWorkbook(package.source, None) IN
       IF source = Refused THEN {"source"}
       ELSE IF ~SchemaHolds(package.contract) THEN {"contract_schema_invalid"}
       ELSE {e \in {"case_ids"} : Ids(package.contract) # package.manifest.ids}
            \cup {e \in {"package_status"} : package.manifest.status # StatusOf(package.contract)}
            \cup {e \in {"source_sha"} : package.manifest.source # package.source}
            \cup {e \in {"source_mapping"} : ~SourceMatches(package, source.cases)}

\* diff: whether the package is of this workbook at all.
IsStale(content, package) == ~package.intact \/ package.manifest.source # content
=============================================================================
