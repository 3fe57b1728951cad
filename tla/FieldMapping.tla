---------------------------- MODULE FieldMapping ----------------------------
(***************************************************************************)
(* How the plan command reads a file of test cases: a native report, a     *)
(* standard workbook, or any other workbook, whose columns are mapped to   *)
(* the standard fields as a proposal the user has to confirm.              *)
(*                                                                         *)
(* Abstractions.  The standard columns are seven: the others are carried     *)
(* along like the title.  A text is a sequence of tokens; "|" stands for   *)
(* the separator of a merged column, "divider" for the mark of a module's  *)
(* title row.  A hash is the content it is taken of.                       *)
(***************************************************************************)
EXTENDS Naturals, Sequences, FiniteSets, SequencesExt, TLC

Refused == [refused |-> TRUE]

TenColumns == <<"id", "title", "precondition", "steps", "expected", "priority", "status">>
ElevenColumns ==
  <<"id", "title", "precondition", "steps", "expected", "priority", "actual", "status">>
Fields == ToSet(TenColumns)
Blank == <<>>
Invalid == <<"invalid">>
Statuses == {<<"not run">>, <<"pass">>, <<"fail">>, <<"pending">>}

IsList(s) == s \in Seq(ToSet(s))
\* A content has a format, and sheets: [name, kind, columns, rows]; a row is a sequence of
\* texts.  Only a native report has sheets of other kinds than test cases.
IsContent(content) ==
  /\ content.format \in {"workbook", "native-report", "unsupported"}
  /\ IsList(content.sheets)
  /\ \A i \in DOMAIN content.sheets :
       /\ IsList(content.sheets[i].columns) /\ IsList(content.sheets[i].rows)
       /\ \A r \in DOMAIN content.sheets[i].rows : IsList(content.sheets[i].rows[r])
IsCaseSheet(sheet) == sheet.columns \in {TenColumns, ElevenColumns}
InputKind(content) ==
  IF content.format # "workbook" THEN content.format
  ELSE IF \E i \in DOMAIN content.sheets : IsCaseSheet(content.sheets[i])
       THEN "standard-excel" ELSE "nonstandard-excel"

\* The elements of a sequence at the chosen places, in their order.
Kept(seq, chosen) ==
  [k \in 1..Cardinality(chosen) |->
     seq[CHOOSE i \in chosen : Cardinality({j \in chosen : j <= i}) = k]]

HasValues(row) == \E i \in DOMAIN row : row[i] # Blank
\* The rows of a sheet that are not blank, each with where it stands; the header is row 1.
RowsOf(sheet) ==
  LET at(i) == [sheet |-> sheet.name, row |-> i + 1, raw |-> sheet.rows[i]]
  IN  Kept([i \in DOMAIN sheet.rows |-> at(i)],
           {i \in DOMAIN sheet.rows : HasValues(sheet.rows[i])})
ConcatAll(seqs) == FlattenSeq(seqs)

-----------------------------------------------------------------------------
(* Cases                                                                   *)

IsDivider(values) == values["id"] = <<"divider">>

NormalizedStatus(status, divider) ==
  IF divider THEN IF status = <<"-">> THEN status ELSE Invalid
  ELSE IF status = Blank THEN <<"not run">>
  ELSE IF status \in Statuses THEN status ELSE Invalid

ValidateIds(cases) ==
  LET real == {i \in DOMAIN cases : ~cases[i].divider}
  IN  /\ \A i \in real : cases[i].id # Blank
      /\ \A i, j \in real : cases[i].id = cases[j].id => i = j

\* A prepared row is [sheet, row, values]; a bad status or id refuses the whole file.
NormalizeSourceRows(rows) ==
  LET case(r) ==
        LET divider == IsDivider(r.values)
        IN  [id |-> r.values["id"], sheet |-> r.sheet, row |-> r.row, divider |-> divider,
             values |-> [r.values EXCEPT !["status"] = NormalizedStatus(@, divider)]]
      cases == [i \in DOMAIN rows |-> case(rows[i])]
  IN  IF /\ \A i \in DOMAIN cases : cases[i].values["status"] # Invalid
         /\ ValidateIds(cases)
      THEN [cases |-> cases] ELSE Refused

\* The values of the columns the cases keep, by the name of the column.
ByColumn(columns, r) ==
  [sheet |-> r.sheet, row |-> r.row,
   values |-> [f \in Fields |-> r.raw[SelectInSeq(columns, LAMBDA c : c = f)]]]
SheetCases(sheet) ==
  LET rows == RowsOf(sheet) IN [i \in DOMAIN rows |-> ByColumn(sheet.columns, rows[i])]

ReadStandardExcel(content) ==
  IF InputKind(content) # "standard-excel" THEN Refused
  ELSE NormalizeSourceRows(ConcatAll([i \in DOMAIN content.sheets |->
         IF IsCaseSheet(content.sheets[i]) THEN SheetCases(content.sheets[i]) ELSE <<>>]))

\* A native report says itself which of its sheets are of cases; every row of them counts,
\* one without an id is refused.
ReadNativeReport(content) ==
  LET ofCases == {i \in DOMAIN content.sheets : content.sheets[i].kind = "test_cases"}
      rows(sheet) ==
        [i \in DOMAIN sheet.rows |->
           ByColumn(sheet.columns, [sheet |-> sheet.name, row |-> i + 1, raw |-> sheet.rows[i]])]
  IN  IF \/ content.format # "native-report"
         \/ \E i \in ofCases : ~IsCaseSheet(content.sheets[i])
      THEN Refused
      ELSE NormalizeSourceRows(ConcatAll([i \in DOMAIN content.sheets |->
             IF i \in ofCases THEN rows(content.sheets[i]) ELSE <<>>]))

-----------------------------------------------------------------------------
(* The proposal                                                            *)

\* A column of the workbook, in the order of the sheets.
ColumnsOf(content) ==
  ConcatAll([s \in DOMAIN content.sheets |->
    [c \in DOMAIN content.sheets[s].columns |->
      [sheet |-> content.sheets[s].name, column |-> c,
       header |-> content.sheets[s].columns[c]]]])

\* What a header suggests: a field, both steps and expected result, or nothing.
RuleFor(column) ==
  CASE column.header \in Fields -> [kind |-> "direct", of |-> column, targets |-> {column.header}]
    [] column.header = "both" ->
         [kind |-> "split", of |-> column, targets |-> {"steps", "expected"}]
    [] OTHER -> [kind |-> "extension", of |-> column, targets |-> {}]
Rules(content) ==
  LET all == [i \in DOMAIN ColumnsOf(content) |-> RuleFor(ColumnsOf(content)[i])]
  IN  Kept(all, {i \in DOMAIN all : all[i].kind # "extension"})

SplitValue(value) ==
  IF ~Contains(value, "|") THEN <<value, Blank>>
  ELSE LET first == SelectInSeq(value, LAMBDA t : t = "|")
       IN  <<SubSeq(value, 1, first - 1), SubSeq(value, first + 1, Len(value))>>

RulesOfSheet(rules, name) == Kept(rules, {i \in DOMAIN rules : rules[i].of.sheet = name})
Covered(rules) == UNION {rules[i].targets : i \in DOMAIN rules}

\* One field of a row by the rules of its sheet: the last of two rules wins.
ValueOf(field, raw, rules) ==
  LET fits == {i \in DOMAIN rules : field \in rules[i].targets} IN
  IF fits = {} THEN Blank
  ELSE LET rule == rules[Max(fits)]
           cell == raw[rule.of.column]
       IN  IF rule.kind = "direct" THEN cell
           ELSE IF field = "steps" THEN SplitValue(cell)[1] ELSE SplitValue(cell)[2]
\* A row without an id is given one: its row in the file of this hash.
IdOf(value, row) == IF value = Blank THEN <<"EXT", ToString(row)>> ELSE value
PreviewRow(r, rules) ==
  LET values == [f \in Fields |-> ValueOf(f, r.raw, rules)]
  IN  [sheet |-> r.sheet, row |-> r.row,
       values |-> [values EXCEPT !["id"] = IdOf(@, r.row)]]

SampleSize == 3
\* The first rows of the sheets that have steps and expected results.
NormalizeForPreview(content, rules) ==
  LET sample(s) ==
        LET mine == RulesOfSheet(rules, content.sheets[s].name)
            rows == RowsOf(content.sheets[s])
        IN  IF {"steps", "expected"} \subseteq Covered(mine)
            THEN [i \in DOMAIN rows |-> PreviewRow(rows[i], mine)] ELSE <<>>
      all == ConcatAll([s \in DOMAIN content.sheets |-> sample(s)])
  IN  SubSeq(all, 1, IF Len(all) < SampleSize THEN Len(all) ELSE SampleSize)

\* A file is what was read of it: its content, and the time of its last change.
BuildMappingProposal(file) ==
  IF InputKind(file.content) # "nonstandard-excel" THEN Refused
  ELSE [source |-> file, rules |-> Rules(file.content),
        missing |-> Fields \ Covered(Rules(file.content)),
        samples |-> NormalizeForPreview(file.content, Rules(file.content))]

-----------------------------------------------------------------------------
(* The confirmation                                                        *)

\* No column has two rules, no field of a sheet two columns, and every sheet that is
\* mapped has its steps and its expected results; the rules are those proposed.
ValidateColumnRules(proposal, rules) ==
  /\ rules # <<>>
  /\ \A i, j \in DOMAIN rules : i # j =>
       /\ rules[i].of # rules[j].of
       /\ \/ rules[i].of.sheet # rules[j].of.sheet
          \/ rules[i].targets \cap rules[j].targets = {}
  /\ \A i \in DOMAIN rules :
       {"steps", "expected"} \subseteq Covered(RulesOfSheet(rules, rules[i].of.sheet))
  /\ rules = proposal.rules

\* Mutant: an approval is not compared with what is read now.
ValidateRulesOnly(proposal, approval) == ValidateColumnRules(proposal, approval.rules)
ValidateApproval(proposal, approval) ==
  /\ approval.content = proposal.source.content
  /\ approval.proposal = proposal
  /\ ValidateColumnRules(proposal, approval.rules)

\* One rule after the other fills in its fields.
ApplyRule(values, rule, raw) ==
  LET cell == raw[rule.of.column] IN
  IF rule.kind = "direct" THEN [f \in Fields |-> IF f \in rule.targets THEN cell ELSE values[f]]
  ELSE [values EXCEPT !["steps"] = SplitValue(cell)[1], !["expected"] = SplitValue(cell)[2]]
Filled(raw, rules) ==
  LET upto[n \in 0..Len(rules)] ==
        IF n = 0 THEN [f \in Fields |-> Blank] ELSE ApplyRule(upto[n - 1], rules[n], raw)
  IN  upto[Len(rules)]
\* Mutant: the id that is made up is that of the row without the header.
PrepareFromZero(r, rules) ==
  [sheet |-> r.sheet, row |-> r.row,
   values |-> [Filled(r.raw, rules) EXCEPT !["id"] = IdOf(@, r.row - 1)]]
PrepareRow(r, rules) ==
  [sheet |-> r.sheet, row |-> r.row,
   values |-> [Filled(r.raw, rules) EXCEPT !["id"] = IdOf(@, r.row)]]
\* Every row of a mapped sheet.
PrepareRows(content, rules) ==
  LET prepared(s) ==
        LET mine == RulesOfSheet(rules, content.sheets[s].name)
            rows == RowsOf(content.sheets[s])
        IN  IF mine = <<>> THEN <<>> ELSE [i \in DOMAIN rows |-> PrepareRow(rows[i], mine)]
  IN  ConcatAll([s \in DOMAIN content.sheets |-> prepared(s)])
\* One row without steps or expected result stops everything.
IsExecutable(row) == row.values["steps"] # Blank /\ row.values["expected"] # Blank

\* current is the file as read once more: its proposal must be the same in every part.
ApplyConfirmedMapping(proposal, current, approval) ==
  IF /\ current.content = proposal.source.content
     /\ BuildMappingProposal(current) = proposal
     /\ ValidateApproval(proposal, approval)
  THEN LET rows == PrepareRows(proposal.source.content, approval.rules)
       IN  IF \A i \in DOMAIN rows : IsExecutable(rows[i])
           THEN NormalizeSourceRows(rows) ELSE Refused
  ELSE Refused
=============================================================================
