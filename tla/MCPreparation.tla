---------------------------- MODULE MCPreparation ----------------------------
(* Workbooks of two or three cases; two of the guide's starting points.       *)
EXTENDS Preparation

T(t) == <<t>>
Book(sheets) == [format |-> "workbook", sheets |-> sheets]
Sheet(name, columns, rows) ==
  [name |-> name, kind |-> "test_cases", columns |-> columns, rows |-> rows]
Standard(id, steps) == <<T(id), T("t"), T("p"), steps, T("e"), T("P1"), Blank, Blank>>
Divider == <<T("divider"), T("m"), T("-"), T("-"), T("-"), T("-"), T("-"), T("-")>>

\* Three cases that pass everywhere; one more step in the first; a case without steps.
Three(steps) == Book(<<Sheet("A", ElevenColumns,
                  <<Standard("c1", steps), Standard("c2", T("s")), Standard("c3", T("s"))>>)>>)
Gap == Book(<<Sheet("A", ElevenColumns, <<Divider, Standard("c1", Blank)>>)>>)
\* Steps and expected results in one column, no id; a second sheet of remarks.
Merged(steps) ==
  Book(<<Sheet("A", <<"title", "both", "remark">>,
           <<<<T("t"), <<steps, "|", "e">>, Blank>>, <<Blank, Blank, Blank>>,
             <<T("u"), <<"s", "|", "e", "|", "f">>, T("r")>>>>),
         Sheet("B", <<"remark">>, <<<<T("r")>>>>)>>)
\* The first two of the three.
Two == [Three(T("s")) EXCEPT !.sheets[1].rows = SubSeq(@, 1, 2)]
\* A report with a sheet of notes; one whose last row is blank, which is refused.
Notes == [Sheet("N", <<"remark">>, <<<<T("r")>>>>) EXCEPT !.kind = "notes"]
Native == [Three(T("s")) EXCEPT !.format = "native-report", !.sheets = Append(@, Notes)]
Empty == <<Blank, Blank, Blank, Blank, Blank, Blank, Blank, Blank>>
NativeGap == [Native EXCEPT !.sheets[1].rows = Append(@, Empty)]

MCContents ==
  {Three(T("s")), Three(<<"s", "s">>), Two, Gap, Native, NativeGap, Merged("s"), Merged("x")}
MCNoMappings == {None}

Locked(d) == [settles |-> TRUE, dependencies |-> d, locks |-> {"r"}]
\* The cases want one resource and depend on any others.
MCOverrideSets ==
  {T("c1") :> Locked(d1) @@ T("c2") :> Locked({T("c1")}) @@ T("c3") :> Locked(d3) :
     d1 \in {{}, {T("c3")}}, d3 \in {{T("c1")}, {T("c2")}}}

Draft(kind) == [kind |-> kind, filled |-> {}]
MCGuides ==
  {NoGuide}
  \cup [cases : {{}, {[id |-> "c1", divider |-> FALSE, steps |-> TRUE, expected |-> TRUE]}},
        manifest : {Absent,
                    [cases |-> {[id |-> "c1", steps |->
                        {[type |-> "db.select", alias |-> "db", refs |-> {"f"}],
                         [type |-> "cleanup.web", alias |-> "app", refs |-> {}],
                         [type |-> "web.assert", alias |-> "app", refs |-> {}]}]}]},
        profile : {[targets |-> [a \in {"app", "db"} |-> d], credentials |-> {}, data |-> {},
                    cleanup |-> {}, public |-> p] :
                     d \in {Draft("none"), Draft("api"), TargetExample("web")},
                     p \in {{}, {"app"}}},
        targets : {{}, {[alias |-> "db", kind |-> "database"]}},
        credentials : {{[alias |-> "login", kind |-> "web", target |-> "app"],
                        [alias |-> "dbuser", kind |-> "database", target |-> "db"]}},
        gaps : {{}, {[kind |-> "missing_data", case |-> "c1", name |-> "g"]}},
        probe : {Absent, [software |-> {"node"}, browsers |-> {"chromium"}, drivers |-> {"pg"},
                          unreachable |-> {}]},
        approval : {"none"}]
=============================================================================
