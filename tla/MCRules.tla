------------------------------ MODULE MCRules ------------------------------
(* Small cases of the pure rules, one after the other: a state is the empty *)
(* case or one case of a rule.                                              *)
EXTENDS CronDue, ReleaseRules, Governance, SkillImport, FiniteSets

-----------------------------------------------------------------------------
(* Cron: day fields of every form against days of a month and a week.      *)
DayFields == {<<Star(Unstepped)>>, <<Star(2)>>, <<Only(3)>>, <<Between(1, 10, 3)>>,
              <<Between(1, 31, Unstepped)>>, <<Only(2), Only(31)>>, <<Only(2), Star(Unstepped)>>}
WeekdayFields == {<<Star(Unstepped)>>, <<Star(2)>>, <<Only(7)>>, <<Between(0, 6, Unstepped)>>,
                  <<Between(5, 7, Unstepped)>>, <<Only(1), Only(3)>>, <<Only(8)>>}
Cron(day, weekday) ==
  [minute |-> <<Star(15)>>, hour |-> <<Between(8, 18, Unstepped)>>, day |-> day,
   month |-> <<Star(Unstepped)>>, weekday |-> weekday]
Clocks == [minute : {0, 7, 45}, hour : {8}, day : {1, 2, 3, 4, 31}, month : {12}, weekday : 0..6]
CronCases ==
  {[rule |-> "cron", cron |-> Cron(d, w), clock |-> c] : d \in DayFields, w \in WeekdayFields, c \in Clocks}

(* Versions: three of them, for transitivity.                              *)
Number(n) == [numeric |-> TRUE, value |-> n]
Word(n) == [numeric |-> FALSE, value |-> n]
Versions ==
  [core : {<<1, 0, 9>>, <<1, 1, 0>>},
   pre : {NoPrerelease, <<Number(1)>>, <<Number(2)>>, <<Word(1)>>, <<Word(2)>>,
          <<Word(1), Number(1)>>, <<Word(1), Word(1)>>, <<Number(1), Number(1)>>}]
VersionCases == [rule : {"version"}, a : Versions, b : Versions, c : Versions]

(* Overlays: two names that Windows takes for one, each absent, a file of  *)
(* one of two contents, or a folder with at most those two files.          *)
\* Windows compares names without their case.
WindowsName(name) == IF name = "A" THEN "a" ELSE name
Names == {"a", "A"}
Contents == {"x", "y"}
Leaf(path, content) == IF content = "none" THEN {} ELSE {[path |-> path, content |-> content]}
Below(name) ==
  {Leaf(<<name>>, content) : content \in Contents \cup {"none"}}
    \cup {Leaf(<<name>>, Folder) \cup Leaf(<<name, "a">>, c1) \cup Leaf(<<name, "A">>, c2) :
            c1, c2 \in Contents \cup {"none"}}
Overlays == {x \cup y : x \in Below("a"), y \in Below("A")}
OverlayCases == [rule : {"overlay"}, common : Overlays, product : Overlays]

(* Governance: two manifests that name up to two Skills and a hook.        *)
SkillA == <<"skills", "a">>
HookA == <<"hooks", "a">>
Linux(surfaces) == [product |-> "codex", platform |-> "linux", surfaces |-> surfaces]
Typo == [product |-> "codex", platform |-> "linnux", surfaces |-> {"cli"}]
Blocks == {<< >>, <<Linux({"cli"})>>, <<Linux({"cli", "desktop"})>>, <<Typo>>, <<Linux({"cli"}), Typo>>}
Artifact(ref, provenance) == [ref |-> ref, provenance |-> provenance]
Artifacts == {{}, {Artifact(SkillA, "stated")}, {Artifact(HookA, Missing)},
              {Artifact(SkillA, "stated"), Artifact(HookA, "pinned")},
              {Artifact(<<"skills", "ghost">>, "stated")}}
Manifest ==
  [id : {"i", "j"}, kind : {"skill"}, delivery : {"standalone"},
   lifecycle : {"active", "deprecated", "quarantined", Unknown}, reviewed : {TRUE},
   redistribution : {Missing}, targets : Blocks, artifacts : Artifacts]
Files == Manifest \cup {Malformed}
Inventory == {SkillA, HookA}
Ledgers == {<<f>> : f \in Files} \cup {<<f, g>> : f, g \in Files}
Targets == [product : {"codex"}, platform : {"linux"}, surfaces : (SUBSET Surfaces) \ {{}},
            components : {Components}]
LedgerCases ==
  [rule : {"ledger"}, mode : {"required"}, files : Ledgers, inventory : {Inventory}, targets : {Targets}]

(* Imports: the roots as planned, as they are for the writes and ever      *)
(* after, and the source before whose write the command is killed.         *)
Digests == {"d1", "d2"}
Roots == [1..2 -> Digests \cup {Absent, Unsafe}]
EmptyStore == [v \in (1..3) \X Digests |-> Absent]
Stores == {EmptyStore, [EmptyStore EXCEPT ![<<1, "d1">>] = "d2"], [EmptyStore EXCEPT ![<<2, "d2">>] = "d2"]}
ImportCases ==
  [rule : {"import"}, planned : Roots, roots : Roots, catalog : Digests \cup {Absent, Unsafe},
   store : Stores, stop : 0..4]

Nothing == [rule |-> "nothing"]
Init == case = Nothing
Choose(cases) == case = Nothing /\ case' \in cases
Next == \/ Choose(CronCases)
        \/ Choose(VersionCases)
        \/ Choose(OverlayCases)
        \/ Choose(LedgerCases)
        \/ Choose(ImportCases)
Spec == Init /\ [][Next]_case
=============================================================================
