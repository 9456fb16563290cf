------------------------------- MODULE MCServer -------------------------------
(* Instances for TLC of the modules that model what the server keeps in step *)
(* with others - git, files of results, Jira - and of its limiter.  They do  *)
(* not share state, so a behaviour is one of a single part, which `part`     *)
(* names, and the variables of the other parts stay as they are.  Imports,   *)
(* of which there are two instances, lay theirs over the cells u1 .. u8.     *)
EXTENDS GitSync, RateLimit, JiraSync, TLC

CONSTANTS
  Parts,             \* the parts that are checked
  w1, w2, p1, p2     \* workers and pushes

VARIABLES part, u1, u2, u3, u4, u5, u6, u7, u8

cells == <<u1, u2, u3, u4, u5, u6, u7, u8>>
serverVars == <<part, gitVars, limitVars, jiraVars, cells>>

-----------------------------------------------------------------------------
(* Values of the constants.                                                  *)

TheTitle == <<"A">>
Case(f, k) == [kind |-> "test", title |-> TheTitle, folder |-> f, key |-> k]
Row(f, k)  == [title |-> TheTitle, folder |-> f, key |-> k]
Verdict(t, k) == [title |-> t, key |-> k]
\* cases, a run of them, and a defect
Export(cs) == cs \o <<[kind |-> "run", id |-> "c1",
                       cases |-> [i \in DOMAIN cs |-> Verdict(cs[i].title, cs[i].key)]],
                      [kind |-> "defect", key |-> "d1", title |-> TheTitle]>>
\* a run of cases that are not in the file
ResultsOnly == <<[kind |-> "run", id |-> "c2", cases |-> <<Verdict(<<"B">>, "k")>>]>>

Cases    == {Case(f, k) : f \in {"F", "G"}, k \in {"none", "k"}}
AllDocs  == {Export(cs) : cs \in [1..2 -> Cases] \cup [1..1 -> Cases]} \cup {ResultsOnly}
SomeDocs == {Export(<<Case("F", "k")>>), Export(<<Case("F", "none"), Case("F", "k")>>),
             Export(<<Case("G", "none")>>), Export(<<Case("F", "none"), Case("G", "none")>>), ResultsOnly}
AllRows  == {<<>>, <<Row("G", "none")>>, <<Row("G", "k")>>}
SomeRows == {<<>>, <<Row("F", "none")>>}
TwoIssues == {<<"a", "b">>}
\* No worker and no push is told from another of its kind.
Symmetry  == Permutations({w1, w2}) \cup Permutations({p1, p2})

\* three imports, one after the other
I == INSTANCE PersistImport WITH
  Imports <- {1}, Docs <- AllDocs, Modes <- {"skip", "overwrite"},
  Stored <- AllRows, TestIds <- 1..7, MaxImports <- 3, tests <- u1,
  runs <- u2, defects <- u3, imp <- u4, crossed <- u5, renamed <- u6,
  last <- u7, imports <- u8
\* two imports, side by side
J == INSTANCE PersistImport WITH
  Imports <- {1, 2}, Docs <- SomeDocs, Modes <- {"skip", "overwrite", "rename"},
  Stored <- SomeRows, TestIds <- 1..7, MaxImports <- 2, tests <- u1,
  runs <- u2, defects <- u3, imp <- u4, crossed <- u5, renamed <- u6,
  last <- u7, imports <- u8
\* what the theorems assume of the constants
ASSUME AsAssumed == Limits /\ Assumed

Off == /\ u1 = "off" /\ u2 = "off" /\ u3 = "off" /\ u4 = "off"
       /\ u5 = "off" /\ u6 = "off" /\ u7 = "off" /\ u8 = "off"

\* parts that nobody touches
GitAtRest   == GitInit /\ provider = "github" /\ row.says = CHOOSE v \in Values : TRUE
LimitAtRest == LimitInit /\ backend = "memory"
JiraAtRest  == JiraInit /\ board = CHOOSE b \in Boards : TRUE

-----------------------------------------------------------------------------
Begins ==
  /\ part \in Parts
  /\ IF part = "git" THEN GitInit ELSE GitAtRest
  /\ IF part = "limit" THEN LimitInit ELSE LimitAtRest
  /\ IF part \in {"jira", "defect"} THEN JiraInit ELSE JiraAtRest
  /\ CASE part = "import" -> I!Init [] part = "overlap" -> J!Init [] OTHER -> Off

\* Syncs share nothing with pushes of a defect.  Changes at Jira and faults are
\* two together, none once two have asked at the same time.
Steps ==
  \/ /\ part = "git"
     /\ UNCHANGED <<limitVars, jiraVars, cells>> /\ GitNext
  \/ /\ part = "limit"
     /\ UNCHANGED <<gitVars, jiraVars, cells>> /\ LimitNext
  \/ /\ part = "jira"
     /\ UNCHANGED <<gitVars, limitVars, cells, pushVars>> /\ JiraNext
     /\ changes' + faults' <= 2 /\ ("ask" \in met' => changes' + faults' = 0)
  \/ /\ part = "defect"
     /\ UNCHANGED <<gitVars, limitVars, cells, jiraSide, jobVars, pullVars>> /\ JiraNext
  \/ /\ UNCHANGED <<gitVars, limitVars, jiraVars>>
     /\ \/ part = "import" /\ I!Next
        \/ part = "overlap" /\ J!Next

ServerSpec == Begins /\ [][Steps /\ UNCHANGED part]_serverVars

-----------------------------------------------------------------------------
(* What is checked: of each part, what its module says of it - GitKeeps,     *)
(* LimiterKeeps and JiraKeeps.                                               *)

\* Nothing is imported twice, every result is attached to its test, and the
\* same file adds nothing when it is imported again (PersistImport).
ImportKeeps ==
  /\ part = "import" => I!TypeOK /\ I!KeysAreUnique /\ I!ResultsAttached /\ I!ReimportAddsNothing
  /\ part = "overlap" => J!TypeOK /\ J!KeysAreUnique /\ J!ResultsAttached /\ J!ReimportAddsNothing
=============================================================================
