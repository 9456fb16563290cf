----------------------------- MODULE PersistImport -----------------------------
(* An import of test results (persist_import_result of                        *)
(* backend/importers/persist.py, behind POST /import/execute and the          *)
(* collectors of the CI providers): the tests, runs and defects of a file are *)
(* matched one by one with what the database shows, and are committed         *)
(* together.  What others commit meanwhile is seen by the items that follow.  *)
(* What a test says besides its title, folder and identity is left out.  A    *)
(* folder is its name; imports that overlap may create two of one name, and   *)
(* nothing is said of matches by place after that.                            *)
EXTENDS Integers, Sequences, FiniteSets, Functions, FiniteSetsExt

CONSTANTS
  Imports,     \* imports that are in flight at a time
  Docs,        \* files, as parsed: tests, then runs, then defects
  Modes,       \* a subset of {"skip", "overwrite", "rename"}
  Stored,      \* sets of tests somebody may have written by hand
  TestIds,     \* bounds: ids of tests, in the order they are given out,
  MaxImports   \*         and imports

VARIABLES
  tests,     \* tests, by id: [title, folder, key]
  runs,      \* runs: [id, links]
  defects,   \* defects: [key, test]
  imp,       \* imports
  crossed,   \* history: two imports were in flight at a time
  renamed,   \* history: an import renamed a case
  last,      \* history: the file committed last, its mode, and how often in a row
  imports

importVars == <<tests, runs, defects, imp, crossed, renamed, last, imports>>

None   == "none"   \* no key, no id
NoTest == 0
Nobody == [st |-> "idle"]
Empty  == [id \in {} |-> None]
NoFile == [file |-> <<>>, mode |-> None, times |-> 0]

Put(f, k, v) == [x \in DOMAIN f \cup {k} |-> IF x = k THEN v ELSE f[x]]
Merge(f, g)  == [x \in DOMAIN f \cup DOMAIN g |-> IF x \in DOMAIN g THEN g[x] ELSE f[x]]

Init ==
  /\ tests \in Stored
  /\ runs = <<>> /\ defects = <<>>
  /\ imp = [p \in Imports |-> Nobody]
  /\ crossed = FALSE /\ renamed = FALSE /\ last = NoFile /\ imports = 0

-----------------------------------------------------------------------------
InFlight == {p \in Imports : imp[p].st # "idle"}

\* again: how often in a row the same was imported just before
Begin(p, doc, mode) ==
  /\ imp[p].st = "idle" /\ imports < MaxImports /\ imports' = imports + 1
  /\ imp' = [imp EXCEPT ![p] =
       [st |-> "reading", doc |-> doc, mode |-> mode, at |-> 1, over |-> Empty, titles |-> Empty,
        keys |-> Empty, runs |-> <<>>, defects |-> <<>>, row |-> NoTest, upd |-> Empty, dropped |-> FALSE, renames |-> FALSE,
        again |-> IF last.file = doc /\ last.mode = mode THEN last.times ELSE 0]]
  /\ crossed' = (crossed \/ InFlight # {})
  /\ UNCHANGED <<tests, runs, defects, renamed, last>>

\* What an import sees: what is committed, and what it has flushed itself.
Seen(p) == Merge(tests, imp[p].over)
Keyed(p, k)     == {id \in DOMAIN Seen(p) : k # None /\ Seen(p)[id].key = k}
Titled(p, t, f) == {id \in DOMAIN Seen(p) : Seen(p)[id].title = t /\ Seen(p)[id].folder = f}

\* Faulty: the key is not asked for
MatchesByPlace(p, t) == Titled(p, t.title, t.folder)
\* The first of those the database returns, in no particular order.
Matches(p, t) == IF Keyed(p, t.key) # {} THEN Keyed(p, t.key) ELSE Titled(p, t.title, t.folder)

\* Another import has changed the row and not committed yet.
Locked(p, id) == \E q \in InFlight \ {p} : id \in DOMAIN imp[q].over /\ id \in DOMAIN tests

Free == TestIds \ UNION ({DOMAIN tests} \cup {DOMAIN imp[q].over : q \in InFlight})
NewId == Min(Free)

Linked(i, t, id) ==
  [i EXCEPT !.at = @ + 1, !.titles = Put(@, t.title, id),
            !.keys = IF t.key = None THEN @ ELSE Put(@, t.key, id)]

\* An overwrite stores the columns it changed in the row it has read.
Overwritten(old, t) == [old EXCEPT !.folder = t.folder, !.key = IF @ = None THEN t.key ELSE @]
Changes(old, new)   == LET cols == {c \in DOMAIN new : new[c] # old[c]} IN [c \in cols |-> new[c]]
Renamed(t) == [t EXCEPT !.title = Append(@, "imported")]

Created(i, t) == [Linked(i, t, NewId) EXCEPT !.over = Put(@, NewId, [title |-> t.title, folder |-> t.folder, key |-> t.key])]

\* What one case of the file makes of the import.
Handled(p, t) ==
  LET i == imp[p]  found == Matches(p, t) IN
  IF found = {} THEN {Created(i, t)}
  ELSE IF i.mode = "skip" THEN {Linked(i, t, id) : id \in found}
  ELSE IF i.mode = "rename" THEN {[Created(i, Renamed(t)) EXCEPT !.renames = TRUE]}
  ELSE {[Linked(i, t, id) EXCEPT !.st = "writing", !.row = id,
                                 !.upd = Changes(Seen(p)[id], Overwritten(Seen(p)[id], t))] : id \in found}

\* The item that comes next.
Comes(p, kind) == imp[p].st = "reading" /\ imp[p].at <= Len(imp[p].doc) /\ imp[p].doc[imp[p].at].kind = kind
Item(p) == imp[p].doc[imp[p].at]

ImportTest(p) ==
  /\ Comes(p, "test")
  /\ \E i \in Handled(p, Item(p)) : imp' = [imp EXCEPT ![p] = i]
  /\ UNCHANGED <<tests, runs, defects, crossed, renamed, last, imports>>

\* The UPDATE waits for the row and leaves its other columns as they are by then.
Flush(p) ==
  LET i == imp[p] IN
  /\ i.st = "writing" /\ ~Locked(p, i.row)
  /\ imp' = [imp EXCEPT ![p] = [i EXCEPT !.st = "reading", !.row = NoTest, !.upd = Empty,
                                        !.over = Put(@, i.row, Merge(Seen(p)[i.row], i.upd))]]
  /\ UNCHANGED <<tests, runs, defects, crossed, renamed, last, imports>>

\* _resolve_test_id: the key, in this file or in the database, then the title.
Resolved(p, case) ==
  IF case.key # None /\ case.key \in DOMAIN imp[p].keys THEN {imp[p].keys[case.key]}
  ELSE IF Keyed(p, case.key) # {} THEN Keyed(p, case.key)
  ELSE IF case.title \in DOMAIN imp[p].titles THEN {imp[p].titles[case.title]}
  ELSE {NoTest}

RunKnown(p, id) == id # None /\ \E r \in Range(runs) \cup Range(imp[p].runs) : r.id = id

ImportRun(p) ==
  LET r == Item(p) IN
  /\ Comes(p, "run")
  /\ IF RunKnown(p, r.id) THEN imp' = [imp EXCEPT ![p].at = @ + 1]
     ELSE \E of \in [DOMAIN r.cases -> TestIds \cup {NoTest}] :
            /\ \A c \in DOMAIN r.cases : of[c] \in Resolved(p, r.cases[c])
            /\ imp' = [imp EXCEPT ![p].at = @ + 1,
                 ![p].runs = Append(@, [id |-> r.id, links |-> {<<r.cases[c], of[c]>> : c \in {d \in DOMAIN of : of[d] # NoTest}}]),
                 ![p].dropped = @ \/ NoTest \in Range(of)]
  /\ UNCHANGED <<tests, runs, defects, crossed, renamed, last, imports>>

\* A defect is not flushed: the next of the file does not see it.
ImportDefect(p) ==
  LET d == Item(p)
      known == d.key # None /\ \E x \in Range(defects) : x.key = d.key
      test  == IF d.title \in DOMAIN imp[p].titles THEN imp[p].titles[d.title] ELSE NoTest
  IN
  /\ Comes(p, "defect")
  /\ imp' = [imp EXCEPT ![p].at = @ + 1,
                        ![p].defects = IF known THEN @ ELSE Append(@, [key |-> d.key, test |-> test])]
  /\ UNCHANGED <<tests, runs, defects, crossed, renamed, last, imports>>

\* Everything is committed together.
Commit(p) ==
  LET i == imp[p]  alone == InFlight = {p} IN
  /\ i.st = "reading" /\ i.at > Len(i.doc)
  /\ tests' = Merge(tests, i.over)
  /\ runs' = runs \o i.runs
  /\ defects' = defects \o i.defects
  /\ imp' = [q \in Imports |-> IF q = p THEN Nobody
                             ELSE IF imp[q].st = "idle" THEN imp[q] ELSE [imp[q] EXCEPT !.again = 0]]
  /\ renamed' = (renamed \/ i.renames)
  /\ last' = IF alone THEN [file |-> i.doc, mode |-> i.mode, times |-> i.again + 1] ELSE NoFile
  /\ UNCHANGED <<crossed, imports>>

\* A statement fails, or the process dies: nothing of the import stays.
Abort(p) ==
  /\ imp[p].st # "idle"
  /\ imp' = [imp EXCEPT ![p] = Nobody]
  /\ UNCHANGED <<tests, runs, defects, crossed, renamed, last, imports>>

Next == \E p \in Imports :
  \/ \E doc \in Docs, mode \in Modes : Begin(p, doc, mode)
  \/ ImportTest(p) \/ Flush(p) \/ ImportRun(p) \/ ImportDefect(p)
  \/ Commit(p) \/ Abort(p)

Spec == Init /\ [][Next]_importVars

-----------------------------------------------------------------------------
TypeOK ==
  /\ DOMAIN tests \subseteq TestIds
  /\ \A p \in InFlight : /\ imp[p].at \in 1..(Len(imp[p].doc) + 1) /\ imp[p].mode \in Modes
                         /\ DOMAIN imp[p].over \subseteq TestIds
                         /\ Range(imp[p].titles) \cup Range(imp[p].keys) \subseteq DOMAIN Seen(p)

\* "A re-import matches on that identity ... rather than duplicating" (README):
\* two tests share a key, and two runs an id, only where imports overlapped or
\* a case was renamed.
KeysAreUnique ==
  /\ ~crossed /\ ~renamed => \A a, b \in DOMAIN tests : tests[a].key = tests[b].key /\ a # b => tests[a].key = None
  /\ ~crossed => \A a, b \in DOMAIN runs : runs[a].id = runs[b].id /\ a # b => runs[a].id = None

\* A result is attached to a test of its key or of its title, and none is lost
\* whose case the file brings along, unless cases were renamed.
Brought(doc, case) == \E i \in Range(doc) : i.kind = "test" /\ i.title = case.title
ResultsAttached ==
  /\ \A r \in Range(runs) : \A l \in r.links :
       ~renamed => \/ l[1].key # None /\ tests[l[2]].key = l[1].key
                   \/ tests[l[2]].title = l[1].title
  /\ \A p \in InFlight : imp[p].dropped /\ ~imp[p].renames =>
       \E i \in Range(imp[p].doc) : i.kind = "run" /\ \E c \in Range(i.cases) : ~Brought(imp[p].doc, c)

\* Importing the same again adds nothing, with "skip" at once, with "overwrite"
\* the third time: a case without a key may lose its test to a later one that
\* has the key and another folder, and is then created anew.
Settled(p) == /\ imp[p].again >= (IF imp[p].mode = "skip" THEN 1 ELSE 2)
              /\ imp[p].mode # "rename" /\ ~crossed
ReimportAddsNothing ==
  \A p \in InFlight : Settled(p) =>
    /\ DOMAIN imp[p].over \subseteq DOMAIN tests
    /\ \A r \in Range(imp[p].runs) : r.id = None
    /\ \A d \in Range(imp[p].defects) : d.key = None
=============================================================================
