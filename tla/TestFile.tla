------------------------------ MODULE TestFile ------------------------------
(* A "test as code" file on its way through the command line client: the     *)
(* line parser of cli/lib/yaml.js, the rules of cli/lib/lint.js, and what the *)
(* server's normaliser (backend/importers/yaml_importer.py) makes of the same *)
(* file.  Every step is one turn of the parser's loop over the lines.         *)
(*                                                                           *)
(* A line is what is left of it once the comment is stripped: its shape, and  *)
(* for a key or a list item the sort of scalar it holds.  The sorts are those *)
(* the two sides tell apart:                                                 *)
(*   "null"    empty, null or ~          "blank"   a quoted empty string     *)
(*   "zero"    0, false                  "number"  1.5, 3, true              *)
(*   "word"    no, off: text for the parser here, false for PyYAML           *)
(*   "member"  constructor, toString: a name every JavaScript object has     *)
(*   "alias"   a word of the alias table of its key                          *)
(*   "text"    any other text            "bad"     a scalar it refuses       *)
(* A key's value is also "nothing" (the line ends after the colon), "list"   *)
(* or "emptylist" (inline lists).                                            *)
EXTENDS Integers, Sequences, FiniteSets, TLC

CONSTANT Files   \* the files considered: sequences of lines

VARIABLES
  lines,    \* the file
  at,       \* the line the loop is at
  doc,      \* the mapping built so far
  pending,  \* the key whose list items may follow, or "none"
  started,  \* whether "---" was seen
  error     \* the line an error was raised for; 0: none, -1: one without a line

vars == <<lines, at, doc, pending, started, error>>

Scalar(v) == [list |-> FALSE, items |-> <<v>>]
List(s)   == [list |-> TRUE, items |-> s]
Null      == Scalar("null")

-----------------------------------------------------------------------------
(* The parser.                                                               *)

Init ==
  /\ lines \in Files
  /\ at = 1
  /\ doc = <<>>
  /\ pending = "none"
  /\ started = FALSE
  /\ error = 0

Reading == error = 0 /\ at <= Len(lines)
Line == lines[at]

\* parse throws: the loop ends and lintContent reports the line.
Throw(n) ==
  /\ error' = n
  /\ UNCHANGED <<lines, at, doc, pending, started>>

Blank ==
  /\ Reading /\ Line.shape \in {"blank", "end"}
  /\ at' = at + 1
  /\ UNCHANGED <<lines, doc, pending, started, error>>

DocumentStart ==
  /\ Reading /\ Line.shape = "start"
  /\ IF started \/ DOMAIN doc # {}
     THEN Throw(at)
     ELSE /\ at' = at + 1
          /\ started' = TRUE
          /\ UNCHANGED <<lines, doc, pending, error>>

\* A tab, an indented line that is no item, an item at the margin, and a line
\* that is no "key: value" at all.
Stray ==
  /\ Reading /\ Line.shape \in {"tab", "nested", "margin", "junk"}
  /\ Throw(at)

ListItem ==
  /\ Reading /\ Line.shape \in {"item", "mapping"}
  /\ IF pending = "none" \/ Line.shape = "mapping" \/ Line.value = "bad"
     THEN Throw(at)
     ELSE /\ doc' = [doc EXCEPT ![pending].items = Append(@, Line.value)]
          /\ at' = at + 1
          /\ UNCHANGED <<lines, pending, started, error>>

\* A key that got no items was an empty value.
Settled(d, k) ==
  IF k # "none" /\ d[k].items = <<>> THEN [d EXCEPT ![k] = Null] ELSE d

Value(v) ==
  CASE v \in {"nothing", "emptylist"} -> List(<<>>)
    [] v = "list" -> List(<<"text">>)
    [] OTHER -> Scalar(v)

\* Faulty: the key before stays pending
KeyLineLeavesPending ==
  /\ Reading /\ Line.shape = "key"
  /\ IF Line.key \in DOMAIN doc \/ Line.value = "bad"
     THEN Throw(at)
     ELSE /\ doc' = Settled(doc, pending) @@ (Line.key :> Value(Line.value))
          /\ pending' = IF Line.value = "nothing" THEN Line.key ELSE pending
          /\ at' = at + 1
          /\ UNCHANGED <<lines, started, error>>

KeyLine ==
  /\ Reading /\ Line.shape = "key"
  /\ IF Line.key \in DOMAIN doc \/ Line.value = "bad"
     THEN Throw(at)
     ELSE /\ doc' = Settled(doc, pending) @@ (Line.key :> Value(Line.value))
          /\ pending' = IF Line.value = "nothing" THEN Line.key ELSE "none"
          /\ at' = at + 1
          /\ UNCHANGED <<lines, started, error>>

EndOfFile ==
  /\ error = 0 /\ at = Len(lines) + 1
  /\ doc' = Settled(doc, pending)
  /\ pending' = "none"
  /\ error' = IF DOMAIN doc = {} THEN -1 ELSE 0
  /\ at' = at + 1
  /\ UNCHANGED <<lines, started>>

Next == Blank \/ DocumentStart \/ Stray \/ ListItem \/ KeyLine \/ EndOfFile

Spec == Init /\ [][Next]_vars

Parsed == error = 0 /\ at = Len(lines) + 2
Ended  == Parsed \/ error # 0

-----------------------------------------------------------------------------
(* The rules of lint.  A field the file does not have reads as null.         *)

Field(k) == IF k \in DOMAIN doc THEN doc[k] ELSE Null
Given(k) == Field(k) # Null

\* String(x).trim() is empty: a list prints its items, null as nothing.
PrintsEmpty(v) ==
  \/ v.items = <<>>
  \/ Len(v.items) = 1 /\ v.items[1] \in {"null", "blank"}

TitleMissing == PrintsEmpty(Field("title"))

\* Faulty: a list is not looked up
EnumWarnedScalar(k) ==
  Given(k) /\ ~Field(k).list /\ Field(k).items[1] \notin {"alias", "member"}

\* checkEnum: `raw in map` also finds what every object inherits.
EnumWarned(k) ==
  Given(k) /\ (Field(k).list \/ Field(k).items[1] \notin {"alias", "member"})

TagsWarned ==
  /\ Given("tags") /\ ~Field("tags").list
  /\ Field("tags").items[1] \in {"zero", "number"}

IdWarned == ~Given("id") \/ PrintsEmpty(Field("id"))

LintErrors == error # 0 \/ TitleMissing

-----------------------------------------------------------------------------
(* The server's normaliser on the same mapping.                              *)

\* `data.get(key) or default` takes the default.
Falsy(v) ==
  \/ v.list /\ v.items = <<>>
  \/ ~v.list /\ v.items[1] \in {"null", "blank", "zero", "word"}

ServerRejects == Falsy(Field("title"))

\* A value was given and the default takes its place.
ServerDefaults(k) == Given(k) /\ (Field(k).list \/ Field(k).items[1] # "alias")

ServerDropsTags ==
  /\ Given("tags") /\ ~Field("tags").list
  /\ Field("tags").items[1] \in {"zero", "number", "word"}

ServerHasNoId == Falsy(Field("id"))

-----------------------------------------------------------------------------
(* Properties                                                                *)

TypeOK ==
  /\ lines \in Files
  /\ at \in 1..(Len(lines) + 2)
  /\ pending \in DOMAIN doc \cup {"none"}
  /\ started \in BOOLEAN
  /\ error \in -1..Len(lines)

\* What a file means, without a loop.  A list item belongs to the last key
\* before it.
KeysBefore(i) == {j \in 1..(i - 1) : lines[j].shape = "key"}
Owner(i) ==
  IF KeysBefore(i) = {} THEN 0
  ELSE CHOOSE j \in KeysBefore(i) : \A m \in KeysBefore(i) : m <= j

Offends(i) ==
  LET l == lines[i] IN
  \/ l.shape \in {"tab", "nested", "margin", "junk", "mapping"}
  \/ l.shape \in {"key", "item"} /\ l.value = "bad"
  \/ l.shape = "start" /\ \E j \in 1..(i - 1) : lines[j].shape \in {"start", "key"}
  \/ l.shape = "item" /\ (Owner(i) = 0 \/ lines[Owner(i)].value # "nothing")
  \/ l.shape = "key" /\ \E j \in KeysBefore(i) : lines[j].key = l.key

FirstOffence ==
  LET bad == {i \in 1..Len(lines) : Offends(i)} IN
  CASE bad # {} -> CHOOSE i \in bad : \A j \in bad : i <= j
    [] bad = {} /\ KeysBefore(Len(lines) + 1) = {} -> -1
    [] OTHER -> 0

ItemsOf(i) ==
  LET Its(j) == lines[j].shape = "item" /\ Owner(j) = i IN
  [m \in 1..Cardinality({j \in 1..Len(lines) : Its(j)}) |->
     lines[CHOOSE j \in 1..Len(lines) :
             Its(j) /\ Cardinality({x \in 1..j : Its(x)}) = m].value]

Meaning ==
  [k \in {lines[j].key : j \in KeysBefore(Len(lines) + 1)} |->
     LET i == CHOOSE j \in KeysBefore(Len(lines) + 1) : lines[j].key = k IN
     IF lines[i].value # "nothing" THEN Value(lines[i].value)
     ELSE IF ItemsOf(i) = <<>> THEN Null ELSE List(ItemsOf(i))]

\* The parser raises an error for the first line that is not of the subset,
\* and for no other file, and what it builds from the rest is what the file
\* says: no item is given to another key, no key loses or keeps a list it was
\* not written with (yaml.js parse).
ReadsWhatIsWritten ==
  Ended => /\ error = FirstOffence
           /\ Parsed => doc = Meaning

\* What lint says foretells what the server does with the file, except where
\* the two read a plain word differently: a title, an id or tags that are
\* `no`, 0 or false are accepted here and dropped there, a value named like a
\* member of every object is taken for an alias here, and an inherently empty
\* one-item title is an error here alone (lint.js 5-9).
LintForetells ==
  Parsed =>
    /\ ServerRejects # TitleMissing =>
         \/ ServerRejects /\ Field("title") \in {Scalar("zero"), Scalar("word")}
         \/ TitleMissing /\ Field("title") \in {List(<<"null">>), List(<<"blank">>)}
    /\ \A k \in {"type", "status"} :
         ServerDefaults(k) # EnumWarned(k) => Field(k) = Scalar("member")
    /\ ServerDropsTags # TagsWarned => Field("tags") = Scalar("word")
    /\ ServerHasNoId # IdWarned =>
         Field("id") \in {Scalar("zero"), Scalar("word"), List(<<"null">>), List(<<"blank">>)}
=============================================================================
