------------------------------ MODULE MCClients ------------------------------
(* An instance for TLC of the pages of the web client (Clients), and of what *)
(* is no page of it: the command line client and the files it lints.         *)
EXTENDS Clients, TLC, SequencesExt

-----------------------------------------------------------------------------
(* Values of the constants.                                                  *)

Catalog == INSTANCE PanelCatalog
EveryPanel == Catalog!AllPanels
OneOld  == <<"a">>
Guessed == [f \in {"f1", "f2"} |-> IF f = "f1" THEN "csv" ELSE "json"]

SomeRoutes == ("overview" :> <<>>) @@ ("requirements" :> <<"req">>)
              @@ ("test-detail" :> <<"req", "detail">>) @@ ("admin" :> <<"users">>)

Command(c) == [cmd |-> c, bad |-> FALSE, force |-> FALSE, dry |-> FALSE, wait |-> FALSE]
Pushes     == {Command("sync"), [Command("sync") EXCEPT !.dry = TRUE]}
AllCalls   == {Command(c) : c \in {"help", "unknown", "lint", "sync", "status", "token", "run"}}
              \cup {[Command(c) EXCEPT !.bad = TRUE] : c \in {"lint", "token"}}
              \cup {[Command("sync") EXCEPT !.force = TRUE], [Command("sync") EXCEPT !.dry = TRUE],
                    [Command("run") EXCEPT !.wait = TRUE]}
Generated  == <<"g1", "g2", "g3", "g4", "g5">>
OnlyEnv(x) == [s \in {"flag", "env", "project", "user"} |-> IF s = "env" THEN x ELSE "unset"]
SomeSetups == {OnlyEnv(x) : x \in {"good", "revoked", "viewer", "unset"}}
              \cup {[OnlyEnv("good") EXCEPT !["flag"] = "viewer"]}

Bare(s)   == [shape |-> s]
Key(k, v) == [shape |-> "key", key |-> k, value |-> v]
Item(v)   == [shape |-> "item", value |-> v]
Tokens == {Bare(s) : s \in {"blank", "start", "end", "junk", "mapping"}}
          \cup {Item(v) : v \in {"text", "null", "bad"}}
          \cup {Key(k, v) : k \in {"title", "tags"}, v \in {"nothing", "emptylist", "text", "bad"}}
Few    == {Bare("blank"), Bare("start"), Item("text")}
          \cup {Key("title", "text"), Key("title", "nothing"), Key("tags", "nothing")}
Sorts  == {"nothing", "list", "emptylist", "null", "blank", "zero", "number", "word", "member",
           "alias", "text"}
\* all short files, and those whose fields take every sort of value
SomeFiles ==
  UNION {[1..n -> Tokens] : n \in 0..3} \cup [1..4 -> Few]
  \cup {<<Key(k, "nothing"), Item(a), Key("status", b)>> :
          k \in {"title", "id"}, a \in {"null", "blank", "text"}, b \in Sorts}
  \cup {<<Key(k, a), Key(m, b)>> : k \in {"title", "type"}, m \in {"id", "tags"}, a, b \in Sorts}

-----------------------------------------------------------------------------
(* The other parts.                                                          *)

\* pushes by the command line client
Y == INSTANCE CLI WITH
  Order <- <<"a", "b">>, Ids <- {"X", "Y"}, Fresh <- Generated,
  Calls <- Pushes, Setups <- {OnlyEnv("good")}, MaxEdits <- 2, MaxCalls <- 3,
  MaxFaults <- 0, Patience <- 0, tree <- v1, tests <- v2, call <- v3,
  setup <- v4, phase <- v5, files <- v6, reply <- v7, asks <- v8, left <- v9,
  job <- v10, exit <- v11, pushed <- v12, edits <- v13, calls <- v14,
  faults <- v15
\* each of its commands, and faults
C == INSTANCE CLI WITH
  Order <- <<"a", "b">>, Ids <- {"X"}, Fresh <- Generated, Calls <- AllCalls,
  Setups <- SomeSetups, MaxEdits <- 1, MaxCalls <- 1, MaxFaults <- 1,
  Patience <- 1, tree <- v1, tests <- v2, call <- v3, setup <- v4,
  phase <- v5, files <- v6, reply <- v7, asks <- v8, left <- v9, job <- v10,
  exit <- v11, pushed <- v12, edits <- v13, calls <- v14, faults <- v15
\* a file it reads
F == INSTANCE TestFile WITH
  Files <- SomeFiles, lines <- v1, at <- v2, doc <- v3, pending <- v4,
  started <- v5, error <- v6

-----------------------------------------------------------------------------
\* All that may happen to the page of a run is too much for one behaviour: three
\* things happen to it.
HaveHappened == MapThenSumSet(LAMBDA k : used'[k], DOMAIN used)
SomeOfARun ==
  part = "run" => HaveHappened <= 3

Begins ==
  \/ ClientInit
  \/ part = "push" /\ Y!Init
  \/ part = "call" /\ C!Init
  \/ part = "file" /\ F!Init /\ Off7

Init == part \in Parts /\ Begins

Next ==
  \/ ClientNext /\ SomeOfARun
  \/ part = "push" /\ Y!Next /\ Kept15
  \/ part = "call" /\ C!Next /\ Kept15
  \/ part = "file" /\ F!Next /\ Kept6

\* Servers and networks answer, and the browser and the process go on; nobody
\* acts because he has to.
Answers ==
  \/ part = "run" /\ V!Answers /\ SomeOfARun /\ Kept13
  \/ part = "panel" /\ P!Answers /\ Kept14
  \/ part = "draft" /\ D!Answers /\ Kept9
  \/ part = "ai" /\ A!Answers /\ Kept11
  \/ part = "once" /\ O!Answers /\ Kept11
  \/ part = "import" /\ I!ImportAnswers /\ Kept13
  \/ part = "session" /\ S!Answers /\ Kept7
  \/ part = "shell" /\ R!Turns /\ Kept13
  \/ part = "push" /\ Y!Invoked /\ Kept15
  \/ part = "call" /\ C!Invoked /\ Kept15

Spec     == Init /\ [][Next]_cells
FairSpec == Spec /\ WF_cells(Answers)

-----------------------------------------------------------------------------
(* What is checked of the other parts; of the pages it is what Clients says. *)

\* The exit code tells what happened (CLI).
ExitTells == (part = "push" => Y!TypeOK /\ Y!ExitTells) /\ (part = "call" => C!TypeOK /\ C!ExitTells)

\* The second push of a tree has stored all of it (CLI).
TwoPushesStoreAll == part = "push" => Y!TwoPushesStoreAll

\* The parser reads what is written, and lint foretells what the server does
\* with the file (TestFile).
FilesRead == part = "file" => F!TypeOK /\ F!ReadsWhatIsWritten /\ F!LintForetells

\* Nothing stays in "Loading...", saving or waiting, every command ends, and the
\* page of a run does not show one that has ended as running for good.
AtRest == /\ part = "run"     => V!AtRest
          /\ part = "panel"   => P!AtRest
          /\ part = "draft"   => D!AtRest
          /\ part = "ai"      => A!AtRest
          /\ part = "once"    => O!AtRest
          /\ part = "import"  => I!AtRest
          /\ part = "session" => S!AtRest
          /\ part = "shell"   => R!AtRest
          /\ part = "push"    => Y!AtRest
          /\ part = "call"    => C!AtRest
EndShown == part = "run" => V!EndShown
Ends == []<>AtRest /\ []<>EndShown
=============================================================================
