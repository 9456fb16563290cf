-------------------------------- MODULE CLI --------------------------------
(* The command line client (cli/): one invocation after another in the same  *)
(* working tree, against one server.  Each request is three steps, so that it *)
(* can fail before the server acted, after it, or in the middle of the answer. *)
(* The server's side is what the client sees of it: the tests sync_repo       *)
(* upserts (backend/github_sync.py 176-254), and a CI job that goes its own   *)
(* way (CIQueue and PipelineImport have that story, and what the row may tell *)
(* that the handler of a poll reads after the job).                           *)
EXTENDS Integers, Sequences, FiniteSets, TLC, SequencesExt

CONSTANTS
  Order,      \* the paths of the working tree, in the order the walk finds them
  Ids,        \* ids a file may carry
  Fresh,      \* ids the server may generate
  Calls,      \* the command lines: [cmd, bad, force, dry, wait]
  Setups,     \* what each source of configuration gives: Sources -> quality
  MaxEdits,   \* bound: changes of the working tree
  MaxCalls,   \* bound: invocations
  MaxFaults,  \* bound: requests that fail
  Patience    \* polls before the deadline of `run`

Sources == <<"flag", "env", "project", "user">>   \* highest first
Paths   == ToSet(Order)
Texts   == {"plain", "word"}    \* "word": lint lets it pass, the server skips it
NoFile  == [id |-> "none", text |-> "absent"]
Contents == {NoFile} \cup [id : Ids \cup {"none"}, text : Texts \cup {"broken"}]

VARIABLES
  tree,     \* the working tree: path -> content
  tests,    \* the server's tests: id -> [path, content]
  call,     \* the command line that runs, or NoCall
  setup,    \* the configuration it finds
  phase,    \* where it stands
  files,    \* the files it has read: [path, content]
  reply,    \* what the last request brought back
  asks,     \* the requests the server has taken in this invocation
  left,     \* polls left before the deadline
  job,      \* the CI job of this invocation, as the server has it
  exit,     \* its exit code; -1 while it runs
  pushed,   \* completed pushes since the tree or the tests last changed otherwise
  edits, calls, faults

vars == <<tree, tests, call, setup, phase, files, reply, asks, left, job, exit,
          pushed, edits, calls, faults>>
proc == <<call, setup, phase, files, reply, asks, left, job, exit>>

NoCall == [cmd |-> "none", bad |-> FALSE, force |-> FALSE, dry |-> FALSE, wait |-> FALSE]

Init ==
  /\ tree \in [Paths -> {NoFile} \cup [id : Ids \cup {"none"}, text : {"plain"}]]
  /\ tests = <<>>
  /\ call = NoCall /\ setup \in Setups /\ phase = "idle" /\ files = <<>>
  /\ reply = "none" /\ asks = 0 /\ left = 0 /\ job = "none" /\ exit = -1
  /\ pushed = 0 /\ edits = 0 /\ calls = 0 /\ faults = 0

-----------------------------------------------------------------------------
(* The user's side: the working tree, and the next command.                  *)

Write(p, c) ==
  /\ phase = "idle" /\ edits < MaxEdits /\ tree[p] # c
  /\ tree' = [tree EXCEPT ![p] = c]
  /\ pushed' = 0 /\ edits' = edits + 1
  /\ UNCHANGED <<tests, proc, calls, faults>>

Rename(p, q) ==
  /\ phase = "idle" /\ edits < MaxEdits /\ tree[p] # NoFile /\ tree[q] = NoFile
  /\ tree' = [tree EXCEPT ![q] = tree[p], ![p] = NoFile]
  /\ pushed' = 0 /\ edits' = edits + 1
  /\ UNCHANGED <<tests, proc, calls, faults>>

Invoke(c, s) ==
  /\ phase = "idle" /\ calls < MaxCalls
  /\ call' = c /\ setup' = s /\ phase' = "parse" /\ files' = <<>>
  /\ reply' = "none" /\ asks' = 0 /\ left' = Patience /\ job' = "none" /\ exit' = -1
  /\ calls' = calls + 1
  /\ UNCHANGED <<tree, tests, pushed, edits, faults>>

-----------------------------------------------------------------------------
(* The process.                                                              *)

Exit(code) ==
  /\ exit' = code /\ phase' = "idle"
  /\ UNCHANGED <<call, setup, files, reply, asks, left, job>>

Goes(to) ==
  /\ phase' = to
  /\ UNCHANGED <<call, setup, files, reply, asks, left, job, exit>>

\* resolveConfig: the first source that gives a value wins, whatever it is worth.
Given == {i \in DOMAIN Sources : setup[Sources[i]] # "unset"}
Token == IF Given = {} THEN "unset"
         ELSE setup[Sources[CHOOSE i \in Given : \A j \in Given : i <= j]]

\* main: a line that does not parse, no command or an unknown one; then the
\* command's own checks.  Only lint needs no token.
Parse ==
  /\ phase = "parse"
  /\ CASE call.cmd = "help" -> Exit(0)
       [] call.cmd = "unknown" -> Exit(2)
       [] call.cmd = "lint" -> IF call.bad THEN Exit(2) ELSE Goes("collect")
       [] call.cmd = "sync" -> IF Token = "unset" \/ call.bad THEN Exit(2)
                               ELSE Goes("collect")
       [] OTHER -> IF Token = "unset" \/ call.bad THEN Exit(2) ELSE Goes("ask")
  /\ UNCHANGED <<tree, tests, pushed, edits, calls, faults>>

Found == SelectSeq(Order, LAMBDA p : tree[p] # NoFile)

Collect ==
  /\ phase = "collect"
  /\ IF Found = <<>> THEN Exit(2)
     ELSE /\ files' = [i \in DOMAIN Found |-> [path |-> Found[i], content |-> tree[Found[i]]]]
          /\ phase' = "lint"
          /\ UNCHANGED <<call, setup, reply, asks, left, job, exit>>
  /\ UNCHANGED <<tree, tests, pushed, edits, calls, faults>>

\* lintFiles: a file of its own that does not parse or has no title, and an id
\* two files carry.  (The id of a file that does not parse is not known.)
Id(f) == IF f.content.text = "broken" THEN "none" ELSE f.content.id
LintErrors ==
  {i \in DOMAIN files :
     \/ files[i].content.text = "broken"
     \/ \E j \in 1..(i - 1) : Id(files[j]) = Id(files[i]) /\ Id(files[i]) # "none"}

Lint ==
  /\ phase = "lint"
  /\ CASE call.cmd = "lint" -> Exit(IF LintErrors = {} THEN 0 ELSE 1)
       [] call.cmd = "sync" /\ LintErrors # {} /\ ~call.force -> Exit(1)
       [] OTHER -> Goes("ask")
  /\ UNCHANGED <<tree, tests, pushed, edits, calls, faults>>

-----------------------------------------------------------------------------
(* The server, as the requests meet it.                                      *)

\* Faulty: a test found by its id keeps the path it had
PutKeepsPath(s, f) ==
  LET c == f.content
      held == [path |-> f.path, content |-> c]
      byPath == {t \in DOMAIN s.tests : s.tests[t].path = f.path} IN
  IF c.text # "plain" THEN {[s EXCEPT !.skipped = @ + 1]}
  ELSE IF c.id \in DOMAIN s.tests
  THEN {[s EXCEPT !.tests[c.id].content = c, !.updated = @ + 1]}
  ELSE IF byPath # {}
  THEN {[s EXCEPT !.tests[t] = held, !.updated = @ + 1] : t \in byPath}
  ELSE LET free == SelectSeq(Fresh, LAMBDA g : g \notin DOMAIN s.tests) IN
       {[s EXCEPT !.tests = @ @@ ((IF c.id # "none" THEN c.id ELSE free[1]) :> held),
                  !.created = @ + 1]}

\* sync_repo for one file: the test with its id, else one with its path, else
\* a new one.  Which of several with that path comes first is the database's
\* choice.
Put(s, f) ==
  LET c == f.content
      held == [path |-> f.path, content |-> c]
      byPath == {t \in DOMAIN s.tests : s.tests[t].path = f.path} IN
  IF c.text # "plain" THEN {[s EXCEPT !.skipped = @ + 1]}
  ELSE IF c.id \in DOMAIN s.tests
  THEN {[s EXCEPT !.tests[c.id] = held, !.updated = @ + 1]}
  ELSE IF byPath # {}
  THEN {[s EXCEPT !.tests[t] = held, !.updated = @ + 1] : t \in byPath}
  ELSE LET free == SelectSeq(Fresh, LAMBDA g : g \notin DOMAIN s.tests) IN
       {[s EXCEPT !.tests = @ @@ ((IF c.id # "none" THEN c.id ELSE free[1]) :> held),
                  !.created = @ + 1]}

Upserts ==
  FoldLeft(LAMBDA acc, f : UNION {Put(s, f) : s \in acc},
           {[tests |-> tests, created |-> 0, updated |-> 0, skipped |-> 0]}, files)

Writes == call.cmd # "status" /\ phase = "ask"

\* 401 for a revoked token, 403 for a role that may not write.  The first
\* request of status asks for the health, which needs no token.
Refused ==
  /\ ~(call.cmd = "status" /\ asks = 0)
  /\ \/ Token = "revoked"
     \/ Token = "viewer" /\ Writes

Serve ==
  /\ phase \in {"ask", "poll"} /\ reply = "none" /\ ~Refused
  /\ asks' = asks + 1
  /\ CASE call.cmd = "sync" ->
            \E s \in Upserts :
              /\ tests' = IF call.dry THEN tests ELSE s.tests
              /\ reply' = IF s.skipped > 0 THEN "skips" ELSE "ok"
              /\ pushed' = IF call.dry THEN pushed ELSE pushed + 1
              /\ job' = job
       [] call.cmd = "run" /\ phase = "ask" ->
              /\ job' = "running" /\ reply' = "ok"
              /\ UNCHANGED <<tests, pushed>>
       [] call.cmd = "run" /\ phase = "poll" ->
              /\ reply' = job
              /\ UNCHANGED <<tests, pushed, job>>
       [] OTHER ->
              /\ reply' = "ok"
              /\ UNCHANGED <<tests, pushed, job>>
  /\ UNCHANGED <<tree, call, setup, phase, files, left, exit, edits, calls, faults>>

Refuse ==
  /\ phase \in {"ask", "poll"} /\ reply = "none" /\ Refused
  /\ reply' = "refused"
  /\ UNCHANGED <<tree, tests, call, setup, phase, files, asks, left, job, exit,
                 pushed, edits, calls, faults>>

\* The host is not reached or answers 5xx (before it acted), the connection
\* drops before the answer's headers, or in the middle of its body.
Fail(how) ==
  /\ phase \in {"ask", "poll"} /\ faults < MaxFaults
  /\ IF how = "down" THEN reply = "none" ELSE reply \notin {"none", "down", "cut", "torn", "refused"}
  /\ reply' = how
  /\ faults' = faults + 1
  /\ UNCHANGED <<tree, tests, call, setup, phase, files, asks, left, job, exit,
                 pushed, edits, calls>>

\* The job ends whenever the provider does; while the client sleeps, mostly.  The
\* answer to a poll tells of a job that is done what its row says, and nothing
\* ("silent") if the row is missing or has no verdict.
JobEnds(outcome) ==
  /\ job = "running" /\ job' = outcome
  /\ UNCHANGED <<tree, tests, call, setup, phase, files, reply, asks, left, exit,
                 pushed, edits, calls, faults>>

-----------------------------------------------------------------------------
(* What the client makes of an answer.                                       *)

Again(to) ==
  /\ reply' = "none" /\ phase' = to
  /\ UNCHANGED <<call, setup, files, asks, job, exit>>

\* Faulty: every error but ApiError is an unexpected one
GivesTwo(r) == IF r = "refused" THEN 4 ELSE 2

\* main's catch: ApiError, NetworkError, and any other error.  The body is read
\* outside the try of request(), so a torn one is none of the first two.
Gives(r) ==
  CASE r = "refused" -> 4
    [] r \in {"down", "cut"} -> 3
    [] r = "torn" -> 2

Answer ==
  /\ phase \in {"ask", "poll"} /\ reply # "none"
  /\ CASE reply \in {"refused", "down", "cut", "torn"} -> Exit(Gives(reply))
       [] call.cmd = "sync" -> Exit(IF reply = "skips" THEN 1 ELSE 0)
       [] call.cmd = "status" /\ asks < 4 -> Again("ask") /\ left' = left
       [] call.cmd = "run" /\ phase = "ask" /\ call.wait -> Again("poll") /\ left' = left
       [] phase = "poll" /\ reply = "running" ->
            IF left = 0 THEN Exit(3) ELSE Again("poll") /\ left' = left - 1
       [] phase = "poll" /\ reply = "error" -> Exit(3)
       [] phase = "poll" /\ reply = "fail" -> Exit(1)
       [] OTHER -> Exit(0)
  /\ UNCHANGED <<tree, tests, pushed, edits, calls, faults>>

Invoked == Parse \/ Collect \/ Lint \/ Serve \/ Refuse \/ Answer

Next ==
  \/ \E p \in Paths, c \in Contents : Write(p, c)
  \/ \E p, q \in Paths : Rename(p, q)
  \/ \E c \in Calls, s \in Setups : Invoke(c, s)
  \/ Invoked
  \/ \E how \in {"down", "cut", "torn"} : Fail(how)
  \/ \E o \in {"pass", "fail", "silent", "error"} : JobEnds(o)

Spec == Init /\ [][Next]_vars

\* The client goes on by itself and every request is answered or fails.
FairSpec == Spec /\ WF_vars(Invoked)

-----------------------------------------------------------------------------
(* Properties                                                                *)

TypeOK ==
  /\ tree \in [Paths -> Contents]
  /\ DOMAIN tests \subseteq Ids \cup ToSet(Fresh)
  /\ \A t \in DOMAIN tests : tests[t] \in [path : Paths, content : Contents]
  /\ call \in Calls \cup {NoCall} /\ setup \in Setups
  /\ phase \in {"idle", "parse", "collect", "lint", "ask", "poll"}
  /\ exit \in -1..4 /\ left \in 0..Patience /\ asks \in 0..(Patience + 4)

Stored(f) == \E t \in DOMAIN tests : tests[t] = [path |-> f.path, content |-> f.content]
Now == [i \in DOMAIN Found |-> [path |-> Found[i], content |-> tree[Found[i]]]]

\* The exit code tells what happened (bin/thorotest.js 5-11): 1 means that the
\* pipeline failed, and 0 that it did not, or that nothing is known of it; of a
\* lint they tell the findings as they are; 4 means nothing was changed, and 2
\* that nothing was asked for unless an answer broke off in the middle.
ExitTells ==
  exit # -1 =>
    /\ call.cmd = "run" /\ call.wait /\ exit \in {0, 1} =>
         job \in (IF exit = 0 THEN {"pass", "silent"} ELSE {"fail"})
    /\ call.cmd \in {"lint", "sync"} /\ exit = 0 /\ ~call.force => LintErrors = {}
    /\ exit = 4 => job = "none" /\ (call.cmd = "status" \/ asks = 0)
    /\ exit = 2 => asks = 0 \/ reply = "torn"
    /\ call.cmd = "sync" /\ exit = 0 /\ ~call.dry =>
         \A i \in DOMAIN files : files[i].content.text = "plain"

\* However often files were renamed and given new ids, and however many
\* answers were lost, the second push of an unchanged tree that lint accepts
\* leaves every file with a test that shows it (sync_repo).
TwoPushesStoreAll ==
  pushed >= 2 /\ call.cmd = "sync" /\ ~call.force =>
    \A i \in DOMAIN Now : Now[i].content.text = "plain" => Stored(Now[i])

\* docs/cli.md: "Sync is an idempotent upsert".
SyncIsIdempotent == [][pushed >= 1 /\ pushed' = pushed + 1 => tests' = tests]_vars

\* Every command ends (run polls no longer than its deadline).
AtRest == phase = "idle"
CommandEnds == []<>AtRest
=============================================================================
