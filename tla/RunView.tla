------------------------------- MODULE RunView -------------------------------
(* The page of one run in a browser (RunDetail of frontend/views/            *)
(* view-runs.jsx): what it shows is a copy of the server's rows that is kept *)
(* up to date by loading the run, by the events of a WebSocket and by what   *)
(* the page computes itself after the user has marked a case.                *)
(*                                                                           *)
(* The server is the environment: it stores the marks of this page and of    *)
(* other testers one at a time and sends their events, in order, to the      *)
(* socket that is open at that moment (RunMarking and RunSockets model what  *)
(* it does with several processes).                                          *)
EXTENDS Integers, Sequences, FiniteSets, SequencesExt

CONSTANTS
  Runs,       \* the runs there can be; a retest creates one of those not yet there
  Listed,     \* the runs there are at first, which TH_DATA lists
  First,      \* TH_DATA.runs[0]
  Cases,      \* the tests of a run, in the order of its list: a set of integers
  Verdicts,   \* the results a tester gives
  Remark,     \* whether a case that has a result may be given another
  MaxMarks,   \* bounds: marks of the user,
  MaxOthers,  \*         marks of others,
  MaxEdits,   \*         pauses and aborts,
  MaxMoves,   \*         changes of the run in the URL,
  MaxFaults   \*         failed requests and lost connections

VARIABLES
  server,   \* the rows: server[r] = [status, res], res[c] the result of case c
  url,      \* the property runId, taken from the URL
  loading,  \* "Loading run..." is shown
  live,     \* liveRun: its id, status and counters, or NoRun
  list,     \* cases: the run they were read from and their results
  idx,      \* activeIdx, counted from 1
  loads,    \* answers to GET /runs/{id} that are to come
  ws,       \* the page's WebSocket: off, asking (for a ticket) or open, and its queue
  mark,     \* the PATCH of a case that is under way, or NoMark
  edits,    \* the PATCHes of the status that are under way
  retest,   \* the run whose retest is asked for, "none", or "done": `retesting` stays set
  ever,     \* history: the results each case has ever had on the server
  used      \* how much of each bound is used up

vars == <<server, url, loading, live, list, idx, loads, ws, mark, edits, retest, ever, used>>

NoRun  == [id |-> "none", status |-> "none", tally |-> <<0, 0, 0>>]
NoMark == [stage |-> "none"]
Off    == [st |-> "off", run |-> "none", q |-> <<>>]
Final  == {"pass", "fail"}

Spend(k) == used' = [used EXCEPT ![k] = @ + 1]
May(k, n) == used[k] < n

-----------------------------------------------------------------------------
(* What server and page compute from the results of a run.                   *)

\* passed, failed and done (everything that is not pending)
Tally(res) == <<Cardinality({c \in DOMAIN res : res[c] = "pass"}),
                Cardinality({c \in DOMAIN res : res[c] = "fail"}),
                Cardinality({c \in DOMAIN res : res[c] # "pending"})>>

Complete(res) == DOMAIN res # {} /\ \A c \in DOMAIN res : res[c] # "pending"

Verdict(res) == IF \E c \in DOMAIN res : res[c] = "fail" THEN "fail" ELSE "pass"

\* recomputeRun: the counters and the status after a mark of this page
Recomputed(run, res) ==
  [run EXCEPT !.status = IF Complete(res) THEN Verdict(res) ELSE "running",
              !.tally = Tally(res)]

\* the case at position k of the list, if the list is that long
At(res, k) == {c \in DOMAIN res : Cardinality({d \in DOMAIN res : d <= c}) = k}
Position(res, c) == Cardinality({d \in DOMAIN res : d <= c})
LeastPosition(res, S) == IF S = {} THEN 0 ELSE Position(res, CHOOSE c \in S : \A d \in S : c <= d)

\* the next pending case after position k, else the first pending one; with
\* none pending the page stays at the case it shows
Advance(res, k) ==
  LET pending == {c \in DOMAIN res : res[c] = "pending"}
      after   == {c \in pending : Position(res, c) > k}
  IN  IF after # {} THEN LeastPosition(res, after)
      ELSE IF pending # {} THEN LeastPosition(res, pending) ELSE idx

FirstOpen(res) ==
  LET open == {c \in DOMAIN res : res[c] = "pending"}
  IN  IF open = {} THEN 1 ELSE LeastPosition(res, open)

-----------------------------------------------------------------------------
(* The effect that keeps the socket: whenever the id or the status of        *)
(* liveRun has changed the old socket is closed, and a new one is asked for  *)
(* if the run is running.                                                    *)
(* Faulty: the effect does not depend on the status.                         *)
SocketById(was, now) ==
  IF was.id = now.id THEN ws
  ELSE IF now.status = "running" THEN [st |-> "asking", run |-> now.id, q |-> <<>>]
  ELSE Off

Socket(was, now) ==
  IF was.id = now.id /\ was.status = now.status THEN ws
  ELSE IF now.status = "running" THEN [st |-> "asking", run |-> now.id, q |-> <<>>]
  ELSE Off

Show(now) == live' = now /\ ws' = Socket(live, now)

Init ==
  /\ server = [r \in Runs |-> [status |-> IF r \in Listed THEN "running" ELSE "absent",
                               res |-> [c \in (IF r \in Listed THEN Cases ELSE {}) |-> "pending"]]]
  /\ url = First /\ loading = TRUE
  /\ live = NoRun /\ list = [of |-> "none", res |-> <<>>] /\ idx = 1
  /\ loads = {[n |-> 0, run |-> First, got |-> NoMark]}
  /\ ws = Off /\ mark = NoMark /\ edits = {} /\ retest = "none"
  /\ ever = [r \in Runs |-> [c \in Cases |-> {"pending"}]]
  /\ used = [k \in {"marks", "others", "edits", "moves", "faults"} |-> 0]

-----------------------------------------------------------------------------
(* Loading the run, anew whenever the URL names another one.  Nothing        *)
(* cancels an earlier load whose answer is still to come.                    *)

GoTo(r) ==
  /\ url' = r /\ loading' = TRUE
  /\ loads' = loads \cup {[n |-> used["moves"] + 1, run |-> r, got |-> NoMark]}
  /\ Spend("moves")

\* the "Retest of" link, the browser's history or another address
Move(r) ==
  /\ May("moves", MaxMoves) /\ r # url /\ server[r].status # "absent"
  /\ GoTo(r)
  /\ UNCHANGED <<server, live, list, idx, ws, mark, edits, retest, ever>>

\* the server reads the run for the answer
LoadServed(l) ==
  /\ l.got = NoMark
  /\ loads' = (loads \ {l}) \cup {[l EXCEPT !.got = server[l.run]]}
  /\ UNCHANGED <<server, url, loading, live, list, idx, ws, mark, edits, retest, ever, used>>

LoadAnswered(l) ==
  /\ l.got # NoMark
  /\ loads' = loads \ {l}
  /\ Show([id |-> l.run, status |-> l.got.status, tally |-> Tally(l.got.res)])
  /\ list' = [of |-> l.run, res |-> l.got.res]
  /\ idx' = FirstOpen(l.got.res)
  /\ loading' = FALSE
  /\ UNCHANGED <<server, url, mark, edits, retest, ever, used>>

\* The load failed: the page falls back to the runs of TH_DATA as they were at
\* the login, to the first of them if it does not list this one.
LoadFailed(l) ==
  /\ May("faults", MaxFaults)
  /\ loads' = loads \ {l}
  /\ Show([id |-> IF l.run \in Listed THEN l.run ELSE First,
           status |-> "running", tally |-> <<0, 0, 0>>])
  /\ list' = [of |-> "none", res |-> <<>>]
  /\ loading' = FALSE
  /\ Spend("faults")
  /\ UNCHANGED <<server, url, idx, mark, edits, retest, ever>>

-----------------------------------------------------------------------------
(* Events of the run.                                                        *)

Send(r, msgs) == ws' = IF ws.st = "open" /\ ws.run = r THEN [ws EXCEPT !.q = @ \o msgs] ELSE ws

\* the server stores result v of case c of run r, recomputes the run and sends
\* its events (update_run_case)
Store(r, c, v) ==
  LET res    == [server[r].res EXCEPT ![c] = v]
      status == IF Complete(res) THEN Verdict(res) ELSE server[r].status
      step   == [ev |-> "step", case |-> c, verdict |-> v, tally |-> Tally(res)]
      done   == [ev |-> "complete", status |-> status, tally |-> Tally(res)]
  IN  /\ server' = [server EXCEPT ![r] = [status |-> status, res |-> res]]
      /\ ever' = [ever EXCEPT ![r][c] = @ \cup {v}]
      /\ Send(r, IF Complete(res) THEN <<step, done>> ELSE <<step>>)

\* the marks of others that are considered
Markable(r, c) == c \in DOMAIN server[r].res /\ (Remark \/ server[r].res[c] = "pending")

OtherMarks(r, c, v) ==
  /\ May("others", MaxOthers) /\ Markable(r, c) /\ Store(r, c, v)
  /\ Spend("others")
  /\ UNCHANGED <<url, loading, live, list, idx, loads, mark, edits, retest>>

\* the ticket is granted and the socket listed; the server's first message is
\* the state of the run
WsOpen ==
  /\ ws.st = "asking"
  /\ ws' = [ws EXCEPT !.st = "open",
                      !.q = <<[ev |-> "state", status |-> server[ws.run].status,
                               tally |-> Tally(server[ws.run].res)]>>]
  /\ UNCHANGED <<server, url, loading, live, list, idx, loads, mark, edits, retest, ever, used>>

\* no ticket, or the connection breaks: nobody tries again
WsLost ==
  /\ ws.st # "off" /\ May("faults", MaxFaults)
  /\ ws' = Off
  /\ Spend("faults")
  /\ UNCHANGED <<server, url, loading, live, list, idx, loads, mark, edits, retest, ever>>

\* ws.onmessage
WsMessage ==
  /\ ws.st = "open" /\ ws.q # <<>>
  /\ LET m   == Head(ws.q)
         now == CASE m.ev = "step"     -> [live EXCEPT !.tally = m.tally]
                  [] m.ev = "complete" -> [live EXCEPT !.status = m.status, !.tally = m.tally]
                  [] m.ev = "state"    -> [live EXCEPT !.status = m.status, !.tally = m.tally]
     IN  /\ live' = now
         /\ ws' = IF now.status = live.status THEN [ws EXCEPT !.q = Tail(@)] ELSE Socket(live, now)
         /\ list' = IF m.ev = "step" /\ m.case \in DOMAIN list.res
                    THEN [list EXCEPT !.res[m.case] = m.verdict] ELSE list
  /\ UNCHANGED <<server, url, loading, idx, loads, mark, edits, retest, ever, used>>

-----------------------------------------------------------------------------
(* Marking a case: the request is sent with the ids the page holds; when the *)
(* answer comes, the page writes back the list it held when the user clicked.*)

Select(k) ==
  /\ ~loading /\ k \in 1..Cardinality(DOMAIN list.res) /\ k # idx
  /\ idx' = k
  /\ UNCHANGED <<server, url, loading, live, list, loads, ws, mark, edits, retest, ever, used>>

\* by a button, or by the keys P and F, which also work while a run is loading
Mark(v) ==
  /\ ~loading \/ v \in {"pass", "fail"}
  /\ mark = NoMark /\ May("marks", MaxMarks)
  /\ \E c \in At(list.res, idx) :
       /\ Remark \/ list.res[c] = "pending"
       /\ mark' = [stage |-> "sent", run |-> live.id, of |-> list.of, case |-> c,
                   verdict |-> v, snap |-> list, at |-> idx]
  /\ Spend("marks")
  /\ UNCHANGED <<server, url, loading, live, list, idx, loads, ws, edits, retest, ever>>

\* update_run_case finds the case by its id and the run's, and stores the
\* result whatever the case had before
MarkStored ==
  /\ mark.stage = "sent"
  /\ IF mark.run = mark.of
     THEN Store(mark.run, mark.case, mark.verdict) /\ mark' = [mark EXCEPT !.stage = "ok"]
     ELSE mark' = [mark EXCEPT !.stage = "refused"] /\ UNCHANGED <<server, ws, ever>>
  /\ UNCHANGED <<url, loading, live, list, idx, loads, edits, retest, used>>

MarkShown(m) == [m.snap EXCEPT !.res[m.case] = m.verdict]

MarkAnswered ==
  /\ mark.stage = "ok"
  /\ list' = MarkShown(mark)
  /\ Show(Recomputed(live, MarkShown(mark).res))
  /\ idx' = Advance(MarkShown(mark).res, mark.at)
  /\ mark' = NoMark
  /\ UNCHANGED <<server, url, loading, loads, edits, retest, ever, used>>

\* Faulty: the list is changed before the answer is looked at
MarkFailedShown ==
  /\ \/ mark.stage = "refused" /\ UNCHANGED used
     \/ mark.stage \in {"sent", "ok"} /\ May("faults", MaxFaults) /\ Spend("faults")
  /\ mark' = NoMark
  /\ list' = MarkShown(mark)
  /\ UNCHANGED <<server, url, loading, live, idx, loads, ws, edits, retest, ever>>

\* an error answer, or none: an alert, and the user may try again
MarkFailed ==
  /\ \/ mark.stage = "refused" /\ UNCHANGED used
     \/ mark.stage \in {"sent", "ok"} /\ May("faults", MaxFaults) /\ Spend("faults")
  /\ mark' = NoMark
  /\ UNCHANGED <<server, url, loading, live, list, idx, loads, ws, edits, retest, ever>>

-----------------------------------------------------------------------------
(* Pause, abort and retest.                                                  *)

Edit(to) ==
  /\ ~loading /\ live # NoRun /\ May("edits", MaxEdits)
  /\ IF to = "paused" THEN live.status = "running" ELSE live.status # "aborted"
  /\ edits' = edits \cup {[run |-> live.id, to |-> to, stage |-> "sent"]}
  /\ Spend("edits")
  /\ UNCHANGED <<server, url, loading, live, list, idx, loads, ws, mark, retest, ever>>

EditStored(e) ==
  /\ e.stage = "sent"
  /\ edits' = (edits \ {e}) \cup {[e EXCEPT !.stage = "ok"]}
  /\ server' = [server EXCEPT ![e.run].status = e.to]
  /\ UNCHANGED <<url, loading, live, list, idx, loads, ws, mark, retest, ever, used>>

\* the answer changes whatever run is shown by now
EditAnswered(e) ==
  /\ e.stage = "ok"
  /\ edits' = edits \ {e}
  /\ Show([live EXCEPT !.status = e.to])
  /\ UNCHANGED <<server, url, loading, list, idx, loads, mark, retest, ever, used>>

EditFailed(e) ==
  /\ May("faults", MaxFaults) /\ Spend("faults")
  /\ edits' = edits \ {e}
  /\ UNCHANGED <<server, url, loading, live, list, idx, loads, ws, mark, retest, ever>>

Failures(res) == {c \in DOMAIN res : res[c] \in {"fail", "blocked"}}

Retest ==
  /\ ~loading /\ retest = "none" /\ May("moves", MaxMoves)
  /\ live.status = "fail" /\ Failures(list.res) # {}
  /\ retest' = live.id
  /\ UNCHANGED <<server, url, loading, live, list, idx, loads, ws, mark, edits, ever, used>>

\* retest_run creates a run of the failed cases and the page goes there; the
\* component stays mounted and `retesting` stays set
Retested(r) ==
  /\ retest \in Runs /\ server[r].status = "absent" /\ May("moves", MaxMoves)
  /\ Failures(server[retest].res) # {}
  /\ server' = [server EXCEPT ![r] =
                 [status |-> "running", res |-> [c \in Failures(server[retest].res) |-> "pending"]]]
  /\ retest' = "done"
  /\ GoTo(r)
  /\ UNCHANGED <<live, list, idx, ws, mark, edits, ever>>

RetestFailed ==
  /\ retest \in Runs
  /\ \/ Failures(server[retest].res) = {} /\ UNCHANGED used
     \/ May("faults", MaxFaults) /\ Spend("faults")
  /\ retest' = "none"
  /\ UNCHANGED <<server, url, loading, live, list, idx, loads, ws, mark, edits, ever>>

-----------------------------------------------------------------------------
User == \/ \E r \in Runs : Move(r)
        \/ \E k \in 1..Cardinality(Cases) : Select(k)
        \/ \E v \in Verdicts : Mark(v)
        \/ \E to \in {"paused", "aborted"} : Edit(to)
        \/ Retest

Others == \E r \in Runs, c \in Cases, v \in Verdicts : OtherMarks(r, c, v)

Answers == \/ \E l \in loads : LoadServed(l) \/ LoadAnswered(l)
           \/ WsOpen \/ WsMessage
           \/ MarkStored \/ MarkAnswered \/ (mark.stage = "refused" /\ MarkFailed)
           \/ \E e \in edits : EditStored(e) \/ EditAnswered(e)
           \/ \E r \in Runs : Retested(r)

Faults == \/ \E l \in loads : LoadFailed(l)
          \/ WsLost \/ MarkFailed \/ RetestFailed
          \/ \E e \in edits : EditFailed(e)

Next == User \/ Others \/ Answers \/ Faults

Spec == Init /\ [][Next]_vars

-----------------------------------------------------------------------------
(* What the page promises.                                                   *)

Status == {"running", "paused", "aborted"} \cup Final
Result == {"pending"} \cup Verdicts

\* Every variable keeps its type: in particular the position of the active
\* case is a position, and the queue of a socket that is not open is empty.
TypeOK ==
  /\ \A r \in Runs : /\ server[r].status \in Status \cup {"absent"}
                     /\ DOMAIN server[r].res \subseteq Cases
                     /\ \A c \in DOMAIN server[r].res : server[r].res[c] \in Result
  /\ url \in Runs /\ loading \in BOOLEAN
  /\ live = NoRun \/ (live.id \in Runs /\ live.status \in Status)
  /\ list.of \in Runs \cup {"none"} /\ idx \in 1..Cardinality(Cases)
  /\ ws.st \in {"off", "asking", "open"} /\ (ws.st # "open" => ws.q = <<>>)
  /\ mark.stage \in {"none", "sent", "ok", "refused"}
  /\ retest \in Runs \cup {"none", "done"}

\* The page invents nothing: a result it shows for a case of the run in its
\* header is one the server has stored for that case at some time, though lists
\* are copied, written back after an answer and mixed with events (markCase
\* shows a result only after the PATCH has succeeded).  A mark answered after
\* the user has gone to another run leaves the old list under the new header:
\* that list is not covered, since events of the new run are then mixed into it.
ShowsOnlyStored ==
  (list.of \in Runs /\ list.of = live.id) => \A c \in DOMAIN list.res : list.res[c] \in ever[list.of][c]

\* A run that has ended is not shown as running for good: the event of the end,
\* or the state a new socket starts with, reaches the page, also when a list
\* written back after a mark made the page believe that the run goes on
\* (the effect that reopens the socket).  Lost connections are the exception:
\* nobody reconnects.
EndShown ==
  used["faults"] > 0 \/ (live.status = "running" => server[live.id].status \notin Final)
EndIsShown == []<>EndShown

\* The page does not hang: a load is answered, and the buttons that a mark
\* disables come back (setMarking(false) on every path).
AtRest == (~loading /\ mark = NoMark) \/ used["faults"] > 0
PageComesBack == []<>AtRest
=============================================================================
