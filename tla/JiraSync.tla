------------------------------- MODULE JiraSync -------------------------------
(* Jira: the syncs that pull issues into requirements                        *)
(* (enqueue_sync_job and execute_sync_job of routers/integrations.py,        *)
(* sync_jira_requirements of backend/jira_sync.py) and the pushes that make  *)
(* an issue of a defect (push_defect_to_jira).  Who executes a job, and that *)
(* it may be executed again, is the business of the queue (CIQueue): here a  *)
(* worker takes a job, and may lose it to another.                           *)
EXTENDS Integers, Sequences, FiniteSets, Functions, Lists

CONSTANTS
  Boards,      \* what Jira has at first: issues, newest first
  Issues,      \* keys of issues
  Taken,       \* issues whose requirement id somebody has given away
  Page,        \* issues per answer
  Askers,      \* requests and scheduler ticks that ask for a sync
  Workers,     \* executions of jobs
  Reports,     \* requests that push the defect
  Jobs,        \* bounds: jobs,
  MaxChanges,  \*         changes at Jira,
  MaxFaults    \*         crashes and lost leases

VARIABLES
  board,     \* the issues the query finds, newest first
  text,      \* what each issue says
  reqs,      \* requirements: [id, key, says]
  status,    \* of the integration
  jobs,      \* sync jobs of the integration: [st, by]
  ask,       \* who has seen that there is no active job
  pull,      \* executions
  report, bugs, link,    \* pushes of a defect, the issues made, and its external_key
  met,       \* history: askers, syncs, pushes that met another of their kind
  ended,     \* history: how the last job ended, while none is under way
  missed,    \* history: a sync of a quiet board was refused or left something out
  patched,   \* history: the status was patched since the sync under way began, or
             \* last wrote it
  changes, faults

jiraVars == <<board, text, reqs, status, jobs, ask, pull, report, bugs, link,
              met, ended, missed, patched, changes, faults>>
jobVars  == <<jobs, ask>>
pullVars == <<reqs, status, pull, ended, missed, patched>>
pushVars == <<report, bugs, link>>
jiraSide == <<board, text, changes>>

NoJob  == [st |-> "none", by |-> "nobody"]
NoSync == [st |-> "idle"]
\* A sync that holds nothing: it found the integration with status `old`.
Sync(st, j, old, q) == [st |-> st, job |-> j, from |-> 0, got |-> <<>>, at |-> 1, pend |-> {},
                        quiet |-> q, old |-> old]
NoKey  == "none"
\* The issues are of one project: their numbers alone tell their ids apart.
Plain(i) == <<i>>
Other(i) == <<i, "J">>

\* What the theorems assume: a query lists an issue once, and an answer holds one
\* issue at least.
Assumed ==
  /\ \A b \in Boards : b \in Seq(Issues) /\ IsInjective(b)
  /\ NoKey \notin Issues /\ Taken \subseteq Issues
  /\ Page \in Nat \ {0} /\ MaxFaults \in Nat /\ MaxChanges \in Nat

JiraInit ==
  /\ board \in Boards /\ text = [i \in Issues |-> 0]
  /\ reqs = {[id |-> Plain(i), key |-> NoKey, says |-> 0] : i \in Taken}
  /\ status = "active"
  /\ jobs = [j \in Jobs |-> NoJob] /\ ask = {}
  /\ pull = [w \in Workers |-> NoSync]
  /\ report = [p \in Reports |-> "idle"] /\ bugs = 0 /\ link = NoKey
  /\ met = {} /\ ended = "none" /\ missed = FALSE /\ patched = FALSE /\ changes = 0 /\ faults = 0

-----------------------------------------------------------------------------
(* At Jira.                                                                  *)

Unquiet == pull' = [w \in Workers |-> IF pull[w].st = "idle" THEN pull[w] ELSE [pull[w] EXCEPT !.quiet = FALSE]]

Change ==
  /\ changes < MaxChanges /\ changes' = changes + 1
  /\ \/ \E i \in Issues \ Range(board) : board' = <<i>> \o board /\ text' = text
     \/ \E i \in Range(board) : board' = Without(board, {i}) /\ text' = text
     \/ \E i \in Range(board) : text' = [text EXCEPT ![i] = 1 - @] /\ board' = board
  /\ Unquiet
  /\ UNCHANGED <<reqs, status, jobVars, pushVars, met, ended, missed, patched, faults>>

-----------------------------------------------------------------------------
(* Asking for a sync.                                                        *)

\* Faulty: a job that runs does not count
ActiveQueued == {j \in Jobs : jobs[j].st = "queued"}
Active == {j \in Jobs : jobs[j].st \in {"queued", "processing"}}

AskLook(a) ==
  /\ a \notin ask /\ Active = {}
  /\ \E j \in Jobs : jobs[j].st = "none"
  /\ ask' = ask \cup {a}
  /\ met' = met \cup (IF ask # {} THEN {"ask"} ELSE {})
  /\ UNCHANGED <<jiraSide, pullVars, pushVars, jobs, faults>>

AskInsert(a) ==
  /\ a \in ask /\ ask' = ask \ {a}
  /\ \E j \in Jobs : jobs[j].st = "none" /\ jobs' = [jobs EXCEPT ![j].st = "queued"]
  /\ UNCHANGED <<jiraSide, pullVars, pushVars, met, faults>>

-----------------------------------------------------------------------------
(* A sync.                                                                   *)

Syncing == {w \in Workers : pull[w].st # "idle"}
PullTo(w, to) == pull' = [pull EXCEPT ![w] = to]

\* The queue hands a job out, once more if its lease has lapsed.
Take(w, j) ==
  /\ pull[w].st = "idle"
  /\ \/ jobs[j].st = "queued" /\ faults' = faults
     \/ jobs[j].st = "processing" /\ jobs[j].by # w /\ faults < MaxFaults /\ faults' = faults + 1
  /\ jobs' = [jobs EXCEPT ![j] = [st |-> "processing", by |-> w]]
  /\ PullTo(w, Sync("paging", j, status, TRUE))
  /\ met' = met \cup (IF Syncing # {} THEN {"sync"} ELSE {})
  /\ ended' = "none" /\ patched' = FALSE
  /\ UNCHANGED <<jiraSide, ask, reqs, status, missed, pushVars>>

\* One answer: the issues of the page, and how many there are now.
Answered(from) == [i \in 1..(IF Len(board) <= from THEN 0
                             ELSE IF Len(board) - from <= Page THEN Len(board) - from ELSE Page) |->
                     [key |-> board[from + i], says |-> text[board[from + i]]]]

Search(w) ==
  LET s == pull[w]  more == Answered(s.from)  next == s.from + Page IN
  /\ s.st = "paging"
  /\ PullTo(w, [s EXCEPT !.got = @ \o more, !.from = next,
                       !.st = IF next >= Len(board) \/ more = <<>> THEN "byKey" ELSE @])
  /\ UNCHANGED <<jiraSide, jobVars, reqs, status, ended, missed, patched, pushVars, met, faults>>

SearchFails(w) ==
  /\ pull[w].st = "paging"
  /\ PullTo(w, [pull[w] EXCEPT !.st = "failed"])
  /\ UNCHANGED <<jiraSide, jobVars, reqs, status, ended, missed, patched, pushVars, met, faults>>

\* Queries do not flush: what the sync adds itself is not found by them.
Issue(w) == pull[w].got[pull[w].at]
Found(w) == {r \in reqs : r.key = Issue(w).key}
Written(r, i) == [id |-> r, key |-> i.key, says |-> i.says]

FindByKey(w) ==
  LET s == pull[w] IN
  /\ s.st = "byKey" /\ s.at <= Len(s.got)
  /\ IF Found(w) = {} THEN PullTo(w, [s EXCEPT !.st = "byId"])
     ELSE \E r \in Found(w) :
            PullTo(w, [s EXCEPT !.at = @ + 1, !.pend = {p \in @ : p.row.id # r.id}
                                               \cup {[row |-> Written(r.id, Issue(w)), new |-> 0]}])
  /\ UNCHANGED <<jiraSide, jobVars, reqs, status, ended, missed, patched, pushVars, met, faults>>

\* A new row: its place in the list tells it from one with the same id.
FindById(w) ==
  LET s == pull[w]  i == Issue(w)
      id == IF \E r \in reqs : r.id = Plain(i.key) THEN Other(i.key) ELSE Plain(i.key)
  IN
  /\ s.st = "byId"
  /\ PullTo(w, [s EXCEPT !.st = "byKey", !.at = @ + 1, !.pend = @ \cup {[row |-> Written(id, i), new |-> s.at]}])
  /\ UNCHANGED <<jiraSide, jobVars, reqs, status, ended, missed, patched, pushVars, met, faults>>

Ids(rows)  == {r.id : r \in rows}
Rows(w)    == {p.row : p \in pull[w].pend}
Collides(w) ==
  \E p \in pull[w].pend : p.new # 0 /\ (p.row.id \in Ids(reqs) \/ \E q \in pull[w].pend : q # p /\ q.row.id = p.row.id)
Committed(w) == {r \in reqs : r.id \notin Ids(Rows(w))} \cup Rows(w)
Complete(rows) == \A i \in Range(board) : \E r \in rows : r.key = i /\ r.says = text[i]

\* The rows and the status are one commit, which writes the status if it was not
\* "active" when the sync began.  A row that is there already, or twice in the
\* list, refuses it; the session is then of no use, and no status is written.
Commit(w) ==
  LET s == pull[w] IN
  /\ s.st = "byKey" /\ s.at > Len(s.got)
  /\ IF Collides(w)
     THEN PullTo(w, Sync("refused", s.job, s.old, FALSE)) /\ UNCHANGED <<reqs, status>>
     ELSE /\ PullTo(w, Sync("stored", s.job, s.old, FALSE))
          /\ reqs' = Committed(w)
          /\ status' = IF s.old = "active" THEN status ELSE "active"
  /\ missed' = \/ missed
               \/ s.quiet /\ Collides(w) /\ "sync" \notin met
               \/ s.quiet /\ ~Collides(w) /\ ~Complete(Committed(w))
  /\ UNCHANGED <<jiraSide, jobVars, ended, patched, pushVars, met, faults>>

\* A commit of its own for the status, whatever it was.
Show(w) ==
  /\ pull[w].st = "stored"
  /\ PullTo(w, Sync("done", pull[w].job, pull[w].old, FALSE))
  /\ status' = "active" /\ patched' = FALSE
  /\ UNCHANGED <<jiraSide, jobVars, reqs, ended, missed, pushVars, met, faults>>

\* A status that was "error" when the sync began is not written again.
Failed(w) ==
  LET s == pull[w] IN
  /\ s.st = "failed"
  /\ PullTo(w, Sync("error", s.job, s.old, FALSE))
  /\ status' = IF s.old = "error" THEN status ELSE "error"
  /\ patched' = (patched /\ s.old = "error")
  /\ UNCHANGED <<jiraSide, jobVars, reqs, ended, missed, pushVars, met, faults>>

\* The settlement is fenced: a worker that lost the job leaves it alone.
End(w) ==
  LET s == pull[w] IN
  /\ s.st \in {"done", "refused", "error"}
  /\ IF jobs[s.job].by = w
     THEN /\ jobs' = [jobs EXCEPT ![s.job].st = IF s.st = "done" THEN "done" ELSE "error"]
          /\ ended' = IF patched THEN "none" ELSE s.st
     ELSE UNCHANGED <<jobs, ended>>
  /\ PullTo(w, NoSync)
  /\ UNCHANGED <<jiraSide, ask, reqs, status, missed, patched, pushVars, met, faults>>

Crash(w) ==
  /\ pull[w].st # "idle" /\ faults < MaxFaults /\ faults' = faults + 1
  /\ PullTo(w, NoSync)
  /\ UNCHANGED <<jiraSide, jobVars, reqs, status, ended, missed, patched, pushVars, met>>

\* PATCH /integrations/{id}
Disable ==
  /\ status # "disabled" /\ status' = "disabled" /\ ended' = "none" /\ patched' = TRUE
  /\ UNCHANGED <<jiraSide, jobVars, reqs, pull, missed, pushVars, met, faults>>

-----------------------------------------------------------------------------
(* Pushes of a defect.                                                       *)

ReportTo(p, st) == report' = [report EXCEPT ![p] = st]

\* A linked defect is refused.
ReportLoad(p) ==
  /\ report[p] = "idle" /\ link = NoKey
  /\ ReportTo(p, "loaded")
  /\ met' = met \cup (IF \E q \in Reports : report[q] # "idle" THEN {"push"} ELSE {})
  /\ UNCHANGED <<jiraSide, jobVars, pullVars, bugs, link, faults>>

ReportCreate(p) ==
  /\ report[p] = "loaded" /\ ReportTo(p, "created")
  /\ bugs' = bugs + 1
  /\ UNCHANGED <<jiraSide, jobVars, pullVars, link, met, faults>>

ReportLink(p) ==
  /\ report[p] = "created" /\ ReportTo(p, "idle")
  /\ link' = "linked"
  /\ UNCHANGED <<jiraSide, jobVars, pullVars, bugs, met, faults>>

ReportFails(p) ==
  /\ report[p] # "idle" /\ ReportTo(p, "idle") /\ faults < MaxFaults /\ faults' = faults + 1
  /\ UNCHANGED <<jiraSide, jobVars, pullVars, bugs, link, met>>

-----------------------------------------------------------------------------
JiraNext ==
  \/ Change \/ Disable
  \/ \E a \in Askers : AskLook(a) \/ AskInsert(a)
  \/ \E w \in Workers : \/ \E j \in Jobs : Take(w, j)
                        \/ Search(w) \/ SearchFails(w) \/ FindByKey(w) \/ FindById(w)
                        \/ Commit(w) \/ Show(w) \/ Failed(w) \/ End(w) \/ Crash(w)
  \/ \E p \in Reports : ReportLoad(p) \/ ReportCreate(p) \/ ReportLink(p) \/ ReportFails(p)

JiraSpec == JiraInit /\ [][JiraNext]_jiraVars

-----------------------------------------------------------------------------
JiraTypeOK ==
  /\ Range(board) \subseteq Issues /\ IsInjective(board)
  /\ \A j \in Jobs : jobs[j].st \in {"none", "queued", "processing", "done", "error"}
  /\ status \in {"active", "error", "disabled"}
  /\ \A r, s \in reqs : r.id = s.id => r = s

\* One active job: "create, or coalesce onto, one active durable sync", unless
\* two asked at the same time.
OneActiveJob ==
  "ask" \notin met => Cardinality({j \in Jobs : jobs[j].st \in {"queued", "processing"}}) <= 1

\* One requirement per issue, unless two syncs overlapped: the second may find
\* neither the key nor, a moment later, the id free.
OneRequirementPerIssue ==
  "sync" \notin met => \A r, s \in reqs : r.key = s.key /\ r.key # NoKey => r = s

\* A sync during which nothing changed at Jira is not refused by its own rows
\* and leaves every issue with a requirement that says what the issue says.
\* (Issues that move between pages are listed twice, or not at all.)
QuietSyncIsComplete == ~missed

\* Between jobs the integration shows how the last one ended, though only the
\* job's own row is fenced - unless it was patched meanwhile, syncs overlapped, or
\* the commit was refused, after which the session cannot write the status.
StatusTells ==
  "sync" \notin met => (ended = "done" => status = "active") /\ (ended = "error" => status = "error")

\* A defect is pushed once, unless two requests met or one broke off after Jira
\* had the issue.
OneBugPerDefect == bugs > 1 => "push" \in met \/ faults > 0

\* What is promised of syncs and pushes.
JiraKeeps ==
  /\ JiraTypeOK /\ OneActiveJob /\ OneRequirementPerIssue
  /\ QuietSyncIsComplete /\ StatusTells /\ OneBugPerDefect
=============================================================================
