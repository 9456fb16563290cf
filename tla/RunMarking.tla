------------------------------ MODULE RunMarking ------------------------------
(***************************************************************************)
(* Marking the results of a manual run (update_run_case in                 *)
(* backend/routers/runs.py).  A request commits the status of its case,    *)
(* then reads the run, then all its cases, and commits the run's counters, *)
(* progress and status; then it broadcasts.  The handler is a coroutine    *)
(* that awaits nothing before its broadcasts, so that requests of one      *)
(* process follow one another, while those of several processes interleave *)
(* at every database statement.  Assignments, which the endpoint also      *)
(* takes, leave this state alone.                                          *)
(***************************************************************************)
EXTENDS Integers, FiniteSets

CONSTANTS
    Cases,      \* the cases of the run
    Total,      \* run.total, as the run was created with; 0 if unset
    FirstStatus,\* the status the run was created with
    Requests,   \* PATCH requests in flight at a time
    Proc,       \* [Requests -> processes], where a request is handled
    Marks,      \* statuses that are sent
    Edits,      \* statuses that PATCH /runs/{id}/status sends
    Remark,     \* TRUE: a case that has its result may be marked again
    MaxMarks,   \* bound: marks sent
    MaxCrashes  \* bound: requests whose process dies

CaseStatuses == {"pass", "fail", "blocked", "skip", "pending"}

ASSUME CasesAssumption == IsFiniteSet(Cases)
ASSUME TotalAssumption == Total \in Nat
ASSUME MarksAssumption == Marks \subseteq CaseStatuses
ASSUME BoundsAssumption == MaxMarks \in Nat /\ MaxCrashes \in Nat

VARIABLES
    case,       \* run_cases.status
    run,        \* the row of the run
    req,        \* the requests
    loop,       \* what the event loop of each process is running
    announced,  \* history: statuses of the "complete" events sent
    since,      \* history: what happened to the run since a request read it
    marks, crashes

vars == <<case, run, req, loop, announced, since, marks, crashes>>

None == "none"

ASSUME RequestsAssumption == \A h \in Requests : h # None

Procs == {Proc[h] : h \in Requests}
RunStatuses ==
  {"pending", "running", "pass", "fail"} \cup {FirstStatus} \cup Edits

RunRow == [status : RunStatuses, progress : 0 .. 100, passed : Nat,
           failed : Nat, blocked : Nat]

Idle == [pc |-> "idle"]

PCs == {"idle", "loaded", "marked", "read", "counted", "committed", "complete"}

TypeOK ==
  /\ case \in [Cases -> CaseStatuses]
  /\ run \in RunRow
  /\ \A h \in Requests :
       /\ req[h].pc \in PCs
       /\ req[h].pc \in {"read", "counted"} => req[h].loaded \in RunRow
       /\ req[h].pc = "counted" => req[h].new \in RunRow
  /\ loop \in [Procs -> Requests \cup {None}]
  /\ announced \subseteq RunStatuses
  /\ since \subseteq {"edit", "cut"}
  /\ marks \in 0 .. MaxMarks /\ crashes \in 0 .. MaxCrashes

Init ==
  /\ case = [c \in Cases |-> "pending"]
  /\ run = [status |-> FirstStatus, progress |-> 0, passed |-> 0,
            failed |-> 0, blocked |-> 0]
  /\ req = [h \in Requests |-> Idle]
  /\ loop = [p \in Procs |-> None]
  /\ announced = {}
  /\ since = {}
  /\ marks = 0 /\ crashes = 0

-----------------------------------------------------------------------------
(* What is recomputed from all cases.                                       *)

Count(cs, statuses) == Cardinality({c \in Cases : cs[c] \in statuses})

TotalOf == IF Total # 0 THEN Total ELSE Cardinality(Cases)

(* Faulty variants of the definition that follows, here and below, are used *)
(* to show that the properties can fail: an off-by-one.                     *)
CompleteEarly(cs) ==
  TotalOf > 0 /\ Count(cs, CaseStatuses \ {"pending"}) + 1 >= TotalOf

Complete(cs) ==
  TotalOf > 0 /\ Count(cs, CaseStatuses \ {"pending"}) >= TotalOf

(* Faulty: a run with more results than its total exceeds 100%.             *)
ProgressUncapped(cs) ==
  IF TotalOf = 0 THEN 0
  ELSE (Count(cs, CaseStatuses \ {"pending"}) * 100) \div TotalOf

(* int(done / total * 100), for the totals that occur here.                 *)
Progress(cs) ==
  IF Complete(cs) THEN 100
  ELSE IF TotalOf = 0 THEN 0
  ELSE (Count(cs, CaseStatuses \ {"pending"}) * 100) \div TotalOf

Verdict(cs) == IF Count(cs, {"fail"}) > 0 THEN "fail" ELSE "pass"

(* Faulty: a status that was set by hand is kept when the run completes.    *)
RecomputedUnlessEdited(r, cs) ==
  [status   |-> IF r.status \notin {"pending", "running"} THEN r.status
                ELSE IF Complete(cs) THEN Verdict(cs) ELSE "running",
   progress |-> Progress(cs),
   passed   |-> Count(cs, {"pass"}),
   failed   |-> Count(cs, {"fail"}),
   blocked  |-> Count(cs, {"blocked", "skip"})]

Recomputed(r, cs) ==
  [status   |-> IF Complete(cs) THEN Verdict(cs)
                ELSE IF r.status = "pending" THEN "running" ELSE r.status,
   progress |-> Progress(cs),
   passed   |-> Count(cs, {"pass"}),
   failed   |-> Count(cs, {"fail"}),
   blocked  |-> Count(cs, {"blocked", "skip"})]

-----------------------------------------------------------------------------
(* One request.                                                             *)

Hold(h) == loop' = [loop EXCEPT ![Proc[h]] = h]
Yield(h) == loop' = [loop EXCEPT ![Proc[h]] = None]

Load(h, c, s) ==
  /\ req[h].pc = "idle" /\ loop[Proc[h]] = None
  /\ marks < MaxMarks
  /\ ~ Remark => /\ case[c] = "pending"
                 /\ \A g \in Requests :
                      req[g].pc = "loaded" => req[g].case # c
  /\ marks' = marks + 1
  /\ req' = [req EXCEPT ![h] =
       [pc |-> "loaded", case |-> c, old |-> case[c], mark |-> s]]
  /\ Hold(h)
  /\ UNCHANGED <<case, run, announced, since, crashes>>

(* The UPDATE names the columns whose value differs from the one loaded.    *)
CommitCase(h) ==
  LET q == req[h] IN
  /\ q.pc = "loaded"
  /\ case' = IF q.mark = q.old THEN case
             ELSE [case EXCEPT ![q.case] = q.mark]
  /\ req' = [req EXCEPT ![h] = [pc |-> "marked"]]
  /\ UNCHANGED <<run, loop, announced, since, marks, crashes>>

ReadRun(h) ==
  /\ req[h].pc = "marked"
  /\ req' = [req EXCEPT ![h] = [pc |-> "read", loaded |-> run]]
  /\ since' = {}
  /\ UNCHANGED <<case, run, loop, announced, marks, crashes>>

ReadCases(h) ==
  /\ req[h].pc = "read"
  /\ req' = [req EXCEPT ![h] =
       [pc |-> "counted", loaded |-> req[h].loaded,
        new |-> Recomputed(req[h].loaded, case), complete |-> Complete(case)]]
  /\ UNCHANGED <<case, run, loop, announced, since, marks, crashes>>

Written(loaded, new) ==
  [col \in DOMAIN run |-> IF new[col] = loaded[col] THEN run[col] ELSE new[col]]

CommitRun(h) ==
  LET q == req[h] IN
  /\ q.pc = "counted"
  /\ run' = Written(q.loaded, q.new)
  /\ req' = [req EXCEPT ![h] = [pc |-> "committed", complete |-> q.complete]]
  /\ UNCHANGED <<case, loop, announced, since, marks, crashes>>

(* Faulty: completion is taken from the progress read back from the row ... *)
AsksRow(q) == run.progress = 100

(* ... or announced only with a verdict that nobody has overwritten.        *)
AsksStatus(q) == q.complete /\ run.status \in {"pass", "fail"}

Announces(q) == q.complete

(* The commit has expired the row: it is read again for the messages, before *)
(* the broadcast of the step gives the event loop to other requests.         *)
SendStep(h) ==
  /\ req[h].pc = "committed"
  /\ req' = [req EXCEPT ![h] =
               IF Announces(req[h]) THEN [pc |-> "complete", status |-> run.status]
                                    ELSE Idle]
  /\ Yield(h)
  /\ UNCHANGED <<case, run, announced, since, marks, crashes>>

SendComplete(h) ==
  /\ req[h].pc = "complete" /\ loop[Proc[h]] = None
  /\ announced' = announced \cup {req[h].status}
  /\ req' = [req EXCEPT ![h] = Idle]
  /\ UNCHANGED <<case, run, loop, since, marks, crashes>>

Handle(h) ==
  \/ CommitCase(h) \/ ReadRun(h) \/ ReadCases(h) \/ CommitRun(h)
  \/ SendStep(h) \/ SendComplete(h)

(* The result is stored and the run does not count it yet.                  *)
BetweenCommits(h) == req[h].pc \in {"marked", "read", "counted"}

(* The process dies, or a statement fails: the request ends where it is.    *)
Crash(h) ==
  /\ crashes < MaxCrashes
  /\ crashes' = crashes + 1
  /\ req[h].pc # "idle"
  /\ req' = [req EXCEPT ![h] = Idle]
  /\ loop' = [loop EXCEPT ![Proc[h]] = IF @ = h THEN None ELSE @]
  /\ since' = IF BetweenCommits(h) THEN since \cup {"cut"} ELSE since
  /\ UNCHANGED <<case, run, announced, marks>>

(* update_run_status runs in a thread, next to the event loop.              *)
EditStatus(s) ==
  /\ run' = [run EXCEPT !.status = s]
  /\ since' = since \cup {"edit"}
  /\ UNCHANGED <<case, req, loop, announced, marks, crashes>>

Next ==
  \/ \E h \in Requests :
       \/ \E c \in Cases, s \in Marks : Load(h, c, s)
       \/ Handle(h)
       \/ Crash(h)
  \/ \E s \in Edits : EditStatus(s)

Spec == Init /\ [][Next]_vars

(* Handlers run on.                                                         *)
FairSpec == Spec /\ \A h \in Requests : WF_vars(Handle(h))

-----------------------------------------------------------------------------
(* Properties.                                                              *)

Quiet == \A h \in Requests : ~ BetweenCommits(h)

(* While no marking is between its two commits the run shows the counts and *)
(* the progress of its cases, and, once it is complete, their verdict: a    *)
(* status that was edited lasts until a marking that reads it, and what a   *)
(* request left when it was cut short between its commits lasts until the   *)
(* next marking.  Holds while one process serves them.                      *)
CountersAgree ==
  Quiet /\ "cut" \notin since =>
    /\ run.passed = Count(case, {"pass"})
    /\ run.failed = Count(case, {"fail"})
    /\ run.blocked = Count(case, {"blocked", "skip"})
    /\ run.progress = Progress(case)
    /\ Complete(case) /\ "edit" \notin since => run.status = Verdict(case)

(* Whichever processes mark the last cases, at least one of them sees the   *)
(* run complete: once every case has a result, the completion is announced  *)
(* or a request that is under way will announce it.                         *)
CompletionSeen ==
  Complete(case) /\ crashes = 0 =>
    \/ announced # {}
    \/ \E h \in Requests :
         \/ req[h].pc \in {"marked", "read"}
         \/ req[h].pc \in {"counted", "committed"} /\ req[h].complete
         \/ req[h].pc = "complete"

(* ... and in the end it is announced.                                      *)
CompletionAnnounced ==
  Complete(case) /\ crashes = 0 ~> announced # {} \/ crashes > 0

(* A run is recorded, or announced, as passed only if all of its cases have *)
(* a result and none of them failed.  Holds across processes when no case   *)
(* is marked twice, although the counters may then be wrong.                *)
PassMeansNoFailure ==
  "pass" \in {run.status} \cup announced /\ FirstStatus # "pass" /\ Edits = {} =>
    Complete(case) /\ Count(case, {"fail"}) = 0

(* A run all of whose cases have a result, one of them a failure, has       *)
(* failed.  Across processes a request that loaded the pending run writes   *)
(* its "running" over the verdict.                                          *)
AnyFailureFails ==
  Quiet /\ Complete(case) /\ Count(case, {"fail"}) > 0 /\ Edits = {}
    /\ crashes = 0 => run.status = "fail"
=============================================================================
