---------------------------- MODULE PipelineImport ----------------------------
(***************************************************************************)
(* From "Run CI" to the imported results: the dispatch of a provider run   *)
(* (ci_run), the executions of its durable job (_orchestrate for GitHub,   *)
(* _orchestrate_gitlab), the rows of the pipelines page, the reconcile     *)
(* requests that page sends, and the `thorotest run` client that turns a   *)
(* job and its row into an exit code.                                      *)
(*                                                                         *)
(* The queue appears as the life cycle it implements (see CIQueue): a job  *)
(* is taken under a lease, and may be taken again by another worker while  *)
(* the first execution still runs.  A fenced write and the upsert of a row *)
(* are one step each; the gap inside a fenced write is CIQueue's subject.  *)
(***************************************************************************)
EXTENDS Integers, FiniteSets, Sequences

CONSTANTS
    Dispatches,   \* dispatches by number; the provider run that dispatch d
                  \* starts is called d as well, and so is its pipelines row
    Provider,     \* [Dispatches -> {"github", "gitlab"}]
    Uploads,      \* the verdicts of GitHub runs that upload a JUnit artifact
    Workers, NoWorker,
    Reconcilers,  \* POST /pipelines/reconcile requests in flight at a time
    Deletable,    \* the rows that users remove from the pipelines page
    Stalls,       \* a lease may lapse although the execution still runs
    MaxAttempts,  \* bound: executions of one job
    MaxFaults     \* bound: crashes, and provider calls that fail

ASSUME DispatchesAssumption == Dispatches \subseteq Nat \ {0}
ASSUME ProviderAssumption == Provider \in [Dispatches -> {"github", "gitlab"}]
ASSUME DeletableAssumption == Deletable \subseteq Dispatches
ASSUME WorkersAssumption == NoWorker \notin Workers
ASSUME BoundsAssumption == MaxAttempts \in Nat /\ MaxFaults \in Nat

VARIABLES
    job,      \* the durable jobs, as JobLifecycle has them
    word,     \* CIJob.status, which clients read: other words than these two
              \* say that the job is under way
    stage,    \* how far the ci_run request of each dispatch got
    since,    \* CIJob.started_at: the runs created before it are not its own
    created,  \* GitHub runs in the order of their creation
    remote,   \* what the provider says of each run
    tracked,  \* CIJob.external_run_id and pipeline_row_id
    pipe,     \* the pipelines table
    runs,     \* imported Runs, each the provider run it was imported from
    threads,  \* executions of jobs
    recon,    \* reconcile requests
    client,   \* `thorotest run` of each dispatch
    faults

vars == <<job, word, stage, since, created, remote, tracked, pipe, runs, threads,
          recon, client, faults>>

NoRun == 0
Terminal == {"success", "failure", "cancelled"}

ASSUME UploadsAssumption == Uploads \subseteq Terminal

Queue == INSTANCE JobLifecycle WITH Jobs <- Dispatches, SettleOnce <- FALSE

PipeRow == [status : {"none", "running", "pass", "fail"},
            link : Nat, integ : BOOLEAN]
NoRow == [status |-> "none", link |-> 0, integ |-> FALSE]

ThreadPCs ==
  {"find", "announce", "poll", "collect", "import", "record", "report",
   "return"}

Threads == [d : Dispatches, w : Workers, gen : Nat \ {0}, pc : ThreadPCs,
            run : Dispatches \cup {NoRun}, verdict : Terminal \cup {"none"},
            link : Nat]

Requests == [pc : {"idle", "next", "import", "record"},
             todo : SUBSET Dispatches, run : Dispatches \cup {NoRun},
             verdict : Terminal \cup {"none"}, link : Nat, expired : BOOLEAN]

NoRequest == [pc |-> "idle", todo |-> {}, run |-> NoRun, verdict |-> "none",
              link |-> 0, expired |-> FALSE]

TypeOK ==
  /\ job \in [Dispatches ->
       [phase : {"absent", "queued", "processing", "done", "error", "deleted"},
        owner : Workers \cup {NoWorker}, lease : {"null", "live", "expired"},
        attempts : Nat]]
  /\ word \in [Dispatches -> {"working", "done", "error"}]
  /\ stage \in [Dispatches -> {"idle", "requested", "announced", "answered"}]
  /\ since \in [Dispatches -> Nat]
  /\ created \in Seq(Dispatches)
  /\ remote \in [Dispatches -> {"none", "accepted", "running"} \cup Terminal]
  /\ tracked \in [Dispatches -> Dispatches \cup {NoRun}]
  /\ pipe \in [Dispatches -> PipeRow]
  /\ runs \in Seq(Dispatches)
  /\ threads \subseteq Threads
  /\ recon \in [Reconcilers -> Requests]
  /\ client \in [Dispatches -> {"waiting", "seen", "exit0", "exit1", "exit3"}]
  /\ faults \in 0 .. MaxFaults

Init ==
  /\ Queue!Init
  /\ word = [d \in Dispatches |-> "working"]
  /\ stage = [d \in Dispatches |-> "idle"]
  /\ since = [d \in Dispatches |-> 0]
  /\ created = <<>>
  /\ remote = [d \in Dispatches |-> "none"]
  /\ tracked = [d \in Dispatches |-> NoRun]
  /\ pipe = [d \in Dispatches |-> NoRow]
  /\ runs = <<>>
  /\ threads = {}
  /\ recon = [q \in Reconcilers |-> NoRequest]
  /\ client = [d \in Dispatches |-> "waiting"]
  /\ faults = 0

-----------------------------------------------------------------------------
(* _upsert_pipeline: a field that is None is left as it was, and a row that *)
(* is gone is created anew with the fields given.                           *)

Upsert(r, status, link, integ) ==
  pipe' = [pipe EXCEPT ![r] =
    [status |-> status,
     link   |-> IF link = 0 THEN @.link ELSE link,
     integ  |-> @.integ \/ integ]]

RowStatus(verdict) == IF verdict = "success" THEN "pass" ELSE "fail"

(* Faulty variants of the definition that follows, here and below, are used *)
(* to show that the properties can fail: a run that failed or was cancelled *)
(* does not count as finished.                                              *)
FinishedPassed(r) == remote[r] = "success"

Finished(r) == remote[r] \in Terminal

-----------------------------------------------------------------------------
(* ci_run.  GitHub answers a dispatch without naming the run, which appears *)
(* later; GitLab answers with the pipeline, whose row is written before the *)
(* job.  A request may end after any of its steps.                          *)

Request(d) ==
  /\ stage[d] = "idle"
  /\ stage' = [stage EXCEPT ![d] = "requested"]
  /\ since' = [since EXCEPT ![d] = Len(created) + 1]
  /\ remote' = [remote EXCEPT ![d] =
                  IF Provider[d] = "github" THEN "accepted" ELSE "running"]
  /\ UNCHANGED <<job, word, created, tracked, pipe, runs, threads, recon, client,
                 faults>>

AnnounceGitLab(d) ==
  /\ stage[d] = "requested" /\ Provider[d] = "gitlab"
  /\ stage' = [stage EXCEPT ![d] = "announced"]
  /\ Upsert(d, "running", 0, TRUE)
  /\ UNCHANGED <<job, word, since, created, remote, tracked, runs, threads, recon,
                 client, faults>>

Insert(d) ==
  /\ stage[d] = IF Provider[d] = "gitlab" THEN "announced" ELSE "requested"
  /\ stage' = [stage EXCEPT ![d] = "answered"]
  /\ Queue!Submit(d)
  /\ tracked' = [tracked EXCEPT ![d] =
                   IF Provider[d] = "gitlab" THEN d ELSE NoRun]
  /\ UNCHANGED <<word, since, created, remote, pipe, runs, threads, recon,
                 client, faults>>

(* The provider.                                                            *)
Appear(d) ==
  /\ remote[d] = "accepted"
  /\ remote' = [remote EXCEPT ![d] = "running"]
  /\ created' = Append(created, d)
  /\ UNCHANGED <<job, word, stage, since, tracked, pipe, runs, threads, recon,
                 client, faults>>

Complete(d, verdict) ==
  /\ remote[d] = "running"
  /\ remote' = [remote EXCEPT ![d] = verdict]
  /\ UNCHANGED <<job, word, stage, since, created, tracked, pipe, runs, threads,
                 recon, client, faults>>

-----------------------------------------------------------------------------
(* Executions of a job.                                                     *)

(* Every execution starts from the job's row.                               *)
NewThread(d, w) ==
  [d |-> d, w |-> w, gen |-> job[d].attempts + 1, pc |-> "find",
   run |-> NoRun, verdict |-> "none", link |-> 0]

Take(d, w) ==
  /\ job[d].attempts < MaxAttempts
  /\ Queue!Take(d, w)
  /\ threads' = threads \cup {NewThread(d, w)}
  /\ UNCHANGED <<word, stage, since, created, remote, tracked, pipe, runs,
                 recon, client, faults>>

Lapse(d) ==
  /\ Stalls \/ \A t \in threads : t.d # d
  /\ Queue!Lapse(d)
  /\ UNCHANGED <<word, stage, since, created, remote, tracked, pipe, runs, threads,
                 recon, client, faults>>

(* The fence of _update_job.                                                *)
Owns(t) == job[t.d].phase = "processing" /\ job[t.d].owner = t.w

Become(t, u) == threads' = (threads \ {t}) \cup {u}

Says(d, status) == word' = [word EXCEPT ![d] = status]

(* The execution is over: finish_job settles the job if it still has it; if *)
(* nobody supervised the execution any more the job is left as it is.       *)
End(t, verdict) ==
  /\ threads' = threads \ {t}
  /\ \/ Owns(t) /\ Queue!Settle(t.d, verdict) /\ Says(t.d, verdict)
     \/ (Owns(t) => Stalls) /\ UNCHANGED <<job, word>>

(* pick_dispatched_run: the newest run created since the dispatch.          *)
Picked(d) == created[Len(created)]

(* An execution of a GitLab job reads the pipeline from the row ...          *)
ReadPipeline(t) ==
  /\ Provider[t.d] = "gitlab" /\ Owns(t)
  /\ Become(t, [t EXCEPT !.pc = "poll", !.run = tracked[t.d]])
  /\ Says(t.d, "working")
  /\ UNCHANGED <<job, tracked>>

(* ... and one of a GitHub job looks for its run afresh.                    *)
FindRun(t) ==
  /\ Provider[t.d] = "github" /\ Owns(t)
  /\ Len(created) >= since[t.d]
  /\ tracked' = [tracked EXCEPT ![t.d] = Picked(t.d)]
  /\ Become(t, [t EXCEPT !.pc = "announce", !.run = Picked(t.d)])
  /\ Says(t.d, "working")
  /\ UNCHANGED job

Find(t) ==
  /\ t.pc = "find"
  /\ \/ ReadPipeline(t)
     \/ FindRun(t)
     \/ /\ \/ ~ Owns(t)
           \/ Provider[t.d] = "github" /\ Len(created) < since[t.d]
                                              \* FIND_TIMEOUT
        /\ End(t, "error")
        /\ UNCHANGED tracked
  /\ UNCHANGED <<stage, since, created, remote, pipe, runs, recon, client,
                 faults>>

(* The live run on the pipelines page; no fence.                            *)
Announce(t) ==
  /\ t.pc = "announce"
  /\ Upsert(t.run, "running", 0, TRUE)
  /\ Become(t, [t EXCEPT !.pc = "poll"])
  /\ UNCHANGED <<job, word, stage, since, created, remote, tracked, runs, recon,
                 client, faults>>

(* Faulty: after RUN_TIMEOUT the run counts as failed and is collected.     *)
PollAssumesFailure(t) ==
  /\ t.pc = "poll"
  /\ Become(t, [t EXCEPT !.pc = "collect",
       !.verdict = IF Finished(t.run) THEN remote[t.run] ELSE "failure"])
  /\ UNCHANGED <<job, word, stage, since, created, remote, tracked, pipe, runs,
                 recon, client, faults>>

Poll(t) ==
  /\ t.pc = "poll"
  /\ \/ /\ Finished(t.run)
        /\ Become(t, [t EXCEPT !.pc = "collect", !.verdict = remote[t.run]])
        /\ UNCHANGED <<job, word>>
     \/ ~ Finished(t.run) /\ End(t, "error")   \* RUN_TIMEOUT
  /\ UNCHANGED <<stage, since, created, remote, tracked, pipe, runs, recon,
                 client, faults>>

(* Faulty: the job says that it is done before the row has the verdict.     *)
CollectSaysDone(t) ==
  /\ t.pc = "collect"
  /\ IF Owns(t)
       THEN /\ Become(t, [t EXCEPT !.pc = "import"])
            /\ Says(t.d, "done")
            /\ UNCHANGED job
       ELSE End(t, "error")
  /\ UNCHANGED <<stage, since, created, remote, tracked, pipe, runs, recon,
                 client, faults>>

Collect(t) ==
  /\ t.pc = "collect"
  /\ IF Owns(t)
       THEN /\ Become(t, [t EXCEPT !.pc = "import"])
            /\ Says(t.d, "working")
            /\ UNCHANGED job
       ELSE End(t, "error")
  /\ UNCHANGED <<stage, since, created, remote, tracked, pipe, runs, recon,
                 client, faults>>

(* GitHub has results of a run that uploaded them, GitLab has a report of   *)
(* every pipeline.                                                          *)
HasResults(r) == Provider[r] = "gitlab" \/ remote[r] \in Uploads

(* persist_import_result commits a new Run; no fence.                       *)
Import(t) ==
  /\ t.pc = "import"
  /\ IF HasResults(t.run)
       THEN /\ runs' = Append(runs, t.run)
            /\ Become(t, [t EXCEPT !.pc = "record", !.link = Len(runs) + 1])
            /\ UNCHANGED <<job, word>>
       ELSE End(t, "error") /\ UNCHANGED runs
  /\ UNCHANGED <<stage, since, created, remote, tracked, pipe, recon, client,
                 faults>>

Record(t) ==
  /\ t.pc = "record"
  /\ Upsert(t.run, RowStatus(t.verdict), t.link, FALSE)
  /\ Become(t, [t EXCEPT !.pc = "report"])
  /\ UNCHANGED <<job, word, stage, since, created, remote, tracked, runs, recon,
                 client, faults>>

(* The job says that it is done before finish_job settles it.               *)
Report(t) ==
  /\ t.pc = "report"
  /\ IF Owns(t)
       THEN /\ Become(t, [t EXCEPT !.pc = "return"])
            /\ Says(t.d, "done")
            /\ UNCHANGED job
       ELSE End(t, "error")
  /\ UNCHANGED <<stage, since, created, remote, tracked, pipe, runs, recon,
                 client, faults>>

Return(t) ==
  /\ t.pc = "return"
  /\ End(t, "done")
  /\ UNCHANGED <<stage, since, created, remote, tracked, pipe, runs, recon,
                 client, faults>>

ThreadStep(t) ==
  \/ Find(t) \/ Announce(t) \/ Poll(t) \/ Collect(t) \/ Import(t)
  \/ Record(t) \/ Report(t) \/ Return(t)

(* The process of an execution dies, or a call of the execution raises.     *)
Die(t) ==
  /\ faults < MaxFaults
  /\ faults' = faults + 1
  /\ \/ threads' = threads \ {t} /\ UNCHANGED <<job, word>>
     \/ End(t, "error")
  /\ UNCHANGED <<stage, since, created, remote, tracked, pipe, runs, recon,
                 client>>

-----------------------------------------------------------------------------
(* reconcile_running_pipelines: one list of running rows is read, and its   *)
(* rows are then taken one after the other.                                 *)

(* Faulty: rows that have their verdict are queried as well.                *)
DueEveryRow(r) == pipe[r].status # "none" /\ pipe[r].integ

Due(r) == pipe[r].status = "running" /\ pipe[r].integ

Scan(q) ==
  LET due == {r \in Dispatches : Due(r)} IN
  /\ recon[q].pc = "idle"
  /\ due # {}
  /\ recon' = [recon EXCEPT ![q].pc = "next", ![q].todo = due]
  /\ UNCHANGED <<job, word, stage, since, created, remote, tracked, pipe, runs,
                 threads, client, faults>>

Skip(q, r) == [recon[q] EXCEPT !.pc = "next", !.todo = @ \ {r},
                 !.run = NoRun, !.verdict = "none", !.link = 0]

(* A commit of this request expires the rows it has loaded; using one that  *)
(* was deleted meanwhile raises, and so does the warning about it, which    *)
(* names the row: the request ends.                                         *)
Query(q, r) ==
  /\ recon[q].pc = "next" /\ r \in recon[q].todo
  /\ recon' = [recon EXCEPT ![q] =
       IF recon[q].expired /\ pipe[r].status = "none" THEN NoRequest
       ELSE IF Finished(r)
         THEN [@ EXCEPT !.pc = "import", !.run = r, !.verdict = remote[r]]
         ELSE Skip(q, r)]
  /\ UNCHANGED <<job, word, stage, since, created, remote, tracked, pipe, runs,
                 threads, client, faults>>

ReconcileImport(q) ==
  LET r == recon[q].run IN
  /\ recon[q].pc = "import"
  /\ IF HasResults(r)
       THEN /\ runs' = Append(runs, r)
            /\ recon' = [recon EXCEPT ![q] =
                 [@ EXCEPT !.pc = "record", !.link = Len(runs) + 1,
                           !.expired = TRUE]]
       ELSE recon' = [recon EXCEPT ![q] = Skip(q, r)] /\ UNCHANGED runs
  /\ UNCHANGED <<job, word, stage, since, created, remote, tracked, pipe, threads,
                 client, faults>>

ReconcileRecord(q) ==
  LET r == recon[q].run IN
  /\ recon[q].pc = "record"
  /\ IF pipe[r].status = "none"
       THEN recon' = [recon EXCEPT ![q] = NoRequest] /\ UNCHANGED pipe
       ELSE /\ recon' = [recon EXCEPT ![q] = Skip(q, r)]
            /\ Upsert(r, RowStatus(recon[q].verdict), recon[q].link, FALSE)
  /\ UNCHANGED <<job, word, stage, since, created, remote, tracked, runs, threads,
                 client, faults>>

Respond(q) ==
  /\ recon[q].pc = "next" /\ recon[q].todo = {}
  /\ recon' = [recon EXCEPT ![q] = NoRequest]
  /\ UNCHANGED <<job, word, stage, since, created, remote, tracked, pipe, runs,
                 threads, client, faults>>

Reconcile(q) ==
  \/ Scan(q) \/ ReconcileImport(q) \/ ReconcileRecord(q) \/ Respond(q)
  \/ \E r \in recon[q].todo : Query(q, r)

(* The request dies with its process, or one of its provider calls fails.   *)
Abort(q) ==
  /\ faults < MaxFaults
  /\ faults' = faults + 1
  /\ \/ recon[q].pc # "idle" /\ recon' = [recon EXCEPT ![q] = NoRequest]
     \/ \E r \in recon[q].todo :
          recon[q].pc = "next" /\ recon' = [recon EXCEPT ![q] = Skip(q, r)]
     \/ /\ recon[q].pc = "import"
        /\ recon' = [recon EXCEPT ![q] = Skip(q, recon[q].run)]
  /\ UNCHANGED <<job, word, stage, since, created, remote, tracked, pipe, runs,
                 threads, client>>

DeletePipeline(r) ==
  /\ r \in Deletable
  /\ pipe[r].status # "none"
  /\ pipe' = [pipe EXCEPT ![r] = NoRow]
  /\ UNCHANGED <<job, word, stage, since, created, remote, tracked, runs, threads,
                 recon, client, faults>>

-----------------------------------------------------------------------------
(* `thorotest run`: ci_job_status reads the job, then the row's status; any *)
(* status of the row but "fail", or no row at all, is exit code 0.  A job   *)
(* in error, and a client that does not wait any longer, is exit code 3.    *)

PollJob(d) ==
  /\ stage[d] = "answered" /\ client[d] = "waiting"
  /\ client' = [client EXCEPT ![d] =
                  IF word[d] = "done" THEN "seen" ELSE "exit3"]
  /\ UNCHANGED <<job, word, stage, since, created, remote, tracked, pipe, runs,
                 threads, recon, faults>>

ReadRow(d) ==
  /\ client[d] = "seen"
  /\ client' = [client EXCEPT ![d] =
       IF tracked[d] # NoRun /\ pipe[tracked[d]].status = "fail"
         THEN "exit1" ELSE "exit0"]
  /\ UNCHANGED <<job, word, stage, since, created, remote, tracked, pipe, runs,
                 threads, recon, faults>>

-----------------------------------------------------------------------------

Next ==
  \/ \E d \in Dispatches :
       \/ Request(d) \/ AnnounceGitLab(d) \/ Insert(d) \/ Appear(d)
       \/ \E verdict \in Terminal : Complete(d, verdict)
       \/ \E w \in Workers : Take(d, w)
       \/ Lapse(d) \/ DeletePipeline(d) \/ PollJob(d) \/ ReadRow(d)
  \/ \E t \in threads : ThreadStep(t) \/ Die(t)
  \/ \E q \in Reconcilers : Reconcile(q) \/ Abort(q)

Spec == Init /\ [][Next]_vars

(* While a row is running an open pipelines page sends the next reconcile   *)
(* request every five seconds, and a request runs to its end.               *)
FairSpec == Spec /\ \A q \in Reconcilers : WF_vars(Reconcile(q))

-----------------------------------------------------------------------------
(* Properties.                                                              *)

(* A row that says pass or fail says what the provider said of that very    *)
(* run, and expands to results imported from it: whichever executions and   *)
(* reconcile requests raced to write it, and after it was deleted and       *)
(* written again.                                                           *)
SettledRowTellsTruth ==
  \A r \in Dispatches :
     pipe[r].status \in {"pass", "fail"} =>
       /\ remote[r] \in Terminal
       /\ pipe[r].status = RowStatus(remote[r])
       /\ pipe[r].link \in 1 .. Len(runs)
       /\ runs[pipe[r].link] = r

(* The row of a GitLab job that is done, or says so, has its verdict, unless *)
(* a user has removed it: clients read the row once the job says it is done, *)
(* and take a running row for a passed one.  (An execution of a GitHub job   *)
(* that lost its lease may announce the run once more.)                      *)
DoneJobHasVerdict ==
  \A d \in Dispatches \ Deletable :
     Provider[d] = "gitlab" /\ "done" \in {job[d].phase, word[d]} =>
       pipe[tracked[d]].status \in {"pass", "fail"}

(* Exit code 0 of `thorotest run` for a GitLab pipeline whose row nobody     *)
(* removes: the pipeline it dispatched passed and its results were imported; *)
(* exit code 1: it did not, and its results were imported.  The row that is  *)
(* read has the verdict.                                                    *)
ExitCodesTell ==
  /\ DoneJobHasVerdict
  /\ \A d \in Dispatches \ Deletable :
     Provider[d] = "gitlab" =>
       /\ client[d] = "exit0" => remote[d] = "success"
       /\ client[d] = "exit1" => remote[d] \in Terminal \ {"success"}
       /\ client[d] \in {"exit0", "exit1"} =>
            \E i \in 1 .. Len(runs) : runs[i] = d

(* The rows tell the truth, in types and contents: what the pipelines page   *)
(* reads from _upsert_pipeline and the reconcile requests.                   *)
RowsTellTruth == TypeOK /\ SettledRowTellsTruth

(* The run a job tracks is the one its own dispatch started.                *)
TracksOwnRun ==
  \A d \in Dispatches : tracked[d] \in {d, NoRun}

(* Reconciling is idempotent: the results of a provider run are imported    *)
(* into one Run, however often the page asks and whatever rows are deleted  *)
(* under it, unless a request ends between the import and the row.  Holds   *)
(* while one request follows the other.                                     *)
ImportedOnce ==
  faults = 0 => \A i, j \in 1 .. Len(runs) : runs[i] = runs[j] => i = j

(* A row whose provider run has finished does not stay running.  Holds for  *)
(* runs that have results: every reconcile request skips the row of a       *)
(* GitHub run that uploaded none.                                           *)
RowsSelfHeal ==
  \A r \in Dispatches :
     pipe[r].status = "running" /\ remote[r] \in Terminal
       ~> pipe[r].status # "running"
=============================================================================
