------------------------- MODULE PipelineImportProofs -------------------------
(***************************************************************************)
(* Proofs about PipelineImport for all dispatches of both providers, and   *)
(* any number of workers, executions, reconcile requests and faults.       *)
(***************************************************************************)
EXTENDS PipelineImport, SequenceTheorems, TLAPS

(* Run l of the database was imported from provider run r.                  *)
Imported(l, r) == l \in 1 .. Len(runs) /\ runs[l] = r

(* The provider has said the verdict of run r.                              *)
Said(r, verdict) == remote[r] \in Terminal /\ verdict = remote[r]

Settled(r) == pipe[r].status \in {"pass", "fail"}

(* A job exists from the end of its request on, and a GitLab job tracks the *)
(* pipeline of its own dispatch; GitHub's runs are GitHub's.                *)
RequestsOK ==
  /\ \A d \in Dispatches :
       /\ stage[d] # "answered" => /\ job[d].phase = "absent"
                                   /\ client[d] = "waiting"
                                   /\ word[d] = "working"
       /\ stage[d] = "idle" => remote[d] = "none"
       /\ stage[d] # "idle" => since[d] # 0
       /\ stage[d] = "answered" /\ Provider[d] = "gitlab" => tracked[d] = d
       /\ remote[d] = "accepted" => Provider[d] = "github"
  /\ \A i \in 1 .. Len(created) : Provider[created[i]] = "github"

(* What an execution holds: the run it looks after, and once it has got     *)
(* there, the verdict of that run and the results imported from it.         *)
ThreadOK(t) ==
  /\ stage[t.d] = "answered"
  /\ t.pc # "find" => t.run \in Dispatches /\ Provider[t.run] = Provider[t.d]
  /\ Provider[t.d] = "gitlab" /\ t.pc # "find" => t.run = t.d /\ t.pc # "announce"
  /\ t.pc \in {"collect", "import", "record", "report"} => Said(t.run, t.verdict)
  /\ t.pc = "record" => Imported(t.link, t.run)

ThreadsOK == \A t \in threads : ThreadOK(t)

(* ... and a reconcile request.                                             *)
RequestOK(q) ==
  /\ recon[q].pc \in {"import", "record"} =>
       /\ recon[q].run \in Dispatches
       /\ Said(recon[q].run, recon[q].verdict)
  /\ recon[q].pc = "record" => Imported(recon[q].link, recon[q].run)

ReconOK == \A q \in Reconcilers : RequestOK(q)

RowOK(r) ==
  /\ pipe[r].link # 0 => Imported(pipe[r].link, r)
  /\ Settled(r) =>
       /\ pipe[r].link # 0
       /\ remote[r] \in Terminal
       /\ pipe[r].status = RowStatus(remote[r])

RowsOK == \A r \in Dispatches : RowOK(r)

TruthOK == TypeOK /\ RequestsOK /\ ThreadsOK /\ ReconOK /\ RowsOK

(* What a client is told: the row has its verdict before the job is done.   *)
VerdictOK ==
  \A d \in Dispatches \ Deletable :
    Provider[d] = "gitlab" =>
      /\ \A t \in threads :
           t.d = d /\ t.pc \in {"report", "return"} => Settled(d)
      /\ "done" \in {job[d].phase, word[d]} \/ client[d] = "seen" => Settled(d)
      /\ client[d] = "exit0" => remote[d] = "success"
      /\ client[d] = "exit1" => remote[d] \in Terminal \ {"success"}
      /\ client[d] \in {"exit0", "exit1"} =>
           \E l \in 1 .. Len(runs) : Imported(l, d)

(* One request after the other: what has been imported is not looked at     *)
(* again.                                                                   *)
OnceOK ==
  faults = 0 =>
    /\ \A i, j \in 1 .. Len(runs) : runs[i] = runs[j] => i = j
    /\ \A i \in 1 .. Len(runs) :
         /\ stage[runs[i]] \in {"announced", "answered"}
         /\ \/ \E q \in Reconcilers : recon[q].pc = "record" /\ recon[q].run = runs[i]
            \/ /\ pipe[runs[i]].status # "running"
               /\ \A q \in Reconcilers : runs[i] \notin recon[q].todo

IdleOK ==
  /\ threads = {}
  /\ \A q \in Reconcilers :
       /\ recon[q].pc = "idle" => recon[q].todo = {}
       /\ recon[q].pc \in {"import", "record"} => recon[q].run \in recon[q].todo
       /\ \A r \in recon[q].todo : stage[r] \in {"announced", "answered"}
  /\ \A r \in Dispatches :
       pipe[r].status # "none" => stage[r] \in {"announced", "answered"}

-----------------------------------------------------------------------------
(* What a step makes of each variable.                                      *)

LEMMA ThreadFields ==
  ASSUME TypeOK, NEW t \in threads
  PROVE  /\ t \in Threads /\ t.d \in Dispatches /\ t.w \in Workers
         /\ t.pc \in ThreadPCs /\ t.run \in Dispatches \cup {NoRun}
         /\ t.verdict \in Terminal \cup {"none"} /\ t.link \in Nat
         /\ t.gen \in Nat \ {0}
<1>1. t \in Threads
  BY DEF TypeOK
<1> QED
  BY <1>1 DEF Threads

(* The verdict of a run stays.                                              *)
LEMMA RemoteStep ==
  ASSUME TypeOK, RequestsOK, Next
  PROVE  /\ remote' \in [Dispatches -> {"none", "accepted", "running"} \cup Terminal]
         /\ \A r \in Dispatches :
              /\ remote[r] \in Terminal => remote'[r] = remote[r]
              /\ remote'[r] = "accepted" => Provider[r] = "github"
              /\ stage'[r] = "idle" => remote'[r] = "none"
<1> DEFINE Goal == /\ remote' \in [Dispatches -> {"none", "accepted", "running"} \cup Terminal]
                   /\ \A r \in Dispatches :
                        /\ remote[r] \in Terminal => remote'[r] = remote[r]
                        /\ remote'[r] = "accepted" => Provider[r] = "github"
                        /\ stage'[r] = "idle" => remote'[r] = "none"
<1>0. /\ remote \in [Dispatches -> {"none", "accepted", "running"} \cup Terminal]
      /\ stage \in [Dispatches -> {"idle", "requested", "announced", "answered"}]
      /\ \A d \in Dispatches : /\ stage[d] = "idle" => remote[d] = "none"
                               /\ remote[d] = "accepted" => Provider[d] = "github"
  BY DEF TypeOK, RequestsOK
<1>1. ASSUME remote' = remote, stage' = stage PROVE Goal
  BY <1>0, <1>1
<1>2. ASSUME NEW d \in Dispatches, Request(d) PROVE Goal
  BY <1>0, <1>2 DEF Request, Terminal
<1>3. ASSUME NEW d \in Dispatches, AnnounceGitLab(d) \/ Insert(d) PROVE Goal
  BY <1>0, <1>3 DEF AnnounceGitLab, Insert
<1>4. ASSUME NEW d \in Dispatches, Appear(d) PROVE Goal
  BY <1>0, <1>4 DEF Appear, Terminal
<1>5. ASSUME NEW d \in Dispatches, NEW verdict \in Terminal, Complete(d, verdict)
      PROVE  Goal
  BY <1>0, <1>5 DEF Complete, Terminal
<1>6. ASSUME NEW d \in Dispatches,
             \/ \E w \in Workers : Take(d, w)
             \/ Lapse(d) \/ DeletePipeline(d) \/ PollJob(d) \/ ReadRow(d)
      PROVE  remote' = remote /\ stage' = stage
  BY <1>6 DEF Take, Lapse, DeletePipeline, PollJob, ReadRow
<1>7. ASSUME NEW t \in threads, ThreadStep(t) \/ Die(t)
      PROVE  remote' = remote /\ stage' = stage
  BY <1>7 DEF ThreadStep, Find, ReadPipeline, FindRun, Announce, Poll, Collect, Import, Record, Report, Return, Die
<1>8. ASSUME NEW q \in Reconcilers, Reconcile(q) \/ Abort(q)
      PROVE  remote' = remote /\ stage' = stage
  BY <1>8 DEF Reconcile, Scan, Query, ReconcileImport, ReconcileRecord, Respond, Abort
<1> HIDE DEF Goal
<1>9. Goal
  BY <1>1, <1>2, <1>3, <1>4, <1>5, <1>6, <1>7, <1>8 DEF Next
<1> QED
  BY <1>9 DEF Goal

(* Runs are only added.                                                     *)
LEMMA RunsStep ==
  ASSUME TypeOK, ThreadsOK, ReconOK, Next
  PROVE  runs' = runs \/ \E r \in Dispatches : runs' = Append(runs, r)
<1>1. ASSUME NEW d \in Dispatches,
             \/ Request(d) \/ AnnounceGitLab(d) \/ Insert(d) \/ Appear(d)
             \/ \E verdict \in Terminal : Complete(d, verdict)
             \/ \E w \in Workers : Take(d, w)
             \/ Lapse(d) \/ DeletePipeline(d) \/ PollJob(d) \/ ReadRow(d)
      PROVE  runs' = runs
  BY <1>1 DEF Request, AnnounceGitLab, Insert, Appear, Complete, Take, Lapse,
              DeletePipeline, PollJob, ReadRow
<1>2. ASSUME NEW t \in threads, Import(t)
      PROVE  runs' = runs \/ \E r \in Dispatches : runs' = Append(runs, r)
  <2>1. t.run \in Dispatches
    BY <1>2 DEF ThreadsOK, ThreadOK, Import
  <2> QED
    BY <1>2, <2>1 DEF Import
<1>3. ASSUME NEW t \in threads, ThreadStep(t) \/ Die(t), ~ Import(t)
      PROVE  runs' = runs
  BY <1>3 DEF ThreadStep, Find, ReadPipeline, FindRun, Announce, Poll, Collect, Record, Report, Return, Die
<1>4. ASSUME NEW q \in Reconcilers, ReconcileImport(q)
      PROVE  runs' = runs \/ \E r \in Dispatches : runs' = Append(runs, r)
  <2>1. recon[q].run \in Dispatches
    BY <1>4 DEF ReconOK, RequestOK, ReconcileImport
  <2> QED
    BY <1>4, <2>1 DEF ReconcileImport
<1>5. ASSUME NEW q \in Reconcilers, Reconcile(q) \/ Abort(q), ~ ReconcileImport(q)
      PROVE  runs' = runs
  BY <1>5 DEF Reconcile, Scan, Query, ReconcileRecord, Respond, Abort
<1> QED
  BY <1>1, <1>2, <1>3, <1>4, <1>5 DEF Next, ThreadStep

LEMMA Appended ==
  ASSUME NEW S, NEW s \in Seq(S), NEW e \in S
  PROVE  /\ Append(s, e) \in Seq(S) /\ Len(s) \in Nat
         /\ Len(Append(s, e)) = Len(s) + 1
         /\ \A i \in 1 .. Len(s) : Append(s, e)[i] = s[i]
         /\ Append(s, e)[Len(s) + 1] = e
BY AppendProperties, LenProperties

LEMMA RunsType ==
  ASSUME TypeOK, ThreadsOK, ReconOK, Next
  PROVE  runs' \in Seq(Dispatches)
<1>1. runs \in Seq(Dispatches)
  BY DEF TypeOK
<1> QED
  BY <1>1, RunsStep, Appended

LEMMA ImportedKept ==
  ASSUME TypeOK, ThreadsOK, ReconOK, Next, NEW l, NEW r, Imported(l, r)
  PROVE  Imported(l, r)'
<1>1. runs \in Seq(Dispatches) /\ Len(runs) \in Nat
  BY LenProperties DEF TypeOK
<1>2. CASE runs' = runs
  BY <1>2 DEF Imported
<1>3. ASSUME NEW d \in Dispatches, runs' = Append(runs, d)
      PROVE  Imported(l, r)'
  <2>1. Len(runs') = Len(runs) + 1 /\ \A i \in 1 .. Len(runs) : runs'[i] = runs[i]
    BY <1>1, <1>3, Appended
  <2>2. l \in 1 .. Len(runs')
    BY <1>1, <2>1 DEF Imported
  <2> QED
    BY <2>1, <2>2 DEF Imported
<1> QED
  BY <1>2, <1>3, RunsStep

LEMMA JustImported ==
  ASSUME TypeOK, NEW r \in Dispatches, runs' = Append(runs, r)
  PROVE  (\A l : l = Len(runs) + 1 => Imported(l, r)') /\ Len(runs) + 1 \in Nat \ {0}
<1>1. runs \in Seq(Dispatches)
  BY DEF TypeOK
<1>2. /\ Len(runs) \in Nat /\ Len(runs') = Len(runs) + 1
      /\ runs'[Len(runs) + 1] = r
  BY <1>1, Appended
<1>3. \A l : l = Len(runs) + 1 => l \in 1 .. Len(runs') /\ runs'[l] = r
  BY <1>2
<1>4. \A l : l = Len(runs) + 1 => Imported(l, r)'
  BY <1>3 DEF Imported
<1> QED
  BY <1>2, <1>4

Stages == {"idle", "requested", "announced", "answered"}

Jobs == [phase : {"absent", "queued", "processing", "done", "error", "deleted"},
         owner : Workers \cup {NoWorker}, lease : {"null", "live", "expired"},
         attempts : Nat]

StageMoves(d) ==
  \/ stage'[d] = stage[d]
  \/ Request(d) /\ stage'[d] = "requested"
  \/ AnnounceGitLab(d) /\ stage'[d] = "announced"
  \/ Insert(d) /\ stage'[d] = "answered"

LEMMA StageStep ==
  ASSUME TypeOK, Next
  PROVE  /\ stage' \in [Dispatches -> Stages]
         /\ \A d \in Dispatches : StageMoves(d)
<1> DEFINE Goal == /\ stage' \in [Dispatches -> Stages]
                   /\ \A d \in Dispatches : StageMoves(d)
<1>0. stage \in [Dispatches -> Stages]
  BY DEF TypeOK, Stages
<1>1. ASSUME NEW d \in Dispatches, Request(d) \/ AnnounceGitLab(d) \/ Insert(d)
      PROVE  Goal
  BY <1>0, <1>1 DEF Request, AnnounceGitLab, Insert, StageMoves, Stages
<1>2. ASSUME NEW d \in Dispatches,
             \/ Appear(d)
             \/ \E verdict \in Terminal : Complete(d, verdict)
             \/ \E w \in Workers : Take(d, w)
             \/ Lapse(d) \/ DeletePipeline(d) \/ PollJob(d) \/ ReadRow(d)
      PROVE  stage' = stage
  BY <1>2 DEF Appear, Complete, Take, Lapse, DeletePipeline, PollJob, ReadRow
<1>3. ASSUME NEW t \in threads, ThreadStep(t) \/ Die(t) PROVE stage' = stage
  BY <1>3 DEF ThreadStep, Find, ReadPipeline, FindRun, Announce, Poll, Collect, Import, Record, Report, Return, Die
<1>4. ASSUME NEW q \in Reconcilers, Reconcile(q) \/ Abort(q) PROVE stage' = stage
  BY <1>4 DEF Reconcile, Scan, Query, ReconcileImport, ReconcileRecord, Respond, Abort
<1>5. ASSUME stage' = stage PROVE Goal
  BY <1>0, <1>5 DEF StageMoves
<1> QED
  BY <1>1, <1>2, <1>3, <1>4, <1>5 DEF Next

(* The durable job.                                                         *)
JobMoves(d) ==
  \/ job'[d] = job[d]
  \/ Insert(d) /\ job'[d].phase = "queued"
  \/ job'[d].phase = "processing" /\ job[d].phase \in {"queued", "processing"}
  \/ job'[d].phase = "error" /\ job[d].phase = "processing"
  \/ /\ job'[d].phase = "done" /\ job[d].phase = "processing"
     /\ \E t \in threads : t.d = d /\ t.pc = "return"

LEMMA EndJob ==
  ASSUME TypeOK, NEW t \in threads, NEW v \in {"done", "error"}, End(t, v)
  PROVE  /\ job' \in [Dispatches -> Jobs]
         /\ \A d \in Dispatches :
              \/ job'[d] = job[d]
              \/ d = t.d /\ job'[d].phase = v /\ job[d].phase = "processing"
<1>0. job \in [Dispatches -> Jobs] /\ t.d \in Dispatches
  BY ThreadFields DEF TypeOK, Jobs
<1>1. CASE UNCHANGED job
  BY <1>0, <1>1
<1>2. CASE Owns(t) /\ Queue!Settle(t.d, v)
  <2>1. job[t.d].phase = "processing"
    BY <1>2 DEF Owns
  <2>2. job' = [job EXCEPT ![t.d].phase = v, ![t.d].lease = "null"]
    BY <1>2 DEF Queue!Settle
  <2> DEFINE b == [job[t.d] EXCEPT !.phase = v, !.lease = "null"]
  <2>3. b \in Jobs /\ b.phase = v
    BY <1>0 DEF Jobs
  <2>4. job' = [job EXCEPT ![t.d] = b]
    BY <1>0, <2>2
  <2> HIDE DEF b
  <2> QED
    BY <1>0, <2>1, <2>3, <2>4
<1> QED
  BY <1>1, <1>2 DEF End

LEMMA JobStep ==
  ASSUME TypeOK, RequestsOK, ThreadsOK, Next
  PROVE  /\ job' \in [Dispatches -> Jobs]
         /\ \A d \in Dispatches : JobMoves(d)
<1> DEFINE Goal == /\ job' \in [Dispatches -> Jobs]
                   /\ \A d \in Dispatches : JobMoves(d)
<1>0. job \in [Dispatches -> Jobs]
  BY DEF TypeOK, Jobs
<1>1. ASSUME job' = job PROVE Goal
  BY <1>0, <1>1 DEF JobMoves
<1>2. ASSUME NEW d \in Dispatches, Insert(d) PROVE Goal
  <2>1. job' = [job EXCEPT ![d].phase = "queued"]
    BY <1>2 DEF Insert, Queue!Submit
  <2> DEFINE b == [job[d] EXCEPT !.phase = "queued"]
  <2>2. b \in Jobs /\ b.phase = "queued"
    BY <1>0 DEF Jobs
  <2>3. job' = [job EXCEPT ![d] = b]
    BY <1>0, <2>1
  <2> HIDE DEF b
  <2> QED
    BY <1>0, <1>2, <2>2, <2>3 DEF JobMoves
<1>3. ASSUME NEW d \in Dispatches, NEW w \in Workers, Take(d, w) PROVE Goal
  <2> DEFINE b == [phase |-> "processing", owner |-> w, lease |-> "live",
                   attempts |-> job[d].attempts + 1]
  <2>1. job' = [job EXCEPT ![d] = b] /\ job[d].phase \in {"queued", "processing"}
    BY <1>3 DEF Take, Queue!Take
  <2>2. b \in Jobs /\ b.phase = "processing"
    BY <1>0 DEF Jobs
  <2> HIDE DEF b
  <2> QED
    BY <1>0, <2>1, <2>2 DEF JobMoves
<1>4. ASSUME NEW d \in Dispatches, Lapse(d) PROVE Goal
  <2>1. job' = [job EXCEPT ![d].lease = "expired"] /\ job[d].phase = "processing"
    BY <1>4 DEF Lapse, Queue!Lapse
  <2> DEFINE b == [job[d] EXCEPT !.lease = "expired"]
  <2>2. b \in Jobs /\ b.phase = "processing"
    BY <1>0, <2>1 DEF Jobs
  <2>3. job' = [job EXCEPT ![d] = b]
    BY <1>0, <2>1
  <2> HIDE DEF b
  <2> QED
    BY <1>0, <2>1, <2>2, <2>3 DEF JobMoves
<1>5. ASSUME NEW t \in threads, End(t, "error") PROVE Goal
  BY <1>5, EndJob DEF JobMoves
<1>6. ASSUME NEW t \in threads, Return(t) PROVE Goal
  BY <1>6, EndJob DEF JobMoves, Return
<1>7. ASSUME NEW t \in threads, ThreadStep(t) \/ Die(t), ~ Return(t)
      PROVE  job' = job \/ End(t, "error")
  BY <1>7 DEF ThreadStep, Find, ReadPipeline, FindRun, Announce, Poll, Collect,
              Import, Record, Report, Die
<1>8. ASSUME NEW d \in Dispatches,
             \/ Request(d) \/ AnnounceGitLab(d) \/ Appear(d)
             \/ \E verdict \in Terminal : Complete(d, verdict)
             \/ DeletePipeline(d) \/ PollJob(d) \/ ReadRow(d)
      PROVE  job' = job
  BY <1>8 DEF Request, AnnounceGitLab, Appear, Complete, DeletePipeline, PollJob, ReadRow
<1>9. ASSUME NEW q \in Reconcilers, Reconcile(q) \/ Abort(q) PROVE job' = job
  BY <1>9 DEF Reconcile, Scan, Query, ReconcileImport, ReconcileRecord, Respond, Abort
<1> HIDE DEF Goal
<1>10. Goal
  BY <1>1, <1>2, <1>3, <1>4, <1>5, <1>6, <1>7, <1>8, <1>9 DEF Next
<1> QED
  BY <1>10 DEF Goal

(* What the job says.                                                       *)
Words == {"working", "done", "error"}

WordMoves(d) ==
  \/ word'[d] = word[d]
  \/ \E t \in threads :
       t.d = d /\ (word'[d] = "done" => t.pc \in {"report", "return"})

LEMMA WordStep ==
  ASSUME TypeOK, Next
  PROVE  /\ word' \in [Dispatches -> Words]
         /\ \A d \in Dispatches : WordMoves(d)
<1> DEFINE Goal == /\ word' \in [Dispatches -> Words]
                   /\ \A d \in Dispatches : WordMoves(d)
<1>0. word \in [Dispatches -> Words]
  BY DEF TypeOK, Words
<1>1. ASSUME word' = word PROVE Goal
  BY <1>0, <1>1 DEF WordMoves
<1>2. ASSUME NEW t \in threads, NEW s \in Words, Says(t.d, s),
             s = "done" => t.pc \in {"report", "return"}
      PROVE  Goal
  BY <1>0, <1>2 DEF Says, WordMoves
<1>3. ASSUME NEW t \in threads, NEW s \in Words, End(t, s)
      PROVE  Says(t.d, s) \/ word' = word
  BY <1>3 DEF End
<1>4. ASSUME NEW d \in Dispatches,
             \/ Request(d) \/ AnnounceGitLab(d) \/ Insert(d) \/ Appear(d)
             \/ \E verdict \in Terminal : Complete(d, verdict)
             \/ \E w \in Workers : Take(d, w)
             \/ Lapse(d) \/ DeletePipeline(d) \/ PollJob(d) \/ ReadRow(d)
      PROVE  word' = word
  BY <1>4 DEF Request, AnnounceGitLab, Insert, Appear, Complete, Take, Lapse,
              DeletePipeline, PollJob, ReadRow
<1>5. ASSUME NEW q \in Reconcilers, Reconcile(q) \/ Abort(q) PROVE word' = word
  BY <1>5 DEF Reconcile, Scan, Query, ReconcileImport, ReconcileRecord, Respond, Abort
<1>6. ASSUME NEW t \in threads, End(t, "error") PROVE Goal
  BY <1>1, <1>2, <1>3, <1>6 DEF Words
<1>7. ASSUME NEW t \in threads, Return(t) PROVE Goal
  <2>1. t.pc = "return" /\ End(t, "done") /\ "done" \in Words
    BY <1>7 DEF Return, Words
  <2> HIDE DEF Goal
  <2> QED
    BY <1>1, <1>2, <1>3, <2>1
<1>8. ASSUME NEW t \in threads, Report(t) PROVE Goal
  <2>1. /\ t.pc = "report" /\ "done" \in Words
        /\ Says(t.d, "done") \/ End(t, "error")
    BY <1>8 DEF Report, Words
  <2> HIDE DEF Goal
  <2> QED
    BY <1>2, <1>6, <2>1
<1>9. ASSUME NEW t \in threads, ThreadStep(t) \/ Die(t), ~ Return(t), ~ Report(t)
      PROVE  word' = word \/ End(t, "error") \/ Says(t.d, "working")
  BY <1>9 DEF ThreadStep, Find, ReadPipeline, FindRun, Announce, Poll, Collect,
              Import, Record, Die
<1>10. "working" \in Words
  BY DEF Words
<1> HIDE DEF Goal
<1>11. Goal
  BY <1>1, <1>2, <1>4, <1>5, <1>6, <1>7, <1>8, <1>9, <1>10 DEF Next
<1> QED
  BY <1>11 DEF Goal

(* The executions.                                                          *)
Moved(t, u) ==
  /\ u.d = t.d
  /\ \/ /\ t.pc = "find" /\ u.pc = "poll" /\ Provider[t.d] = "gitlab"
        /\ u.run = tracked[t.d]
     \/ /\ t.pc = "find" /\ u.pc = "announce" /\ Provider[t.d] = "github"
        /\ u.run = Picked(t.d) /\ Len(created) >= since[t.d]
     \/ t.pc = "announce" /\ u.pc = "poll" /\ u.run = t.run
     \/ t.pc = "poll" /\ u.pc = "collect" /\ u.run = t.run /\ Said(t.run, u.verdict)
     \/ /\ t.pc = "collect" /\ u.pc = "import"
        /\ u.run = t.run /\ u.verdict = t.verdict
     \/ /\ t.pc = "import" /\ u.pc = "record"
        /\ u.run = t.run /\ u.verdict = t.verdict
        /\ u.link = Len(runs) + 1 /\ runs' = Append(runs, t.run)
     \/ /\ t.pc = "record" /\ u.pc = "report" /\ Record(t)
        /\ u.run = t.run /\ u.verdict = t.verdict
     \/ t.pc = "report" /\ u.pc = "return" /\ u.run = t.run

Fresh(u) == job[u.d].phase \in {"queued", "processing"} /\ u.pc = "find"

ThreadMoves(u) ==
  /\ u \in Threads
  /\ u \in threads \/ Fresh(u) \/ \E t \in threads : Moved(t, u)

LEMMA CreatedFields ==
  ASSUME TypeOK, RequestsOK, NEW t \in threads, ThreadOK(t),
         Len(created) >= since[t.d]
  PROVE  Picked(t.d) \in Dispatches /\ Provider[Picked(t.d)] = "github"
<1>1. t.d \in Dispatches /\ stage[t.d] = "answered"
  BY ThreadFields DEF ThreadOK
<1>2. since[t.d] \in Nat /\ since[t.d] # 0
  BY <1>1 DEF TypeOK, RequestsOK
<1>3. created \in Seq(Dispatches) /\ Len(created) \in Nat
  BY LenProperties DEF TypeOK
<1>4. Len(created) \in 1 .. Len(created)
  BY <1>2, <1>3
<1> QED
  BY <1>3, <1>4, ElementOfSeq DEF RequestsOK, Picked

LEMMA MovedThread ==
  ASSUME TypeOK, RequestsOK, NEW t \in threads, ThreadOK(t), NEW u,
         ThreadStep(t), threads' = (threads \ {t}) \cup {u},
         \/ Find(t) /\ ReadPipeline(t) /\ u = [t EXCEPT !.pc = "poll", !.run = tracked[t.d]]
         \/ /\ Find(t) /\ FindRun(t)
            /\ u = [t EXCEPT !.pc = "announce", !.run = Picked(t.d)]
         \/ Announce(t) /\ u = [t EXCEPT !.pc = "poll"]
         \/ /\ Poll(t) /\ Finished(t.run)
            /\ u = [t EXCEPT !.pc = "collect", !.verdict = remote[t.run]]
         \/ Collect(t) /\ u = [t EXCEPT !.pc = "import"]
         \/ /\ Import(t) /\ u = [t EXCEPT !.pc = "record", !.link = Len(runs) + 1]
            /\ runs' = Append(runs, t.run)
         \/ Record(t) /\ u = [t EXCEPT !.pc = "report"]
         \/ Report(t) /\ u = [t EXCEPT !.pc = "return"]
  PROVE  \A x \in threads' : ThreadMoves(x)
<1>0. /\ t \in Threads /\ t.d \in Dispatches /\ t.pc \in ThreadPCs
      /\ t.run \in Dispatches \cup {NoRun} /\ t.link \in Nat
      /\ t.verdict \in Terminal \cup {"none"} /\ threads \subseteq Threads
      /\ Len(runs) \in Nat
  BY ThreadFields, LenProperties DEF TypeOK
<1>1. CASE Find(t) /\ FindRun(t)
           /\ u = [t EXCEPT !.pc = "announce", !.run = Picked(t.d)]
  <2>0. Len(created) >= since[t.d] /\ Provider[t.d] = "github" /\ t.pc = "find"
    BY <1>1 DEF FindRun, Find
  <2>1. Picked(t.d) \in Dispatches
    BY <2>0, CreatedFields
  <2>2. u \in Threads /\ Moved(t, u)
    <3> HIDE DEF Picked
    <3> QED
      BY <1>0, <1>1, <2>0, <2>1 DEF Threads, ThreadPCs, Moved
  <2> QED
    BY <1>0, <2>2 DEF ThreadMoves
<1>2. CASE Announce(t) /\ u = [t EXCEPT !.pc = "poll"]
  <2>1. u \in Threads /\ Moved(t, u)
    BY <1>0, <1>2 DEF Threads, ThreadPCs, Moved, Announce
  <2> QED
    BY <1>0, <2>1 DEF ThreadMoves
<1>3. CASE Poll(t) /\ Finished(t.run)
           /\ u = [t EXCEPT !.pc = "collect", !.verdict = remote[t.run]]
  <2>1. u \in Threads /\ Moved(t, u)
    BY <1>0, <1>3 DEF Threads, ThreadPCs, Moved, Poll, Finished, Said
  <2> QED
    BY <1>0, <2>1 DEF ThreadMoves
<1>4. CASE Collect(t) /\ u = [t EXCEPT !.pc = "import"]
  <2>1. u \in Threads /\ Moved(t, u)
    BY <1>0, <1>4 DEF Threads, ThreadPCs, Moved, Collect
  <2> QED
    BY <1>0, <2>1 DEF ThreadMoves
<1>5. CASE Import(t) /\ u = [t EXCEPT !.pc = "record", !.link = Len(runs) + 1]
           /\ runs' = Append(runs, t.run)
  <2> DEFINE n == Len(runs) + 1
  <2>0. n \in Nat /\ u = [t EXCEPT !.pc = "record", !.link = n] /\ t.pc = "import"
    BY <1>0, <1>5 DEF Import
  <2> HIDE DEF n
  <2>a. /\ u \in Threads /\ u.d = t.d /\ u.pc = "record" /\ u.link = n
        /\ u.run = t.run /\ u.verdict = t.verdict
    BY <1>0, <2>0 DEF Threads, ThreadPCs
  <2>1. u \in Threads /\ Moved(t, u)
    BY <1>5, <2>0, <2>a DEF Moved, n
  <2> QED
    BY <1>0, <2>1 DEF ThreadMoves
<1>6. CASE Record(t) /\ u = [t EXCEPT !.pc = "report"]
  <2>1. u \in Threads /\ u.d = t.d /\ u.pc = "report" /\ u.run = t.run
        /\ u.verdict = t.verdict
    BY <1>0, <1>6 DEF Threads, ThreadPCs
  <2>2. t.pc = "record"
    BY <1>6 DEF Record
  <2>3. Moved(t, u)
    BY <1>6, <2>1, <2>2 DEF Moved
  <2> QED
    BY <1>0, <2>1, <2>3 DEF ThreadMoves
<1>7. CASE Report(t) /\ u = [t EXCEPT !.pc = "return"]
  <2>1. u \in Threads /\ Moved(t, u)
    BY <1>0, <1>7 DEF Threads, ThreadPCs, Moved, Report
  <2> QED
    BY <1>0, <2>1 DEF ThreadMoves
<1>8. CASE Find(t) /\ ReadPipeline(t)
           /\ u = [t EXCEPT !.pc = "poll", !.run = tracked[t.d]]
  <2>0. Provider[t.d] = "gitlab" /\ t.pc = "find"
    BY <1>8 DEF ReadPipeline, Find
  <2>1. tracked[t.d] \in Dispatches \cup {NoRun}
    BY <1>0 DEF TypeOK
  <2>2. u \in Threads /\ Moved(t, u)
    BY <1>0, <1>8, <2>0, <2>1 DEF Threads, ThreadPCs, Moved
  <2> QED
    BY <1>0, <2>2 DEF ThreadMoves
<1> QED
  BY <1>1, <1>2, <1>3, <1>4, <1>5, <1>6, <1>7, <1>8

LEMMA ThreadsStep ==
  ASSUME TypeOK, RequestsOK, ThreadsOK, Next
  PROVE  \A u \in threads' : ThreadMoves(u)
<1> DEFINE Goal == \A u \in threads' : ThreadMoves(u)
<1>0. threads \subseteq Threads
  BY DEF TypeOK
<1>1. ASSUME threads' \subseteq threads PROVE Goal
  BY <1>0, <1>1 DEF ThreadMoves
<1>2. ASSUME NEW d \in Dispatches,
             \/ Request(d) \/ AnnounceGitLab(d) \/ Insert(d) \/ Appear(d)
             \/ \E verdict \in Terminal : Complete(d, verdict)
             \/ Lapse(d) \/ DeletePipeline(d) \/ PollJob(d) \/ ReadRow(d)
      PROVE  threads' \subseteq threads
  BY <1>2 DEF Request, AnnounceGitLab, Insert, Appear, Complete, Lapse,
              DeletePipeline, PollJob, ReadRow
<1>3. ASSUME NEW q \in Reconcilers, Reconcile(q) \/ Abort(q)
      PROVE  threads' \subseteq threads
  BY <1>3 DEF Reconcile, Scan, Query, ReconcileImport, ReconcileRecord, Respond, Abort
<1>4. ASSUME NEW d \in Dispatches, NEW w \in Workers, Take(d, w) PROVE Goal
  <2> DEFINE u == NewThread(d, w)
  <2>1. threads' = threads \cup {u} /\ job[d].phase \in {"queued", "processing"}
    BY <1>4 DEF Take, Queue!Take
  <2>2. job[d].attempts + 1 \in Nat \ {0}
    <3>1. job \in [Dispatches -> Jobs]
      BY DEF TypeOK, Jobs
    <3> QED
      BY <3>1 DEF Jobs
  <2>3. u \in Threads /\ u.d = d /\ u.pc = "find"
    BY <2>2 DEF NewThread, Threads, ThreadPCs
  <2> HIDE DEF u
  <2>4. ThreadMoves(u)
    BY <2>1, <2>3 DEF ThreadMoves, Fresh
  <2> QED
    BY <1>0, <2>1, <2>4 DEF ThreadMoves
<1>5. ASSUME NEW t \in threads, NEW v, End(t, v) PROVE threads' \subseteq threads
  BY <1>5 DEF End
<1>6. ASSUME NEW t \in threads, Die(t) PROVE threads' \subseteq threads
  BY <1>6 DEF Die, End
<1>7. ASSUME NEW t \in threads, ThreadStep(t) PROVE Goal
  <2>0. ThreadOK(t)
    BY DEF ThreadsOK
  <2>1. CASE Find(t)
    <3>1. CASE FindRun(t)
      <4>1. threads' = (threads \ {t}) \cup
                         {[t EXCEPT !.pc = "announce", !.run = Picked(t.d)]}
        BY <3>1 DEF FindRun, Become
      <4> QED
        BY <1>7, <2>0, <2>1, <3>1, <4>1, MovedThread
    <3>2. CASE ReadPipeline(t)
      <4>1. threads' = (threads \ {t}) \cup
                         {[t EXCEPT !.pc = "poll", !.run = tracked[t.d]]}
        BY <3>2 DEF ReadPipeline, Become
      <4> QED
        BY <1>7, <2>0, <2>1, <3>2, <4>1, MovedThread
    <3> QED
      BY <1>1, <1>5, <2>1, <3>1, <3>2 DEF Find
  <2>2. CASE Announce(t)
    <3>1. threads' = (threads \ {t}) \cup {[t EXCEPT !.pc = "poll"]}
      BY <2>2 DEF Announce, Become
    <3> QED
      BY <1>7, <2>0, <2>2, <3>1, MovedThread
  <2>3. CASE Poll(t)
    <3>1. CASE /\ Finished(t.run)
               /\ Become(t, [t EXCEPT !.pc = "collect", !.verdict = remote[t.run]])
      BY <1>7, <2>0, <2>3, <3>1, MovedThread DEF Become
    <3> QED
      BY <1>1, <1>5, <2>3, <3>1 DEF Poll
  <2>4. CASE Collect(t)
    <3>1. CASE Become(t, [t EXCEPT !.pc = "import"])
      BY <1>7, <2>0, <2>4, <3>1, MovedThread DEF Become
    <3> QED
      BY <1>1, <1>5, <2>4, <3>1 DEF Collect
  <2>5. CASE Import(t)
    <3>1. CASE /\ runs' = Append(runs, t.run)
               /\ Become(t, [t EXCEPT !.pc = "record", !.link = Len(runs) + 1])
      BY <1>7, <2>0, <2>5, <3>1, MovedThread DEF Become
    <3> QED
      BY <1>1, <1>5, <2>5, <3>1 DEF Import
  <2>6. CASE Record(t)
    <3>1. threads' = (threads \ {t}) \cup {[t EXCEPT !.pc = "report"]}
      BY <2>6 DEF Record, Become
    <3> QED
      BY <1>7, <2>0, <2>6, <3>1, MovedThread
  <2>7. CASE Report(t)
    <3>1. CASE Become(t, [t EXCEPT !.pc = "return"])
      BY <1>7, <2>0, <2>7, <3>1, MovedThread DEF Become
    <3> QED
      BY <1>1, <1>5, <2>7, <3>1 DEF Report
  <2>8. CASE Return(t)
    BY <1>1, <1>5, <2>8 DEF Return
  <2> HIDE DEF Goal
  <2> QED
    BY <1>7, <2>1, <2>2, <2>3, <2>4, <2>5, <2>6, <2>7, <2>8 DEF ThreadStep
<1> HIDE DEF Goal
<1>8. Goal
  BY <1>1, <1>2, <1>3, <1>4, <1>6, <1>7 DEF Next
<1> QED
  BY <1>8 DEF Goal

(* What ci_run and GitHub keep of the dispatches.                           *)
LEMMA RequestsStep ==
  ASSUME TypeOK, RequestsOK, ThreadsOK, Next
  PROVE  /\ since' \in [Dispatches -> Nat] /\ created' \in Seq(Dispatches)
         /\ tracked' \in [Dispatches -> Dispatches \cup {NoRun}]
         /\ \A d \in Dispatches :
              /\ since'[d] = since[d] \/ since'[d] # 0
              /\ Request(d) => since'[d] # 0
              /\ \/ tracked'[d] = tracked[d]
                 \/ Insert(d)
                 \/ Provider[d] # "gitlab"
              /\ Insert(d) /\ Provider[d] = "gitlab" => tracked'[d] = d
         /\ \/ created' = created
            \/ \E d \in Dispatches : /\ created' = Append(created, d)
                                     /\ Provider[d] = "github"
<1> DEFINE Goal ==
      /\ since' \in [Dispatches -> Nat] /\ created' \in Seq(Dispatches)
      /\ tracked' \in [Dispatches -> Dispatches \cup {NoRun}]
      /\ \A d \in Dispatches :
           /\ since'[d] = since[d] \/ since'[d] # 0
           /\ Request(d) => since'[d] # 0
           /\ \/ tracked'[d] = tracked[d]
              \/ Insert(d)
              \/ Provider[d] # "gitlab"
           /\ Insert(d) /\ Provider[d] = "gitlab" => tracked'[d] = d
      /\ \/ created' = created
         \/ \E d \in Dispatches : /\ created' = Append(created, d)
                                  /\ Provider[d] = "github"
<1>0. /\ since \in [Dispatches -> Nat] /\ created \in Seq(Dispatches)
      /\ tracked \in [Dispatches -> Dispatches \cup {NoRun}] /\ Len(created) \in Nat
  BY LenProperties DEF TypeOK
<1>a. \A d \in Dispatches :
        /\ Request(d) => since' = [since EXCEPT ![d] = Len(created) + 1]
        /\ Insert(d) => tracked' = [tracked EXCEPT ![d] =
                                      IF Provider[d] = "gitlab" THEN d ELSE NoRun]
  BY DEF Request, Insert
<1>1. ASSUME since' = since, tracked' = tracked, created' = created PROVE Goal
  BY <1>0, <1>1, <1>a
<1>2. ASSUME NEW d \in Dispatches, Request(d) PROVE Goal
  <2>1. tracked' = tracked /\ created' = created
    BY <1>2 DEF Request
  <2> QED
    BY <1>0, <1>2, <1>a, <2>1
<1>3. ASSUME NEW d \in Dispatches, Insert(d) PROVE Goal
  <2>1. since' = since /\ created' = created
    BY <1>3 DEF Insert
  <2> QED
    BY <1>0, <1>3, <1>a, <2>1
<1>4. ASSUME NEW d \in Dispatches, Appear(d) PROVE Goal
  <2>1. since' = since /\ tracked' = tracked /\ created' = Append(created, d)
        /\ remote[d] = "accepted"
    BY <1>4 DEF Appear
  <2>2. Provider[d] = "github"
    BY <2>1 DEF RequestsOK
  <2>3. created' \in Seq(Dispatches)
    BY <1>0, <2>1, Appended
  <2> QED
    BY <1>0, <1>a, <2>1, <2>2, <2>3
<1>5. ASSUME NEW d \in Dispatches,
             \/ AnnounceGitLab(d)
             \/ \E verdict \in Terminal : Complete(d, verdict)
             \/ \E w \in Workers : Take(d, w)
             \/ Lapse(d) \/ DeletePipeline(d) \/ PollJob(d) \/ ReadRow(d)
      PROVE  since' = since /\ tracked' = tracked /\ created' = created
  BY <1>5 DEF AnnounceGitLab, Complete, Take, Lapse, DeletePipeline, PollJob, ReadRow
<1>6. ASSUME NEW t \in threads, Find(t) PROVE Goal
  <2>0. ThreadOK(t) /\ since' = since /\ created' = created /\ t.d \in Dispatches
    BY <1>6, ThreadFields DEF ThreadsOK, Find
  <2>2. CASE FindRun(t)
    <3>0. /\ Len(created) >= since[t.d] /\ Provider[t.d] # "gitlab"
          /\ tracked' = [tracked EXCEPT ![t.d] = Picked(t.d)]
      BY <2>2 DEF FindRun
    <3>1. Picked(t.d) \in Dispatches
      BY <2>0, <3>0, CreatedFields
    <3> HIDE DEF Picked
    <3>2. /\ tracked' \in [Dispatches -> Dispatches \cup {NoRun}]
          /\ \A d \in Dispatches : /\ tracked'[d] = tracked[d] \/ d = t.d
                                   /\ Insert(d) /\ Provider[d] = "gitlab" => tracked'[d] = d
      BY <1>0, <1>a, <2>0, <3>0, <3>1
    <3>3. \A d \in Dispatches : Request(d) => since'[d] # 0
      BY <1>0, <1>a
    <3>4. since' \in [Dispatches -> Nat] /\ created' \in Seq(Dispatches)
      BY <1>0, <2>0
    <3>5. since' = since /\ created' = created
      BY <2>0
    <3>6. \A d \in Dispatches : tracked'[d] = tracked[d] \/ Provider[d] # "gitlab"
      BY <3>0, <3>2
    <3>7. ASSUME NEW d \in Dispatches
          PROVE  /\ since'[d] = since[d] \/ since'[d] # 0
                 /\ Request(d) => since'[d] # 0
                 /\ \/ tracked'[d] = tracked[d]
                    \/ Insert(d)
                    \/ Provider[d] # "gitlab"
                 /\ Insert(d) /\ Provider[d] = "gitlab" => tracked'[d] = d
      BY <3>2, <3>3, <3>5, <3>6
    <3> QED
      BY <3>2, <3>4, <3>5, <3>7
  <2> HIDE DEF Goal
  <2> QED
    BY <1>1, <1>6, <2>0, <2>2 DEF Find, ReadPipeline
<1>7. ASSUME NEW t \in threads, ThreadStep(t) \/ Die(t), ~ Find(t)
      PROVE  since' = since /\ tracked' = tracked /\ created' = created
  BY <1>7 DEF ThreadStep, Announce, Poll, Collect, Import, Record, Report, Return, Die
<1>8. ASSUME NEW q \in Reconcilers, Reconcile(q) \/ Abort(q)
      PROVE  since' = since /\ tracked' = tracked /\ created' = created
  BY <1>8 DEF Reconcile, Scan, Query, ReconcileImport, ReconcileRecord, Respond, Abort
<1> HIDE DEF Goal
<1>9. Goal
  BY <1>1, <1>2, <1>3, <1>4, <1>5, <1>6, <1>7, <1>8 DEF Next
<1> QED
  BY <1>9 DEF Goal

(* The reconcile requests.                                                  *)
LEMMA ReconFields ==
  ASSUME TypeOK, NEW q \in Reconcilers
  PROVE  /\ recon[q] \in Requests /\ recon[q].todo \in SUBSET Dispatches
         /\ recon[q].run \in Dispatches \cup {NoRun} /\ recon[q].link \in Nat
         /\ recon[q].verdict \in Terminal \cup {"none"}
         /\ recon[q].expired \in BOOLEAN
         /\ recon[q].pc \in {"idle", "next", "import", "record"}
<1>1. recon[q] \in Requests
  BY DEF TypeOK
<1> QED
  BY <1>1 DEF Requests

LEMMA SkipFields ==
  ASSUME TypeOK, NEW q \in Reconcilers, NEW r
  PROVE  /\ Skip(q, r) \in Requests /\ Skip(q, r).pc = "next"
         /\ Skip(q, r).todo = recon[q].todo \ {r}
<1>1. recon[q] \in Requests /\ recon[q].todo \ {r} \in SUBSET Dispatches
  BY ReconFields
<1> DEFINE todo == recon[q].todo \ {r}
<1>2. Skip(q, r) = [recon[q] EXCEPT !.pc = "next", !.todo = todo,
                      !.run = NoRun, !.verdict = "none", !.link = 0]
  BY DEF Skip
<1>3. todo \in SUBSET Dispatches /\ recon[q].expired \in BOOLEAN
  BY <1>1, ReconFields
<1> HIDE DEF todo
<1> DEFINE b == [pc |-> "next", todo |-> todo, run |-> NoRun, verdict |-> "none",
                 link |-> 0, expired |-> recon[q].expired]
<1>4. Skip(q, r) = b
  BY <1>1, <1>2 DEF Requests
<1>5. b \in Requests /\ b.pc = "next" /\ b.todo = todo
  BY <1>3 DEF Requests
<1> QED
  BY <1>4, <1>5 DEF todo

LEMMA NoRequestFields ==
  NoRequest \in Requests /\ NoRequest.pc = "idle" /\ NoRequest.todo = {}
BY DEF NoRequest, Requests

ReconMoves(q) ==
  \/ recon'[q] = recon[q]
  \/ recon'[q].pc = "idle" /\ recon'[q].todo = {}
  \/ /\ recon'[q].pc = "next" /\ recon[q].pc = "idle"
     /\ recon'[q].todo = {r \in Dispatches : Due(r)}
  \/ /\ recon'[q].pc = "next" /\ recon[q].pc \in {"next", "import", "record"}
     /\ \E r : /\ recon'[q].todo = recon[q].todo \ {r}
               /\ recon[q].pc # "next" => r = recon[q].run
     /\ recon[q].pc = "record" => ReconcileRecord(q)
  \/ /\ recon'[q].pc = "import" /\ recon[q].pc = "next"
     /\ recon'[q].todo = recon[q].todo
     /\ recon'[q].run \in recon[q].todo
     /\ Said(recon'[q].run, recon'[q].verdict)
  \/ /\ recon'[q].pc = "record" /\ recon[q].pc = "import"
     /\ recon'[q].todo = recon[q].todo
     /\ recon'[q].run = recon[q].run /\ recon'[q].verdict = recon[q].verdict
     /\ recon'[q].link = Len(runs) + 1 /\ runs' = Append(runs, recon[q].run)

LEMMA OneRequest ==
  ASSUME TypeOK, NEW q \in Reconcilers, NEW b \in Requests,
         recon' = [recon EXCEPT ![q] = b]
  PROVE  /\ recon' \in [Reconcilers -> Requests] /\ recon'[q] = b
         /\ \A p \in Reconcilers : p # q => recon'[p] = recon[p]
BY DEF TypeOK

LEMMA ReconStep ==
  ASSUME TypeOK, Next
  PROVE  /\ recon' \in [Reconcilers -> Requests]
         /\ \A q \in Reconcilers : ReconMoves(q)
<1> DEFINE Goal == /\ recon' \in [Reconcilers -> Requests]
                   /\ \A q \in Reconcilers : ReconMoves(q)
<1>0. recon \in [Reconcilers -> Requests]
  BY DEF TypeOK
<1>1. ASSUME recon' = recon PROVE Goal
  BY <1>0, <1>1 DEF ReconMoves
<1>2. ASSUME NEW d \in Dispatches,
             \/ Request(d) \/ AnnounceGitLab(d) \/ Insert(d) \/ Appear(d)
             \/ \E verdict \in Terminal : Complete(d, verdict)
             \/ \E w \in Workers : Take(d, w)
             \/ Lapse(d) \/ DeletePipeline(d) \/ PollJob(d) \/ ReadRow(d)
      PROVE  recon' = recon
  BY <1>2 DEF Request, AnnounceGitLab, Insert, Appear, Complete, Take, Lapse,
              DeletePipeline, PollJob, ReadRow
<1>3. ASSUME NEW t \in threads, ThreadStep(t) \/ Die(t) PROVE recon' = recon
  BY <1>3 DEF ThreadStep, Find, ReadPipeline, FindRun, Announce, Poll, Collect, Import, Record, Report, Return, Die
<1>4. ASSUME NEW q \in Reconcilers, recon' = [recon EXCEPT ![q] = NoRequest]
      PROVE  Goal
  BY <1>4, OneRequest, NoRequestFields DEF ReconMoves
<1>5. ASSUME NEW q \in Reconcilers, NEW r, recon' = [recon EXCEPT ![q] = Skip(q, r)],
             recon[q].pc \in {"next", "import", "record"},
             recon[q].pc # "next" => r = recon[q].run,
             recon[q].pc = "record" => ReconcileRecord(q)
      PROVE  Goal
  <2>1. /\ Skip(q, r) \in Requests /\ Skip(q, r).pc = "next"
        /\ Skip(q, r).todo = recon[q].todo \ {r}
    BY SkipFields
  <2>2. /\ recon' \in [Reconcilers -> Requests] /\ recon'[q] = Skip(q, r)
        /\ \A p \in Reconcilers : p # q => recon'[p] = recon[p]
    BY <1>5, <2>1, OneRequest
  <2> QED
    BY <1>5, <2>1, <2>2 DEF ReconMoves
<1>6. ASSUME NEW q \in Reconcilers, Scan(q) PROVE Goal
  <2> DEFINE due == {r \in Dispatches : Due(r)}
             b == [recon[q] EXCEPT !.pc = "next", !.todo = due]
  <2>1. recon' = [recon EXCEPT ![q] = b] /\ recon[q].pc = "idle"
    BY <1>0, <1>6 DEF Scan
  <2>2. due \in SUBSET Dispatches /\ recon[q] \in Requests
    BY <1>0
  <2> HIDE DEF due
  <2>3. b \in Requests /\ b.pc = "next" /\ b.todo = due
    BY <2>2 DEF Requests
  <2> HIDE DEF b
  <2>4. /\ recon' \in [Reconcilers -> Requests] /\ recon'[q] = b
        /\ \A p \in Reconcilers : p # q => recon'[p] = recon[p]
    BY <2>1, <2>3, OneRequest
  <2> QED
    BY <2>1, <2>3, <2>4 DEF ReconMoves, due
<1>7. ASSUME NEW q \in Reconcilers, NEW r \in recon[q].todo, Query(q, r) PROVE Goal
  <2>0. recon[q] \in Requests /\ r \in Dispatches /\ recon[q].pc = "next"
    BY <1>7, ReconFields DEF Query
  <2>1. CASE recon[q].expired /\ pipe[r].status = "none"
    BY <1>4, <1>7, <2>1 DEF Query
  <2>2. CASE ~ (recon[q].expired /\ pipe[r].status = "none") /\ ~ Finished(r)
    <3>1. recon' = [recon EXCEPT ![q] = Skip(q, r)]
      BY <1>7, <2>2 DEF Query
    <3> QED
      BY <1>5, <2>0, <3>1
  <2>3. CASE ~ (recon[q].expired /\ pipe[r].status = "none") /\ Finished(r)
    <3> DEFINE b == [recon[q] EXCEPT !.pc = "import", !.run = r, !.verdict = remote[r]]
    <3>1. recon' = [recon EXCEPT ![q] = b]
      BY <1>0, <1>7, <2>3 DEF Query
    <3>2. /\ b \in Requests /\ b.pc = "import" /\ b.run = r
          /\ b.todo = recon[q].todo /\ Said(b.run, b.verdict)
      BY <2>0, <2>3 DEF Requests, Finished, Said
    <3> HIDE DEF b
    <3>3. /\ recon' \in [Reconcilers -> Requests] /\ recon'[q] = b
          /\ \A p \in Reconcilers : p # q => recon'[p] = recon[p]
      BY <3>1, <3>2, OneRequest
    <3> QED
      BY <2>0, <3>2, <3>3 DEF ReconMoves
  <2> QED
    BY <2>1, <2>2, <2>3
<1>8. ASSUME NEW q \in Reconcilers, ReconcileImport(q) PROVE Goal
  <2>0. recon[q] \in Requests /\ recon[q].pc = "import" /\ Len(runs) \in Nat
    BY <1>8, ReconFields, LenProperties DEF ReconcileImport, TypeOK
  <2>1. CASE ~ HasResults(recon[q].run)
    <3>1. recon' = [recon EXCEPT ![q] = Skip(q, recon[q].run)]
      BY <1>8, <2>1 DEF ReconcileImport
    <3> QED
      BY <1>5, <2>0, <3>1
  <2>2. CASE HasResults(recon[q].run)
    <3> DEFINE n == Len(runs) + 1
               b == [recon[q] EXCEPT !.pc = "record", !.link = n, !.expired = TRUE]
    <3>1. recon' = [recon EXCEPT ![q] = b] /\ runs' = Append(runs, recon[q].run)
      BY <1>0, <1>8, <2>2 DEF ReconcileImport
    <3>2. n \in Nat
      BY <2>0
    <3> HIDE DEF n
    <3>3. /\ b \in Requests /\ b.pc = "record" /\ b.run = recon[q].run
          /\ b.todo = recon[q].todo /\ b.verdict = recon[q].verdict /\ b.link = n
      BY <2>0, <3>2 DEF Requests
    <3> HIDE DEF b
    <3>4. /\ recon' \in [Reconcilers -> Requests] /\ recon'[q] = b
          /\ \A p \in Reconcilers : p # q => recon'[p] = recon[p]
      BY <3>1, <3>3, OneRequest
    <3> QED
      BY <2>0, <3>1, <3>3, <3>4 DEF ReconMoves, n
  <2> QED
    BY <2>1, <2>2
<1>9. ASSUME NEW q \in Reconcilers, ReconcileRecord(q) PROVE Goal
  <2>1. \/ recon' = [recon EXCEPT ![q] = NoRequest]
        \/ recon' = [recon EXCEPT ![q] = Skip(q, recon[q].run)]
    BY <1>9 DEF ReconcileRecord
  <2>2. recon[q].pc = "record"
    BY <1>9 DEF ReconcileRecord
  <2> HIDE DEF Goal
  <2> QED
    BY <1>4, <1>5, <1>9, <2>1, <2>2
<1>10. ASSUME NEW q \in Reconcilers, Respond(q) PROVE Goal
  BY <1>4, <1>10 DEF Respond
<1>11. ASSUME NEW q \in Reconcilers, Abort(q) PROVE Goal
  <2>1. CASE recon[q].pc # "idle" /\ recon' = [recon EXCEPT ![q] = NoRequest]
    BY <1>4, <2>1
  <2>2. CASE \E r \in recon[q].todo :
               recon[q].pc = "next" /\ recon' = [recon EXCEPT ![q] = Skip(q, r)]
    BY <1>5, <2>2
  <2>3. CASE /\ recon[q].pc = "import"
             /\ recon' = [recon EXCEPT ![q] = Skip(q, recon[q].run)]
    BY <1>5, <2>3
  <2> QED
    BY <1>11, <2>1, <2>2, <2>3 DEF Abort
<1> HIDE DEF Goal
<1>12. Goal
  BY <1>1, <1>2, <1>3, <1>6, <1>7, <1>8, <1>9, <1>10, <1>11 DEF Next, Reconcile
<1> QED
  BY <1>12 DEF Goal

(* The rows.                                                                *)
Recorded(r) ==
  \E verdict, link : /\ pipe'[r].status = RowStatus(verdict)
                     /\ pipe'[r].link = link
                     /\ Said(r, verdict) /\ Imported(link, r)

PipeMoves(r) ==
  \/ pipe'[r] = pipe[r]
  \/ pipe'[r] = NoRow /\ r \in Deletable
  \/ /\ pipe'[r].status = "running" /\ pipe'[r].link = pipe[r].link
     /\ AnnounceGitLab(r) \/ (threads # {} /\ Provider[r] = "github")
  \/ Recorded(r) /\ (pipe[r].status # "none" \/ threads # {})

LEMMA Upserted ==
  ASSUME TypeOK, NEW r \in Dispatches, NEW status \in {"running", "pass", "fail"},
         NEW link \in Nat, NEW integ \in BOOLEAN, Upsert(r, status, link, integ)
  PROVE  /\ pipe' \in [Dispatches -> PipeRow]
         /\ \A d \in Dispatches : d # r => pipe'[d] = pipe[d]
         /\ pipe'[r].status = status
         /\ pipe'[r].link = IF link = 0 THEN pipe[r].link ELSE link
<1>0. pipe \in [Dispatches -> PipeRow] /\ pipe[r] \in PipeRow
  BY DEF TypeOK
<1> DEFINE b == [status |-> status,
                 link |-> IF link = 0 THEN pipe[r].link ELSE link,
                 integ |-> pipe[r].integ \/ integ]
<1>1. pipe' = [pipe EXCEPT ![r] = b]
  BY <1>0 DEF Upsert
<1>2. /\ b.status = status /\ b.link = IF link = 0 THEN pipe[r].link ELSE link
      /\ b \in PipeRow
  <2>1. (IF link = 0 THEN pipe[r].link ELSE link) \in Nat
    BY <1>0 DEF PipeRow
  <2>2. (pipe[r].integ \/ integ) \in BOOLEAN
    OBVIOUS
  <2>3. b \in PipeRow
    BY <2>1, <2>2 DEF PipeRow
  <2> QED
    BY <2>3
<1> HIDE DEF b
<1>3. pipe' \in [Dispatches -> PipeRow] /\ pipe'[r] = b
      /\ \A d \in Dispatches : d # r => pipe'[d] = pipe[d]
  BY <1>0, <1>1, <1>2
<1> QED
  BY <1>2, <1>3

LEMMA StatusType == \A verdict : RowStatus(verdict) \in {"pass", "fail"}
BY DEF RowStatus

(* A verdict with its results is written into a row.                        *)
LEMMA RecordedRow ==
  ASSUME TypeOK, NEW r \in Dispatches, NEW verdict, NEW link,
         Said(r, verdict), Imported(link, r),
         Upsert(r, RowStatus(verdict), link, FALSE),
         pipe[r].status # "none" \/ threads # {}
  PROVE  /\ pipe' \in [Dispatches -> PipeRow]
         /\ \A d \in Dispatches : PipeMoves(d)
         /\ Recorded(r)
<1>1. link \in Nat /\ link # 0
  <2>1. Len(runs) \in Nat
    BY LenProperties DEF TypeOK
  <2> QED
    BY <2>1 DEF Imported
<1>2. RowStatus(verdict) \in {"running", "pass", "fail"} /\ FALSE \in BOOLEAN
  BY StatusType
<1>3. /\ pipe' \in [Dispatches -> PipeRow]
      /\ \A d \in Dispatches : d # r => pipe'[d] = pipe[d]
      /\ pipe'[r].status = RowStatus(verdict)
      /\ pipe'[r].link = IF link = 0 THEN pipe[r].link ELSE link
  BY <1>1, <1>2, Upserted
<1>4. Recorded(r)
  BY <1>1, <1>3 DEF Recorded
<1> QED
  BY <1>3, <1>4 DEF PipeMoves

LEMMA ThreadRecords ==
  ASSUME TypeOK, NEW t \in threads, ThreadOK(t), Record(t)
  PROVE  /\ pipe' \in [Dispatches -> PipeRow]
         /\ \A d \in Dispatches : PipeMoves(d)
         /\ Recorded(t.run)
<1>1. /\ t.run \in Dispatches /\ Said(t.run, t.verdict) /\ Imported(t.link, t.run)
      /\ Upsert(t.run, RowStatus(t.verdict), t.link, FALSE)
  BY DEF Record, ThreadOK
<1> QED
  BY <1>1, RecordedRow

LEMMA ReconcileRecords ==
  ASSUME TypeOK, NEW q \in Reconcilers, RequestOK(q), ReconcileRecord(q)
  PROVE  /\ pipe' \in [Dispatches -> PipeRow]
         /\ \A d \in Dispatches : PipeMoves(d)
         /\ pipe[recon[q].run].status # "none" => Recorded(recon[q].run)
<1> DEFINE r == recon[q].run
<1>1. r \in Dispatches /\ Said(r, recon[q].verdict) /\ Imported(recon[q].link, r)
  BY DEF ReconcileRecord, RequestOK
<1>2. CASE pipe[r].status = "none"
  <2>1. pipe' = pipe
    BY <1>2 DEF ReconcileRecord
  <2> QED
    BY <1>2, <2>1 DEF TypeOK, PipeMoves
<1>3. CASE pipe[r].status # "none"
  <2>1. Upsert(r, RowStatus(recon[q].verdict), recon[q].link, FALSE)
    BY <1>3 DEF ReconcileRecord
  <2> HIDE DEF r
  <2>2. /\ pipe' \in [Dispatches -> PipeRow]
        /\ \A d \in Dispatches : PipeMoves(d)
        /\ Recorded(r)
    BY <1>1, <1>3, <2>1, RecordedRow
  <2> QED
    BY <2>2 DEF r
<1> QED
  BY <1>2, <1>3

LEMMA PipeStep ==
  ASSUME TypeOK, ThreadsOK, ReconOK, Next
  PROVE  /\ pipe' \in [Dispatches -> PipeRow]
         /\ \A r \in Dispatches : PipeMoves(r)
<1> DEFINE Goal == /\ pipe' \in [Dispatches -> PipeRow]
                   /\ \A r \in Dispatches : PipeMoves(r)
<1>0. pipe \in [Dispatches -> PipeRow]
  BY DEF TypeOK
<1>1. ASSUME pipe' = pipe PROVE Goal
  BY <1>0, <1>1 DEF PipeMoves
<1>2. ASSUME NEW d \in Dispatches,
             \/ Request(d) \/ Insert(d) \/ Appear(d)
             \/ \E verdict \in Terminal : Complete(d, verdict)
             \/ \E w \in Workers : Take(d, w)
             \/ Lapse(d) \/ PollJob(d) \/ ReadRow(d)
      PROVE  pipe' = pipe
  BY <1>2 DEF Request, Insert, Appear, Complete, Take, Lapse, PollJob, ReadRow
<1>3. ASSUME NEW d \in Dispatches, AnnounceGitLab(d) PROVE Goal
  <2>1. Upsert(d, "running", 0, TRUE)
    BY <1>3 DEF AnnounceGitLab
  <2>2. /\ pipe' \in [Dispatches -> PipeRow]
        /\ \A r \in Dispatches : r # d => pipe'[r] = pipe[r]
        /\ pipe'[d].status = "running" /\ pipe'[d].link = pipe[d].link
    BY <2>1, Upserted
  <2> QED
    BY <1>3, <2>2 DEF PipeMoves
<1>4. ASSUME NEW d \in Dispatches, DeletePipeline(d) PROVE Goal
  <2>1. pipe' = [pipe EXCEPT ![d] = NoRow] /\ d \in Deletable
    BY <1>4 DEF DeletePipeline
  <2>2. NoRow \in PipeRow
    BY DEF NoRow, PipeRow
  <2> QED
    BY <1>0, <2>1, <2>2 DEF PipeMoves
<1>5. ASSUME NEW t \in threads, Announce(t) PROVE Goal
  <2>1. /\ Upsert(t.run, "running", 0, TRUE) /\ t.run \in Dispatches
        /\ Provider[t.run] = Provider[t.d] /\ Provider[t.d] # "gitlab"
        /\ t.d \in Dispatches
    BY <1>5, ThreadFields DEF Announce, ThreadsOK, ThreadOK
  <2>2. /\ pipe' \in [Dispatches -> PipeRow]
        /\ \A r \in Dispatches : r # t.run => pipe'[r] = pipe[r]
        /\ pipe'[t.run].status = "running" /\ pipe'[t.run].link = pipe[t.run].link
    BY <2>1, Upserted
  <2>3. Provider[t.run] = "github"
    BY <2>1, ProviderAssumption
  <2> QED
    BY <2>2, <2>3 DEF PipeMoves
<1>6. ASSUME NEW t \in threads, Record(t) PROVE Goal
  BY <1>6, ThreadRecords DEF ThreadsOK
<1>7. ASSUME NEW t \in threads, ThreadStep(t) \/ Die(t), ~ Announce(t), ~ Record(t)
      PROVE  pipe' = pipe
  BY <1>7 DEF ThreadStep, Find, ReadPipeline, FindRun, Poll, Collect, Import, Report, Return, Die
<1>8. ASSUME NEW q \in Reconcilers, ReconcileRecord(q) PROVE Goal
  BY <1>8, ReconcileRecords DEF ReconOK
<1>9. ASSUME NEW q \in Reconcilers, Reconcile(q) \/ Abort(q), ~ ReconcileRecord(q)
      PROVE  pipe' = pipe
  BY <1>9 DEF Reconcile, Scan, Query, ReconcileImport, Respond, Abort
<1> HIDE DEF Goal
<1>10. Goal
  BY <1>1, <1>2, <1>3, <1>4, <1>5, <1>6, <1>7, <1>8, <1>9 DEF Next, ThreadStep
<1> QED
  BY <1>10 DEF Goal

(* The clients.                                                             *)
ClientMoves(d) ==
  \/ client'[d] = client[d]
  \/ /\ stage[d] = "answered" /\ client'[d] \in {"seen", "exit3"}
     /\ client'[d] = "seen" => word[d] = "done"
     /\ UNCHANGED <<remote, pipe, runs>>
  \/ /\ client[d] = "seen" /\ UNCHANGED <<remote, pipe, runs>>
     /\ client'[d] = IF tracked[d] # NoRun /\ pipe[tracked[d]].status = "fail"
                       THEN "exit1" ELSE "exit0"

LEMMA ClientStep ==
  ASSUME TypeOK, Next
  PROVE  /\ client' \in [Dispatches -> {"waiting", "seen", "exit0", "exit1", "exit3"}]
         /\ \A d \in Dispatches : ClientMoves(d)
<1> DEFINE Goal ==
      /\ client' \in [Dispatches -> {"waiting", "seen", "exit0", "exit1", "exit3"}]
      /\ \A d \in Dispatches : ClientMoves(d)
<1>0. client \in [Dispatches -> {"waiting", "seen", "exit0", "exit1", "exit3"}]
  BY DEF TypeOK
<1>1. ASSUME client' = client PROVE Goal
  BY <1>0, <1>1 DEF ClientMoves
<1>2. ASSUME NEW d \in Dispatches,
             \/ Request(d) \/ AnnounceGitLab(d) \/ Insert(d) \/ Appear(d)
             \/ \E verdict \in Terminal : Complete(d, verdict)
             \/ \E w \in Workers : Take(d, w)
             \/ Lapse(d) \/ DeletePipeline(d)
      PROVE  client' = client
  BY <1>2 DEF Request, AnnounceGitLab, Insert, Appear, Complete, Take, Lapse,
              DeletePipeline
<1>3. ASSUME NEW d \in Dispatches, PollJob(d) PROVE Goal
  BY <1>0, <1>3 DEF PollJob, ClientMoves
<1>4. ASSUME NEW d \in Dispatches, ReadRow(d) PROVE Goal
  BY <1>0, <1>4 DEF ReadRow, ClientMoves
<1>5. ASSUME NEW t \in threads, ThreadStep(t) \/ Die(t) PROVE client' = client
  BY <1>5 DEF ThreadStep, Find, ReadPipeline, FindRun, Announce, Poll, Collect, Import, Record, Report, Return, Die
<1>6. ASSUME NEW q \in Reconcilers, Reconcile(q) \/ Abort(q) PROVE client' = client
  BY <1>6 DEF Reconcile, Scan, Query, ReconcileImport, ReconcileRecord, Respond, Abort
<1> HIDE DEF Goal
<1>7. Goal
  BY <1>1, <1>2, <1>3, <1>4, <1>5, <1>6 DEF Next
<1> QED
  BY <1>7 DEF Goal

LEMMA FaultsStep ==
  ASSUME TypeOK, Next
  PROVE  faults' \in 0 .. MaxFaults /\ (faults' = 0 => faults = 0)
<1>0. faults \in 0 .. MaxFaults /\ MaxFaults \in Nat
  BY BoundsAssumption DEF TypeOK
<1>1. ASSUME NEW d \in Dispatches,
             \/ Request(d) \/ AnnounceGitLab(d) \/ Insert(d) \/ Appear(d)
             \/ \E verdict \in Terminal : Complete(d, verdict)
             \/ \E w \in Workers : Take(d, w)
             \/ Lapse(d) \/ DeletePipeline(d) \/ PollJob(d) \/ ReadRow(d)
      PROVE  faults' = faults
  BY <1>1 DEF Request, AnnounceGitLab, Insert, Appear, Complete, Take, Lapse,
              DeletePipeline, PollJob, ReadRow
<1>2. ASSUME NEW t \in threads, ThreadStep(t) PROVE faults' = faults
  BY <1>2 DEF ThreadStep, Find, ReadPipeline, FindRun, Announce, Poll, Collect, Import, Record, Report, Return
<1>3. ASSUME NEW q \in Reconcilers, Reconcile(q) PROVE faults' = faults
  BY <1>3 DEF Reconcile, Scan, Query, ReconcileImport, ReconcileRecord, Respond
<1>4. ASSUME \/ \E t \in threads : Die(t)
             \/ \E q \in Reconcilers : Abort(q)
      PROVE  faults < MaxFaults /\ faults' = faults + 1
  BY <1>4 DEF Die, Abort
<1> QED
  BY <1>0, <1>1, <1>2, <1>3, <1>4 DEF Next

-----------------------------------------------------------------------------
(* The invariant.                                                           *)

LEMMA TruthInit == Init => TruthOK
<1> SUFFICES ASSUME Init PROVE TruthOK
  OBVIOUS
<1>1. /\ job = [j \in Dispatches |-> [phase |-> "absent", owner |-> NoWorker,
                                      lease |-> "null", attempts |-> 0]]
      /\ <<>> \in Seq(Dispatches) /\ Len(<<>>) = 0
  BY EmptySeq DEF Init, Queue!Init, Queue!Fresh
<1>2. TypeOK
  <2>1. job \in [Dispatches -> Jobs]
    BY <1>1 DEF Jobs
  <2>2. pipe \in [Dispatches -> PipeRow] /\ recon \in [Reconcilers -> Requests]
    BY NoRequestFields DEF Init, NoRow, PipeRow
  <2>3. /\ stage \in [Dispatches -> {"idle", "requested", "announced", "answered"}]
        /\ since \in [Dispatches -> Nat] /\ created \in Seq(Dispatches)
        /\ remote \in [Dispatches -> {"none", "accepted", "running"} \cup Terminal]
        /\ tracked \in [Dispatches -> Dispatches \cup {NoRun}]
        /\ runs \in Seq(Dispatches) /\ threads \subseteq Threads
        /\ client \in [Dispatches -> {"waiting", "seen", "exit0", "exit1", "exit3"}]
        /\ faults \in 0 .. MaxFaults
    BY <1>1, BoundsAssumption DEF Init
  <2>4. word \in [Dispatches -> {"working", "done", "error"}]
    BY DEF Init
  <2> QED
    BY <2>1, <2>2, <2>3, <2>4 DEF TypeOK, Jobs
<1>3. RequestsOK
  <2>1. \A d \in Dispatches : /\ job[d].phase = "absent" /\ client[d] = "waiting"
                              /\ stage[d] = "idle" /\ remote[d] = "none"
    BY <1>1 DEF Init
  <2>3. \A d \in Dispatches : word[d] = "working"
    BY DEF Init
  <2>2. created = <<>>
    BY DEF Init
  <2> QED
    BY <1>1, <2>1, <2>2, <2>3 DEF RequestsOK
<1>4. ThreadsOK
  BY DEF Init, ThreadsOK
<1>5. ReconOK
  BY DEF Init, ReconOK, RequestOK, NoRequest
<1>6. RowsOK
  BY DEF Init, RowsOK, RowOK, NoRow, Settled
<1> QED
  BY <1>2, <1>3, <1>4, <1>5, <1>6 DEF TruthOK

LEMMA RequestsKept ==
  ASSUME TruthOK, Next
  PROVE  RequestsOK'
<1>0. TypeOK /\ RequestsOK /\ ThreadsOK
  BY DEF TruthOK
<1>1. ASSUME NEW d \in Dispatches
      PROVE  /\ stage'[d] # "answered" => /\ job'[d].phase = "absent"
                                           /\ client'[d] = "waiting"
                                           /\ word'[d] = "working"
             /\ stage'[d] # "idle" => since'[d] # 0
             /\ stage'[d] = "answered" /\ Provider[d] = "gitlab" => tracked'[d] = d
  <2>0. StageMoves(d) /\ JobMoves(d) /\ ClientMoves(d)
    BY <1>0, StageStep, JobStep, ClientStep
  <2>1. /\ stage[d] # "answered" => job[d].phase = "absent" /\ client[d] = "waiting"
        /\ stage[d] # "answered" => word[d] = "working"
        /\ stage[d] # "idle" => since[d] # 0
        /\ stage[d] = "answered" /\ Provider[d] = "gitlab" => tracked[d] = d
    BY <1>0 DEF RequestsOK
  <2>2. /\ Request(d) => stage[d] = "idle"
        /\ AnnounceGitLab(d) => stage[d] = "requested"
        /\ Insert(d) => stage[d] # "answered" /\ stage[d] # "idle" /\ stage'[d] = "answered"
    <3>1. stage \in [Dispatches -> Stages]
      BY <1>0 DEF TypeOK, Stages
    <3> QED
      BY <3>1 DEF Request, AnnounceGitLab, Insert
  <2>3. stage[d] = "answered" => stage'[d] = "answered"
    BY <2>0, <2>2 DEF StageMoves
  <2>4. stage'[d] # "answered" => job'[d].phase = "absent" /\ client'[d] = "waiting"
    BY <2>0, <2>1, <2>2, <2>3 DEF JobMoves, ClientMoves
  <2>7. stage'[d] # "answered" => word'[d] = "working"
    <3>1. \A t \in threads : t.d = d => stage[d] = "answered"
      BY <1>0 DEF ThreadsOK, ThreadOK
    <3>2. WordMoves(d)
      BY <1>0, WordStep
    <3> QED
      BY <2>1, <2>3, <3>1, <3>2 DEF WordMoves
  <2>5. stage'[d] # "idle" => since'[d] # 0
    <3>1. /\ since'[d] = since[d] \/ since'[d] # 0
          /\ Request(d) => since'[d] # 0
      BY <1>0, RequestsStep
    <3> QED
      BY <2>0, <2>1, <2>2, <3>1 DEF StageMoves
  <2>6. stage'[d] = "answered" /\ Provider[d] = "gitlab" => tracked'[d] = d
    <3>1. /\ tracked'[d] = tracked[d] \/ Insert(d) \/ Provider[d] # "gitlab"
          /\ Insert(d) /\ Provider[d] = "gitlab" => tracked'[d] = d
      BY <1>0, RequestsStep
    <3> QED
      BY <2>0, <2>1, <3>1 DEF StageMoves
  <2> QED
    BY <2>4, <2>5, <2>6, <2>7
<1>2. ASSUME NEW i \in 1 .. Len(created') PROVE Provider[created'[i]] = "github"
  <2>0. created \in Seq(Dispatches) /\ Len(created) \in Nat
    BY <1>0, LenProperties DEF TypeOK
  <2>1. CASE created' = created
    BY <1>0, <1>2, <2>1 DEF RequestsOK
  <2>2. ASSUME NEW d \in Dispatches, created' = Append(created, d),
               Provider[d] = "github"
        PROVE  Provider[created'[i]] = "github"
    <3>1. /\ Len(created') = Len(created) + 1
          /\ \A j \in 1 .. Len(created) : created'[j] = created[j]
          /\ created'[Len(created) + 1] = d
      BY <2>0, <2>2, Appended
    <3>2. i \in 1 .. Len(created) \/ i = Len(created) + 1
      BY <2>0, <3>1
    <3> QED
      BY <1>0, <2>2, <3>1, <3>2 DEF RequestsOK
  <2> QED
    BY <1>0, <2>1, <2>2, RequestsStep
<1> QED
  BY <1>0, <1>1, <1>2, RemoteStep DEF RequestsOK

LEMMA SaidKept ==
  ASSUME TruthOK, Next, NEW r \in Dispatches, NEW verdict, Said(r, verdict)
  PROVE  Said(r, verdict)'
BY RemoteStep DEF TruthOK, Said

LEMMA AnsweredKept ==
  ASSUME TruthOK, Next, NEW d \in Dispatches, stage[d] = "answered"
  PROVE  stage'[d] = "answered"
<1>1. StageMoves(d) /\ stage \in [Dispatches -> Stages]
  BY StageStep DEF TruthOK, TypeOK, Stages
<1> QED
  BY <1>1 DEF StageMoves, Request, AnnounceGitLab

LEMMA ThreadsKept ==
  ASSUME TruthOK, Next
  PROVE  ThreadsOK'
<1>0. TypeOK /\ RequestsOK /\ ThreadsOK /\ ReconOK
  BY DEF TruthOK
<1> SUFFICES ASSUME NEW u \in threads' PROVE ThreadOK(u)'
  BY DEF ThreadsOK
<1>1. ThreadMoves(u) /\ u \in Threads /\ u.d \in Dispatches
  BY <1>0, ThreadsStep DEF ThreadMoves, Threads
<1>2. CASE u \in threads
  <2>1. ThreadOK(u)
    BY <1>0, <1>2 DEF ThreadsOK
  <2>2. u.pc \in {"collect", "import", "record", "report"} => Said(u.run, u.verdict)'
    BY <2>1, SaidKept DEF ThreadOK
  <2>3. u.pc = "record" => Imported(u.link, u.run)'
    BY <1>0, <2>1, ImportedKept DEF ThreadOK
  <2>4. stage'[u.d] = "answered"
    BY <1>1, <2>1, AnsweredKept DEF ThreadOK
  <2> QED
    BY <2>1, <2>2, <2>3, <2>4 DEF ThreadOK
<1>3. CASE Fresh(u)
  <2>1. stage[u.d] = "answered"
    BY <1>0, <1>1, <1>3 DEF Fresh, RequestsOK
  <2>2. stage'[u.d] = "answered"
    BY <1>1, <2>1, AnsweredKept
  <2>3. u.pc = "find"
    BY <1>3 DEF Fresh
  <2> QED
    BY <2>2, <2>3 DEF ThreadOK
<1>4. ASSUME NEW t \in threads, Moved(t, u) PROVE ThreadOK(u)'
  <2>0. ThreadOK(t) /\ t.d \in Dispatches /\ u.d = t.d
    BY <1>0, <1>4, ThreadFields DEF ThreadsOK, Moved
  <2>1. stage'[u.d] = "answered"
    BY <2>0, AnsweredKept DEF ThreadOK
  <2>2. CASE t.pc = "find" /\ u.pc = "announce" /\ u.run = Picked(t.d)
             /\ Len(created) >= since[t.d] /\ Provider[t.d] = "github"
    <3>1. Picked(t.d) \in Dispatches /\ Provider[Picked(t.d)] = "github"
      BY <1>0, <2>0, <2>2, CreatedFields
    <3>2. Provider[t.d] # "gitlab" /\ Provider[t.d] = "github"
      BY <2>2
    <3> HIDE DEF Picked
    <3>3. /\ u.run \in Dispatches /\ Provider[u.run] = "github"
          /\ Provider[u.d] = "github" /\ u.pc = "announce"
      BY <2>0, <2>2, <3>1, <3>2
    <3> QED
      BY <2>1, <3>3 DEF ThreadOK
  <2>3. CASE t.pc # "find" /\ u.run = t.run /\ u.pc = "poll"
    BY <2>0, <2>1, <2>3 DEF ThreadOK
  <2>4. CASE t.pc # "find" /\ u.run = t.run /\ Said(u.run, u.verdict)
             /\ u.pc \in {"collect", "import", "report"}
    <3>1. u.run \in Dispatches /\ Said(u.run, u.verdict)'
      BY <2>0, <2>4, SaidKept DEF ThreadOK
    <3> QED
      BY <2>0, <2>1, <2>4, <3>1 DEF ThreadOK
  <2>5. CASE t.pc = "import" /\ u.run = t.run /\ u.verdict = t.verdict
             /\ u.pc = "record"
             /\ u.link = Len(runs) + 1 /\ runs' = Append(runs, t.run)
    <3>1. t.run \in Dispatches /\ Said(t.run, t.verdict)
      BY <2>0, <2>5 DEF ThreadOK
    <3>2. Said(u.run, u.verdict)'
      BY <2>5, <3>1, SaidKept
    <3>3. Imported(u.link, u.run)'
      <4>1. \A l : l = Len(runs) + 1 => Imported(l, t.run)'
        BY <1>0, <2>5, <3>1, JustImported
      <4> QED
        BY <2>5, <4>1
    <3> QED
      BY <2>0, <2>1, <2>5, <3>1, <3>2, <3>3 DEF ThreadOK
  <2>6. CASE t.pc = "poll" /\ u.pc = "collect" /\ u.run = t.run
             /\ Said(t.run, u.verdict)
    BY <2>4, <2>6
  <2>7. CASE t.pc \in {"collect", "record"} /\ u.pc \in {"import", "report"}
             /\ u.run = t.run /\ u.verdict = t.verdict
    <3>1. Said(u.run, u.verdict)
      BY <2>0, <2>7 DEF ThreadOK
    <3> QED
      BY <2>4, <2>7, <3>1
  <2>8. CASE t.pc = "announce" /\ u.pc = "poll" /\ u.run = t.run
    BY <2>3, <2>8
  <2>9. CASE t.pc = "report" /\ u.pc = "return" /\ u.run = t.run
    BY <2>0, <2>1, <2>9 DEF ThreadOK
  <2>10. CASE t.pc = "find" /\ u.pc = "poll" /\ Provider[t.d] = "gitlab"
              /\ u.run = tracked[t.d]
    <3>1. tracked[t.d] = t.d
      BY <1>0, <2>0, <2>10 DEF ThreadOK, RequestsOK
    <3> QED
      BY <2>0, <2>1, <2>10, <3>1 DEF ThreadOK
  <2> QED
    BY <1>4, <2>2, <2>5, <2>6, <2>7, <2>8, <2>9, <2>10 DEF Moved
<1> QED
  BY <1>1, <1>2, <1>3, <1>4 DEF ThreadMoves

LEMMA ReconKept ==
  ASSUME TruthOK, Next
  PROVE  ReconOK'
<1>0. TypeOK /\ RequestsOK /\ ThreadsOK /\ ReconOK
  BY DEF TruthOK
<1> SUFFICES ASSUME NEW q \in Reconcilers PROVE RequestOK(q)'
  BY DEF ReconOK
<1>1. ReconMoves(q) /\ RequestOK(q) /\ recon[q].todo \in SUBSET Dispatches
  BY <1>0, ReconStep, ReconFields DEF ReconOK
<1>2. CASE recon'[q] = recon[q]
  <2>1. \A l, r : Imported(l, r) => l \in 1 .. Len(runs') /\ runs'[l] = r
    <3> SUFFICES ASSUME NEW l, NEW r, Imported(l, r)
                 PROVE  l \in 1 .. Len(runs') /\ runs'[l] = r
      OBVIOUS
    <3> QED
      BY <1>0, ImportedKept DEF Imported
  <2>2. \A r \in Dispatches : remote[r] \in Terminal => remote'[r] = remote[r]
    BY <1>0, RemoteStep
  <2>3. recon[q].pc \in {"import", "record"} =>
          /\ recon[q].run \in Dispatches
          /\ remote'[recon[q].run] \in Terminal
          /\ recon[q].verdict = remote'[recon[q].run]
    BY <1>1, <2>2 DEF RequestOK, Said
  <2>4. recon[q].pc = "record" =>
          /\ recon[q].link \in 1 .. Len(runs')
          /\ runs'[recon[q].link] = recon[q].run
    BY <1>1, <2>1 DEF RequestOK
  <2> QED
    BY <1>2, <2>3, <2>4 DEF RequestOK, Said, Imported
<1>3. CASE recon'[q].pc \notin {"import", "record"}
  BY <1>3 DEF RequestOK
<1>4. CASE /\ recon'[q].pc = "import" /\ recon[q].pc = "next"
           /\ recon'[q].run \in recon[q].todo
           /\ Said(recon'[q].run, recon'[q].verdict)
  <2>1. recon'[q].run \in Dispatches
    BY <1>1, <1>4
  <2>2. /\ remote'[recon'[q].run] \in Terminal
        /\ recon'[q].verdict = remote'[recon'[q].run]
    BY <1>0, <1>4, <2>1, RemoteStep DEF Said
  <2> QED
    BY <1>4, <2>1, <2>2 DEF RequestOK, Said
<1>5. CASE /\ recon'[q].pc = "record" /\ recon[q].pc = "import"
           /\ recon'[q].run = recon[q].run /\ recon'[q].verdict = recon[q].verdict
           /\ recon'[q].link = Len(runs) + 1 /\ runs' = Append(runs, recon[q].run)
  <2>1. recon[q].run \in Dispatches /\ Said(recon[q].run, recon[q].verdict)
    BY <1>1, <1>5 DEF RequestOK
  <2>2. /\ remote'[recon[q].run] \in Terminal
        /\ recon[q].verdict = remote'[recon[q].run]
    BY <1>0, <2>1, RemoteStep DEF Said
  <2>3. /\ Len(runs) + 1 \in 1 .. Len(runs')
        /\ runs'[Len(runs) + 1] = recon[q].run
    <3>1. runs \in Seq(Dispatches)
      BY <1>0 DEF TypeOK
    <3>2. /\ Len(runs) \in Nat /\ Len(runs') = Len(runs) + 1
          /\ runs'[Len(runs) + 1] = recon[q].run
      BY <1>5, <2>1, <3>1, Appended
    <3> QED
      BY <3>2
  <2> QED
    BY <1>5, <2>1, <2>2, <2>3 DEF RequestOK, Said, Imported
<1> QED
  BY <1>1, <1>2, <1>3, <1>4, <1>5 DEF ReconMoves

LEMMA RowsKept ==
  ASSUME TruthOK, Next
  PROVE  RowsOK'
<1>0. TypeOK /\ RequestsOK /\ ThreadsOK /\ ReconOK /\ RowsOK
  BY DEF TruthOK
<1> SUFFICES ASSUME NEW r \in Dispatches PROVE RowOK(r)'
  BY DEF RowsOK
<1>1. /\ PipeMoves(r) /\ RowOK(r)
      /\ remote[r] \in Terminal => remote'[r] = remote[r]
  BY <1>0, PipeStep, RemoteStep DEF RowsOK
<1>2. pipe[r].link # 0 =>
        pipe[r].link \in 1 .. Len(runs') /\ runs'[pipe[r].link] = r
  <2>1. pipe[r].link # 0 => Imported(pipe[r].link, r)
    BY <1>1 DEF RowOK
  <2>2. ASSUME NEW l, Imported(l, r) PROVE l \in 1 .. Len(runs') /\ runs'[l] = r
    BY <1>0, <2>2, ImportedKept DEF Imported
  <2> QED
    BY <2>1, <2>2
<1>3. CASE pipe'[r] = pipe[r]
  BY <1>1, <1>2, <1>3 DEF RowOK, Settled, Imported
<1>4. CASE pipe'[r] = NoRow
  BY <1>4 DEF RowOK, Settled, NoRow
<1>5. CASE pipe'[r].status = "running" /\ pipe'[r].link = pipe[r].link
  BY <1>2, <1>5 DEF RowOK, Settled, Imported
<1>6. CASE Recorded(r)
  <2>1. PICK verdict, link : /\ pipe'[r].status = RowStatus(verdict)
                             /\ pipe'[r].link = link
                             /\ Said(r, verdict) /\ Imported(link, r)
    BY <1>6 DEF Recorded
  <2>2. remote'[r] \in Terminal /\ verdict = remote'[r]
    BY <1>1, <2>1 DEF Said
  <2>3. link \in 1 .. Len(runs') /\ runs'[link] = r /\ link # 0
    <3>1. Imported(link, r)'
      BY <1>0, <2>1, ImportedKept
    <3>2. link # 0
      <4>1. Len(runs) \in Nat
        BY <1>0, LenProperties DEF TypeOK
      <4> QED
        BY <2>1, <4>1 DEF Imported
    <3> QED
      BY <3>1, <3>2 DEF Imported
  <2> QED
    BY <2>1, <2>2, <2>3 DEF RowOK, Settled, Imported
<1> QED
  BY <1>1, <1>3, <1>4, <1>5, <1>6 DEF PipeMoves

LEMMA TruthStep == TruthOK /\ [Next]_vars => TruthOK'
<1> SUFFICES ASSUME TruthOK, [Next]_vars PROVE TruthOK'
  OBVIOUS
<1>1. CASE Next
  <2>0. TypeOK /\ RequestsOK /\ ThreadsOK /\ ReconOK
    BY DEF TruthOK
  <2>1. TypeOK'
    <3>1. job' \in [Dispatches -> Jobs] /\ stage' \in [Dispatches -> Stages]
          /\ remote' \in [Dispatches -> {"none", "accepted", "running"} \cup Terminal]
      BY <1>1, <2>0, JobStep, StageStep, RemoteStep
    <3>2. /\ since' \in [Dispatches -> Nat] /\ created' \in Seq(Dispatches)
          /\ tracked' \in [Dispatches -> Dispatches \cup {NoRun}]
      BY <1>1, <2>0, RequestsStep
    <3>3. /\ pipe' \in [Dispatches -> PipeRow] /\ runs' \in Seq(Dispatches)
          /\ recon' \in [Reconcilers -> Requests] /\ faults' \in 0 .. MaxFaults
          /\ client' \in [Dispatches -> {"waiting", "seen", "exit0", "exit1", "exit3"}]
      BY <1>1, <2>0, PipeStep, RunsType, ReconStep, FaultsStep, ClientStep
    <3>4. threads' \subseteq Threads
      BY <1>1, <2>0, ThreadsStep DEF ThreadMoves
    <3>5. word' \in [Dispatches -> Words]
      BY <1>1, <2>0, WordStep
    <3> QED
      BY <3>1, <3>2, <3>3, <3>4, <3>5 DEF TypeOK, Jobs, Stages, Words
  <2> QED
    BY <1>1, <2>1, RequestsKept, ThreadsKept, ReconKept, RowsKept DEF TruthOK
<1>2. CASE UNCHANGED vars
  <2>1. TypeOK'
    BY <1>2 DEF TruthOK, TypeOK, vars
  <2>2. RequestsOK'
    BY <1>2 DEF TruthOK, RequestsOK, vars
  <2>3. ThreadsOK' /\ ReconOK' /\ RowsOK'
    BY <1>2 DEF TruthOK, ThreadsOK, ThreadOK, ReconOK, RequestOK, RowsOK, RowOK,
                Settled, Said, Imported, vars
  <2> QED
    BY <2>1, <2>2, <2>3 DEF TruthOK
<1> QED
  BY <1>1, <1>2

LEMMA TruthInvariance == Spec => []TruthOK
BY TruthInit, TruthStep, PTL DEF Spec

(* Whichever executions and reconcile requests race to write a row, deleted *)
(* and written again or not: a row that says pass or fail says what the     *)
(* provider said of that run, and expands to results imported from it.      *)
THEOREM RowsAreTruthful == Spec => []RowsTellTruth
<1>1. TruthOK => RowsTellTruth
  BY DEF TruthOK, RowsOK, RowOK, Settled, Imported, RowsTellTruth,
         SettledRowTellsTruth
<1> QED
  BY <1>1, TruthInvariance, PTL

-----------------------------------------------------------------------------
(* The exit codes.                                                          *)

LEMMA SettledKept ==
  ASSUME TruthOK, Next, NEW d \in Dispatches \ Deletable, Provider[d] = "gitlab",
         stage[d] = "answered", Settled(d)
  PROVE  Settled(d)'
<1>1. PipeMoves(d) /\ ~ AnnounceGitLab(d)
  BY PipeStep DEF TruthOK, AnnounceGitLab
<1>2. Recorded(d) => pipe'[d].status \in {"pass", "fail"}
  BY StatusType DEF Recorded
<1> QED
  BY <1>1, <1>2 DEF PipeMoves, Settled

LEMMA VerdictStep ==
  ASSUME TruthOK, VerdictOK, Next
  PROVE  VerdictOK'
<1>0. TypeOK /\ RequestsOK /\ ThreadsOK /\ ReconOK /\ RowsOK
  BY DEF TruthOK
<1> SUFFICES ASSUME NEW d \in Dispatches \ Deletable, Provider[d] = "gitlab"
             PROVE  /\ \A u \in threads' :
                         u.d = d /\ u.pc \in {"report", "return"} => Settled(d)'
                    /\ "done" \in {job'[d].phase, word'[d]} \/ client'[d] = "seen" =>
                         Settled(d)'
                    /\ client'[d] = "exit0" => remote'[d] = "success"
                    /\ client'[d] = "exit1" => remote'[d] \in Terminal \ {"success"}
                    /\ client'[d] \in {"exit0", "exit1"} =>
                         \E l \in 1 .. Len(runs') : Imported(l, d)'
  BY DEF VerdictOK
<1>1. /\ \A t \in threads :
           t.d = d /\ t.pc \in {"report", "return"} => Settled(d)
      /\ "done" \in {job[d].phase, word[d]} \/ client[d] = "seen" => Settled(d)
      /\ client[d] = "exit0" => remote[d] = "success"
      /\ client[d] = "exit1" => remote[d] \in Terminal \ {"success"}
      /\ client[d] \in {"exit0", "exit1"} =>
           \E l \in 1 .. Len(runs) : Imported(l, d)
  BY DEF VerdictOK
<1>2. /\ \A t \in threads : t.d = d => stage[d] = "answered"
      /\ job[d].phase # "absent" \/ client[d] # "waiting" => stage[d] = "answered"
      /\ word[d] # "working" => stage[d] = "answered"
  BY <1>0 DEF ThreadsOK, ThreadOK, RequestsOK
<1>3. Settled(d) /\ stage[d] = "answered" => Settled(d)'
  BY SettledKept
<1>4. ASSUME NEW u \in threads', u.d = d, u.pc \in {"report", "return"}
      PROVE  Settled(d)'
  <2>1. ThreadMoves(u)
    BY <1>0, ThreadsStep
  <2>2. CASE u \in threads
    BY <1>1, <1>2, <1>3, <1>4, <2>2
  <2>3. ~ Fresh(u)
    BY <1>4 DEF Fresh
  <2>4. ASSUME NEW t \in threads, Moved(t, u) PROVE Settled(d)'
    <3>0. CASE t.pc = "report" /\ t.d = d
      BY <1>1, <1>2, <1>3, <3>0
    <3> SUFFICES ASSUME ~ (t.pc = "report" /\ t.d = d) PROVE Settled(d)'
      BY <3>0
    <3>1. Record(t) /\ t.d = d
      BY <1>4, <2>4 DEF Moved
    <3>2. ThreadOK(t) /\ t.run = d
      BY <1>0, <3>1 DEF ThreadsOK, ThreadOK, Record
    <3>3. Recorded(d)
      BY <1>0, <3>1, <3>2, ThreadRecords
    <3> QED
      BY <3>3, StatusType DEF Recorded, Settled
  <2> QED
    BY <2>1, <2>2, <2>3, <2>4 DEF ThreadMoves
<1>5. job'[d].phase = "done" => Settled(d)'
  <2>1. JobMoves(d)
    BY <1>0, JobStep
  <2> QED
    BY <1>1, <1>2, <1>3, <2>1 DEF JobMoves
<1>6. ClientMoves(d)
  BY <1>0, ClientStep
<1>8. word'[d] = "done" => Settled(d)'
  <2>1. WordMoves(d)
    BY <1>0, WordStep
  <2> QED
    BY <1>1, <1>2, <1>3, <2>1 DEF WordMoves
<1>7. /\ client'[d] = "seen" => Settled(d)'
      /\ client'[d] = "exit0" => remote'[d] = "success"
      /\ client'[d] = "exit1" => remote'[d] \in Terminal \ {"success"}
      /\ client'[d] \in {"exit0", "exit1"} =>
           \E l \in 1 .. Len(runs') : Imported(l, d)'
  <2>1. CASE client'[d] = client[d]
    <3>1. remote[d] \in Terminal => remote'[d] = remote[d]
      BY <1>0, RemoteStep
    <3>2. client[d] = "seen" => Settled(d)'
      BY <1>1, <1>2, <1>3
    <3>3. \A l : Imported(l, d) => Imported(l, d)' /\ l \in 1 .. Len(runs')
      <4> SUFFICES ASSUME NEW l, Imported(l, d)
                   PROVE  Imported(l, d)' /\ l \in 1 .. Len(runs')
        OBVIOUS
      <4>1. Imported(l, d)'
        BY <1>0, ImportedKept
      <4> QED
        BY <4>1 DEF Imported
    <3> QED
      BY <1>1, <2>1, <3>1, <3>2, <3>3 DEF Terminal
  <2>2. CASE /\ client'[d] \in {"seen", "exit3"}
             /\ client'[d] = "seen" => word[d] = "done"
    BY <1>1, <1>2, <1>3, <2>2
  <2>3. CASE /\ client[d] = "seen" /\ UNCHANGED <<remote, pipe, runs>>
             /\ client'[d] = IF tracked[d] # NoRun /\ pipe[tracked[d]].status = "fail"
                               THEN "exit1" ELSE "exit0"
    <3>1. stage[d] = "answered" /\ Settled(d)
      BY <1>1, <1>2, <2>3
    <3>2. tracked[d] = d /\ d # NoRun
      BY <1>0, <3>1, DispatchesAssumption DEF RequestsOK, NoRun
    <3>3. RowOK(d)
      BY <1>0 DEF RowsOK
    <3>4. /\ remote[d] \in Terminal /\ pipe[d].status = RowStatus(remote[d])
          /\ Imported(pipe[d].link, d)
      BY <3>1, <3>3 DEF RowOK
    <3>5. /\ client'[d] = "exit0" => remote'[d] = "success"
          /\ client'[d] = "exit1" => remote'[d] \in Terminal \ {"success"}
          /\ client'[d] \in {"exit0", "exit1"}
      BY <2>3, <3>1, <3>2, <3>4 DEF RowStatus, Settled
    <3>6. \E l \in 1 .. Len(runs') : Imported(l, d)'
      <4>1. \A l : Imported(l, d) => l \in 1 .. Len(runs') /\ Imported(l, d)'
        BY <2>3 DEF Imported
      <4> QED
        BY <3>4, <4>1
    <3> QED
      BY <3>5, <3>6
  <2> QED
    BY <1>6, <2>1, <2>2, <2>3 DEF ClientMoves
<1> QED
  BY <1>4, <1>5, <1>7, <1>8

(* `thorotest run` tells the truth about a GitLab pipeline whose row nobody *)
(* removes: a job that is done has its verdict on the row, exit code 0 says *)
(* that the pipeline passed, 1 that it did not, and either that results     *)
(* were imported from it.                                                   *)
THEOREM ClientsAreTold == Spec => []ExitCodesTell
<1>1. Init => VerdictOK
  <2> SUFFICES ASSUME Init PROVE VerdictOK
    OBVIOUS
  <2>1. \A d \in Dispatches : /\ job[d].phase = "absent" /\ client[d] = "waiting"
                              /\ word[d] = "working"
    BY DEF Init, Queue!Init, Queue!Fresh
  <2> QED
    BY <2>1 DEF Init, VerdictOK
<1>2. TruthOK /\ VerdictOK /\ [Next]_vars => VerdictOK'
  <2> SUFFICES ASSUME TruthOK, VerdictOK, [Next]_vars PROVE VerdictOK'
    OBVIOUS
  <2>1. CASE Next
    BY <2>1, VerdictStep
  <2>2. CASE UNCHANGED vars
    BY <2>2 DEF VerdictOK, Settled, Imported, vars
  <2> QED
    BY <2>1, <2>2
<1>3. TruthOK /\ VerdictOK => ExitCodesTell
  <2> SUFFICES ASSUME TruthOK, VerdictOK,
                      NEW d \in Dispatches \ Deletable, Provider[d] = "gitlab"
               PROVE  /\ "done" \in {job[d].phase, word[d]} =>
                           pipe[tracked[d]].status \in {"pass", "fail"}
                      /\ client[d] = "exit0" => remote[d] = "success"
                      /\ client[d] = "exit1" => remote[d] \in Terminal \ {"success"}
                      /\ client[d] \in {"exit0", "exit1"} =>
                           \E i \in 1 .. Len(runs) : runs[i] = d
    BY DEF ExitCodesTell, DoneJobHasVerdict
  <2>1. "done" \in {job[d].phase, word[d]} => tracked[d] = d /\ Settled(d)
    BY DEF TruthOK, RequestsOK, VerdictOK
  <2> QED
    BY <2>1 DEF VerdictOK, Imported, Settled
<1> QED
  BY <1>1, <1>2, <1>3, TruthInvariance, PTL DEF Spec

-----------------------------------------------------------------------------
(* Reconciling alone, one request after the other.                          *)

LEMMA IdleStep ==
  ASSUME Workers = {}, TruthOK, IdleOK, Next
  PROVE  IdleOK'
<1>0. TypeOK /\ RequestsOK /\ ThreadsOK /\ ReconOK
  BY DEF TruthOK
<1>1. threads' = {}
  <2>1. ASSUME NEW u \in threads' PROVE FALSE
    <3>1. u \in Threads
      BY <1>0, ThreadsStep DEF ThreadMoves
    <3> QED
      BY <3>1 DEF Threads
  <2> QED
    BY <2>1
<1>2. ASSUME NEW r \in Dispatches, stage[r] \in {"announced", "answered"}
      PROVE  stage'[r] \in {"announced", "answered"}
  BY <1>0, <1>2, StageStep DEF StageMoves, Request
<1>3. ASSUME NEW q \in Reconcilers
      PROVE  /\ recon'[q].pc = "idle" => recon'[q].todo = {}
             /\ recon'[q].pc \in {"import", "record"} => recon'[q].run \in recon'[q].todo
             /\ \A r \in recon'[q].todo : stage'[r] \in {"announced", "answered"}
  <2>1. ReconMoves(q) /\ recon[q].todo \in SUBSET Dispatches
    BY <1>0, ReconStep, ReconFields
  <2>2. /\ recon[q].pc = "idle" => recon[q].todo = {}
        /\ recon[q].pc \in {"import", "record"} => recon[q].run \in recon[q].todo
        /\ \A r \in recon[q].todo : stage[r] \in {"announced", "answered"}
    BY DEF IdleOK
  <2>3. \A r \in Dispatches : Due(r) => stage[r] \in {"announced", "answered"}
    BY DEF IdleOK, Due
  <2>4. \A r \in recon[q].todo : stage'[r] \in {"announced", "answered"}
    BY <1>2, <2>1, <2>2
  <2>5. CASE recon'[q] = recon[q]
    BY <2>2, <2>4, <2>5
  <2>6. CASE recon'[q].pc = "next" /\ recon'[q].todo = {r \in Dispatches : Due(r)}
    BY <1>2, <2>3, <2>6
  <2>7. CASE recon'[q].pc = "next" /\ \E r : recon'[q].todo = recon[q].todo \ {r}
    BY <2>4, <2>7
  <2>8. CASE recon'[q].pc = "import" /\ recon'[q].todo = recon[q].todo
             /\ recon'[q].run \in recon[q].todo
    BY <2>4, <2>8
  <2>9. CASE recon'[q].pc = "record" /\ recon[q].pc = "import"
             /\ recon'[q].todo = recon[q].todo /\ recon'[q].run = recon[q].run
    BY <2>2, <2>4, <2>9
  <2> QED
    BY <2>1, <2>5, <2>6, <2>7, <2>8, <2>9 DEF ReconMoves
<1>4. ASSUME NEW r \in Dispatches, pipe'[r].status # "none"
      PROVE  stage'[r] \in {"announced", "answered"}
  <2>1. PipeMoves(r) /\ (pipe[r].status # "none" => stage[r] \in {"announced", "answered"})
        /\ threads = {}
    BY <1>0, PipeStep DEF IdleOK
  <2>2. CASE pipe[r].status # "none"
    BY <1>2, <2>1, <2>2
  <2>3. CASE AnnounceGitLab(r)
    BY <1>0, <2>3 DEF AnnounceGitLab, TypeOK
  <2> QED
    BY <1>4, <2>1, <2>2, <2>3 DEF PipeMoves, NoRow
<1> QED
  BY <1>1, <1>3, <1>4 DEF IdleOK

(* A request that does not fail writes the row of the results it imported.  *)
LEMMA Imports ==
  ASSUME TruthOK, IdleOK, Next, runs' # runs
  PROVE  \E q \in Reconcilers :
           /\ ReconcileImport(q) /\ runs' = Append(runs, recon[q].run)
           /\ recon[q].pc = "import" /\ recon'[q].pc = "record"
           /\ recon'[q].run = recon[q].run /\ recon'[q].todo = recon[q].todo
           /\ pipe' = pipe
<1>0. TypeOK /\ threads = {}
  BY DEF TruthOK, IdleOK
<1>1. ASSUME NEW d \in Dispatches,
             \/ Request(d) \/ AnnounceGitLab(d) \/ Insert(d) \/ Appear(d)
             \/ \E verdict \in Terminal : Complete(d, verdict)
             \/ \E w \in Workers : Take(d, w)
             \/ Lapse(d) \/ DeletePipeline(d) \/ PollJob(d) \/ ReadRow(d)
      PROVE  FALSE
  BY <1>1 DEF Request, AnnounceGitLab, Insert, Appear, Complete, Take, Lapse,
              DeletePipeline, PollJob, ReadRow
<1>2. ASSUME NEW q \in Reconcilers, Reconcile(q) \/ Abort(q), ~ ReconcileImport(q)
      PROVE  FALSE
  BY <1>2 DEF Reconcile, Scan, Query, ReconcileRecord, Respond, Abort
<1>3. PICK q \in Reconcilers : ReconcileImport(q)
  BY <1>0, <1>1, <1>2 DEF Next
<1>4. /\ runs' = Append(runs, recon[q].run) /\ recon[q].pc = "import" /\ pipe' = pipe
      /\ recon' = [recon EXCEPT ![q] =
                     [@ EXCEPT !.pc = "record", !.link = Len(runs) + 1, !.expired = TRUE]]
  BY <1>3 DEF ReconcileImport
<1> DEFINE b == [recon[q] EXCEPT !.pc = "record", !.link = Len(runs) + 1,
                                 !.expired = TRUE]
<1>5. recon[q] \in Requests /\ recon \in [Reconcilers -> Requests]
  BY <1>0 DEF TypeOK
<1>6. b.pc = "record" /\ b.run = recon[q].run /\ b.todo = recon[q].todo
  BY <1>5 DEF Requests
<1>7. recon'[q] = b
  BY <1>4, <1>5
<1> HIDE DEF b
<1> QED
  BY <1>3, <1>4, <1>6, <1>7

LEMMA Records ==
  ASSUME TruthOK, IdleOK, Next, faults' = 0, NEW q \in Reconcilers,
         recon[q].pc = "record", recon'[q] # recon[q]
  PROVE  /\ ReconcileRecord(q)
         /\ recon[q].run \notin recon'[q].todo
<1>a. TypeOK /\ threads = {}
  BY DEF TruthOK, IdleOK
<1>b. faults \in 0 .. MaxFaults /\ recon \in [Reconcilers -> Requests]
  BY <1>a DEF TypeOK
<1>0. TypeOK /\ threads = {} /\ recon \in [Reconcilers -> Requests]
      /\ faults \in Nat
  BY <1>a, <1>b, BoundsAssumption
<1>1. ASSUME NEW d \in Dispatches,
             \/ Request(d) \/ AnnounceGitLab(d) \/ Insert(d) \/ Appear(d)
             \/ \E verdict \in Terminal : Complete(d, verdict)
             \/ \E w \in Workers : Take(d, w)
             \/ Lapse(d) \/ DeletePipeline(d) \/ PollJob(d) \/ ReadRow(d)
      PROVE  FALSE
  BY <1>1 DEF Request, AnnounceGitLab, Insert, Appear, Complete, Take, Lapse,
              DeletePipeline, PollJob, ReadRow
<1>2. ASSUME NEW p \in Reconcilers, Abort(p) PROVE FALSE
  BY <1>0, <1>2 DEF Abort
<1>3. ASSUME NEW p \in Reconcilers, Reconcile(p), p # q PROVE FALSE
  <2>1. \E x : recon' = [recon EXCEPT ![p] = x]
    BY <1>3 DEF Reconcile, Scan, Query, ReconcileImport, ReconcileRecord, Respond
  <2> QED
    BY <1>0, <1>3, <2>1
<1>4. Reconcile(q) => ReconcileRecord(q)
  BY DEF Reconcile, Scan, Query, ReconcileImport, Respond
<1>5. ReconcileRecord(q)
  BY <1>0, <1>1, <1>2, <1>3, <1>4 DEF Next
<1>6. recon[q].run \notin recon'[q].todo
  <2>1. \/ recon' = [recon EXCEPT ![q] = NoRequest]
        \/ recon' = [recon EXCEPT ![q] = Skip(q, recon[q].run)]
    BY <1>5 DEF ReconcileRecord
  <2>2. recon'[q] = NoRequest \/ recon'[q] = Skip(q, recon[q].run)
    BY <1>0, <2>1
  <2> QED
    BY <1>0, <2>2, SkipFields, NoRequestFields
<1> QED
  BY <1>5, <1>6

Past(r) ==
  /\ pipe[r].status # "running"
  /\ \A q \in Reconcilers : r \notin recon[q].todo

LEMMA PastKept ==
  ASSUME TruthOK, IdleOK, Next, NEW r \in Dispatches,
         stage[r] \in {"announced", "answered"}, Past(r)
  PROVE  Past(r)'
<1>1. pipe'[r].status # "running"
  <2>1. PipeMoves(r) /\ threads = {} /\ ~ AnnounceGitLab(r)
    BY PipeStep DEF TruthOK, IdleOK, AnnounceGitLab
  <2>2. Recorded(r) => pipe'[r].status # "running"
    BY StatusType DEF Recorded
  <2> QED
    BY <2>1, <2>2 DEF PipeMoves, Past, NoRow
<1>2. ASSUME NEW q \in Reconcilers PROVE r \notin recon'[q].todo
  <2>1. ReconMoves(q)
    BY ReconStep DEF TruthOK
  <2> QED
    BY <2>1 DEF ReconMoves, Past, Due
<1> QED
  BY <1>1, <1>2 DEF Past

LEMMA RecordKept ==
  ASSUME TruthOK, IdleOK, Next, faults' = 0,
         \A p, q \in Reconcilers : p = q,
         NEW r \in Dispatches, stage[r] \in {"announced", "answered"},
         NEW q \in Reconcilers, recon[q].pc = "record", recon[q].run = r
  PROVE  \/ recon'[q].pc = "record" /\ recon'[q].run = r
         \/ Past(r)'
<1>1. CASE recon'[q] = recon[q]
  BY <1>1
<1>2. CASE recon'[q] # recon[q]
  <2>1. ReconcileRecord(q) /\ r \notin recon'[q].todo
    BY <1>2, Records
  <2>2. \A p \in Reconcilers : r \notin recon'[p].todo
    BY <2>1
  <2>3. pipe'[r].status # "running"
    <3>1. CASE pipe[r].status = "none"
      BY <2>1, <3>1 DEF ReconcileRecord
    <3>2. CASE pipe[r].status # "none"
      <4>1. Recorded(r)
        BY <2>1, <3>2, ReconcileRecords DEF TruthOK, ReconOK
      <4> QED
        BY <4>1, StatusType DEF Recorded
    <3> QED
      BY <3>1, <3>2
  <2> QED
    BY <2>2, <2>3 DEF Past
<1> QED
  BY <1>1, <1>2

LEMMA OnceStep ==
  ASSUME \A p, q \in Reconcilers : p = q, TruthOK, IdleOK, OnceOK, Next
  PROVE  OnceOK'
<1> SUFFICES ASSUME faults' = 0
             PROVE  /\ \A i, j \in 1 .. Len(runs') : runs'[i] = runs'[j] => i = j
                    /\ \A i \in 1 .. Len(runs') :
                         /\ stage'[runs'[i]] \in {"announced", "answered"}
                         /\ \/ \E q \in Reconcilers : /\ recon'[q].pc = "record"
                                                      /\ recon'[q].run = runs'[i]
                            \/ /\ pipe'[runs'[i]].status # "running"
                               /\ \A p \in Reconcilers : runs'[i] \notin recon'[p].todo
  BY DEF OnceOK, Past
<1>0. TypeOK /\ runs \in Seq(Dispatches) /\ Len(runs) \in Nat /\ faults = 0
      /\ \A i \in 1 .. Len(runs) : runs[i] \in Dispatches
  BY FaultsStep, LenProperties, ElementOfSeq DEF TruthOK, TypeOK
<1>1. /\ \A i, j \in 1 .. Len(runs) : runs[i] = runs[j] => i = j
      /\ \A i \in 1 .. Len(runs) :
           /\ stage[runs[i]] \in {"announced", "answered"}
           /\ \/ \E q \in Reconcilers : recon[q].pc = "record" /\ recon[q].run = runs[i]
              \/ Past(runs[i])
  BY <1>0 DEF OnceOK, Past
<1>2. ASSUME NEW r \in Dispatches, stage[r] \in {"announced", "answered"}
      PROVE  stage'[r] \in {"announced", "answered"}
  BY <1>0, <1>2, StageStep DEF StageMoves, Request
<1>3. ASSUME NEW r, NEW i \in 1 .. Len(runs), r = runs[i]
      PROVE  /\ stage'[r] \in {"announced", "answered"}
             /\ \/ \E q \in Reconcilers : recon'[q].pc = "record" /\ recon'[q].run = r
                \/ /\ pipe'[r].status # "running"
                   /\ \A p \in Reconcilers : r \notin recon'[p].todo
  <2>1. /\ r \in Dispatches /\ stage[r] \in {"announced", "answered"}
        /\ \/ \E q \in Reconcilers : recon[q].pc = "record" /\ recon[q].run = r
           \/ Past(r)
    BY <1>0, <1>1, <1>3
  <2>2. CASE Past(r)
    BY <1>2, <2>1, <2>2, PastKept DEF Past
  <2>3. ASSUME NEW q \in Reconcilers, recon[q].pc = "record", recon[q].run = r
        PROVE  \/ \E p \in Reconcilers : recon'[p].pc = "record" /\ recon'[p].run = r
               \/ Past(r)'
    BY <2>1, <2>3, RecordKept
  <2> QED
    BY <1>2, <2>1, <2>2, <2>3 DEF Past
<1>4. CASE runs' = runs
  <2>1. \A i \in 1 .. Len(runs) : runs'[i] = runs[i] /\ Len(runs') = Len(runs)
    BY <1>4
  <2>2. ASSUME NEW i \in 1 .. Len(runs')
        PROVE  /\ stage'[runs'[i]] \in {"announced", "answered"}
               /\ \/ \E q \in Reconcilers : /\ recon'[q].pc = "record"
                                            /\ recon'[q].run = runs'[i]
                  \/ /\ pipe'[runs'[i]].status # "running"
                     /\ \A p \in Reconcilers : runs'[i] \notin recon'[p].todo
    <3>1. i \in 1 .. Len(runs)
      BY <1>4, <2>2
    <3> DEFINE r == runs[i]
    <3>2. /\ stage'[r] \in {"announced", "answered"}
          /\ \/ \E q \in Reconcilers : recon'[q].pc = "record" /\ recon'[q].run = r
             \/ /\ pipe'[r].status # "running"
                /\ \A p \in Reconcilers : r \notin recon'[p].todo
      BY <1>3, <3>1
    <3>3. runs'[i] = r
      BY <1>4
    <3> HIDE DEF r
    <3> QED
      BY <3>2, <3>3
  <2> QED
    BY <1>1, <1>4, <2>2
<1>5. CASE runs' # runs
  <2>1. PICK q \in Reconcilers :
           /\ ReconcileImport(q) /\ runs' = Append(runs, recon[q].run)
           /\ recon[q].pc = "import" /\ recon'[q].pc = "record"
           /\ recon'[q].run = recon[q].run /\ recon'[q].todo = recon[q].todo
           /\ pipe' = pipe
    BY <1>5, Imports
  <2> DEFINE n == recon[q].run
  <2>2. /\ n \in Dispatches /\ n \in recon[q].todo
        /\ stage[n] \in {"announced", "answered"}
    BY <1>0, <2>1, ReconFields DEF IdleOK
  <2>3. \A i \in 1 .. Len(runs) : runs[i] # n
    <3>1. ~ Past(n)
      BY <2>2 DEF Past
    <3>2. \A p \in Reconcilers : recon[p].pc # "record"
      BY <2>1
    <3> QED
      BY <1>1, <3>1, <3>2
  <2>4. /\ Len(runs') = Len(runs) + 1 /\ runs'[Len(runs) + 1] = n
        /\ \A i \in 1 .. Len(runs) : runs'[i] = runs[i]
    BY <1>0, <2>1, <2>2, Appended
  <2>5. \A i \in 1 .. Len(runs') : i \in 1 .. Len(runs) \/ i = Len(runs) + 1
    BY <1>0, <2>4
  <2>6. \A i, j \in 1 .. Len(runs') : runs'[i] = runs'[j] => i = j
    BY <1>1, <2>3, <2>4, <2>5
  <2>7. ASSUME NEW i \in 1 .. Len(runs')
        PROVE  /\ stage'[runs'[i]] \in {"announced", "answered"}
               /\ \/ \E p \in Reconcilers : /\ recon'[p].pc = "record"
                                            /\ recon'[p].run = runs'[i]
                  \/ /\ pipe'[runs'[i]].status # "running"
                     /\ \A p \in Reconcilers : runs'[i] \notin recon'[p].todo
    <3>1. CASE i = Len(runs) + 1
      <4>1. runs'[i] = n /\ recon'[q].pc = "record" /\ recon'[q].run = n
        BY <2>1, <2>4, <3>1
      <4>2. stage'[n] \in {"announced", "answered"}
        BY <1>2, <2>2
      <4> QED
        BY <4>1, <4>2
    <3>2. CASE i \in 1 .. Len(runs)
      <4> DEFINE r == runs[i]
      <4>1. /\ stage'[r] \in {"announced", "answered"}
            /\ \/ \E p \in Reconcilers : recon'[p].pc = "record" /\ recon'[p].run = r
               \/ /\ pipe'[r].status # "running"
                  /\ \A p \in Reconcilers : r \notin recon'[p].todo
        BY <1>3, <3>2
      <4>2. runs'[i] = r
        BY <2>4, <3>2
      <4> HIDE DEF r
      <4> QED
        BY <4>1, <4>2
    <3> QED
      BY <2>5, <3>1, <3>2
  <2> QED
    BY <2>6, <2>7
<1> QED
  BY <1>4, <1>5

(* While no execution collects results and one reconcile request follows    *)
(* the other, results are imported once, whatever rows users delete under a *)
(* request, as long as no request fails between the import and the row.     *)
THEOREM ReconcilingImportsOnce ==
  ASSUME Workers = {}, \A p, q \in Reconcilers : p = q
  PROVE  Spec => []ImportedOnce
<1>1. Init => IdleOK /\ OnceOK
  <2> SUFFICES ASSUME Init PROVE IdleOK /\ OnceOK
    OBVIOUS
  <2>1. runs = <<>> /\ Len(<<>>) = 0
    BY EmptySeq DEF Init
  <2>2. OnceOK
    BY <2>1 DEF OnceOK
  <2>3. IdleOK
    BY DEF Init, IdleOK, NoRequest, NoRow
  <2> QED
    BY <2>2, <2>3
<1>2. TruthOK /\ IdleOK /\ OnceOK /\ [Next]_vars => IdleOK' /\ OnceOK'
  <2> SUFFICES ASSUME TruthOK, IdleOK, OnceOK, [Next]_vars PROVE IdleOK' /\ OnceOK'
    OBVIOUS
  <2>1. CASE Next
    BY <2>1, IdleStep, OnceStep
  <2>2. CASE UNCHANGED vars
    BY <2>2 DEF IdleOK, OnceOK, vars
  <2> QED
    BY <2>1, <2>2
<1>3. OnceOK => ImportedOnce
  BY DEF OnceOK, ImportedOnce
<1> QED
  BY <1>1, <1>2, <1>3, TruthInvariance, PTL DEF Spec
=============================================================================
