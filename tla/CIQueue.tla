------------------------------- MODULE CIQueue -------------------------------
(***************************************************************************)
(* The durable, leased job queue of ThoroTest: the ci_jobs table, the      *)
(* worker loop of every application process (backend/ci_worker.py) and the *)
(* threads that execute one job (execute_job in backend/routers/ci.py and  *)
(* execute_sync_job in backend/routers/integrations.py).                   *)
(*                                                                         *)
(* One transition is one committed database statement, one provider call   *)
(* or one step of the asyncio loop, so that everything another process may *)
(* do between two of them is explored.  A SELECT whose result is used by a *)
(* later COMMIT is therefore two transitions.                              *)
(***************************************************************************)
EXTENDS Integers, FiniteSets, Sequences

CONSTANTS
    Jobs,            \* jobs, numbered in the order of their started_at
    Kind,            \* [Jobs -> JobKinds], which executor a job needs
    Workers,         \* worker_id values: one life of one process each
    CandidateLimit,  \* .limit(10) of claim_next
    MaxFaults,       \* bound: missed heartbeats and failed database calls
    Prompt,          \* TRUE: no SELECT-to-COMMIT gap is long (see Stalled)
    Wordless         \* TRUE: an execution may raise an error without a text

JobKinds == {"github", "gitlab", "sync"}

ASSUME JobsAssumption   == Jobs \subseteq Nat /\ IsFiniteSet(Jobs)
ASSUME KindAssumption   == Kind \in [Jobs -> JobKinds]
ASSUME LimitAssumption  == CandidateLimit \in Nat \ {0}
ASSUME FaultsAssumption == MaxFaults \in Nat
ASSUME PromptAssumption == Prompt \in BOOLEAN
ASSUME WordlessAssumption == Wordless \in BOOLEAN

VARIABLES
    row,       \* the ci_jobs table
    pc,        \* where the loop of each worker is
    cand,      \* claim_next's candidate list, a snapshot of rows
    held,      \* the <<job, attempt>> a loop supervises
    saw,       \* the row as loaded by finish_job, before its commit
    threads,   \* executing threads, supervised or abandoned
    imported,  \* history: the <<job, attempt>>s whose import committed
    faults     \* faults taken so far

vars == <<row, pc, cand, held, saw, threads, imported, faults>>

NoWorker == "no worker"
NoClaim  == <<0, 0>>   \* attempts are counted from one
NoSaw    == [out |-> "none", qs |-> "processing", status |-> "queued"]
Unread   == "unread"   \* a thread that has not loaded the row it will write
Same     == "same"     \* an _update_job that leaves the status column alone

Terminal == {"done", "error"}
Gone     == {"absent", "deleted"}
Statuses == {"queued", "finding_run", "running", "collecting", "syncing",
             "done", "error"}

ASSUME WorkersAssumption == NoWorker \notin Workers

(***************************************************************************)
(* What a thread does for one job, in order.  A "fence" step loads the row *)
(* only while it is still processing under the thread's worker_id; a       *)
(* "write" step is _update_job: a fenced load, then a commit; a "call"     *)
(* step talks to the provider; the "import" step commits results to the    *)
(* test library and consults no fence.                                     *)
(***************************************************************************)
Fence    == [op |-> "fence",  status |-> Same]
Call     == [op |-> "call",   status |-> Same]
Import   == [op |-> "import", status |-> Same]
Write(s) == [op |-> "write",  status |-> s]

GitHubScript ==
  <<Fence, Write("finding_run"), Call, Write("running"), Write(Same), Call,
    Write("collecting"), Import, Write("done")>>

GitLabScript ==
  <<Fence, Fence, Write("running"), Call, Write("collecting"), Import,
    Write("done")>>

SyncScript == <<Fence, Fence, Write("syncing"), Import, Write("done")>>

Script ==
  [github |-> GitHubScript, gitlab |-> GitLabScript, sync |-> SyncScript]

ScriptOf(j) == Script[Kind[j]]

-----------------------------------------------------------------------------

(* epoch identifies a value of lease_until: it changes whenever a lease     *)
(* that was not live gets a new expiry, so that equal epochs of a lease     *)
(* that is not live mean equal lease_until columns.                         *)
Rows == [qs       : {"queued", "processing"} \cup Terminal \cup Gone,
         status   : Statuses,
         owner    : Workers \cup {NoWorker},
         lease    : {"null", "live", "expired"},
         epoch    : Nat,
         attempts : Nat]

Threads == [w : Workers, job : Jobs, gen : Nat, pos : Nat \ {0},
            seen : Statuses \cup {Unread}, out : {"none", "ok", "failed"}]

Candidates == [job : Jobs, qs : {"queued", "processing"}, epoch : Nat]

Loaded == [out : {"none", "ok", "failed"},
           qs : {"queued", "processing"} \cup Terminal, status : Statuses]

Claims == Jobs \X (Nat \ {0})

PCs == {"new", "poll", "claim", "work", "finish", "closing", "closed", "dead"}

TypeOK ==
  /\ row \in [Jobs -> Rows]
  /\ pc \in [Workers -> PCs]
  /\ cand \in [Workers -> SUBSET Candidates]
  /\ held \in [Workers -> Claims \cup {NoClaim}]
  /\ saw \in [Workers -> Loaded]
  /\ threads \subseteq Threads
  /\ imported \subseteq Jobs \X Nat
  /\ faults \in 0 .. MaxFaults

NoRow == [qs |-> "absent", status |-> "queued", owner |-> NoWorker,
          lease |-> "null", epoch |-> 0, attempts |-> 0]

Init ==
  /\ row = [j \in Jobs |-> NoRow]
  /\ pc = [w \in Workers |-> "new"]
  /\ cand = [w \in Workers |-> {}]
  /\ held = [w \in Workers |-> NoClaim]
  /\ saw = [w \in Workers |-> NoSaw]
  /\ threads = {}
  /\ imported = {}
  /\ faults = 0

-----------------------------------------------------------------------------
(* Enqueueing: the routes POST .../ci/run and .../sync insert the row.      *)

Enqueue(j) ==
  /\ row[j].qs = "absent"
  /\ row' = [row EXCEPT ![j].qs = "queued"]
  /\ UNCHANGED <<pc, cand, held, saw, threads, imported, faults>>

-----------------------------------------------------------------------------
(* The worker loop.                                                         *)

Start(w) ==
  /\ pc[w] = "new"
  /\ pc' = [pc EXCEPT ![w] = "poll"]
  /\ UNCHANGED <<row, cand, held, saw, threads, imported, faults>>

(* Faulty variants of the definition that follows, here and below, are used *)
(* to show that the properties can fail: recovery forgotten ...             *)
ClaimableOnce(j) == row[j].qs = "queued"

(* ... and the lease not looked at.                                         *)
ClaimableEvenLive(j) == row[j].qs \in {"queued", "processing"}

Claimable(j) ==
  \/ row[j].qs = "queued"
  \/ row[j].qs = "processing" /\ row[j].lease \in {"null", "expired"}

(* The candidates in started_at order, cut at CandidateLimit.               *)
FirstClaimable ==
  {j \in Jobs : /\ Claimable(j)
                /\ Cardinality({k \in Jobs : k < j /\ Claimable(k)})
                     < CandidateLimit}

SelectCandidates(w) ==
  /\ pc[w] = "poll"
  /\ cand' = [cand EXCEPT ![w] =
       {[job |-> j, qs |-> row[j].qs, epoch |-> row[j].epoch] :
          j \in FirstClaimable}]
  /\ pc' = [pc EXCEPT ![w] = "claim"]
  /\ UNCHANGED <<row, held, saw, threads, imported, faults>>

IsHead(w, c) == c \in cand[w] /\ \A d \in cand[w] : c.job <= d.job

(* Faulty: the UPDATE compares the lease only, or the status only.          *)
SameLease(c) == c.qs = "processing" => row[c.job].epoch = c.epoch

SameStatus(c) == row[c.job].qs = c.qs

(* The WHERE clause of the claiming UPDATE: the row is as it was selected.  *)
StillAsSelected(c) ==
  /\ row[c.job].qs = c.qs
  /\ c.qs = "processing" => row[c.job].epoch = c.epoch

ClaimedRow(w, j) ==
  [row EXCEPT ![j].qs = "processing", ![j].owner = w, ![j].lease = "live",
              ![j].epoch = @ + 1, ![j].attempts = @ + 1]

NewThread(w, j) ==
  [w |-> w, job |-> j, gen |-> row[j].attempts + 1, pos |-> 1,
   seen |-> Unread, out |-> "none"]

(* A claim that succeeds starts the thread and its supervision; the claim   *)
(* of a loop that was cancelled meanwhile is committed and then forgotten.  *)
Claim(w, c) ==
  /\ pc[w] \in {"claim", "closing"}
  /\ IsHead(w, c)
  /\ StillAsSelected(c)
  /\ row' = ClaimedRow(w, c.job)
  /\ cand' = [cand EXCEPT ![w] = {}]
  /\ \/ /\ pc[w] = "claim"
        /\ pc' = [pc EXCEPT ![w] = "work"]
        /\ held' = [held EXCEPT ![w] = <<c.job, row[c.job].attempts + 1>>]
        /\ threads' = threads \cup {NewThread(w, c.job)}
     \/ /\ pc[w] = "closing"
        /\ pc' = [pc EXCEPT ![w] = "closed"]
        /\ UNCHANGED <<held, threads>>
  /\ UNCHANGED <<saw, imported, faults>>

ClaimMissed(w, c) ==
  /\ pc[w] \in {"claim", "closing"}
  /\ IsHead(w, c)
  /\ ~ StillAsSelected(c)
  /\ cand' = [cand EXCEPT ![w] = @ \ {c}]
  /\ UNCHANGED <<row, pc, held, saw, threads, imported, faults>>

(* A thread is between its fenced load and its commit, or a loop between    *)
(* the load and the commit of finish_job.                                   *)
MidWrite(j) ==
  \/ \E t \in threads : t.job = j /\ t.seen # Unread
  \/ \E w \in Workers : pc[w] = "finish" /\ held[w][1] = j

(* A thread of another worker loaded the row before w claimed it, and still *)
(* has not committed when w's own execution of the job is over.  Prompt     *)
(* excludes this, and gaps in which a lease or a TTL runs out.              *)
Stalled(w, j) ==
  \E t \in threads : t.job = j /\ t.w # w /\ t.seen # Unread

(* No candidate was claimed: every so often the loop deletes finished rows  *)
(* older than the TTL, then it sleeps and polls again.                      *)
NothingClaimed(w) ==
  /\ pc[w] \in {"claim", "closing"}
  /\ cand[w] = {}
  /\ pc' = [pc EXCEPT ![w] = IF @ = "claim" THEN "poll" ELSE "closed"]
  /\ \E old \in SUBSET {j \in Jobs : row[j].qs \in Terminal} :
       /\ pc[w] = "closing" => old = {}
       /\ Prompt => \A j \in old : ~ MidWrite(j)
       /\ row' = [j \in Jobs |->
                   IF j \in old THEN [row[j] EXCEPT !.qs = "deleted"]
                                ELSE row[j]]
  /\ UNCHANGED <<cand, held, saw, threads, imported, faults>>

(* The loop stops supervising; a thread that is still running keeps going.  *)
Supervises(w, t) == t.w = w /\ held[w] = <<t.job, t.gen>>

Release(w, next) ==
  /\ pc' = [pc EXCEPT ![w] = next]
  /\ held' = [held EXCEPT ![w] = NoClaim]
  /\ saw' = [saw EXCEPT ![w] = NoSaw]
  /\ threads' = {t \in threads : ~ (Supervises(w, t) /\ t.out # "none")}

(* Faulty: a settled job is renewed, or the job of another worker.          *)
RenewableSettled(w, j) == row[j].owner = w

RenewableByAnyone(w, j) == row[j].qs = "processing"

Renewable(w, j) == row[j].qs = "processing" /\ row[j].owner = w

(* The heartbeat: renew_lease, and leaving the job when it reports a loss.  *)
Renew(w) ==
  /\ pc[w] = "work"
  /\ Renewable(w, held[w][1])
  /\ row' = [row EXCEPT
       ![held[w][1]].lease = "live",
       ![held[w][1]].epoch =
          IF row[held[w][1]].lease = "live" THEN @ ELSE @ + 1]
  /\ UNCHANGED <<pc, cand, held, saw, threads, imported, faults>>

LeaseLost(w) ==
  /\ pc[w] = "work"
  /\ ~ Renewable(w, held[w][1])
  /\ Release(w, "poll")
  /\ UNCHANGED <<row, cand, imported, faults>>

(* finish_job: the load and its check of worker_id ...                      *)
Mine(w, j) == row[j].qs \notin Gone /\ row[j].owner = w

(* ... which is told of a failure by the text of the exception, and takes   *)
(* an empty one for success.                                                *)
Heard(out) == {out} \cup IF out = "failed" /\ Wordless THEN {"ok"} ELSE {}

Observe(w, t) ==
  /\ pc[w] = "work"
  /\ Supervises(w, t)
  /\ t.out # "none"
  /\ Prompt => ~ Stalled(w, t.job)
  /\ IF Mine(w, t.job)
       THEN /\ pc' = [pc EXCEPT ![w] = "finish"]
            /\ \E out \in Heard(t.out) :
                 saw' = [saw EXCEPT ![w] =
                   [out |-> out, qs |-> row[t.job].qs,
                    status |-> row[t.job].status]]
            /\ UNCHANGED <<held, threads>>
       ELSE Release(w, "poll")
  /\ UNCHANGED <<row, cand, imported, faults>>

(* Faulty: the exception of the thread is dropped.                          *)
VerdictAlwaysDone(out) == "done"

Verdict(out) == IF out = "ok" THEN "done" ELSE "error"

(* Faulty: a field left out of the call is written all the same.            *)
ChangedAlways(loaded, new, now) == IF new = loaded THEN now ELSE new

(* The UPDATE of a loaded row names the columns whose value changed since   *)
(* the load, and no others.                                                 *)
Changed(loaded, new, now) == IF new \in {Same, loaded} THEN now ELSE new

(* ... and its commit.  The UPDATE has no condition beyond the id; it fails *)
(* when the row is gone.  (A terminal row already has a null lease.)        *)
FinishCommit(w) ==
  LET j == held[w][1]
      v == Verdict(saw[w].out)
  IN /\ pc[w] = "finish"
     /\ row' = IF row[j].qs \in Gone THEN row
               ELSE [row EXCEPT
                      ![j].qs     = Changed(saw[w].qs, v, @),
                      ![j].status = Changed(saw[w].status, v, @),
                      ![j].lease  = "null"]
     /\ Release(w, "poll")
     /\ UNCHANGED <<cand, imported, faults>>

(* A database call of the loop raises: _run logs it, sleeps and polls.      *)
LoopError(w) ==
  /\ faults < MaxFaults
  /\ faults' = faults + 1
  /\ pc[w] \in {"claim", "work", "finish"}
  /\ Release(w, "poll")
  /\ cand' = [cand EXCEPT ![w] = {}]
  /\ UNCHANGED <<row, imported>>

(* close() cancels the loop.  Claiming runs in a thread of its own, which   *)
(* the cancellation does not reach; finish_job runs on the event loop and   *)
(* is not interrupted; the executing thread runs on.                        *)
Close(w) ==
  /\ pc[w] \in {"poll", "claim", "work"}
  /\ Release(w, IF pc[w] = "claim" THEN "closing" ELSE "closed")
  /\ UNCHANGED <<row, cand, imported, faults>>

(* The process dies, and every thread of it.                                *)
Crash(w) ==
  /\ pc[w] \notin {"new", "dead"}
  /\ pc' = [pc EXCEPT ![w] = "dead"]
  /\ cand' = [cand EXCEPT ![w] = {}]
  /\ held' = [held EXCEPT ![w] = NoClaim]
  /\ saw' = [saw EXCEPT ![w] = NoSaw]
  /\ threads' = {t \in threads : t.w # w}
  /\ UNCHANGED <<row, imported, faults>>

-----------------------------------------------------------------------------
(* Time.                                                                    *)

Heartbeating(j) ==
  \E w \in Workers :
     /\ row[j].owner = w
     /\ held[w] # NoClaim
     /\ held[w][1] = j

Expirable(j) ==
  /\ row[j].qs = "processing"
  /\ row[j].lease = "live"
  /\ Prompt => ~ MidWrite(j)

ExpiredRow(j) == [row EXCEPT ![j].lease = "expired"]

(* Nobody renews the lease any more.                                        *)
LeaseExpires(j) ==
  /\ Expirable(j)
  /\ ~ Heartbeating(j)
  /\ row' = ExpiredRow(j)
  /\ UNCHANGED <<pc, cand, held, saw, threads, imported, faults>>

(* A loop that is held up past LEASE_SECONDS: a fault.                      *)
HeartbeatMissed(j) ==
  /\ faults < MaxFaults
  /\ faults' = faults + 1
  /\ Expirable(j)
  /\ Heartbeating(j)
  /\ row' = ExpiredRow(j)
  /\ UNCHANGED <<pc, cand, held, saw, threads, imported>>

-----------------------------------------------------------------------------
(* The executing threads.                                                   *)

Running(t, op) ==
  /\ t \in threads
  /\ t.out = "none"
  /\ ScriptOf(t.job)[t.pos].op = op

(* Faulty: the fence forgets worker_id.                                     *)
FencedByStatus(t) == row[t.job].qs = "processing"

(* queue_status = "processing" AND worker_id = the thread's worker.         *)
Fenced(t) == row[t.job].qs = "processing" /\ row[t.job].owner = t.w

Supervised(t) == held[t.w] = <<t.job, t.gen>>

Become(t, u) == threads' = (threads \ {t}) \cup {u}

(* What a thread nobody supervises returns or raises is lost with it.       *)
End(t, out) ==
  IF Supervised(t) THEN Become(t, [t EXCEPT !.seen = Unread, !.out = out])
                   ELSE threads' = threads \ {t}

Advance(t) ==
  IF t.pos = Len(ScriptOf(t.job))
    THEN End(t, "ok")
    ELSE Become(t, [t EXCEPT !.pos = @ + 1, !.seen = Unread])

Fail(t) == End(t, "failed")

(* The row is loaded under the fence; a deleted integration or an unusable  *)
(* configuration raises as well.                                            *)
ThreadFence(t) ==
  /\ Running(t, "fence")
  /\ (Fenced(t) /\ Advance(t)) \/ Fail(t)
  /\ UNCHANGED <<row, pc, cand, held, saw, imported, faults>>

(* _update_job loads the row under the fence ...                            *)
ThreadLoad(t) ==
  /\ Running(t, "write")
  /\ t.seen = Unread
  /\ IF Fenced(t) THEN Become(t, [t EXCEPT !.seen = row[t.job].status])
                  ELSE Fail(t)
  /\ UNCHANGED <<row, pc, cand, held, saw, imported, faults>>

(* ... and commits by id alone.                                             *)
ThreadCommit(t) ==
  /\ Running(t, "write")
  /\ t.seen # Unread
  /\ IF row[t.job].qs \in Gone
       THEN Fail(t) /\ UNCHANGED row
       ELSE /\ Advance(t)
            /\ row' = [row EXCEPT ![t.job].status =
                 Changed(t.seen, ScriptOf(t.job)[t.pos].status, @)]
  /\ UNCHANGED <<pc, cand, held, saw, imported, faults>>

(* A provider call answers, or raises or times out.                         *)
ThreadCall(t) ==
  /\ Running(t, "call")
  /\ Advance(t) \/ Fail(t)
  /\ UNCHANGED <<row, pc, cand, held, saw, imported, faults>>

(* The import commits, or raises before or after it has committed.          *)
ThreadImport(t) ==
  /\ Running(t, "import")
  /\ \/ imported' = imported \cup {<<t.job, t.gen>>} /\ (Advance(t) \/ Fail(t))
     \/ UNCHANGED imported /\ Fail(t)
  /\ UNCHANGED <<row, pc, cand, held, saw, faults>>

ThreadStep(t) ==
  \/ ThreadFence(t)
  \/ ThreadLoad(t)
  \/ ThreadCommit(t)
  \/ ThreadCall(t)
  \/ ThreadImport(t)

-----------------------------------------------------------------------------

Loop(w) ==
  \/ SelectCandidates(w)
  \/ \E c \in cand[w] : Claim(w, c) \/ ClaimMissed(w, c)
  \/ NothingClaimed(w)
  \/ LeaseLost(w)
  \/ \E t \in threads : Observe(w, t)
  \/ FinishCommit(w)

Next ==
  \/ \E j \in Jobs : Enqueue(j) \/ LeaseExpires(j) \/ HeartbeatMissed(j)
  \/ \E w \in Workers :
       \/ Start(w)
       \/ Loop(w)
       \/ Renew(w)
       \/ LoopError(w)
       \/ Close(w)
       \/ Crash(w)
  \/ \E t \in threads : ThreadStep(t)

Spec == Init /\ [][Next]_vars

(* Every re-claim takes a fault, or a worker that closed or died.           *)
Gens == 1 .. (1 + MaxFaults + Cardinality(Workers))

(* The event loop and the interpreter keep running, provider calls have     *)
(* time-outs, and a lease nobody renews runs out; nothing makes a process   *)
(* start, stop or fail.                                                     *)
Fairness ==
  /\ \A w \in Workers : WF_vars(Loop(w))
  /\ \A j \in Jobs : WF_vars(LeaseExpires(j))
  /\ \A j \in Jobs, g \in Gens :
       WF_vars(\E t \in threads : t.job = j /\ t.gen = g /\ ThreadStep(t))

FairSpec == Spec /\ Fairness

-----------------------------------------------------------------------------
(* Properties.                                                              *)

(* A finished job never goes back into the queue: whatever stale candidate  *)
(* list a worker still holds, the claiming UPDATE does not reopen a row     *)
(* that is done or failed.                                                  *)
NeverReopened ==
  [][\A j \in Jobs : row[j].qs \in Terminal \cup {"deleted"} =>
                       row'[j].qs \notin {"queued", "processing"}]_vars

(* A job whose lease is live stays with its worker, although claim_next     *)
(* decides from a list it read earlier and the lease may have been renewed  *)
(* or handed to somebody else in between.                                   *)
LeaseNotStolen ==
  [][\A j \in Jobs :
       row[j].qs = "processing" /\ row[j].lease = "live" =>
         row'[j].owner = row[j].owner]_vars

(* A job that reads done had its results imported by at least one attempt,  *)
(* also when the worker that recorded it was not the one that imported.     *)
(* Holds when every error has a text (Wordless = FALSE).                    *)
DoneMeansImported ==
  \A j \in Jobs : row[j].qs = "done" =>
                    \E g \in 1 .. row[j].attempts : <<j, g>> \in imported

(* A heartbeat only ever renews the lease of the attempt it belongs to:     *)
(* renew_lease checks worker_id and not the attempt, which is enough because*)
(* a loop that lost its job leaves it before it can claim it again.         *)
RenewsOwnAttempt ==
  [][\A w \in Workers : Renew(w) => held[w][2] = row[held[w][1]].attempts]_vars

(* A queued job is eventually settled, through every crash, closed worker,  *)
(* missed heartbeat and failed database call, as long as some worker's loop *)
(* is left to recover it.                                                   *)
QueuedJobSettles ==
  \A j \in Jobs :
     row[j].qs = "queued" ~>
       \/ row[j].qs \in Terminal \cup {"deleted"}
       \/ \A w \in Workers : pc[w] \in {"new", "closing", "closed", "dead"}

(* The two status columns agree once a job is settled: clients poll status, *)
(* the queue acts on queue_status, and different statements write them.     *)
(* Holds when heartbeats arrive and no stall is long (MaxFaults = 0 and     *)
(* Prompt).                                                                 *)
StatusAgrees ==
  \A j \in Jobs : row[j].qs \in Terminal => row[j].status = row[j].qs

(* At most one loop supervises a job, so that recovery after a crash or a   *)
(* closed worker never runs beside a supervised execution.  Holds when      *)
(* heartbeats arrive (MaxFaults = 0).                                       *)
SoleSupervisor ==
  \A v, w \in Workers :
     held[v] # NoClaim /\ held[w] # NoClaim /\ held[v][1] = held[w][1] => v = w

(* The queue implements the life cycle it promises; settled at least once   *)
(* in general ...                                                           *)
LifecycleOf ==
  [j \in Jobs |-> [phase |-> row[j].qs, owner |-> row[j].owner,
                   lease |-> row[j].lease, attempts |-> row[j].attempts]]

Lifecycle == INSTANCE JobLifecycle WITH job <- LifecycleOf, SettleOnce <- FALSE

ImplementsLifecycle == Lifecycle!Spec

(* ... and exactly once when heartbeats arrive (MaxFaults = 0).             *)
OnceLifecycle ==
  INSTANCE JobLifecycle WITH job <- LifecycleOf, SettleOnce <- TRUE

ImplementsOnceLifecycle == OnceLifecycle!Spec
=============================================================================
