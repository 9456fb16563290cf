---------------------------- MODULE CIQueueProofs ----------------------------
(***************************************************************************)
(* Proofs about CIQueue for every set of jobs and workers, every candidate *)
(* limit, any number of faults and with or without Prompt.                 *)
(***************************************************************************)
EXTENDS CIQueue, TLAPS

(* The position of the import in each script.                               *)
ImportAt == [github |-> 8, gitlab |-> 6, sync |-> 4]

Steps == [op : {"fence", "call", "import", "write"},
          status : Statuses \cup {Same}]

-----------------------------------------------------------------------------
(* Facts about the scripts.                                                 *)

(* Each script is a finite sequence of steps.                               *)
LEMMA ScriptType ==
  ASSUME NEW k \in JobKinds
  PROVE  /\ Len(Script[k]) \in Nat
         /\ \A p \in 1 .. Len(Script[k]) : Script[k][p] \in Steps
<1>1. CASE k = "github"
  <2>1. Script[k] = GitHubScript /\ Len(GitHubScript) = 9
    BY <1>1 DEF Script, GitHubScript
  <2>2. \A p \in 1 .. 9 : GitHubScript[p] \in Steps
    BY DEF GitHubScript, Fence, Call, Import, Write, Steps,
           Statuses, Same
  <2> QED BY <2>1, <2>2
<1>2. CASE k = "gitlab"
  <2>1. Script[k] = GitLabScript /\ Len(GitLabScript) = 7
    BY <1>2 DEF Script, GitLabScript
  <2>2. \A p \in 1 .. 7 : GitLabScript[p] \in Steps
    BY DEF GitLabScript, Fence, Call, Import, Write, Steps,
           Statuses, Same
  <2> QED BY <2>1, <2>2
<1>3. CASE k = "sync"
  <2>1. Script[k] = SyncScript /\ Len(SyncScript) = 5
    BY <1>3 DEF Script, SyncScript
  <2>2. \A p \in 1 .. 5 : SyncScript[p] \in Steps
    BY DEF SyncScript, Fence, Call, Import, Write, Steps,
           Statuses, Same
  <2> QED BY <2>1, <2>2
<1> QED BY <1>1, <1>2, <1>3 DEF JobKinds

(* Each script imports at exactly one position, which is not its last.      *)
LEMMA ScriptImport ==
  ASSUME NEW k \in JobKinds
  PROVE  /\ ImportAt[k] \in 1 .. (Len(Script[k]) - 1)
         /\ \A p \in 1 .. Len(Script[k]) :
              Script[k][p].op = "import" <=> p = ImportAt[k]
<1>1. CASE k = "github"
  <2>1. Script[k] = GitHubScript /\ Len(GitHubScript) = 9 /\ ImportAt[k] = 8
    BY <1>1 DEF Script, ImportAt, GitHubScript
  <2>2. \A p \in 1 .. 9 : GitHubScript[p].op = "import" <=> p = 8
    BY DEF GitHubScript, Fence, Call, Import, Write
  <2> QED BY <2>1, <2>2
<1>2. CASE k = "gitlab"
  <2>1. Script[k] = GitLabScript /\ Len(GitLabScript) = 7 /\ ImportAt[k] = 6
    BY <1>2 DEF Script, ImportAt, GitLabScript
  <2>2. \A p \in 1 .. 7 : GitLabScript[p].op = "import" <=> p = 6
    BY DEF GitLabScript, Fence, Call, Import, Write
  <2> QED BY <2>1, <2>2
<1>3. CASE k = "sync"
  <2>1. Script[k] = SyncScript /\ Len(SyncScript) = 5 /\ ImportAt[k] = 4
    BY <1>3 DEF Script, ImportAt, SyncScript
  <2>2. \A p \in 1 .. 5 : SyncScript[p].op = "import" <=> p = 4
    BY DEF SyncScript, Fence, Call, Import, Write
  <2> QED BY <2>1, <2>2
<1> QED BY <1>1, <1>2, <1>3 DEF JobKinds

(* The same, for the script of a job.                                       *)
LEMMA ScriptStep ==
  ASSUME NEW j \in Jobs, NEW p \in 1 .. Len(ScriptOf(j))
  PROVE  /\ ScriptOf(j)[p] \in Steps
         /\ ScriptOf(j)[p].op = "import" <=> p = ImportAt[Kind[j]]
         /\ p = Len(ScriptOf(j)) => p > ImportAt[Kind[j]]
         /\ p < Len(ScriptOf(j)) => p + 1 \in 1 .. Len(ScriptOf(j))
<1>1. Kind[j] \in JobKinds
  BY KindAssumption
<1>2. Len(ScriptOf(j)) \in Nat /\ ImportAt[Kind[j]] \in Nat
  BY <1>1, ScriptType, ScriptImport DEF ScriptOf
<1>3. ScriptOf(j)[p] \in Steps
  BY <1>1, ScriptType DEF ScriptOf
<1>4. ScriptOf(j)[p].op = "import" <=> p = ImportAt[Kind[j]]
  BY <1>1, ScriptImport DEF ScriptOf
<1>5. ImportAt[Kind[j]] \in 1 .. (Len(ScriptOf(j)) - 1)
  BY <1>1, ScriptImport DEF ScriptOf
<1> QED
  BY <1>2, <1>3, <1>4, <1>5

-----------------------------------------------------------------------------
(* Type correctness.                                                        *)

(* Advancing or ending a well-typed thread leaves a set of well-typed ones. *)
LEMMA ThreadsType ==
  ASSUME threads \subseteq Threads, NEW t \in threads,
         Advance(t) \/ Fail(t)
  PROVE  threads' \subseteq Threads
<1>1. t \in Threads
  OBVIOUS
<1>2. [t EXCEPT !.seen = Unread, !.out = "ok"] \in Threads
  BY <1>1 DEF Threads
<1>3. [t EXCEPT !.seen = Unread, !.out = "failed"] \in Threads
  BY <1>1 DEF Threads
<1>4. [t EXCEPT !.pos = @ + 1, !.seen = Unread] \in Threads
  <2>1. t.pos + 1 \in Nat \ {0}
    BY <1>1 DEF Threads
  <2> QED
    BY <1>1, <2>1 DEF Threads
<1> QED
  BY <1>2, <1>3, <1>4 DEF Advance, Fail, End, Become

(* A loop supervises a claim exactly while it works on it or finishes it,   *)
(* and has a loaded row exactly while it finishes.                          *)
LoopOK ==
  \A w \in Workers :
     /\ pc[w] \in {"work", "finish"} <=> held[w] # NoClaim
     /\ pc[w] = "finish" <=> saw[w].out # "none"

(* A thread is at a step of its script.                                     *)
PosOK == \A t \in threads : t.pos \in 1 .. Len(ScriptOf(t.job))

(* finish_job hears of the outcome of an execution that is over; without    *)
(* its text only of errors that have one.                                   *)
LEMMA HeardOut ==
  ASSUME NEW out \in {"none", "ok", "failed"}
  PROVE  /\ Heard(out) \subseteq {out, "ok"}
         /\ out # "none" => "none" \notin Heard(out)
         /\ ~ Wordless => Heard(out) = {out}
BY DEF Heard

(* Every step of the queue preserves its types.                             *)
LEMMA TypeStep == TypeOK /\ LoopOK /\ PosOK /\ [Next]_vars => TypeOK'
<1> SUFFICES ASSUME TypeOK, LoopOK, PosOK, [Next]_vars PROVE TypeOK'
  OBVIOUS
<1> USE DEF TypeOK
<1>1. ASSUME NEW j \in Jobs, Enqueue(j) PROVE TypeOK'
  BY <1>1 DEF Enqueue, Rows
<1>2. ASSUME NEW j \in Jobs, LeaseExpires(j) PROVE TypeOK'
  BY <1>2 DEF LeaseExpires, ExpiredRow, Rows
<1>3. ASSUME NEW j \in Jobs, HeartbeatMissed(j) PROVE TypeOK'
  BY <1>3, FaultsAssumption DEF HeartbeatMissed, ExpiredRow, Rows
<1>4. ASSUME NEW w \in Workers, Start(w) PROVE TypeOK'
  BY <1>4 DEF Start, PCs
<1>5. ASSUME NEW w \in Workers, SelectCandidates(w) PROVE TypeOK'
  <2>1. {[job |-> j, qs |-> row[j].qs, epoch |-> row[j].epoch] :
           j \in FirstClaimable} \subseteq Candidates
    <3>1. \A j \in FirstClaimable :
            /\ j \in Jobs
            /\ row[j].qs \in {"queued", "processing"}
      BY DEF FirstClaimable, Claimable
    <3>2. \A j \in Jobs : row[j].epoch \in Nat
      BY DEF Rows
    <3> QED
      BY <3>1, <3>2 DEF Candidates
  <2> QED
    BY <1>5, <2>1 DEF SelectCandidates, PCs
<1>6. ASSUME NEW w \in Workers, NEW c \in cand[w], Claim(w, c) PROVE TypeOK'
  <2>1. c.job \in Jobs
    BY DEF Candidates
  <2>2. row' \in [Jobs -> Rows]
    BY <1>6, <2>1 DEF Claim, ClaimedRow, Rows
  <2>3. row[c.job].attempts \in Nat
    BY <2>1 DEF Rows
  <2>4. NewThread(w, c.job) \in Threads
    BY <2>1, <2>3 DEF NewThread, Threads
  <2>5. threads' \subseteq Threads
    BY <1>6, <2>4 DEF Claim
  <2>6. held' \in [Workers -> Claims \cup {NoClaim}]
    BY <1>6, <2>1, <2>3 DEF Claim, Claims
  <2> QED
    BY <1>6, <2>2, <2>5, <2>6 DEF Claim, PCs
<1>7. ASSUME NEW w \in Workers, NEW c \in cand[w], ClaimMissed(w, c)
      PROVE  TypeOK'
  BY <1>7 DEF ClaimMissed
<1>8. ASSUME NEW w \in Workers, NothingClaimed(w) PROVE TypeOK'
  <2>1. PICK old \in SUBSET {j \in Jobs : row[j].qs \in Terminal} :
          row' = [j \in Jobs |->
                    IF j \in old THEN [row[j] EXCEPT !.qs = "deleted"]
                                 ELSE row[j]]
    BY <1>8 DEF NothingClaimed
  <2>2. \A r \in Rows : [r EXCEPT !.qs = "deleted"] \in Rows
    BY DEF Rows, Gone
  <2>3. row' \in [Jobs -> Rows]
    BY <2>1, <2>2
  <2> QED
    BY <1>8, <2>3 DEF NothingClaimed, PCs
<1>9. ASSUME NEW w \in Workers, NEW next \in PCs, Release(w, next)
      PROVE  /\ pc' \in [Workers -> PCs]
             /\ held' \in [Workers -> Claims \cup {NoClaim}]
             /\ saw' \in [Workers -> Loaded]
             /\ threads' \subseteq Threads
  BY <1>9 DEF Release, NoSaw, Loaded, Terminal, Statuses
<1>10. ASSUME NEW w \in Workers, LeaseLost(w) PROVE TypeOK'
  BY <1>9, <1>10 DEF LeaseLost, PCs
<1>11. ASSUME NEW w \in Workers, NEW t \in threads, Observe(w, t)
       PROVE  TypeOK'
  <2>1. t.job \in Jobs /\ t.out \in {"none", "ok", "failed"}
    BY DEF Threads
  <2>2. CASE Mine(w, t.job)
    <3>1. PICK out \in Heard(t.out) :
            saw' = [saw EXCEPT ![w] = [out |-> out, qs |-> row[t.job].qs,
                                       status |-> row[t.job].status]]
      BY <1>11, <2>2 DEF Observe
    <3>2. [out |-> out, qs |-> row[t.job].qs, status |-> row[t.job].status]
            \in Loaded
      BY <1>11, <2>1, <2>2, HeardOut DEF Mine, Loaded, Rows, Gone
    <3> QED
      BY <1>11, <2>2, <3>1, <3>2 DEF Observe, PCs
  <2>3. CASE ~ Mine(w, t.job)
    BY <1>9, <1>11, <2>3 DEF Observe, PCs
  <2> QED
    BY <2>2, <2>3
<1>12. ASSUME NEW w \in Workers, FinishCommit(w) PROVE TypeOK'
  <2> DEFINE j == held[w][1]
             v == Verdict(saw[w].out)
  <2>0. pc[w] = "finish" /\ held[w] \in Claims /\ saw[w] \in Loaded
    BY <1>12 DEF FinishCommit, LoopOK
  <2>1. j \in Jobs /\ v \in Terminal
    BY <2>0 DEF Verdict, Terminal, Claims
  <2>2. row[j] \in Rows
    BY <2>1
  <2>3. Changed(saw[w].qs, v, row[j].qs)
          \in {"queued", "processing"} \cup Terminal \cup Gone
    BY <2>1, <2>2 DEF Changed, Rows
  <2>4. Changed(saw[w].status, v, row[j].status) \in Statuses
    BY <2>1, <2>2 DEF Changed, Rows, Terminal, Statuses
  <2> HIDE DEF j, v
  <2>5. row' \in [Jobs -> Rows]
    BY <1>12, <2>1, <2>2, <2>3, <2>4 DEF FinishCommit, Rows, j, v
  <2> QED
    BY <1>9, <1>12, <2>5 DEF FinishCommit, PCs
<1>13. ASSUME NEW w \in Workers, Renew(w) PROVE TypeOK'
  <2> DEFINE j == held[w][1]
  <2>1. j \in Jobs
    BY <1>13 DEF Renew, LoopOK, Claims
  <2> HIDE DEF j
  <2>2. row' \in [Jobs -> Rows]
    BY <1>13, <2>1 DEF Renew, Rows, j
  <2> QED
    BY <1>13, <2>2 DEF Renew
<1>14. ASSUME NEW w \in Workers, LoopError(w) PROVE TypeOK'
  <2>1. cand' \in [Workers -> SUBSET Candidates]
    BY <1>14 DEF LoopError
  <2>2. faults' \in 0 .. MaxFaults
    BY <1>14, FaultsAssumption DEF LoopError
  <2> QED
    BY <1>9, <1>14, <2>1, <2>2 DEF LoopError, PCs
<1>15. ASSUME NEW w \in Workers, Close(w) PROVE TypeOK'
  BY <1>9, <1>15 DEF Close, PCs
<1>16. ASSUME NEW w \in Workers, Crash(w) PROVE TypeOK'
  BY <1>16 DEF Crash, PCs, NoSaw, Loaded, Terminal, Statuses
<1>17. ASSUME NEW t \in threads, ThreadStep(t) PROVE TypeOK'
  <2>1. t \in Threads /\ t.job \in Jobs
    BY DEF Threads
  <2>2. CASE ThreadFence(t)
    BY <2>2, ThreadsType DEF ThreadFence
  <2>3. CASE ThreadLoad(t)
    <3>1. row[t.job].status \in Statuses
      BY <2>1 DEF Rows
    <3>2. [t EXCEPT !.seen = row[t.job].status] \in Threads
      BY <2>1, <3>1 DEF Threads
    <3> QED
      BY <2>3, <3>2, ThreadsType DEF ThreadLoad, Become
  <2>4. CASE ThreadCommit(t)
    <3> DEFINE new == ScriptOf(t.job)[t.pos].status
    <3>1. CASE row[t.job].qs \in Gone
      BY <2>4, <3>1, ThreadsType DEF ThreadCommit
    <3>2. CASE row[t.job].qs \notin Gone
      <4>1. threads' \subseteq Threads
        BY <2>4, <3>2, ThreadsType DEF ThreadCommit
      <4>2. new \in Statuses \cup {Same}
        BY <2>1, ScriptStep DEF PosOK, Steps
      <4>3. row[t.job] \in Rows
        BY <2>1
      <4> HIDE DEF new
      <4>4. Changed(t.seen, new, row[t.job].status) \in Statuses
        BY <4>2, <4>3 DEF Changed, Rows
      <4>5. row' \in [Jobs -> Rows]
        BY <2>1, <2>4, <3>2, <4>3, <4>4 DEF ThreadCommit, Rows, new
      <4> QED
        BY <2>4, <4>1, <4>5 DEF ThreadCommit
    <3> QED
      BY <3>1, <3>2
  <2>5. CASE ThreadCall(t)
    BY <2>5, ThreadsType DEF ThreadCall
  <2>6. CASE ThreadImport(t)
    <3>1. <<t.job, t.gen>> \in Jobs \X Nat
      BY <2>1 DEF Threads
    <3> QED
      BY <2>6, <3>1, ThreadsType DEF ThreadImport
  <2> QED
    BY <1>17, <2>2, <2>3, <2>4, <2>5, <2>6 DEF ThreadStep
<1>18. CASE UNCHANGED vars
  BY <1>18 DEF vars
<1> QED
  BY <1>1, <1>2, <1>3, <1>4, <1>5, <1>6, <1>7, <1>8, <1>10, <1>11, <1>12,
     <1>13, <1>14, <1>15, <1>16, <1>17, <1>18 DEF Next, Loop

(* NoClaim is not a claim.                                                  *)
LEMMA ClaimsDiffer == \A x \in Claims : x # NoClaim
BY DEF NoClaim, Claims

(* Every step keeps the loops in order.                                     *)
LEMMA LoopStep == TypeOK /\ LoopOK /\ [Next]_vars => LoopOK'
<1> SUFFICES ASSUME TypeOK, LoopOK, [Next]_vars PROVE LoopOK'
  OBVIOUS
<1> USE DEF LoopOK
<1>1. CASE UNCHANGED <<pc, held, saw>>
  BY <1>1
<1>2. ASSUME NEW w \in Workers, pc[w] \notin {"work", "finish"},
             NEW next \in PCs \ {"work", "finish"},
             pc' = [pc EXCEPT ![w] = next], UNCHANGED <<held, saw>>
      PROVE  LoopOK'
  BY <1>2 DEF TypeOK
<1>3. ASSUME NEW w \in Workers, NEW next \in PCs \ {"work", "finish"},
             Release(w, next)
      PROVE  LoopOK'
  BY <1>3 DEF Release, TypeOK, NoSaw
<1>4. ASSUME NEW w \in Workers, NEW c \in cand[w], Claim(w, c) PROVE LoopOK'
  <2>1. c.job \in Jobs
    BY DEF TypeOK, Candidates
  <2>2. <<c.job, row[c.job].attempts + 1>> \in Claims
    BY <2>1 DEF TypeOK, Rows, Claims
  <2>3. CASE pc[w] = "claim"
    BY <1>4, <2>2, <2>3, ClaimsDiffer DEF Claim, TypeOK
  <2>4. CASE pc[w] = "closing"
    BY <1>4, <2>4 DEF Claim, TypeOK
  <2> QED
    BY <1>4, <2>3, <2>4 DEF Claim
<1>5. ASSUME NEW w \in Workers, NEW t \in threads, Observe(w, t) PROVE LoopOK'
  <2>1. CASE Mine(w, t.job)
    <3>1. PICK out \in Heard(t.out) :
            saw' = [saw EXCEPT ![w] = [out |-> out, qs |-> row[t.job].qs,
                                       status |-> row[t.job].status]]
      BY <1>5, <2>1 DEF Observe
    <3>2. out # "none"
      BY <1>5, HeardOut DEF Observe, TypeOK, Threads
    <3> QED
      BY <1>5, <2>1, <3>1, <3>2 DEF Observe, TypeOK
  <2>2. CASE ~ Mine(w, t.job)
    BY <1>3, <1>5, <2>2 DEF Observe, PCs
  <2> QED
    BY <2>1, <2>2
<1>6. ASSUME NEW w \in Workers, Loop(w) PROVE LoopOK'
  <2>1. CASE SelectCandidates(w)
    BY <1>2, <2>1 DEF SelectCandidates, PCs
  <2>2. CASE NothingClaimed(w)
    BY <1>2, <2>2 DEF NothingClaimed, PCs
  <2>3. CASE LeaseLost(w)
    BY <1>3, <2>3 DEF LeaseLost, PCs
  <2>4. CASE FinishCommit(w)
    BY <1>3, <2>4 DEF FinishCommit, PCs
  <2>5. ASSUME NEW c \in cand[w], ClaimMissed(w, c) PROVE LoopOK'
    BY <1>1, <2>5 DEF ClaimMissed
  <2> QED
    BY <1>4, <1>5, <1>6, <2>1, <2>2, <2>3, <2>4, <2>5 DEF Loop
<1>7. ASSUME NEW w \in Workers, Start(w) PROVE LoopOK'
  BY <1>2, <1>7 DEF Start, PCs
<1>8. ASSUME NEW w \in Workers, LoopError(w) PROVE LoopOK'
  BY <1>3, <1>8 DEF LoopError, PCs
<1>9. ASSUME NEW w \in Workers, Close(w) PROVE LoopOK'
  BY <1>3, <1>9 DEF Close, PCs
<1>10. ASSUME NEW w \in Workers, Crash(w) PROVE LoopOK'
  BY <1>10 DEF Crash, TypeOK, NoSaw
<1>11. ASSUME NEW w \in Workers, Renew(w) PROVE LoopOK'
  BY <1>1, <1>11 DEF Renew
<1>12. ASSUME NEW j \in Jobs, Enqueue(j) \/ LeaseExpires(j) \/ HeartbeatMissed(j)
       PROVE  LoopOK'
  BY <1>1, <1>12 DEF Enqueue, LeaseExpires, HeartbeatMissed
<1>13. ASSUME NEW t \in threads, ThreadStep(t) PROVE LoopOK'
  BY <1>1, <1>13 DEF ThreadStep, ThreadFence, ThreadLoad, ThreadCommit,
                     ThreadCall, ThreadImport
<1>14. CASE UNCHANGED vars
  BY <1>1, <1>14 DEF vars
<1> QED
  BY <1>6, <1>7, <1>8, <1>9, <1>10, <1>11, <1>12, <1>13, <1>14 DEF Next

(* A thread does not go past the import of its script before it committed.  *)
Passes(t) ==
  /\ Advance(t)
  /\ ScriptOf(t.job)[t.pos].op = "import" => <<t.job, t.gen>> \in imported'

(* A step of a thread advances it, ends it, or loads the row it will write. *)
LEMMA ThreadStepKinds ==
  ASSUME NEW t, ThreadStep(t)
  PROVE  Passes(t) \/ Fail(t) \/ (ThreadLoad(t) /\ Fenced(t))
<1>1. CASE ThreadFence(t)
  BY <1>1 DEF ThreadFence, Running, Passes
<1>2. CASE ThreadLoad(t)
  <2>1. CASE Fenced(t)
    BY <1>2, <2>1
  <2>2. CASE ~ Fenced(t)
    BY <1>2, <2>2 DEF ThreadLoad
  <2> QED
    BY <2>1, <2>2
<1>3. CASE ThreadCommit(t)
  <2>1. CASE row[t.job].qs \in Gone
    BY <1>3, <2>1 DEF ThreadCommit
  <2>2. CASE row[t.job].qs \notin Gone
    BY <1>3, <2>2 DEF ThreadCommit, Running, Passes
  <2> QED
    BY <2>1, <2>2
<1>4. CASE ThreadCall(t)
  BY <1>4 DEF ThreadCall, Running, Passes
<1>5. CASE ThreadImport(t)
  <2>1. CASE UNCHANGED imported /\ Fail(t)
    BY <2>1
  <2>2. CASE /\ imported' = imported \cup {<<t.job, t.gen>>}
             /\ Advance(t) \/ Fail(t)
    BY <2>2 DEF Passes
  <2> QED
    BY <1>5, <2>1, <2>2 DEF ThreadImport
<1> QED
  BY <1>1, <1>2, <1>3, <1>4, <1>5 DEF ThreadStep

(* What a step of a thread makes of it: it stays where it is, perhaps       *)
(* failed, or it returns from its last step, or it goes to its next.        *)
SameThread(t, v) == v.w = t.w /\ v.job = t.job /\ v.gen = t.gen

Stays(t, v)   == /\ v.pos = t.pos /\ v.out \in {"none", "failed"}
                 /\ v.seen = Unread \/ (v.out = "none" /\ Fenced(t))
Returns(t, v) == /\ v.pos = t.pos /\ v.out = "ok" /\ v.seen = Unread
                 /\ Passes(t) /\ t.pos = Len(ScriptOf(t.job))
Moves(t, v)   == /\ v.pos = t.pos + 1 /\ v.out = "none" /\ v.seen = Unread
                 /\ Passes(t) /\ t.pos # Len(ScriptOf(t.job))

LEMMA ThreadEffect ==
  ASSUME TypeOK, NEW t \in threads, ThreadStep(t)
  PROVE  \E v \in Threads : /\ threads' \subseteq (threads \ {t}) \cup {v}
                            /\ SameThread(t, v) /\ t.out = "none"
                            /\ Stays(t, v) \/ Returns(t, v) \/ Moves(t, v)
<1>1. t \in Threads /\ t.job \in Jobs /\ t.out = "none"
  BY DEF TypeOK, Threads, ThreadStep, ThreadFence, ThreadLoad, ThreadCommit,
         ThreadCall, ThreadImport, Running
<1>2. CASE Fail(t)
  <2> DEFINE v == [t EXCEPT !.seen = Unread, !.out = "failed"]
  <2>1. v \in Threads /\ SameThread(t, v) /\ Stays(t, v)
    BY <1>1 DEF Threads, SameThread, Stays
  <2>2. threads' \subseteq (threads \ {t}) \cup {v}
    BY <1>2 DEF Fail, End, Become
  <2> QED
    BY <1>1, <2>1, <2>2
<1>3. CASE Passes(t) /\ t.pos = Len(ScriptOf(t.job))
  <2> DEFINE v == [t EXCEPT !.seen = Unread, !.out = "ok"]
  <2>1. v \in Threads /\ SameThread(t, v) /\ Returns(t, v)
    BY <1>1, <1>3 DEF Threads, SameThread, Returns
  <2>2. threads' \subseteq (threads \ {t}) \cup {v}
    BY <1>3 DEF Passes, Advance, End, Become
  <2> QED
    BY <1>1, <2>1, <2>2
<1>4. CASE Passes(t) /\ t.pos # Len(ScriptOf(t.job))
  <2> DEFINE v == [t EXCEPT !.pos = @ + 1, !.seen = Unread]
  <2>0. t.pos + 1 \in Nat \ {0}
    BY <1>1 DEF Threads
  <2>1. v \in Threads /\ SameThread(t, v) /\ Moves(t, v)
    BY <1>1, <1>4, <2>0 DEF Threads, SameThread, Moves
  <2>2. threads' \subseteq (threads \ {t}) \cup {v}
    BY <1>4 DEF Passes, Advance, Become
  <2> QED
    BY <1>1, <2>1, <2>2
<1>5. CASE ThreadLoad(t) /\ Fenced(t)
  <2> DEFINE v == [t EXCEPT !.seen = row[t.job].status]
  <2>0. row[t.job].status \in Statuses
    BY <1>1 DEF TypeOK, Rows
  <2>1. v \in Threads /\ SameThread(t, v) /\ Stays(t, v)
    BY <1>1, <1>5, <2>0 DEF Threads, SameThread, Stays
  <2>2. threads' \subseteq (threads \ {t}) \cup {v}
    BY <1>5 DEF ThreadLoad, Become
  <2> QED
    BY <1>1, <2>1, <2>2
<1> QED
  BY <1>2, <1>3, <1>4, <1>5, ThreadStepKinds

(* Every step leaves the threads at steps of their scripts.                 *)
LEMMA PosStep == TypeOK /\ PosOK /\ [Next]_vars => PosOK'
<1> SUFFICES ASSUME TypeOK, PosOK, [Next]_vars PROVE PosOK'
  OBVIOUS
<1> USE DEF PosOK
<1>1. CASE threads' \subseteq threads
  BY <1>1
<1>2. ASSUME NEW w \in Workers, NEW next, Release(w, next) PROVE PosOK'
  BY <1>1, <1>2 DEF Release
<1>4. ASSUME NEW w \in Workers, NEW c \in cand[w], Claim(w, c) PROVE PosOK'
  <2>1. c.job \in Jobs
    BY DEF TypeOK, Candidates
  <2>2. 1 \in 1 .. Len(ScriptOf(c.job))
    BY <2>1, KindAssumption, ScriptType, ScriptImport DEF ScriptOf
  <2>3. \A u \in threads' : u \in threads \/ u = NewThread(w, c.job)
    BY <1>4 DEF Claim
  <2> QED
    BY <2>2, <2>3 DEF NewThread
<1>5. ASSUME NEW t \in threads, ThreadStep(t) PROVE PosOK'
  <2>1. PICK v \in Threads : /\ threads' \subseteq (threads \ {t}) \cup {v}
                             /\ SameThread(t, v)
                             /\ Stays(t, v) \/ Returns(t, v) \/ Moves(t, v)
    BY <1>5, ThreadEffect
  <2>2. t.job \in Jobs /\ t.pos \in 1 .. Len(ScriptOf(t.job))
    BY DEF TypeOK, Threads
  <2>3. Len(ScriptOf(t.job)) \in Nat
    BY <2>2, KindAssumption, ScriptType DEF ScriptOf
  <2>4. v.pos \in 1 .. Len(ScriptOf(v.job))
    BY <2>1, <2>2, <2>3 DEF SameThread, Stays, Returns, Moves
  <2> QED
    BY <2>1, <2>4
<1>6. ASSUME NEW w \in Workers, Loop(w) PROVE PosOK'
  BY <1>1, <1>2, <1>4, <1>6 DEF Loop, SelectCandidates, ClaimMissed,
     NothingClaimed, LeaseLost, Observe, FinishCommit
<1>7. ASSUME NEW w \in Workers,
             Start(w) \/ Renew(w) \/ LoopError(w) \/ Close(w) \/ Crash(w)
      PROVE  PosOK'
  BY <1>1, <1>2, <1>7 DEF Start, Renew, LoopError, Close, Crash
<1>8. ASSUME NEW j \in Jobs, Enqueue(j) \/ LeaseExpires(j) \/ HeartbeatMissed(j)
      PROVE  PosOK'
  BY <1>1, <1>8 DEF Enqueue, LeaseExpires, HeartbeatMissed
<1>9. CASE UNCHANGED vars
  BY <1>1, <1>9 DEF vars
<1> QED
  BY <1>5, <1>6, <1>7, <1>8, <1>9 DEF Next

-----------------------------------------------------------------------------
(* What a step may do to a row, from r to s.                                *)

Enqueued(r, s) == r.qs = "absent" /\ s = [r EXCEPT !.qs = "queued"]

Taken(w, r, s) ==
  s = [r EXCEPT !.qs = "processing", !.owner = w, !.lease = "live",
                !.epoch = @ + 1, !.attempts = @ + 1]

Renewed(r, s) ==
  /\ r.qs = "processing"
  /\ s = [r EXCEPT !.lease = "live",
                   !.epoch = IF r.lease = "live" THEN @ ELSE @ + 1]

Expired(r, s) ==
  /\ r.qs = "processing"
  /\ r.lease = "live"
  /\ s = [r EXCEPT !.lease = "expired"]

Settled(w, r, s) ==
  /\ r.qs \notin Gone
  /\ s = [r EXCEPT
            !.qs     = Changed(saw[w].qs, Verdict(saw[w].out), @),
            !.status = Changed(saw[w].status, Verdict(saw[w].out), @),
            !.lease  = "null"]

Deleted(r, s) == r.qs \in Terminal /\ s = [r EXCEPT !.qs = "deleted"]

Relabelled(r, s) == \E x \in Statuses : s = [r EXCEPT !.status = x]

RowEvolves(j) ==
  \/ row'[j] = row[j]
  \/ Enqueued(row[j], row'[j])
  \/ \E w \in Workers : \E c \in cand[w] :
        /\ pc[w] \in {"claim", "closing"} /\ c.job = j
        /\ StillAsSelected(c)
        /\ Taken(w, row[j], row'[j])
  \/ Renewed(row[j], row'[j])
  \/ /\ Expired(row[j], row'[j])
     /\ Heartbeating(j) => faults < MaxFaults
  \/ \E w \in Workers :
        /\ FinishCommit(w)
        /\ pc[w] = "finish" /\ held[w] \in Claims /\ held[w][1] = j
        /\ Settled(w, row[j], row'[j])
  \/ Deleted(row[j], row'[j])
  \/ /\ Relabelled(row[j], row'[j])
     /\ \E t \in threads : t.job = j /\ t.seen # Unread

(* Every step changes every row in one of these ways.                       *)
LEMMA RowEffect ==
  ASSUME TypeOK, LoopOK, PosOK, [Next]_vars, NEW j \in Jobs
  PROVE  RowEvolves(j)
<1> USE DEF RowEvolves
<1>0. row \in [Jobs -> Rows] /\ row[j] \in Rows
  BY DEF TypeOK
<1>1. CASE UNCHANGED row
  BY <1>1
<1>2. ASSUME NEW k \in Jobs, Enqueue(k) PROVE RowEvolves(j)
  <2>1. CASE j = k
    BY <1>0, <1>2, <2>1 DEF Enqueue, Enqueued
  <2>2. CASE j # k
    BY <1>0, <1>2, <2>2 DEF Enqueue
  <2> QED
    BY <2>1, <2>2
<1>3. ASSUME NEW k \in Jobs, LeaseExpires(k) \/ HeartbeatMissed(k)
      PROVE  RowEvolves(j)
  <2>1. Expirable(k) /\ row' = ExpiredRow(k)
    BY <1>3 DEF LeaseExpires, HeartbeatMissed
  <2>2. CASE j = k
    <3>1. Expired(row[j], row'[j])
      BY <1>0, <2>1, <2>2 DEF Expirable, ExpiredRow, Expired
    <3>2. Heartbeating(j) => faults < MaxFaults
      BY <1>3, <2>2 DEF LeaseExpires, HeartbeatMissed
    <3> QED
      BY <3>1, <3>2
  <2>3. CASE j # k
    BY <1>0, <2>1, <2>3 DEF ExpiredRow
  <2> QED
    BY <2>2, <2>3
<1>4. ASSUME NEW w \in Workers, NEW c \in cand[w], Claim(w, c)
      PROVE  RowEvolves(j)
  <2>1. c.job \in Jobs
    BY DEF TypeOK, Candidates
  <2>2. CASE j = c.job
    <3>1. Taken(w, row[j], row'[j])
      BY <1>0, <1>4, <2>1, <2>2 DEF Claim, ClaimedRow, Taken
    <3>2. pc[w] \in {"claim", "closing"} /\ StillAsSelected(c)
      BY <1>4 DEF Claim
    <3> QED
      BY <2>2, <3>1, <3>2
  <2>3. CASE j # c.job
    BY <1>0, <1>4, <2>1, <2>3 DEF Claim, ClaimedRow
  <2> QED
    BY <2>2, <2>3
<1>5. ASSUME NEW w \in Workers, NothingClaimed(w) PROVE RowEvolves(j)
  <2>1. PICK old \in SUBSET {k \in Jobs : row[k].qs \in Terminal} :
          row' = [k \in Jobs |->
                    IF k \in old THEN [row[k] EXCEPT !.qs = "deleted"]
                                 ELSE row[k]]
    BY <1>5 DEF NothingClaimed
  <2>2. row'[j] = IF j \in old THEN [row[j] EXCEPT !.qs = "deleted"] ELSE row[j]
    BY <2>1
  <2>3. CASE j \in old
    BY <2>1, <2>2, <2>3 DEF Deleted
  <2>4. CASE j \notin old
    BY <2>2, <2>4
  <2> QED
    BY <2>3, <2>4
<1>6. ASSUME NEW w \in Workers, FinishCommit(w) PROVE RowEvolves(j)
  <2>1. pc[w] = "finish" /\ held[w] \in Claims
    BY <1>6 DEF FinishCommit, LoopOK, TypeOK
  <2>2. held[w][1] \in Jobs
    BY <2>1 DEF Claims
  <2>3. CASE row[held[w][1]].qs \in Gone
    BY <1>1, <1>6, <2>3 DEF FinishCommit
  <2>4. CASE row[held[w][1]].qs \notin Gone /\ j = held[w][1]
    <3>1. Settled(w, row[j], row'[j])
      BY <1>0, <1>6, <2>2, <2>4 DEF FinishCommit, Settled
    <3> QED
      BY <1>6, <2>1, <2>4, <3>1
  <2>5. CASE row[held[w][1]].qs \notin Gone /\ j # held[w][1]
    BY <1>0, <1>6, <2>2, <2>5 DEF FinishCommit
  <2> QED
    BY <2>3, <2>4, <2>5
<1>7. ASSUME NEW w \in Workers, Renew(w) PROVE RowEvolves(j)
  <2> DEFINE k == held[w][1]
  <2>1. k \in Jobs /\ row[k].qs = "processing"
    BY <1>7 DEF Renew, Renewable, LoopOK, TypeOK, Claims
  <2>2. CASE j = k
    BY <1>0, <1>7, <2>1, <2>2 DEF Renew, Renewed
  <2>3. CASE j # k
    BY <1>0, <1>7, <2>1, <2>3 DEF Renew
  <2> QED
    BY <2>2, <2>3
<1>8. ASSUME NEW t \in threads, ThreadCommit(t) PROVE RowEvolves(j)
  <2> DEFINE new == Changed(t.seen, ScriptOf(t.job)[t.pos].status,
                            row[t.job].status)
  <2>1. t.job \in Jobs
    BY DEF TypeOK, Threads
  <2>2. CASE row[t.job].qs \in Gone
    BY <1>1, <1>8, <2>2 DEF ThreadCommit
  <2>3. CASE row[t.job].qs \notin Gone /\ j = t.job
    <3>1. row'[j] = [row[j] EXCEPT !.status = new]
      BY <1>0, <1>8, <2>1, <2>3 DEF ThreadCommit
    <3>2. ScriptOf(t.job)[t.pos].status \in Statuses \cup {Same}
      BY <2>1, ScriptStep DEF PosOK, Steps
    <3>3. new \in Statuses
      BY <1>0, <2>3, <3>2 DEF Changed, Rows
    <3> QED
      BY <1>8, <2>3, <3>1, <3>3 DEF Relabelled, ThreadCommit
  <2>4. CASE row[t.job].qs \notin Gone /\ j # t.job
    BY <1>0, <1>8, <2>1, <2>4 DEF ThreadCommit
  <2> QED
    BY <2>2, <2>3, <2>4
<1>9. ASSUME NEW w \in Workers, Loop(w) PROVE RowEvolves(j)
  BY <1>1, <1>4, <1>5, <1>6, <1>9 DEF Loop, SelectCandidates, ClaimMissed,
     LeaseLost, Observe
<1>10. ASSUME NEW w \in Workers,
              Start(w) \/ LoopError(w) \/ Close(w) \/ Crash(w)
       PROVE  RowEvolves(j)
  BY <1>1, <1>10 DEF Start, LoopError, Close, Crash
<1>11. ASSUME NEW t \in threads, ThreadStep(t) PROVE RowEvolves(j)
  BY <1>1, <1>8, <1>11 DEF ThreadStep, ThreadFence, ThreadLoad, ThreadCall,
     ThreadImport
<1>12. CASE UNCHANGED vars
  BY <1>1, <1>12 DEF vars
<1> QED
  BY <1>2, <1>3, <1>7, <1>9, <1>10, <1>11, <1>12 DEF Next

-----------------------------------------------------------------------------
(* Candidates.                                                              *)

(* A candidate that was selected as abandoned is no newer than the row, and *)
(* while the row's lease_until is still the selected one it is not live:    *)
(* what makes the conditional UPDATE of claim_next safe, however old the    *)
(* candidate list is.                                                       *)
NotLiveAsSelected(c, r) ==
  c.qs = "processing" =>
    /\ c.epoch <= r.epoch
    /\ r.qs = "processing" /\ r.epoch = c.epoch => r.lease # "live"

CandOK == \A w \in Workers : \A c \in cand[w] : NotLiveAsSelected(c, row[c.job])

(* A step that changes a row keeps what was selected from it stale.         *)
LEMMA StaleStaysStale ==
  ASSUME TypeOK, NEW c \in Candidates, RowEvolves(c.job),
         NotLiveAsSelected(c, row[c.job])
  PROVE  NotLiveAsSelected(c, row'[c.job])
<1> DEFINE r == row[c.job]
           s == row'[c.job]
<1>1. r \in Rows /\ c.epoch \in Nat
  BY DEF TypeOK, Candidates
<1>2. CASE s = r
  BY <1>2
<1>3. CASE Enqueued(r, s)
  BY <1>1, <1>3 DEF Enqueued, NotLiveAsSelected, Rows
<1>4. ASSUME NEW w \in Workers, Taken(w, r, s) PROVE NotLiveAsSelected(c, s)
  BY <1>1, <1>4 DEF Taken, NotLiveAsSelected, Rows
<1>5. CASE Renewed(r, s)
  BY <1>1, <1>5 DEF Renewed, NotLiveAsSelected, Rows
<1>6. CASE Expired(r, s)
  BY <1>1, <1>6 DEF Expired, NotLiveAsSelected, Rows
<1>7. ASSUME NEW w \in Workers, Settled(w, r, s) PROVE NotLiveAsSelected(c, s)
  BY <1>1, <1>7 DEF Settled, NotLiveAsSelected, Rows
<1>8. CASE Deleted(r, s)
  BY <1>1, <1>8 DEF Deleted, NotLiveAsSelected, Rows
<1>9. CASE Relabelled(r, s)
  BY <1>1, <1>9 DEF Relabelled, NotLiveAsSelected, Rows
<1> QED
  BY <1>2, <1>3, <1>4, <1>5, <1>6, <1>7, <1>8, <1>9 DEF RowEvolves

(* A candidate list shrinks, or is selected afresh.                         *)
Selected(w) ==
  /\ cand'[w] = {[job |-> j, qs |-> row[j].qs, epoch |-> row[j].epoch] :
                    j \in FirstClaimable}
  /\ UNCHANGED row

LEMMA CandEffect ==
  ASSUME TypeOK, [Next]_vars, NEW w \in Workers
  PROVE  cand'[w] \subseteq cand[w] \/ Selected(w)
<1> DEFINE Shrinks == cand'[w] \subseteq cand[w]
<1>1. ASSUME UNCHANGED cand PROVE Shrinks
  BY <1>1
<1>2. ASSUME NEW v \in Workers, NEW c \in cand[v], Claim(v, c) PROVE Shrinks
  BY <1>2 DEF Claim, TypeOK
<1>3. ASSUME NEW v \in Workers, NEW c \in cand[v], ClaimMissed(v, c)
      PROVE  Shrinks
  BY <1>3 DEF ClaimMissed, TypeOK
<1>4. ASSUME NEW v \in Workers, LoopError(v) \/ Crash(v) PROVE Shrinks
  BY <1>4 DEF LoopError, Crash, TypeOK
<1>5. ASSUME NEW v \in Workers, SelectCandidates(v), v # w PROVE Shrinks
  BY <1>5 DEF SelectCandidates, TypeOK
<1>6. CASE SelectCandidates(w)
  BY <1>6 DEF SelectCandidates, Selected, TypeOK
<1>7. ASSUME NEW t \in threads, ThreadStep(t) PROVE Shrinks
  BY <1>1, <1>7 DEF ThreadStep, ThreadFence, ThreadLoad, ThreadCommit,
     ThreadCall, ThreadImport
<1>8. ASSUME NEW j \in Jobs, Enqueue(j) \/ LeaseExpires(j) \/ HeartbeatMissed(j)
      PROVE  Shrinks
  BY <1>1, <1>8 DEF Enqueue, LeaseExpires, HeartbeatMissed
<1>9. ASSUME NEW v \in Workers, Start(v) \/ Renew(v) \/ Close(v) PROVE Shrinks
  BY <1>1, <1>9 DEF Start, Renew, Close
<1>10. ASSUME NEW v \in Workers, \/ NothingClaimed(v) \/ LeaseLost(v)
                                 \/ FinishCommit(v)
       PROVE  Shrinks
  BY <1>1, <1>10 DEF NothingClaimed, LeaseLost, FinishCommit
<1>11. ASSUME NEW v \in Workers, NEW t \in threads, Observe(v, t) PROVE Shrinks
  BY <1>1, <1>11 DEF Observe
<1>12. ASSUME UNCHANGED vars PROVE Shrinks
  BY <1>1, <1>12 DEF vars
<1> HIDE DEF Shrinks
<1>13. ASSUME NEW v \in Workers, Loop(v) PROVE Shrinks \/ SelectCandidates(w)
  BY <1>2, <1>3, <1>5, <1>10, <1>11, <1>13 DEF Loop
<1>14. Shrinks \/ SelectCandidates(w)
  BY <1>4, <1>7, <1>8, <1>9, <1>12, <1>13 DEF Next
<1> QED
  BY <1>6, <1>14 DEF Shrinks

(* Every step keeps the candidate lists stale in that sense.                *)
LEMMA CandStep ==
  TypeOK /\ LoopOK /\ PosOK /\ CandOK /\ [Next]_vars => CandOK'
<1> SUFFICES ASSUME TypeOK, LoopOK, PosOK, CandOK, [Next]_vars,
                    NEW w \in Workers, NEW c \in cand'[w]
             PROVE  NotLiveAsSelected(c, row'[c.job])
  BY DEF CandOK
<1>1. CASE cand'[w] \subseteq cand[w]
  <2>1. c \in cand[w] /\ c \in Candidates /\ c.job \in Jobs
    BY <1>1 DEF TypeOK, Candidates
  <2> QED
    BY <2>1, StaleStaysStale, RowEffect DEF CandOK
<1>2. CASE Selected(w)
  <2>1. PICK j \in FirstClaimable :
          c = [job |-> j, qs |-> row[j].qs, epoch |-> row[j].epoch]
    BY <1>2 DEF Selected
  <2>2. j \in Jobs /\ Claimable(j)
    BY DEF FirstClaimable
  <2>3. row[j] \in Rows
    BY <2>2 DEF TypeOK
  <2> QED
    BY <1>2, <2>1, <2>2, <2>3 DEF Selected, Claimable, NotLiveAsSelected, Rows
<1> QED
  BY <1>1, <1>2, CandEffect

-----------------------------------------------------------------------------
(* The inductive invariant behind the theorems about claiming.              *)

ClaimInv == TypeOK /\ LoopOK /\ PosOK /\ CandOK

LEMMA ClaimInvInit == Init => ClaimInv
<1> SUFFICES ASSUME Init PROVE ClaimInv
  OBVIOUS
<1> USE DEF Init
<1>1. NoRow \in Rows
  BY DEF NoRow, Rows, Gone, Statuses
<1>2. NoSaw \in Loaded
  BY DEF NoSaw, Loaded, Statuses
<1>3. TypeOK
  <2>1. faults \in 0 .. MaxFaults
    BY FaultsAssumption
  <2>2. row \in [Jobs -> Rows] /\ saw \in [Workers -> Loaded]
    BY <1>1, <1>2
  <2>3. pc \in [Workers -> PCs]
    BY DEF PCs
  <2>4. /\ cand \in [Workers -> SUBSET Candidates]
        /\ held \in [Workers -> Claims \cup {NoClaim}]
        /\ threads \subseteq Threads
        /\ imported \subseteq Jobs \X Nat
    OBVIOUS
  <2> QED
    BY <2>1, <2>2, <2>3, <2>4 DEF TypeOK
<1>4. LoopOK
  BY DEF LoopOK, NoSaw
<1> QED
  BY <1>3, <1>4 DEF ClaimInv, PosOK, CandOK

LEMMA ClaimInvStep == ClaimInv /\ [Next]_vars => ClaimInv'
BY TypeStep, LoopStep, PosStep, CandStep DEF ClaimInv

LEMMA ClaimInvariance == Spec => []ClaimInv
BY ClaimInvInit, ClaimInvStep, PTL DEF Spec

(* Every reachable state of the queue is well typed.                        *)
THEOREM TypeCorrect == Spec => []TypeOK
BY ClaimInvariance, PTL DEF ClaimInv

(* A job that is done, failed or deleted is never put back into the queue   *)
(* nor claimed again, for any number of workers, jobs, crashes and faults.  *)
THEOREM SettledJobsStaySettled == Spec => NeverReopened
<1>1. ClaimInv /\ [Next]_vars =>
        [\A j \in Jobs : row[j].qs \in Terminal \cup {"deleted"} =>
                           row'[j].qs \notin {"queued", "processing"}]_vars
  <2> SUFFICES ASSUME ClaimInv, [Next]_vars, NEW j \in Jobs,
                      row[j].qs \in Terminal \cup {"deleted"}
               PROVE  row'[j].qs \notin {"queued", "processing"}
    OBVIOUS
  <2> DEFINE r == row[j]
             s == row'[j]
  <2>1. r \in Rows /\ RowEvolves(j)
    BY RowEffect DEF ClaimInv, TypeOK
  <2>2. r.qs \in {"done", "error", "deleted"}
    BY DEF Terminal
  <2>3. ASSUME NEW w \in Workers, NEW c \in cand[w], c.job = j,
               StillAsSelected(c)
        PROVE  FALSE
    <3>1. c \in Candidates
      BY DEF ClaimInv, TypeOK
    <3> QED
      BY <2>2, <2>3, <3>1 DEF StillAsSelected, Candidates
  <2>4. ~ Enqueued(r, s) /\ ~ Renewed(r, s) /\ ~ Expired(r, s)
    BY <2>2 DEF Enqueued, Renewed, Expired
  <2>5. ASSUME NEW w \in Workers, Settled(w, r, s)
        PROVE  s.qs \in {"done", "error", "deleted"}
    BY <2>1, <2>2, <2>5 DEF Settled, Changed, Verdict, Rows
  <2>6. CASE Deleted(r, s)
    BY <2>1, <2>6 DEF Deleted, Rows
  <2>7. CASE Relabelled(r, s)
    BY <2>1, <2>2, <2>7 DEF Relabelled, Rows
  <2>8. CASE s = r
    BY <2>2, <2>8
  <2> QED
    BY <2>1, <2>3, <2>4, <2>5, <2>6, <2>7, <2>8 DEF RowEvolves
<1> QED
  BY <1>1, ClaimInvariance, PTL DEF Spec, NeverReopened

(* While the lease of a job is live, nobody takes the job from its worker,  *)
(* for any number of workers, jobs, crashes and faults.                     *)
THEOREM LiveLeaseIsExclusive == Spec => LeaseNotStolen
<1>1. ClaimInv /\ [Next]_vars =>
        [\A j \in Jobs : row[j].qs = "processing" /\ row[j].lease = "live" =>
                           row'[j].owner = row[j].owner]_vars
  <2> SUFFICES ASSUME ClaimInv, [Next]_vars, NEW j \in Jobs,
                      row[j].qs = "processing", row[j].lease = "live"
               PROVE  row'[j].owner = row[j].owner
    OBVIOUS
  <2> DEFINE r == row[j]
             s == row'[j]
  <2>1. r \in Rows /\ RowEvolves(j)
    BY RowEffect DEF ClaimInv, TypeOK
  <2>2. ASSUME NEW w \in Workers, NEW c \in cand[w], c.job = j,
               StillAsSelected(c)
        PROVE  FALSE
    <3>1. NotLiveAsSelected(c, row[j])
      BY <2>2 DEF ClaimInv, CandOK
    <3> QED
      BY <2>2, <3>1 DEF StillAsSelected, NotLiveAsSelected
  <2>3. CASE \/ s = r \/ Enqueued(r, s) \/ Renewed(r, s) \/ Expired(r, s)
             \/ Deleted(r, s) \/ Relabelled(r, s)
    BY <2>1, <2>3 DEF Enqueued, Renewed, Expired, Deleted, Relabelled, Rows
  <2>4. ASSUME NEW w \in Workers, Settled(w, r, s) PROVE s.owner = r.owner
    BY <2>1, <2>4 DEF Settled, Rows
  <2> QED
    BY <2>1, <2>2, <2>3, <2>4 DEF RowEvolves
<1> QED
  BY <1>1, ClaimInvariance, PTL DEF Spec, LeaseNotStolen

-----------------------------------------------------------------------------
(* Imports, supervision and settlement.                                     *)

Imported(j) == \E g \in 1 .. row[j].attempts : <<j, g>> \in imported

(* A thread belongs to a counted attempt, and has imported once it is past  *)
(* the import of its script.                                                *)
ImportOK ==
  \A t \in threads :
     /\ t.gen \in 1 .. row[t.job].attempts
     /\ t.pos > ImportAt[Kind[t.job]] \/ t.out = "ok" =>
          <<t.job, t.gen>> \in imported

(* A supervised job has been claimed; while its row names the supervisor,   *)
(* the supervised attempt is the latest.                                    *)
HeldOK ==
  \A w \in Workers : held[w] # NoClaim =>
     /\ row[held[w][1]].qs \notin {"absent", "queued"}
     /\ row[held[w][1]].owner = w => held[w][2] = row[held[w][1]].attempts

(* What finish_job loaded: success only after an import, and a settled row  *)
(* only if the row is still settled.                                        *)
SawOK ==
  \A w \in Workers : pc[w] = "finish" =>
     /\ ~ Wordless /\ saw[w].out = "ok" => Imported(held[w][1])
     /\ saw[w].qs \in Terminal =>
          row[held[w][1]].qs \in Terminal \cup {"deleted"}

(* The columns only a claim or an enqueueing resets never go back.          *)
LEMMA RowGrows ==
  ASSUME TypeOK, NEW j \in Jobs, RowEvolves(j)
  PROVE  /\ row[j].attempts \in Nat /\ row'[j].attempts \in Nat
         /\ row[j].attempts <= row'[j].attempts
         /\ row[j].qs \notin {"absent", "queued"} =>
              row'[j].qs \notin {"absent", "queued"}
         /\ row[j].qs \in Terminal \cup {"deleted"} =>
              row'[j].qs \in Terminal \cup {"deleted"}
<1> DEFINE r == row[j]
           s == row'[j]
<1> USE DEF Rows, Terminal, Gone
<1>1. r \in Rows
  BY DEF TypeOK
<1>2. CASE s = r
  BY <1>1, <1>2
<1>3. CASE Enqueued(r, s)
  BY <1>1, <1>3 DEF Enqueued
<1>4. ASSUME NEW w \in Workers, NEW c \in cand[w], c.job = j,
             StillAsSelected(c), Taken(w, r, s)
      PROVE  /\ s.attempts = r.attempts + 1
             /\ s.qs = "processing"
             /\ r.qs \in {"queued", "processing"}
  <2>1. c \in Candidates
    BY DEF TypeOK
  <2>2. r.qs \in {"queued", "processing"}
    BY <1>4, <2>1 DEF StillAsSelected, Candidates
  <2> QED
    BY <1>1, <1>4, <2>2 DEF Taken
<1>5. CASE Renewed(r, s)
  BY <1>1, <1>5 DEF Renewed
<1>6. CASE Expired(r, s)
  BY <1>1, <1>6 DEF Expired
<1>7. ASSUME NEW w \in Workers, Settled(w, r, s)
      PROVE  s.attempts = r.attempts /\ s.qs \in {r.qs, "done", "error"}
  BY <1>1, <1>7 DEF Settled, Changed, Verdict
<1>8. CASE Deleted(r, s)
  BY <1>1, <1>8 DEF Deleted
<1>9. CASE Relabelled(r, s)
  BY <1>1, <1>9 DEF Relabelled
<1> QED
  BY <1>1, <1>2, <1>3, <1>4, <1>5, <1>6, <1>7, <1>8, <1>9 DEF RowEvolves

(* The history of imports only grows.                                       *)
LEMMA ImportsGrow == [Next]_vars => imported \subseteq imported'
<1> SUFFICES ASSUME [Next]_vars PROVE imported \subseteq imported'
  OBVIOUS
<1>1. CASE UNCHANGED imported
  BY <1>1
<1>2. ASSUME NEW t \in threads, ThreadStep(t) PROVE imported \subseteq imported'
  BY <1>2 DEF ThreadStep, ThreadFence, ThreadLoad, ThreadCommit, ThreadCall,
     ThreadImport
<1>3. ASSUME NEW w \in Workers, Loop(w) PROVE imported \subseteq imported'
  BY <1>3 DEF Loop, SelectCandidates, Claim, ClaimMissed, NothingClaimed,
     LeaseLost, Observe, FinishCommit
<1>4. ASSUME NEW w \in Workers, \/ Start(w) \/ Renew(w) \/ LoopError(w)
                                \/ Close(w) \/ Crash(w)
      PROVE  imported \subseteq imported'
  BY <1>4 DEF Start, Renew, LoopError, Close, Crash
<1>5. ASSUME NEW j \in Jobs, Enqueue(j) \/ LeaseExpires(j) \/ HeartbeatMissed(j)
      PROVE  imported \subseteq imported'
  BY <1>5 DEF Enqueue, LeaseExpires, HeartbeatMissed
<1>6. CASE UNCHANGED vars
  BY <1>6 DEF vars
<1> QED
  BY <1>2, <1>3, <1>4, <1>5, <1>6 DEF Next

(* Where the threads of the next state come from.                           *)
LEMMA ThreadsEffect ==
  ASSUME TypeOK, [Next]_vars, NEW u \in threads'
  PROVE  \/ u \in threads
         \/ \E w \in Workers : \E c \in cand[w] :
               Claim(w, c) /\ u = NewThread(w, c.job)
         \/ \E t \in threads :
               /\ SameThread(t, u) /\ t.out = "none"
               /\ Stays(t, u) \/ Returns(t, u) \/ Moves(t, u)
<1>1. CASE threads' \subseteq threads
  BY <1>1
<1>2. ASSUME NEW w \in Workers, NEW c \in cand[w], Claim(w, c)
      PROVE  u \in threads \/ u = NewThread(w, c.job)
  BY <1>2 DEF Claim
<1>3. ASSUME NEW t \in threads, ThreadStep(t)
      PROVE  \/ u \in threads
             \/ /\ SameThread(t, u) /\ t.out = "none"
                /\ Stays(t, u) \/ Returns(t, u) \/ Moves(t, u)
  BY <1>3, ThreadEffect
<1>4. ASSUME NEW w \in Workers, Loop(w),
             \A c \in cand[w] : ~ Claim(w, c)
      PROVE  threads' \subseteq threads
  BY <1>4 DEF Loop, SelectCandidates, ClaimMissed, NothingClaimed, LeaseLost,
     Observe, FinishCommit, Release
<1>5. ASSUME NEW w \in Workers, \/ Start(w) \/ Renew(w) \/ LoopError(w)
                                \/ Close(w) \/ Crash(w)
      PROVE  threads' \subseteq threads
  BY <1>5 DEF Start, Renew, LoopError, Close, Crash, Release
<1>6. ASSUME NEW j \in Jobs, Enqueue(j) \/ LeaseExpires(j) \/ HeartbeatMissed(j)
      PROVE  threads' \subseteq threads
  BY <1>6 DEF Enqueue, LeaseExpires, HeartbeatMissed
<1>7. ASSUME UNCHANGED vars PROVE threads' \subseteq threads
  BY <1>7 DEF vars
<1> QED
  BY <1>1, <1>2, <1>3, <1>4, <1>5, <1>6, <1>7 DEF Next

LEMMA ImportStep ==
  TypeOK /\ LoopOK /\ PosOK /\ ImportOK /\ [Next]_vars => ImportOK'
<1> SUFFICES ASSUME TypeOK, LoopOK, PosOK, ImportOK, [Next]_vars,
                    NEW u \in threads'
             PROVE  /\ u.gen \in 1 .. row'[u.job].attempts
                    /\ u.pos > ImportAt[Kind[u.job]] \/ u.out = "ok" =>
                         <<u.job, u.gen>> \in imported'
  BY DEF ImportOK
<1>1. ASSUME NEW t \in threads, SameThread(t, u)
      PROVE  /\ u.gen \in 1 .. row'[u.job].attempts
             /\ <<t.job, t.gen>> \in imported => <<u.job, u.gen>> \in imported'
  <2>1. t.job \in Jobs /\ t.gen \in 1 .. row[t.job].attempts
    BY DEF TypeOK, Threads, ImportOK
  <2>2. /\ row[t.job].attempts \in Nat /\ row'[t.job].attempts \in Nat
        /\ row[t.job].attempts <= row'[t.job].attempts
    BY <2>1, RowEffect, RowGrows
  <2> QED
    BY <1>1, <2>1, <2>2, ImportsGrow DEF SameThread
<1>2. CASE u \in threads
  BY <1>1, <1>2 DEF ImportOK, SameThread
<1>3. ASSUME NEW w \in Workers, NEW c \in cand[w], Claim(w, c),
             u = NewThread(w, c.job)
      PROVE  /\ u.gen \in 1 .. row'[u.job].attempts
             /\ ~ (u.pos > ImportAt[Kind[u.job]] \/ u.out = "ok")
  <2>1. c.job \in Jobs
    BY DEF TypeOK, Candidates
  <2>2. row \in [Jobs -> Rows] /\ row[c.job].attempts \in Nat
    BY <2>1 DEF TypeOK, Rows
  <2>3. row'[c.job].attempts = row[c.job].attempts + 1
    BY <1>3, <2>1, <2>2 DEF Claim, ClaimedRow, Rows
  <2>4. ImportAt[Kind[c.job]] \in Nat \ {0}
    BY <2>1, KindAssumption, ScriptType, ScriptImport
  <2> QED
    BY <1>3, <2>2, <2>3, <2>4 DEF NewThread
<1>4. ASSUME NEW t \in threads, SameThread(t, u),
             Stays(t, u) \/ Returns(t, u) \/ Moves(t, u)
      PROVE  u.pos > ImportAt[Kind[u.job]] \/ u.out = "ok" =>
               <<u.job, u.gen>> \in imported'
  <2>1. t.job \in Jobs /\ t.pos \in 1 .. Len(ScriptOf(t.job))
    BY DEF TypeOK, Threads, PosOK
  <2>2. ImportAt[Kind[t.job]] \in Nat
    BY <2>1, KindAssumption, ScriptType, ScriptImport
  <2>3. CASE t.pos > ImportAt[Kind[t.job]]
    BY <1>1, <1>4, <2>3 DEF ImportOK
  <2>4. CASE t.pos = ImportAt[Kind[t.job]]
    <3>1. /\ ScriptOf(t.job)[t.pos].op = "import"
          /\ t.pos # Len(ScriptOf(t.job))
      BY <2>1, <2>2, <2>4, ScriptStep
    <3>2. CASE Moves(t, u)
      BY <1>4, <3>1, <3>2 DEF Moves, Passes, SameThread
    <3>3. CASE Stays(t, u)
      BY <1>4, <2>2, <2>4, <3>3 DEF Stays, SameThread
    <3> QED
      BY <1>4, <3>1, <3>2, <3>3 DEF Returns
  <2>5. CASE t.pos < ImportAt[Kind[t.job]]
    <3>1. t.pos # Len(ScriptOf(t.job))
      BY <2>1, <2>2, <2>5, ScriptStep
    <3> QED
      BY <1>4, <2>1, <2>2, <2>5, <3>1 DEF Stays, Returns, Moves, SameThread
  <2> QED
    BY <2>1, <2>2, <2>3, <2>4, <2>5
<1> QED
  BY <1>1, <1>2, <1>3, <1>4, ThreadsEffect

(* What a loop supervises changes only when it claims or lets go.           *)
LEMMA HeldEffect ==
  ASSUME TypeOK, [Next]_vars, NEW w \in Workers
  PROVE  \/ held'[w] \in {held[w], NoClaim}
         \/ \E c \in cand[w] :
               Claim(w, c) /\ held'[w] = <<c.job, row[c.job].attempts + 1>>
<1> DEFINE Keeps == held'[w] \in {held[w], NoClaim}
<1>1. ASSUME UNCHANGED held PROVE Keeps
  BY <1>1
<1>2. ASSUME NEW v \in Workers, NEW next, Release(v, next) PROVE Keeps
  BY <1>2 DEF Release, TypeOK
<1>3. ASSUME NEW v \in Workers, NEW c \in cand[v], Claim(v, c)
      PROVE  \/ Keeps
             \/ v = w /\ held'[w] = <<c.job, row[c.job].attempts + 1>>
  BY <1>3 DEF Claim, TypeOK
<1>4. ASSUME NEW v \in Workers, Crash(v) PROVE Keeps
  BY <1>4 DEF Crash, TypeOK
<1>5. ASSUME NEW v \in Workers, Loop(v), \A c \in cand[v] : ~ Claim(v, c)
      PROVE  Keeps
  BY <1>1, <1>2, <1>5 DEF Loop, SelectCandidates, ClaimMissed, NothingClaimed,
     LeaseLost, Observe, FinishCommit
<1>6. ASSUME NEW v \in Workers, Start(v) \/ Renew(v) \/ LoopError(v) \/ Close(v)
      PROVE  Keeps
  BY <1>1, <1>2, <1>6 DEF Start, Renew, LoopError, Close
<1>7. ASSUME NEW j \in Jobs, Enqueue(j) \/ LeaseExpires(j) \/ HeartbeatMissed(j)
      PROVE  Keeps
  BY <1>1, <1>7 DEF Enqueue, LeaseExpires, HeartbeatMissed
<1>8. ASSUME NEW t \in threads, ThreadStep(t) PROVE Keeps
  BY <1>1, <1>8 DEF ThreadStep, ThreadFence, ThreadLoad, ThreadCommit,
     ThreadCall, ThreadImport
<1>9. ASSUME UNCHANGED vars PROVE Keeps
  BY <1>1, <1>9 DEF vars
<1> HIDE DEF Keeps
<1>10. Keeps \/ \E c \in cand[w] :
                   Claim(w, c) /\ held'[w] = <<c.job, row[c.job].attempts + 1>>
  BY <1>3, <1>4, <1>5, <1>6, <1>7, <1>8, <1>9 DEF Next
<1> QED
  BY <1>10 DEF Keeps

LEMMA HeldStep ==
  TypeOK /\ LoopOK /\ PosOK /\ HeldOK /\ [Next]_vars => HeldOK'
<1> SUFFICES ASSUME TypeOK, LoopOK, PosOK, HeldOK, [Next]_vars,
                    NEW w \in Workers, held'[w] # NoClaim
             PROVE  LET j == held'[w][1]
                    IN /\ row'[j].qs \notin {"absent", "queued"}
                       /\ row'[j].owner = w => held'[w][2] = row'[j].attempts
  BY DEF HeldOK
<1>1. CASE held'[w] = held[w]
  <2> DEFINE j == held[w][1]
             r == row[j]
             s == row'[j]
  <2>1. j \in Jobs
    BY <1>1 DEF TypeOK, Claims
  <2>2. r \in Rows /\ RowEvolves(j)
    BY <2>1, RowEffect DEF TypeOK
  <2>3. /\ r.qs \notin {"absent", "queued"}
        /\ r.owner = w => held[w][2] = r.attempts
    BY <1>1 DEF HeldOK
  <2>4. s.qs \notin {"absent", "queued"}
    BY <2>1, <2>2, <2>3, RowGrows
  <2>5. ASSUME NEW v \in Workers, pc[v] \in {"claim", "closing"},
               Taken(v, r, s)
        PROVE  s.owner # w
    BY <1>1, <2>2, <2>5 DEF Taken, Rows, LoopOK
  <2>6. ASSUME NEW v \in Workers, Settled(v, r, s)
        PROVE  s.owner = r.owner /\ s.attempts = r.attempts
    BY <2>2, <2>6 DEF Settled, Rows
  <2>7. s.owner = w => s.owner = r.owner /\ s.attempts = r.attempts
    <3>1. CASE s = r \/ Enqueued(r, s) \/ Renewed(r, s) \/ Expired(r, s)
      BY <2>2, <3>1 DEF Enqueued, Renewed, Expired, Rows
    <3>2. CASE Deleted(r, s) \/ Relabelled(r, s)
      BY <2>2, <3>2 DEF Deleted, Relabelled, Rows
    <3> QED
      BY <2>2, <2>5, <2>6, <3>1, <3>2 DEF RowEvolves
  <2> QED
    BY <1>1, <2>3, <2>4, <2>7
<1>2. ASSUME NEW c \in cand[w], Claim(w, c),
             held'[w] = <<c.job, row[c.job].attempts + 1>>
      PROVE  LET j == held'[w][1]
             IN /\ row'[j].qs \notin {"absent", "queued"}
                /\ row'[j].owner = w => held'[w][2] = row'[j].attempts
  <2>1. c.job \in Jobs
    BY DEF TypeOK, Candidates
  <2>2. row \in [Jobs -> Rows]
    BY DEF TypeOK
  <2>3. /\ row'[c.job].qs = "processing"
        /\ row'[c.job].attempts = row[c.job].attempts + 1
    BY <1>2, <2>1, <2>2 DEF Claim, ClaimedRow, Rows
  <2> QED
    BY <1>2, <2>3
<1> QED
  BY <1>1, <1>2, HeldEffect

(* A loop that is finishing was finishing already, or just loaded the row.  *)
LEMMA FinishEffect ==
  ASSUME TypeOK, LoopOK, [Next]_vars, NEW w \in Workers, pc'[w] = "finish"
  PROVE  \/ pc[w] = "finish" /\ held'[w] = held[w] /\ saw'[w] = saw[w]
         \/ \E t \in threads : Observe(w, t) /\ Mine(w, t.job)
<1> DEFINE Keeps == pc[w] = "finish" /\ held'[w] = held[w] /\ saw'[w] = saw[w]
<1>1. ASSUME UNCHANGED <<pc, held, saw>> PROVE Keeps
  BY <1>1
<1>2. ASSUME NEW v \in Workers, NEW next \in PCs \ {"finish"}, Release(v, next)
      PROVE  Keeps
  BY <1>2 DEF Release, TypeOK
<1>3. ASSUME NEW v \in Workers, NEW next \in PCs \ {"finish"},
             pc' = [pc EXCEPT ![v] = next],
             \A u \in Workers : u # v => held'[u] = held[u] /\ saw'[u] = saw[u]
      PROVE  Keeps
  BY <1>3 DEF TypeOK
<1>4. ASSUME NEW v \in Workers, NEW c \in cand[v], Claim(v, c) PROVE Keeps
  BY <1>3, <1>4 DEF Claim, PCs, TypeOK
<1>5. ASSUME NEW v \in Workers, Crash(v) PROVE Keeps
  BY <1>3, <1>5 DEF Crash, PCs, TypeOK
<1>6. ASSUME NEW v \in Workers, NEW t \in threads, Observe(v, t)
      PROVE  Keeps \/ (Observe(w, t) /\ Mine(w, t.job))
  <2>1. CASE ~ Mine(v, t.job)
    BY <1>2, <1>6, <2>1 DEF Observe, PCs
  <2>2. CASE Mine(v, t.job) /\ v # w
    BY <1>6, <2>2 DEF Observe, TypeOK
  <2>3. CASE Mine(v, t.job) /\ v = w
    BY <1>6, <2>3
  <2> QED
    BY <2>1, <2>2, <2>3
<1>7. ASSUME NEW v \in Workers, Loop(v)
      PROVE  Keeps \/ \E t \in threads : Observe(w, t) /\ Mine(w, t.job)
  <2>1. ASSUME SelectCandidates(v) PROVE Keeps
    BY <1>3, <2>1 DEF SelectCandidates, PCs
  <2>2. ASSUME NothingClaimed(v) PROVE Keeps
    BY <1>3, <2>2 DEF NothingClaimed, PCs
  <2>3. ASSUME LeaseLost(v) PROVE Keeps
    BY <1>2, <2>3 DEF LeaseLost, PCs
  <2>4. ASSUME FinishCommit(v) PROVE Keeps
    BY <1>2, <2>4 DEF FinishCommit, PCs
  <2>5. ASSUME NEW c \in cand[v], ClaimMissed(v, c) PROVE Keeps
    BY <1>1, <2>5 DEF ClaimMissed
  <2> HIDE DEF Keeps
  <2> QED
    BY <1>4, <1>6, <1>7, <2>1, <2>2, <2>3, <2>4, <2>5 DEF Loop
<1>8. ASSUME NEW v \in Workers, Start(v) \/ LoopError(v) \/ Close(v) PROVE Keeps
  BY <1>2, <1>3, <1>8 DEF Start, LoopError, Close, PCs
<1>9. ASSUME NEW v \in Workers, Renew(v) PROVE Keeps
  BY <1>1, <1>9 DEF Renew
<1>10. ASSUME NEW j \in Jobs, Enqueue(j) \/ LeaseExpires(j) \/ HeartbeatMissed(j)
       PROVE  Keeps
  BY <1>1, <1>10 DEF Enqueue, LeaseExpires, HeartbeatMissed
<1>11. ASSUME NEW t \in threads, ThreadStep(t) PROVE Keeps
  BY <1>1, <1>11 DEF ThreadStep, ThreadFence, ThreadLoad, ThreadCommit,
     ThreadCall, ThreadImport
<1>12. ASSUME UNCHANGED vars PROVE Keeps
  BY <1>1, <1>12 DEF vars
<1> HIDE DEF Keeps
<1>13. Keeps \/ \E t \in threads : Observe(w, t) /\ Mine(w, t.job)
  BY <1>5, <1>7, <1>8, <1>9, <1>10, <1>11, <1>12 DEF Next
<1> QED
  BY <1>13 DEF Keeps

LEMMA SawStep ==
  TypeOK /\ LoopOK /\ PosOK /\ ImportOK /\ SawOK /\ [Next]_vars => SawOK'
<1> SUFFICES ASSUME TypeOK, LoopOK, PosOK, ImportOK, SawOK, [Next]_vars,
                    NEW w \in Workers, pc'[w] = "finish"
             PROVE  /\ ~ Wordless /\ saw'[w].out = "ok" => Imported(held[w][1])'
                    /\ saw'[w].qs \in Terminal =>
                         row'[held'[w][1]].qs \in Terminal \cup {"deleted"}
  BY DEF SawOK
<1>1. CASE pc[w] = "finish" /\ held'[w] = held[w] /\ saw'[w] = saw[w]
  <2> DEFINE j == held[w][1]
  <2>1. j \in Jobs
    BY <1>1 DEF TypeOK, LoopOK, Claims
  <2>2. /\ ~ Wordless /\ saw[w].out = "ok" => Imported(j)
        /\ saw[w].qs \in Terminal => row[j].qs \in Terminal \cup {"deleted"}
    BY <1>1 DEF SawOK
  <2>3. Imported(j) => Imported(j)'
    <3> SUFFICES ASSUME Imported(j) PROVE Imported(j)'
      OBVIOUS
    <3>1. \E g \in 1 .. row'[j].attempts : <<j, g>> \in imported'
      <4>1. PICK g \in 1 .. row[j].attempts : <<j, g>> \in imported
        BY DEF Imported
      <4>2. /\ row[j].attempts \in Nat /\ row'[j].attempts \in Nat
            /\ row[j].attempts <= row'[j].attempts
        BY <2>1, RowEffect, RowGrows
      <4> QED
        BY <4>1, <4>2, ImportsGrow
    <3> QED
      BY <1>1, <3>1 DEF Imported
  <2>4. row[j].qs \in Terminal \cup {"deleted"} =>
          row'[j].qs \in Terminal \cup {"deleted"}
    BY <2>1, RowEffect, RowGrows
  <2> QED
    BY <1>1, <2>2, <2>3, <2>4 DEF Imported
<1>2. ASSUME NEW t \in threads, Observe(w, t), Mine(w, t.job)
      PROVE  /\ ~ Wordless /\ saw'[w].out = "ok" => Imported(held[w][1])'
             /\ saw'[w].qs \in Terminal =>
                  row'[held'[w][1]].qs \in Terminal \cup {"deleted"}
  <2>1. /\ held[w] = <<t.job, t.gen>> /\ held' = held /\ row' = row
        /\ imported' = imported
    BY <1>2 DEF Observe, Supervises
  <2>3. PICK out \in Heard(t.out) :
          saw'[w] = [out |-> out, qs |-> row[t.job].qs,
                     status |-> row[t.job].status]
    BY <1>2 DEF Observe, TypeOK
  <2>4. ~ Wordless => out = t.out
    BY HeardOut DEF TypeOK, Threads
  <2>2. t.gen \in 1 .. row[t.job].attempts
        /\ (t.out = "ok" => <<t.job, t.gen>> \in imported)
    BY DEF ImportOK
  <2> QED
    BY <2>1, <2>2, <2>3, <2>4 DEF Imported
<1> QED
  BY <1>1, <1>2, FinishEffect

LEMMA DoneStep ==
  /\ ~ Wordless
  /\ TypeOK /\ LoopOK /\ PosOK /\ SawOK /\ DoneMeansImported /\ [Next]_vars
  => DoneMeansImported'
<1> SUFFICES ASSUME ~ Wordless, TypeOK, LoopOK, PosOK, SawOK,
                    DoneMeansImported, [Next]_vars, NEW j \in Jobs, row'[j].qs = "done"
             PROVE  \E g \in 1 .. row'[j].attempts : <<j, g>> \in imported'
  BY DEF DoneMeansImported
<1> DEFINE r == row[j]
           s == row'[j]
<1>1. r \in Rows /\ RowEvolves(j)
  BY RowEffect DEF TypeOK
<1>2. CASE Imported(j)
  <2>1. PICK g \in 1 .. row[j].attempts : <<j, g>> \in imported
    BY <1>2 DEF Imported
  <2>2. /\ row[j].attempts \in Nat /\ row'[j].attempts \in Nat
        /\ row[j].attempts <= row'[j].attempts
    BY <1>1, RowGrows
  <2> QED
    BY <2>1, <2>2, ImportsGrow
<1>3. CASE r.qs = "done"
  BY <1>2, <1>3 DEF DoneMeansImported, Imported
<1>4. CASE r.qs # "done"
  <2>1. ASSUME NEW w \in Workers, Taken(w, r, s) PROVE FALSE
    BY <1>1, <2>1 DEF Taken, Rows
  <2>2. ~ Enqueued(r, s) /\ ~ Renewed(r, s) /\ ~ Expired(r, s)
    BY <1>1, <1>4 DEF Enqueued, Renewed, Expired, Rows
  <2>3. ~ Deleted(r, s) /\ ~ Relabelled(r, s)
    BY <1>1, <1>4 DEF Deleted, Relabelled, Rows
  <2>4. PICK w \in Workers : /\ pc[w] = "finish" /\ held[w][1] = j
                             /\ Settled(w, r, s)
    BY <1>1, <1>4, <2>1, <2>2, <2>3 DEF RowEvolves
  <2>5. saw[w].out = "ok"
    BY <1>1, <1>4, <2>4 DEF Settled, Changed, Verdict, Rows
  <2> QED
    BY <1>2, <2>4, <2>5 DEF SawOK
<1> QED
  BY <1>3, <1>4

(* The inductive invariant of the whole queue.                              *)
IInv ==
  /\ ClaimInv /\ ImportOK /\ HeldOK /\ SawOK
  /\ ~ Wordless => DoneMeansImported

LEMMA IInvInit == Init => IInv
<1> SUFFICES ASSUME Init PROVE IInv
  OBVIOUS
<1>1. ImportOK /\ HeldOK /\ SawOK /\ DoneMeansImported
  BY DEF Init, NoRow, ImportOK, HeldOK, SawOK, DoneMeansImported
<1> QED
  BY <1>1, ClaimInvInit DEF IInv

LEMMA IInvStep == IInv /\ [Next]_vars => IInv'
BY ClaimInvStep, ImportStep, HeldStep, SawStep, DoneStep DEF IInv, ClaimInv

LEMMA Invariance == Spec => []IInv
BY IInvInit, IInvStep, PTL DEF Spec

(* A job is recorded as done only if one of its attempts imported, for any  *)
(* number of workers, jobs, crashes and faults, if every error has a text.  *)
THEOREM DoneImpliesImported ==
  ASSUME ~ Wordless PROVE Spec => []DoneMeansImported
BY Invariance, PTL DEF IInv

(* Checking worker_id is enough for a heartbeat: it never prolongs the lease*)
(* of an attempt other than its own.                                        *)
THEOREM HeartbeatsKeepTheirAttempt == Spec => RenewsOwnAttempt
<1>1. IInv /\ [Next]_vars =>
        [\A w \in Workers :
           Renew(w) => held[w][2] = row[held[w][1]].attempts]_vars
  BY DEF IInv, ClaimInv, HeldOK, LoopOK, Renew, Renewable
<1> QED
  BY <1>1, Invariance, PTL DEF Spec, RenewsOwnAttempt

-----------------------------------------------------------------------------
(* The queue implements JobLifecycle.                                       *)

LifecycleRow(r) == [phase |-> r.qs, owner |-> r.owner, lease |-> r.lease,
                    attempts |-> r.attempts]

(* A step that changes at most the row of k changes at most the job k.      *)
LEMMA OneJob ==
  ASSUME TypeOK, NEW k \in Jobs, NEW s, row' = [row EXCEPT ![k] = s]
  PROVE  /\ LifecycleOf' = [LifecycleOf EXCEPT ![k] = LifecycleRow(s)]
         /\ LifecycleOf[k] = LifecycleRow(row[k])
<1>1. \A j \in Jobs : row'[j] = IF j = k THEN s ELSE row[j]
  BY DEF TypeOK
<1> QED
  BY <1>1 DEF LifecycleOf, LifecycleRow

LEMMA SettledRow ==
  ASSUME NEW r \in Rows, NEW q \in {"done", "error"}, NEW x
  PROVE  LifecycleRow([r EXCEPT !.qs = q, !.status = x, !.lease = "null"]) =
           [LifecycleRow(r) EXCEPT !.phase = q, !.lease = "null"]
<1> DEFINE s == [r EXCEPT !.qs = q, !.status = x, !.lease = "null"]
           l == LifecycleRow(r)
<1>1. /\ s.qs = q /\ s.owner = r.owner /\ s.lease = "null"
      /\ s.attempts = r.attempts
  BY DEF Rows
<1>2. l = [phase |-> r.qs, owner |-> r.owner, lease |-> r.lease,
           attempts |-> r.attempts]
  BY DEF LifecycleRow
<1>3. LifecycleRow(s) = [phase |-> s.qs, owner |-> s.owner, lease |-> s.lease,
                         attempts |-> s.attempts]
  BY DEF LifecycleRow
<1> HIDE DEF s, l
<1> DEFINE m == [l EXCEPT !.phase = q]
<1>4. [m EXCEPT !.lease = "null"] =
        [phase |-> q, owner |-> r.owner, lease |-> "null",
         attempts |-> r.attempts]
  <2>1. m = [phase |-> q, owner |-> r.owner, lease |-> r.lease,
             attempts |-> r.attempts]
    BY <1>2
  <2> HIDE DEF m
  <2> QED
    BY <2>1
<1>5. LifecycleRow(s) = [l EXCEPT !.phase = q, !.lease = "null"]
  BY <1>1, <1>3, <1>4
<1> QED
  BY <1>5 DEF s, l

LEMMA RefineInit == Init => Lifecycle!Init
BY DEF Init, NoRow, LifecycleOf, Lifecycle!Init, Lifecycle!Fresh

(* Every step of the queue is a step of the life cycle, or leaves it alone. *)
LEMMA RefineStep == IInv /\ [Next]_vars => [Lifecycle!Next]_LifecycleOf
<1> SUFFICES ASSUME IInv, [Next]_vars PROVE [Lifecycle!Next]_LifecycleOf
  OBVIOUS
<1>0. TypeOK /\ LoopOK /\ PosOK /\ row \in [Jobs -> Rows]
  BY DEF IInv, ClaimInv, TypeOK
<1>1. ASSUME UNCHANGED row PROVE UNCHANGED LifecycleOf
  BY <1>1 DEF LifecycleOf
<1>2. ASSUME NEW k \in Jobs, Enqueue(k) PROVE Lifecycle!Next
  <2> DEFINE s == [row[k] EXCEPT !.qs = "queued"]
  <2>1. row' = [row EXCEPT ![k] = s] /\ row[k] \in Rows
    BY <1>0, <1>2 DEF Enqueue
  <2>2. LifecycleRow(s) = [LifecycleRow(row[k]) EXCEPT !.phase = "queued"]
    BY <2>1 DEF LifecycleRow, Rows
  <2>3. row[k].qs = "absent"
    BY <1>2 DEF Enqueue
  <2> HIDE DEF s
  <2>4. /\ LifecycleOf' = [LifecycleOf EXCEPT ![k] = LifecycleRow(s)]
        /\ LifecycleOf[k] = LifecycleRow(row[k])
    BY <1>0, <2>1, OneJob
  <2>5. LifecycleOf[k].phase = "absent"
    BY <2>3, <2>4 DEF LifecycleRow
  <2>6. LifecycleOf' = [LifecycleOf EXCEPT ![k].phase = "queued"]
    BY <2>2, <2>4
  <2>7. Lifecycle!Submit(k)
    BY <2>5, <2>6 DEF Lifecycle!Submit
  <2> QED
    BY <2>7 DEF Lifecycle!Next
<1>3. ASSUME NEW k \in Jobs, LeaseExpires(k) \/ HeartbeatMissed(k)
      PROVE  Lifecycle!Next
  <2> DEFINE s == [row[k] EXCEPT !.lease = "expired"]
  <2>1. row' = [row EXCEPT ![k] = s] /\ row[k] \in Rows
    BY <1>0, <1>3 DEF LeaseExpires, HeartbeatMissed, ExpiredRow
  <2>2. LifecycleRow(s) = [LifecycleRow(row[k]) EXCEPT !.lease = "expired"]
    BY <2>1 DEF LifecycleRow, Rows
  <2>3. row[k].qs = "processing" /\ row[k].lease = "live"
    BY <1>3 DEF LeaseExpires, HeartbeatMissed, Expirable
  <2> HIDE DEF s
  <2>4. /\ LifecycleOf' = [LifecycleOf EXCEPT ![k] = LifecycleRow(s)]
        /\ LifecycleOf[k] = LifecycleRow(row[k])
    BY <1>0, <2>1, OneJob
  <2>5. LifecycleOf[k].phase = "processing" /\ LifecycleOf[k].lease = "live"
    BY <2>3, <2>4 DEF LifecycleRow
  <2>6. LifecycleOf' = [LifecycleOf EXCEPT ![k].lease = "expired"]
    BY <2>2, <2>4
  <2>7. Lifecycle!Lapse(k)
    BY <2>5, <2>6 DEF Lifecycle!Lapse
  <2> QED
    BY <2>7 DEF Lifecycle!Next
<1>4. ASSUME NEW w \in Workers, Renew(w) PROVE Lifecycle!Next
  <2> DEFINE k == held[w][1]
             s == [row[k] EXCEPT !.lease = "live",
                     !.epoch = IF row[k].lease = "live" THEN @ ELSE @ + 1]
  <2>1. k \in Jobs
    BY <1>0, <1>4 DEF Renew, LoopOK, TypeOK, Claims
  <2>2. row' = [row EXCEPT ![k] = s] /\ row[k] \in Rows
    BY <1>0, <1>4, <2>1 DEF Renew
  <2>3. LifecycleRow(s) = [LifecycleRow(row[k]) EXCEPT !.lease = "live"]
    BY <2>2 DEF LifecycleRow, Rows
  <2>4. row[k].qs = "processing"
    BY <1>4 DEF Renew, Renewable
  <2> HIDE DEF s, k
  <2>5. /\ LifecycleOf' = [LifecycleOf EXCEPT ![k] = LifecycleRow(s)]
        /\ LifecycleOf[k] = LifecycleRow(row[k])
    BY <1>0, <2>1, <2>2, OneJob
  <2>6. Lifecycle!Extend(k)
    BY <2>3, <2>4, <2>5 DEF Lifecycle!Extend, LifecycleRow
  <2> QED
    BY <2>1, <2>6 DEF Lifecycle!Next
<1>5. ASSUME NEW w \in Workers, NEW c \in cand[w], Claim(w, c)
      PROVE  Lifecycle!Next
  <2> DEFINE k == c.job
             s == [row[k] EXCEPT !.qs = "processing", !.owner = w,
                     !.lease = "live", !.epoch = @ + 1, !.attempts = @ + 1]
  <2>1. k \in Jobs /\ c \in Candidates
    BY <1>0 DEF TypeOK, Candidates
  <2>2. row' = [row EXCEPT ![k] = s] /\ row[k] \in Rows
    BY <1>0, <1>5, <2>1 DEF Claim, ClaimedRow
  <2>3. LifecycleRow(s) =
          [phase |-> "processing", owner |-> w, lease |-> "live",
           attempts |-> LifecycleRow(row[k]).attempts + 1]
    BY <2>2 DEF LifecycleRow, Rows
  <2>4. \/ row[k].qs = "queued"
        \/ row[k].qs = "processing" /\ row[k].lease # "live"
    <3>1. NotLiveAsSelected(c, row[k]) /\ StillAsSelected(c)
      BY <1>5 DEF IInv, ClaimInv, CandOK, Claim
    <3> QED
      BY <2>1, <3>1 DEF NotLiveAsSelected, StillAsSelected, Candidates
  <2> HIDE DEF s, k
  <2>5. /\ LifecycleOf' = [LifecycleOf EXCEPT ![k] = LifecycleRow(s)]
        /\ LifecycleOf[k] = LifecycleRow(row[k])
    BY <1>0, <2>1, <2>2, OneJob
  <2>6. /\ LifecycleOf[k].phase = row[k].qs
        /\ LifecycleOf[k].lease = row[k].lease
    BY <2>5 DEF LifecycleRow
  <2>7. LifecycleOf' = [LifecycleOf EXCEPT ![k] =
           [phase |-> "processing", owner |-> w, lease |-> "live",
            attempts |-> @.attempts + 1]]
    BY <2>3, <2>5
  <2>8. Lifecycle!Take(k, w)
    BY <2>4, <2>6, <2>7 DEF Lifecycle!Take
  <2> QED
    BY <2>1, <2>8 DEF Lifecycle!Next
<1>6. ASSUME NEW w \in Workers, NothingClaimed(w) PROVE Lifecycle!Next
  <2>1. PICK old \in SUBSET {j \in Jobs : row[j].qs \in Terminal} :
          row' = [j \in Jobs |->
                    IF j \in old THEN [row[j] EXCEPT !.qs = "deleted"]
                                 ELSE row[j]]
    BY <1>6 DEF NothingClaimed
  <2>2. \A j \in Jobs :
           LifecycleRow([row[j] EXCEPT !.qs = "deleted"]) =
             [LifecycleRow(row[j]) EXCEPT !.phase = "deleted"]
    BY <1>0 DEF LifecycleRow, Rows
  <2>3. LifecycleOf' = [j \in Jobs |-> LifecycleRow(row'[j])]
    BY DEF LifecycleOf, LifecycleRow
  <2>4. \A j \in Jobs : LifecycleOf[j] = LifecycleRow(row[j])
    BY DEF LifecycleOf, LifecycleRow
  <2>5. \A j \in Jobs : LifecycleRow(row'[j]) =
           IF j \in old THEN [LifecycleOf[j] EXCEPT !.phase = "deleted"]
                        ELSE LifecycleOf[j]
    BY <2>1, <2>2, <2>4
  <2>6. \A j \in old : LifecycleOf[j].phase \in {"done", "error"}
    <3>1. \A j \in old : j \in Jobs /\ row[j].qs \in {"done", "error"}
      BY <2>1 DEF Terminal
    <3>2. \A j \in Jobs : LifecycleOf[j].phase = row[j].qs
      BY DEF LifecycleOf
    <3> QED
      BY <3>1, <3>2
  <2>7. LifecycleOf' = [j \in Jobs |->
          IF j \in old THEN [LifecycleOf[j] EXCEPT !.phase = "deleted"]
                       ELSE LifecycleOf[j]]
    BY <2>3, <2>5
  <2>8. Lifecycle!Discard(old)
    BY <2>6, <2>7 DEF Lifecycle!Discard
  <2>9. old \in SUBSET Jobs
    OBVIOUS
  <2> QED
    BY <2>8, <2>9 DEF Lifecycle!Next
<1>7. ASSUME NEW w \in Workers, FinishCommit(w)
      PROVE  Lifecycle!Next \/ UNCHANGED LifecycleOf
  <2> DEFINE k == held[w][1]
             v == Verdict(saw[w].out)
             q == Changed(saw[w].qs, v, row[k].qs)
             s == [row[k] EXCEPT !.qs = q,
                     !.status = Changed(saw[w].status, v, @),
                     !.lease = "null"]
  <2>1. k \in Jobs /\ pc[w] = "finish" /\ held[w] # NoClaim
    BY <1>0, <1>7 DEF FinishCommit, LoopOK, TypeOK, Claims
  <2>2. row[k] \in Rows /\ v \in {"done", "error"}
    BY <1>0, <2>1 DEF Verdict
  <2>3. CASE row[k].qs \in Gone
    BY <1>1, <1>7, <2>3 DEF FinishCommit
  <2>4. CASE row[k].qs \notin Gone
    <3>1. row' = [row EXCEPT ![k] = s]
      BY <1>0, <1>7, <2>1, <2>4 DEF FinishCommit
    <3>2. row[k].qs \in {"processing", "done", "error"}
      BY <2>1, <2>2, <2>4 DEF IInv, HeldOK, Rows, Gone, Terminal
    <3>3. q \in {"done", "error"}
      <4>1. saw[w].qs \in Terminal => row[k].qs \in Terminal \cup {"deleted"}
        BY <2>1 DEF IInv, SawOK
      <4> QED
        BY <2>2, <2>4, <4>1 DEF Changed, Terminal, Gone, Same
    <3>4. LifecycleRow(s) =
            [LifecycleRow(row[k]) EXCEPT !.phase = q, !.lease = "null"]
      <4> DEFINE x == Changed(saw[w].status, v, row[k].status)
      <4>1. s = [row[k] EXCEPT !.qs = q, !.status = x, !.lease = "null"]
        OBVIOUS
      <4> HIDE DEF s, q, k, v, x
      <4> QED
        BY <2>2, <3>3, <4>1, SettledRow
    <3> HIDE DEF s, q, k, v
    <3>5. /\ LifecycleOf' = [LifecycleOf EXCEPT ![k] = LifecycleRow(s)]
          /\ LifecycleOf[k] = LifecycleRow(row[k])
      BY <1>0, <2>1, <3>1, OneJob
    <3>6. LifecycleOf[k].phase \in {"processing", "done", "error"}
      BY <3>2, <3>5 DEF LifecycleRow
    <3>7. LifecycleOf' = [LifecycleOf EXCEPT ![k].phase = q, ![k].lease = "null"]
      BY <3>4, <3>5
    <3>8. Lifecycle!Settle(k, q)
      BY <3>6, <3>7 DEF Lifecycle!Settle
    <3> QED
      BY <2>1, <3>3, <3>8 DEF Lifecycle!Next
  <2> QED
    BY <2>3, <2>4
<1>8. ASSUME NEW t \in threads, ThreadCommit(t) PROVE UNCHANGED LifecycleOf
  <2>1. t.job \in Jobs
    BY <1>0 DEF TypeOK, Threads
  <2>2. \A j \in Jobs : /\ row'[j].qs = row[j].qs
                        /\ row'[j].owner = row[j].owner
                        /\ row'[j].lease = row[j].lease
                        /\ row'[j].attempts = row[j].attempts
    BY <1>0, <1>8, <2>1 DEF ThreadCommit, Rows
  <2> QED
    BY <2>2 DEF LifecycleOf
<1>9. ASSUME NEW w \in Workers, Loop(w)
      PROVE  Lifecycle!Next \/ UNCHANGED LifecycleOf
  BY <1>1, <1>5, <1>6, <1>7, <1>9 DEF Loop, SelectCandidates, ClaimMissed,
     LeaseLost, Observe
<1>10. ASSUME NEW w \in Workers,
              Start(w) \/ LoopError(w) \/ Close(w) \/ Crash(w)
       PROVE  UNCHANGED LifecycleOf
  BY <1>1, <1>10 DEF Start, LoopError, Close, Crash
<1>11. ASSUME NEW t \in threads, ThreadStep(t) PROVE UNCHANGED LifecycleOf
  BY <1>1, <1>8, <1>11 DEF ThreadStep, ThreadFence, ThreadLoad, ThreadCall,
     ThreadImport
<1>12. ASSUME UNCHANGED vars PROVE UNCHANGED LifecycleOf
  BY <1>1, <1>12 DEF vars
<1> QED
  BY <1>2, <1>3, <1>4, <1>9, <1>10, <1>11, <1>12 DEF Next

(* The queue implements the life cycle of JobLifecycle, with settlement at  *)
(* least once, for any number of workers, jobs, crashes and faults.         *)
THEOREM QueueImplementsLifecycle == Spec => ImplementsLifecycle
<1>1. Spec => Lifecycle!Init /\ [][Lifecycle!Next]_LifecycleOf
  BY RefineInit, RefineStep, Invariance, PTL DEF Spec
<1> QED
  BY <1>1 DEF ImplementsLifecycle, Lifecycle!Spec

-----------------------------------------------------------------------------
(* While heartbeats arrive.                                                 *)

(* A loop owns what it supervises until it settles it, closes or dies: the  *)
(* lease cannot run out under a heartbeat, nobody claims past a live lease, *)
(* and only the owner settles.                                              *)
OwnOK ==
  \A w \in Workers : held[w] # NoClaim =>
     /\ row[held[w][1]].qs = "processing"
     /\ row[held[w][1]].owner = w
     /\ row[held[w][1]].lease = "live"

LEMMA OwnStep ==
  /\ MaxFaults = 0 /\ ClaimInv /\ HeldOK /\ OwnOK /\ [Next]_vars
  => OwnOK'
<1> SUFFICES ASSUME MaxFaults = 0, ClaimInv, HeldOK, OwnOK, [Next]_vars,
                    NEW w \in Workers, held'[w] # NoClaim
             PROVE  /\ row'[held'[w][1]].qs = "processing"
                    /\ row'[held'[w][1]].owner = w
                    /\ row'[held'[w][1]].lease = "live"
  BY DEF OwnOK
<1> USE DEF ClaimInv
<1>1. CASE held'[w] = held[w]
  <2> DEFINE j == held[w][1]
             r == row[j]
             s == row'[j]
  <2>1. j \in Jobs
    BY <1>1 DEF TypeOK, Claims
  <2>2. r \in Rows /\ RowEvolves(j)
    BY <2>1, RowEffect DEF TypeOK
  <2>3. r.qs = "processing" /\ r.owner = w /\ r.lease = "live"
    BY <1>1 DEF OwnOK
  <2>4. ~ Expired(r, s) \/ ~ (Heartbeating(j) => faults < MaxFaults)
    BY <1>1, <2>3, FaultsAssumption DEF Heartbeating, TypeOK
  <2>5. ASSUME NEW v \in Workers, NEW c \in cand[v], c.job = j,
               StillAsSelected(c)
        PROVE  FALSE
    <3>1. NotLiveAsSelected(c, r)
      BY <2>5 DEF CandOK
    <3>2. c \in Candidates
      BY DEF TypeOK
    <3> QED
      BY <2>3, <2>5, <3>1, <3>2 DEF StillAsSelected, NotLiveAsSelected, Candidates
  <2>6. ASSUME NEW v \in Workers, FinishCommit(v), pc[v] = "finish",
               held[v][1] = j
        PROVE  FALSE
    <3>1. v = w
      BY <2>3, <2>6 DEF LoopOK, OwnOK
    <3> QED
      BY <1>1, <2>6, <3>1 DEF FinishCommit, Release, TypeOK
  <2>7. ~ Enqueued(r, s) /\ ~ Deleted(r, s)
    BY <2>3 DEF Enqueued, Deleted, Terminal
  <2>8. CASE s = r \/ Renewed(r, s) \/ Relabelled(r, s)
    BY <1>1, <2>2, <2>3, <2>8 DEF Renewed, Relabelled, Rows
  <2> QED
    BY <2>2, <2>4, <2>5, <2>6, <2>7, <2>8 DEF RowEvolves
<1>2. ASSUME NEW c \in cand[w], Claim(w, c),
             held'[w] = <<c.job, row[c.job].attempts + 1>>
      PROVE  /\ row'[held'[w][1]].qs = "processing"
             /\ row'[held'[w][1]].owner = w
             /\ row'[held'[w][1]].lease = "live"
  <2>1. c.job \in Jobs /\ row \in [Jobs -> Rows]
    BY DEF TypeOK, Candidates
  <2> QED
    BY <1>2, <2>1 DEF Claim, ClaimedRow, Rows
<1> QED
  BY <1>1, <1>2, HeldEffect

LEMMA OwnInvariance == ASSUME MaxFaults = 0 PROVE Spec => [](IInv /\ OwnOK)
<1>1. Init => OwnOK
  BY DEF Init, OwnOK
<1>2. IInv /\ OwnOK /\ [Next]_vars => OwnOK'
  BY OwnStep DEF IInv
<1> QED
  BY <1>1, <1>2, IInvInit, IInvStep, PTL DEF Spec

(* At most one loop supervises a job, for any number of workers, jobs,      *)
(* crashes and shutdowns and however long a stall is, if heartbeats arrive  *)
(* and no database call of a loop fails.                                    *)
THEOREM OneSupervisor == ASSUME MaxFaults = 0 PROVE Spec => []SoleSupervisor
<1>1. OwnOK => SoleSupervisor
  BY DEF OwnOK, SoleSupervisor
<1> QED
  BY <1>1, OwnInvariance, PTL

(* A step that settles, for the life cycle, a job that is settled already   *)
(* changes nothing of it.                                                   *)
LEMMA SettledAlready ==
  ASSUME IInv, OwnOK, [Next]_vars, NEW j \in Jobs, NEW v \in {"done", "error"},
         Lifecycle!Settle(j, v), row[j].qs # "processing"
  PROVE  UNCHANGED LifecycleOf
<1> DEFINE r == row[j]
           s == row'[j]
<1>1. TypeOK /\ LoopOK /\ PosOK /\ r \in Rows
  BY DEF IInv, ClaimInv, TypeOK
<1>2. \A k \in Jobs : /\ LifecycleOf[k] = LifecycleRow(row[k])
                      /\ LifecycleOf'[k] = LifecycleRow(row'[k])
  BY DEF LifecycleOf, LifecycleRow
<1>3. LifecycleOf' = [LifecycleOf EXCEPT ![j].phase = v, ![j].lease = "null"]
  BY DEF Lifecycle!Settle
<1>4. r.qs \in {"done", "error"}
  <2>1. LifecycleOf[j].phase \in {"processing", "done", "error"}
    BY DEF Lifecycle!Settle
  <2>2. LifecycleOf[j].phase = r.qs
    BY DEF LifecycleOf
  <2> QED
    BY <2>1, <2>2
<1>5. s.qs = v
  BY <1>2, <1>3 DEF LifecycleOf, LifecycleRow
<1>6. RowEvolves(j)
  BY <1>1, RowEffect
<1>7. ~ Enqueued(r, s) /\ ~ Renewed(r, s) /\ ~ Expired(r, s)
  BY <1>4 DEF Enqueued, Renewed, Expired
<1>8. ~ Deleted(r, s)
  BY <1>1, <1>5 DEF Deleted, Rows
<1>9. ASSUME NEW w \in Workers, Taken(w, r, s) PROVE FALSE
  BY <1>1, <1>5, <1>9 DEF Taken, Rows
<1>10. ASSUME NEW w \in Workers, pc[w] = "finish", held[w][1] = j PROVE FALSE
  BY <1>1, <1>10 DEF OwnOK, LoopOK
<1>11. s = r \/ Relabelled(r, s)
  BY <1>6, <1>7, <1>8, <1>9, <1>10 DEF RowEvolves
<1>12. LifecycleRow(s) = LifecycleRow(r)
  BY <1>1, <1>11 DEF Relabelled, LifecycleRow, Rows
<1>13. \A k \in Jobs : LifecycleOf'[k] = LifecycleOf[k]
  <2>1. \A k \in Jobs : k # j => LifecycleOf'[k] = LifecycleOf[k]
    BY <1>3 DEF LifecycleOf
  <2> QED
    BY <1>2, <1>12, <2>1
<1> QED
  BY <1>13 DEF LifecycleOf

LEMMA OnceRefineStep ==
  IInv /\ OwnOK /\ [Next]_vars => [OnceLifecycle!Next]_LifecycleOf
<1> SUFFICES ASSUME IInv, OwnOK, [Next]_vars
             PROVE  [OnceLifecycle!Next]_LifecycleOf
  OBVIOUS
<1>1. ASSUME NEW j \in Jobs, NEW v \in {"done", "error"}, Lifecycle!Settle(j, v)
      PROVE  OnceLifecycle!Settle(j, v) \/ UNCHANGED LifecycleOf
  <2>1. CASE row[j].qs = "processing"
    <3>1. LifecycleOf[j].phase = "processing"
      BY <2>1 DEF LifecycleOf
    <3> QED
      BY <1>1, <3>1 DEF Lifecycle!Settle, OnceLifecycle!Settle
  <2>2. CASE row[j].qs # "processing"
    BY <1>1, <2>2, SettledAlready
  <2> QED
    BY <2>1, <2>2
<1>2. \A j \in Jobs : /\ Lifecycle!Submit(j) => OnceLifecycle!Submit(j)
                      /\ Lifecycle!Extend(j) => OnceLifecycle!Extend(j)
                      /\ Lifecycle!Lapse(j) => OnceLifecycle!Lapse(j)
  BY DEF Lifecycle!Submit, OnceLifecycle!Submit, Lifecycle!Extend,
         OnceLifecycle!Extend, Lifecycle!Lapse, OnceLifecycle!Lapse
<1>3. \A j \in Jobs, w \in Workers :
         Lifecycle!Take(j, w) => OnceLifecycle!Take(j, w)
  BY DEF Lifecycle!Take, OnceLifecycle!Take
<1>4. \A old \in SUBSET Jobs :
         Lifecycle!Discard(old) => OnceLifecycle!Discard(old)
  BY DEF Lifecycle!Discard, OnceLifecycle!Discard
<1>5. [Lifecycle!Next]_LifecycleOf
  BY RefineStep
<1> QED
  BY <1>1, <1>2, <1>3, <1>4, <1>5 DEF Lifecycle!Next, OnceLifecycle!Next

(* Without missed heartbeats the queue settles each job exactly once.       *)
THEOREM QueueImplementsOnceLifecycle ==
  ASSUME MaxFaults = 0 PROVE Spec => ImplementsOnceLifecycle
<1>1. Init => OnceLifecycle!Init
  BY DEF Init, NoRow, LifecycleOf, OnceLifecycle!Init, OnceLifecycle!Fresh
<1>2. Spec => OnceLifecycle!Init /\ [][OnceLifecycle!Next]_LifecycleOf
  BY <1>1, OnceRefineStep, OwnInvariance, PTL DEF Spec
<1> QED
  BY <1>2 DEF ImplementsOnceLifecycle, OnceLifecycle!Spec

-----------------------------------------------------------------------------
(* The two status columns, while heartbeats arrive and no stall is long.    *)

(* A worker that still polls or works has no thread but the supervised one, *)
(* and a thread that is over has written what it had loaded.                *)
LoneThreads ==
  \A t \in threads :
     /\ Supervised(t) \/ pc[t.w] = "closed"
     /\ t.out # "none" => t.seen = Unread
     /\ \A u \in threads : t.w = u.w => t = u

(* A finishing loop loaded a row that was not settled, after its own thread *)
(* was over.                                                                *)
FinishOK ==
  \A w \in Workers : pc[w] = "finish" =>
     /\ saw[w].qs = "processing"
     /\ \A t \in threads : t.w = w => t.out # "none"

(* From the load of finish_job on no thread is about to write the row.      *)
QuietOK ==
  /\ \A w \in Workers : pc[w] = "finish" =>
        /\ saw[w].status = row[held[w][1]].status
        /\ \A t \in threads : t.job = held[w][1] => t.seen = Unread
  /\ \A t \in threads : row[t.job].qs \in Terminal => t.seen = Unread

(* Nothing is lost, skipped or failed when there are no faults.             *)
LEMMA Undisturbed ==
  ASSUME MaxFaults = 0, TypeOK, LoopOK, OwnOK
  PROVE  /\ \A w \in Workers : ~ LoopError(w) /\ ~ LeaseLost(w)
         /\ \A j \in Jobs : ~ HeartbeatMissed(j)
         /\ \A w \in Workers : \A t \in threads :
              Observe(w, t) => Mine(w, t.job) /\ UNCHANGED <<held, threads>>
<1>1. faults = 0
  BY FaultsAssumption DEF TypeOK
<1>2. ASSUME NEW w \in Workers, NEW t \in threads, Observe(w, t)
      PROVE  Mine(w, t.job) /\ UNCHANGED <<held, threads>>
  <2>1. held[w] # NoClaim /\ held[w][1] = t.job
    BY <1>2 DEF Observe, Supervises, LoopOK
  <2>2. Mine(w, t.job)
    BY <2>1 DEF OwnOK, Mine, Gone
  <2> QED
    BY <1>2, <2>2 DEF Observe
<1>3. ASSUME NEW w \in Workers, LeaseLost(w) PROVE FALSE
  BY <1>3 DEF LeaseLost, Renewable, LoopOK, OwnOK
<1> QED
  BY <1>1, <1>2, <1>3 DEF LoopError, HeartbeatMissed

(* A worker that supervises nothing and did not close has no thread.        *)
LEMMA IdleAlone ==
  ASSUME TypeOK, ImportOK, LoneThreads, NEW w \in Workers,
         held[w] = NoClaim, pc[w] # "closed"
  PROVE  \A t \in threads : t.w # w
<1> SUFFICES ASSUME NEW t \in threads, t.w = w PROVE FALSE
  OBVIOUS
<1>1. <<t.job, t.gen>> = NoClaim
  BY DEF LoneThreads, Supervised
<1>2. t.gen \in 1 .. row[t.job].attempts
  BY DEF ImportOK
<1>3. t.gen = 0
  BY <1>1 DEF NoClaim
<1> QED
  BY <1>2, <1>3

LEMMA LoneStep ==
  /\ MaxFaults = 0 /\ ClaimInv /\ ImportOK /\ OwnOK /\ LoneThreads /\ FinishOK
  /\ [Next]_vars
  => LoneThreads'
<1> SUFFICES ASSUME MaxFaults = 0, ClaimInv, ImportOK, OwnOK, LoneThreads,
                    FinishOK, [Next]_vars
             PROVE  LoneThreads'
  OBVIOUS
<1> USE DEF LoneThreads, Supervised
<1>0. TypeOK /\ LoopOK /\ PosOK /\ \A t \in threads : t.w \in Workers
  BY DEF ClaimInv, TypeOK, Threads
<1>1. ASSUME UNCHANGED <<threads, held, pc>> PROVE LoneThreads'
  BY <1>1
<1>2. ASSUME NEW w \in Workers, pc[w] # "closed", NEW to,
             pc' = [pc EXCEPT ![w] = to], UNCHANGED <<threads, held>>
      PROVE  LoneThreads'
  BY <1>0, <1>2 DEF TypeOK
<1>3. ASSUME NEW w \in Workers, NEW c \in cand[w], Claim(w, c), pc[w] = "claim"
      PROVE  LoneThreads'
  <2> DEFINE n == NewThread(w, c.job)
  <2>1. \A t \in threads : t.w # w
    BY <1>0, <1>3, IdleAlone DEF LoopOK
  <2>2. /\ n.w = w /\ n.job = c.job /\ n.gen = row[c.job].attempts + 1
        /\ n.out = "none" /\ n.seen = Unread
    BY DEF NewThread
  <2>3. threads' = threads \cup {n}
    BY <1>3 DEF Claim
  <2>4. /\ held'[w] = <<n.job, n.gen>>
        /\ \A v \in Workers : v # w => held'[v] = held[v] /\ pc'[v] = pc[v]
    BY <1>0, <1>3, <2>2 DEF Claim, TypeOK
  <2> HIDE DEF n
  <2> QED
    BY <1>0, <2>1, <2>2, <2>3, <2>4
<1>4. ASSUME NEW w \in Workers, NEW c \in cand[w], Claim(w, c)
      PROVE  LoneThreads'
  BY <1>2, <1>3, <1>4 DEF Claim
<1>5. ASSUME NEW w \in Workers, threads' \subseteq {t \in threads : t.w # w},
             \A v \in Workers : v # w => held'[v] = held[v] /\ pc'[v] = pc[v]
      PROVE  LoneThreads'
  BY <1>0, <1>5
<1>6. ASSUME NEW w \in Workers, FinishCommit(w) PROVE LoneThreads'
  <2>1. \A t \in threads : t.w = w => Supervises(w, t) /\ t.out # "none"
    BY <1>6 DEF FinishCommit, FinishOK, Supervises
  <2>2. threads' \subseteq {t \in threads : t.w # w}
    BY <1>6, <2>1 DEF FinishCommit, Release
  <2> QED
    BY <1>0, <1>5, <1>6, <2>2 DEF FinishCommit, Release, TypeOK
<1>7. ASSUME NEW w \in Workers, Crash(w) PROVE LoneThreads'
  BY <1>0, <1>5, <1>7 DEF Crash, TypeOK
<1>8. ASSUME NEW w \in Workers, Close(w) PROVE LoneThreads'
  <2>1. /\ threads' \subseteq threads
        /\ \A v \in Workers : v # w => held'[v] = held[v] /\ pc'[v] = pc[v]
        /\ pc[w] # "claim" => pc'[w] = "closed"
    BY <1>0, <1>8 DEF Close, Release, TypeOK
  <2>2. CASE pc[w] = "claim"
    <3>1. \A t \in threads : t.w # w
      BY <1>0, <2>2, IdleAlone DEF LoopOK
    <3> QED
      BY <1>5, <2>1, <3>1
  <2>3. CASE pc[w] # "claim"
    BY <1>0, <2>1, <2>3
  <2> QED
    BY <2>2, <2>3
<1>9. ASSUME NEW t \in threads, ThreadStep(t) PROVE LoneThreads'
  <2>1. UNCHANGED <<pc, held>>
    BY <1>9 DEF ThreadStep, ThreadFence, ThreadLoad, ThreadCommit, ThreadCall,
       ThreadImport
  <2>2. PICK v \in Threads : /\ threads' \subseteq (threads \ {t}) \cup {v}
                             /\ SameThread(t, v) /\ t.out = "none"
                             /\ Stays(t, v) \/ Returns(t, v) \/ Moves(t, v)
    BY <1>0, <1>9, ThreadEffect
  <2>3. /\ v.w = t.w /\ v.job = t.job /\ v.gen = t.gen
        /\ v.out # "none" => v.seen = Unread
    BY <2>2 DEF SameThread, Stays, Returns, Moves
  <2> QED
    BY <2>1, <2>2, <2>3
<1>10. ASSUME NEW w \in Workers, NEW t \in threads, Observe(w, t)
       PROVE  LoneThreads'
  <2>1. Mine(w, t.job) /\ UNCHANGED <<held, threads>>
    BY <1>0, <1>10, Undisturbed
  <2> QED
    BY <1>2, <1>10, <2>1 DEF Observe
<1>11. ASSUME NEW w \in Workers, Loop(w) PROVE LoneThreads'
  <2>1. ASSUME NEW c \in cand[w], ClaimMissed(w, c) PROVE LoneThreads'
    BY <1>1, <2>1 DEF ClaimMissed
  <2>2. ASSUME SelectCandidates(w) \/ NothingClaimed(w) PROVE LoneThreads'
    BY <1>2, <2>2 DEF SelectCandidates, NothingClaimed
  <2>3. ~ LeaseLost(w)
    BY <1>0, Undisturbed
  <2> QED
    BY <1>4, <1>6, <1>10, <1>11, <2>1, <2>2, <2>3 DEF Loop
<1>12. ASSUME NEW w \in Workers, Start(w) PROVE LoneThreads'
  BY <1>2, <1>12 DEF Start
<1>13. ASSUME NEW w \in Workers, Renew(w) PROVE LoneThreads'
  BY <1>1, <1>13 DEF Renew
<1>14. ASSUME NEW j \in Jobs, Enqueue(j) \/ LeaseExpires(j) \/ HeartbeatMissed(j)
       PROVE  LoneThreads'
  BY <1>1, <1>14 DEF Enqueue, LeaseExpires, HeartbeatMissed
<1>15. ASSUME UNCHANGED vars PROVE LoneThreads'
  BY <1>1, <1>15 DEF vars
<1>16. \A w \in Workers : ~ LoopError(w)
  BY <1>0, Undisturbed
<1> QED
  BY <1>7, <1>8, <1>9, <1>11, <1>12, <1>13, <1>14, <1>15, <1>16 DEF Next

LEMMA FinishStep ==
  /\ MaxFaults = 0 /\ ClaimInv /\ OwnOK /\ LoneThreads /\ FinishOK
  /\ [Next]_vars
  => FinishOK'
<1> SUFFICES ASSUME MaxFaults = 0, ClaimInv, OwnOK, LoneThreads, FinishOK,
                    [Next]_vars, NEW w \in Workers, pc'[w] = "finish"
             PROVE  /\ saw'[w].qs = "processing"
                    /\ \A u \in threads' : u.w = w => u.out # "none"
  BY DEF FinishOK
<1>0. TypeOK /\ LoopOK /\ PosOK
  BY DEF ClaimInv
<1>1. CASE pc[w] = "finish" /\ held'[w] = held[w] /\ saw'[w] = saw[w]
  <2>1. saw'[w].qs = "processing"
    BY <1>1 DEF FinishOK
  <2>2. ASSUME NEW u \in threads', u.w = w PROVE u.out # "none"
    <3>1. CASE u \in threads
      BY <1>1, <2>2, <3>1 DEF FinishOK
    <3>2. ASSUME NEW v \in Workers, NEW c \in cand[v], Claim(v, c),
                 u = NewThread(v, c.job)
          PROVE  FALSE
      BY <1>1, <2>2, <3>2 DEF Claim, NewThread
    <3>3. ASSUME NEW t \in threads, SameThread(t, u), t.out = "none"
          PROVE  FALSE
      BY <1>1, <2>2, <3>3 DEF FinishOK, SameThread
    <3> QED
      BY <1>0, <3>1, <3>2, <3>3, ThreadsEffect
  <2> QED
    BY <2>1, <2>2
<1>2. ASSUME NEW t \in threads, Observe(w, t), Mine(w, t.job)
      PROVE  /\ saw'[w].qs = "processing"
             /\ \A u \in threads' : u.w = w => u.out # "none"
  <2>1. held[w] # NoClaim /\ held[w][1] = t.job /\ t.w = w /\ t.out # "none"
    BY <1>0, <1>2 DEF Observe, Supervises, LoopOK
  <2>2. saw'[w].qs = row[t.job].qs
    BY <1>0, <1>2 DEF Observe, TypeOK
  <2>3. threads' = threads
    BY <1>2 DEF Observe
  <2> QED
    BY <2>1, <2>2, <2>3 DEF OwnOK, LoneThreads
<1> QED
  BY <1>0, <1>1, <1>2, FinishEffect

(* A thread of the next state is about to write only if it was before, or   *)
(* if it just loaded the row under its fence.                               *)
LEMMA WritersEffect ==
  ASSUME TypeOK, [Next]_vars, NEW u \in threads', u.seen # Unread
  PROVE  \/ u \in threads
         \/ /\ row[u.job].qs = "processing" /\ row[u.job].owner = u.w
            /\ \E t \in threads : t.w = u.w /\ t.out = "none"
<1>1. ASSUME NEW w \in Workers, NEW c \in cand[w], u = NewThread(w, c.job)
      PROVE  FALSE
  BY <1>1 DEF NewThread
<1>2. ASSUME NEW t \in threads, SameThread(t, u),
             Stays(t, u) \/ Returns(t, u) \/ Moves(t, u)
      PROVE  row[u.job].qs = "processing" /\ row[u.job].owner = u.w
  BY <1>2 DEF SameThread, Stays, Returns, Moves, Fenced
<1> QED
  BY <1>1, <1>2, ThreadsEffect DEF SameThread

(* While w finishes its job, the row's status stays and nobody starts to    *)
(* write it.                                                                *)
LEMMA QuietFinish ==
  ASSUME MaxFaults = 0, ClaimInv, OwnOK, LoneThreads, FinishOK, QuietOK,
         [Next]_vars, NEW w \in Workers, pc[w] = "finish", pc'[w] = "finish",
         held'[w] = held[w], saw'[w] = saw[w]
  PROVE  /\ saw'[w].status = row'[held'[w][1]].status
         /\ \A u \in threads' : u.job = held'[w][1] => u.seen = Unread
<1> DEFINE j == held[w][1]
           r == row[j]
           s == row'[j]
<1>0. TypeOK /\ LoopOK /\ PosOK /\ held[w] # NoClaim /\ j \in Jobs
  BY DEF ClaimInv, TypeOK, LoopOK, Claims
<1>1. r \in Rows /\ RowEvolves(j)
  BY <1>0, RowEffect DEF TypeOK
<1>2. r.qs = "processing" /\ r.owner = w
  BY <1>0 DEF OwnOK
<1>3. ASSUME NEW v \in Workers, FinishCommit(v), pc[v] = "finish",
             held[v][1] = j
      PROVE  FALSE
  <2>1. v = w
    BY <1>0, <1>2, <1>3 DEF LoopOK, OwnOK
  <2> QED
    BY <1>0, <1>3, <2>1 DEF FinishCommit, Release, TypeOK
<1>4. ASSUME NEW v \in Workers, Taken(v, r, s) PROVE s.status = r.status
  BY <1>1, <1>4 DEF Taken, Rows
<1>5. ASSUME s = r \/ Enqueued(r, s) \/ Renewed(r, s) \/ Expired(r, s)
             \/ Deleted(r, s)
      PROVE  s.status = r.status
  BY <1>1, <1>5 DEF Enqueued, Renewed, Expired, Deleted, Rows
<1>6. ~ \E t \in threads : t.job = j /\ t.seen # Unread
  BY DEF QuietOK
<1>7. s.status = r.status
  BY <1>1, <1>3, <1>4, <1>5, <1>6 DEF RowEvolves
<1>8. ASSUME NEW u \in threads', u.job = j, u.seen # Unread PROVE FALSE
  <2>1. ASSUME NEW t \in threads, t.w = u.w, t.out = "none",
               row[u.job].owner = u.w
        PROVE  FALSE
    BY <1>2, <1>8, <2>1 DEF FinishOK
  <2> QED
    BY <1>0, <1>6, <1>8, <2>1, WritersEffect
<1> QED
  BY <1>7, <1>8 DEF QuietOK

LEMMA QuietStep ==
  /\ MaxFaults = 0 /\ Prompt
  /\ ClaimInv /\ OwnOK /\ LoneThreads /\ FinishOK /\ QuietOK /\ [Next]_vars
  => QuietOK'
<1> SUFFICES ASSUME MaxFaults = 0, Prompt, ClaimInv, OwnOK, LoneThreads,
                    FinishOK, QuietOK, [Next]_vars
             PROVE  QuietOK'
  OBVIOUS
<1>0. TypeOK /\ LoopOK /\ PosOK
  BY DEF ClaimInv
<1>1. ASSUME NEW w \in Workers, pc'[w] = "finish"
      PROVE  /\ saw'[w].status = row'[held'[w][1]].status
             /\ \A u \in threads' : u.job = held'[w][1] => u.seen = Unread
  <2>1. ASSUME NEW t \in threads, Observe(w, t), Mine(w, t.job)
        PROVE  /\ saw'[w].status = row'[held'[w][1]].status
               /\ \A u \in threads' : u.job = held'[w][1] => u.seen = Unread
    <3>1. /\ held[w] = <<t.job, t.gen>> /\ t.w = w /\ t.out # "none"
          /\ UNCHANGED <<row, held, threads>>
      BY <2>1 DEF Observe, Supervises
    <3>2. saw'[w].status = row[t.job].status
      BY <1>0, <2>1 DEF Observe, TypeOK
    <3>3. ~ Stalled(w, t.job)
      BY <2>1 DEF Observe
    <3>4. \A u \in threads : u.job = t.job => u.seen = Unread
      BY <3>1, <3>3 DEF Stalled, LoneThreads
    <3> QED
      BY <3>1, <3>2, <3>4
  <2> QED
    BY <1>0, <1>1, <2>1, FinishEffect, QuietFinish
<1>2. ASSUME NEW u \in threads', row'[u.job].qs \in Terminal, u.seen # Unread
      PROVE  FALSE
  <2> DEFINE j == u.job
             r == row[j]
             s == row'[j]
  <2>1. j \in Jobs
    <3>1. threads' \subseteq Threads
      BY <1>0, TypeStep DEF TypeOK
    <3> QED
      BY <3>1 DEF Threads
  <2>2. r \in Rows /\ RowEvolves(j)
    BY <1>0, <2>1, RowEffect DEF TypeOK
  <2>3. r.qs \notin Terminal
    <3>1. CASE u \in threads
      BY <1>2, <3>1 DEF QuietOK
    <3> QED
      BY <1>0, <1>2, <3>1, WritersEffect DEF Terminal
  <2>4. PICK w \in Workers : /\ FinishCommit(w)
                             /\ pc[w] = "finish" /\ held[w][1] = j
    <3>1. ~ Enqueued(r, s) /\ ~ Renewed(r, s) /\ ~ Expired(r, s)
      BY <1>2, <2>2 DEF Enqueued, Renewed, Expired, Terminal, Rows
    <3>2. ~ Deleted(r, s) /\ ~ Relabelled(r, s) /\ s # r
      BY <1>2, <2>2, <2>3 DEF Deleted, Relabelled, Rows
    <3>3. ASSUME NEW w \in Workers, Taken(w, r, s) PROVE FALSE
      BY <1>2, <2>2, <3>3 DEF Taken, Terminal, Rows
    <3> QED
      BY <2>2, <3>1, <3>2, <3>3 DEF RowEvolves
  <2>5. u \in threads
    BY <2>4 DEF FinishCommit, Release
  <2> QED
    BY <1>2, <2>4, <2>5 DEF QuietOK
<1> QED
  BY <1>1, <1>2 DEF QuietOK

LEMMA AgreeStep ==
  /\ ClaimInv /\ FinishOK /\ QuietOK /\ StatusAgrees /\ [Next]_vars
  => StatusAgrees'
<1> SUFFICES ASSUME ClaimInv, FinishOK, QuietOK, StatusAgrees, [Next]_vars,
                    NEW j \in Jobs, row'[j].qs \in Terminal
             PROVE  row'[j].status = row'[j].qs
  BY DEF StatusAgrees
<1> DEFINE r == row[j]
           s == row'[j]
<1>0. TypeOK /\ LoopOK /\ PosOK
  BY DEF ClaimInv
<1>1. r \in Rows /\ RowEvolves(j)
  BY <1>0, RowEffect DEF TypeOK
<1>2. ASSUME NEW w \in Workers, pc[w] = "finish", held[w][1] = j,
             Settled(w, r, s)
      PROVE  s.status = s.qs
  <2>1. saw[w].qs = "processing" /\ saw[w].status = r.status
    BY <1>2 DEF FinishOK, QuietOK
  <2> DEFINE v == Verdict(saw[w].out)
  <2>2. v \in {"done", "error"}
    BY DEF Verdict
  <2> HIDE DEF v
  <2>3. Changed(saw[w].qs, v, r.qs) = IF v = "processing" THEN r.qs ELSE v
    BY <2>1, <2>2 DEF Changed, Same
  <2>4. Changed(saw[w].status, v, r.status) = v
    BY <2>1, <2>2 DEF Changed, Same
  <2>5. s.qs = Changed(saw[w].qs, v, r.qs)
        /\ s.status = Changed(saw[w].status, v, r.status)
    BY <1>1, <1>2 DEF Settled, Rows, v
  <2> QED
    BY <2>2, <2>3, <2>4, <2>5
<1>3. ~ Enqueued(r, s) /\ ~ Renewed(r, s) /\ ~ Expired(r, s) /\ ~ Deleted(r, s)
  BY <1>1 DEF Enqueued, Renewed, Expired, Deleted, Terminal, Rows
<1>4. ASSUME NEW w \in Workers, Taken(w, r, s) PROVE FALSE
  BY <1>1, <1>4 DEF Taken, Terminal, Rows
<1>5. CASE Relabelled(r, s) /\ \E t \in threads : t.job = j /\ t.seen # Unread
  <2>1. r.qs = s.qs
    BY <1>1, <1>5 DEF Relabelled, Rows
  <2> QED
    BY <1>5, <2>1 DEF QuietOK
<1>6. CASE s = r
  BY <1>6 DEF StatusAgrees
<1> QED
  BY <1>1, <1>2, <1>3, <1>4, <1>5, <1>6 DEF RowEvolves

(* The status clients poll and the status the queue acts on agree on every  *)
(* settled job, although different statements of different threads write    *)
(* them, if heartbeats arrive and no stall between a load and its commit    *)
(* outlasts a whole execution.                                              *)
THEOREM SettledColumnsAgree ==
  ASSUME MaxFaults = 0, Prompt PROVE Spec => []StatusAgrees
<1> DEFINE AInv == /\ IInv /\ OwnOK /\ LoneThreads /\ FinishOK /\ QuietOK
                   /\ StatusAgrees
<1>1. Init => AInv
  <2> SUFFICES ASSUME Init PROVE AInv
    OBVIOUS
  <2>1. OwnOK /\ LoneThreads /\ FinishOK /\ QuietOK /\ StatusAgrees
    BY DEF Init, NoRow, OwnOK, LoneThreads, FinishOK, QuietOK, StatusAgrees,
           Terminal
  <2> QED
    BY <2>1, IInvInit
<1>2. AInv /\ [Next]_vars => AInv'
  BY IInvStep, OwnStep, LoneStep, FinishStep, QuietStep, AgreeStep DEF IInv
<1>3. AInv => StatusAgrees
  OBVIOUS
<1> HIDE DEF AInv
<1> QED
  BY <1>1, <1>2, <1>3, PTL DEF Spec
=============================================================================
