----------------------------- MODULE JobLifecycle -----------------------------
(***************************************************************************)
(* What the durable queue promises of each job, whoever executes it: a job *)
(* is taken under a lease, may be taken over only when that lease has run  *)
(* out, every taking is a counted attempt, and a settled job is never      *)
(* taken again.  Loops, threads and candidate lists do not appear.         *)
(***************************************************************************)
EXTENDS Integers

CONSTANTS
    Jobs, Workers, NoWorker,
    SettleOnce     \* TRUE: only a leased job is settled, so it happens once

VARIABLE job

Fresh == [phase |-> "absent", owner |-> NoWorker, lease |-> "null",
          attempts |-> 0]

Init == job = [j \in Jobs |-> Fresh]

Submit(j) ==
  /\ job[j].phase = "absent"
  /\ job' = [job EXCEPT ![j].phase = "queued"]

(* The queued job is taken, or the lease of its holder is not live.         *)
Take(j, w) ==
  /\ \/ job[j].phase = "queued"
     \/ job[j].phase = "processing" /\ job[j].lease # "live"
  /\ job' = [job EXCEPT ![j] =
       [phase |-> "processing", owner |-> w, lease |-> "live",
        attempts |-> @.attempts + 1]]

Extend(j) ==
  /\ job[j].phase = "processing"
  /\ job' = [job EXCEPT ![j].lease = "live"]

Lapse(j) ==
  /\ job[j].phase = "processing"
  /\ job[j].lease = "live"
  /\ job' = [job EXCEPT ![j].lease = "expired"]

Settle(j, verdict) ==
  /\ job[j].phase \in IF SettleOnce THEN {"processing"}
                      ELSE {"processing", "done", "error"}
  /\ job' = [job EXCEPT ![j].phase = verdict, ![j].lease = "null"]

Discard(old) ==
  /\ \A j \in old : job[j].phase \in {"done", "error"}
  /\ job' = [j \in Jobs |-> IF j \in old
                              THEN [job[j] EXCEPT !.phase = "deleted"]
                              ELSE job[j]]

Next ==
  \/ \E j \in Jobs :
       \/ Submit(j) \/ Extend(j) \/ Lapse(j)
       \/ \E w \in Workers : Take(j, w)
       \/ \E verdict \in {"done", "error"} : Settle(j, verdict)
  \/ \E old \in SUBSET Jobs : Discard(old)

Spec == Init /\ [][Next]_job
=============================================================================
