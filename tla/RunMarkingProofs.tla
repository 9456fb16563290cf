--------------------------- MODULE RunMarkingProofs ---------------------------
(***************************************************************************)
(* Proofs about RunMarking for every set of cases and requests, every      *)
(* total, wherever the requests are handled.                               *)
(***************************************************************************)
EXTENDS RunMarking, FiniteSetTheorems, TLAPS

-----------------------------------------------------------------------------
(* Counting.                                                                *)

(* A count is a number, and no larger than the number of cases.             *)
LEMMA CountType ==
  ASSUME NEW cs, NEW statuses
  PROVE  /\ IsFiniteSet({c \in Cases : cs[c] \in statuses})
         /\ Count(cs, statuses) \in Nat
         /\ Count(cs, statuses) <= Cardinality(Cases)
         /\ Cardinality(Cases) \in Nat
<1>1. {c \in Cases : cs[c] \in statuses} \subseteq Cases
  OBVIOUS
<1> QED
  BY <1>1, CasesAssumption, FS_Subset, FS_CardinalityType DEF Count

LEMMA TotalType == TotalOf \in Nat
BY TotalAssumption, CasesAssumption, FS_CardinalityType DEF TotalOf

(* A run whose cases are all pending is not complete.                       *)
LEMMA PendingIncomplete ==
  ASSUME NEW cs, \A c \in Cases : cs[c] = "pending"
  PROVE  ~ Complete(cs)
<1>1. {c \in Cases : cs[c] \in CaseStatuses \ {"pending"}} = {}
  OBVIOUS
<1>2. Count(cs, CaseStatuses \ {"pending"}) = 0
  BY <1>1, FS_EmptySet DEF Count
<1> QED
  BY <1>2, TotalType DEF Complete

(* When the total is the number of cases, a complete run has none pending.  *)
LEMMA CompleteMeansAll ==
  ASSUME Total = 0, NEW cs, Complete(cs), NEW c \in Cases
  PROVE  cs[c] # "pending"
<1> DEFINE D == {d \in Cases : cs[d] \in CaseStatuses \ {"pending"}}
<1>1. D \subseteq Cases /\ IsFiniteSet(Cases)
  BY CasesAssumption
<1>2. Cardinality(D) >= Cardinality(Cases)
  BY DEF Complete, Count, TotalOf
<1>3. IsFiniteSet(D) /\ Cardinality(D) \in Nat /\ Cardinality(Cases) \in Nat
  BY CountType DEF Count
<1>4. D = Cases
  BY <1>1, <1>2, <1>3, FS_Subset
<1> QED
  BY <1>4

-----------------------------------------------------------------------------
(* Types.                                                                   *)

(* Progress is a percentage.                                                *)
LEMMA ProgressType == ASSUME NEW cs PROVE Progress(cs) \in 0 .. 100
<1> DEFINE n == Count(cs, CaseStatuses \ {"pending"})
           m == TotalOf
<1>1. n \in Nat /\ m \in Nat
  BY CountType, TotalType
<1>2. CASE Complete(cs)
  BY <1>2 DEF Progress
<1>3. CASE ~ Complete(cs) /\ m = 0
  BY <1>3 DEF Progress
<1>4. CASE ~ Complete(cs) /\ m # 0
  <2>1. n < m
    BY <1>1, <1>4 DEF Complete
  <2>2. (n * 100) \div m \in 0 .. 100
    <3> HIDE DEF n, m
    <3> QED BY <1>1, <2>1
  <2> QED
    BY <1>4, <2>2 DEF Progress
<1> QED
  BY <1>2, <1>3, <1>4

LEMMA RecomputedType ==
  ASSUME NEW cs, NEW r \in RunRow
  PROVE  Recomputed(r, cs) \in RunRow
<1>1. /\ Count(cs, {"pass"}) \in Nat
      /\ Count(cs, {"fail"}) \in Nat
      /\ Count(cs, {"blocked", "skip"}) \in Nat
  BY CountType
<1>2. Verdict(cs) \in RunStatuses
  BY DEF Verdict, RunStatuses
<1>3. r.status \in RunStatuses /\ "running" \in RunStatuses
  BY DEF RunRow, RunStatuses
<1> QED
  BY <1>1, <1>2, <1>3, ProgressType DEF Recomputed, RunRow

(* A commit leaves in each column what was there or what was computed.      *)
LEMMA WrittenType ==
  ASSUME NEW loaded \in RunRow, NEW new \in RunRow, run \in RunRow
  PROVE  /\ Written(loaded, new) \in RunRow
         /\ Written(loaded, new).status \in {run.status, new.status}
<1>1. DOMAIN run = {"status", "progress", "passed", "failed", "blocked"}
  BY DEF RunRow
<1>2. Written(loaded, new) =
        [status   |-> IF new.status = loaded.status THEN run.status
                                                    ELSE new.status,
         progress |-> IF new.progress = loaded.progress THEN run.progress
                                                        ELSE new.progress,
         passed   |-> IF new.passed = loaded.passed THEN run.passed
                                                    ELSE new.passed,
         failed   |-> IF new.failed = loaded.failed THEN run.failed
                                                    ELSE new.failed,
         blocked  |-> IF new.blocked = loaded.blocked THEN run.blocked
                                                      ELSE new.blocked]
  BY <1>1 DEF Written
<1> QED
  BY <1>2 DEF RunRow

(* What TypeOK says of the requests, and what their steps have left in them.*)
ReqType ==
  \A h \in Requests :
    /\ req[h].pc \in PCs
    /\ req[h].pc \in {"read", "counted"} => req[h].loaded \in RunRow
    /\ req[h].pc = "counted" => req[h].new \in RunRow

ReqOK ==
  /\ req = [h \in Requests |-> req[h]]
  /\ \A h \in Requests :
       /\ req[h].pc = "loaded" => req[h].case \in Cases /\ req[h].mark \in Marks
       /\ req[h].pc = "complete" => req[h].status \in RunStatuses

TypeInv == TypeOK /\ ReqOK

LEMMA TypeInvInit == Init => TypeInv
<1> SUFFICES ASSUME Init PROVE TypeInv
  OBVIOUS
<1> USE DEF Init
<1>1. run \in RunRow
  BY DEF RunRow, RunStatuses
<1>2. case \in [Cases -> CaseStatuses]
  BY DEF CaseStatuses
<1>3. \A h \in Requests : req[h].pc = "idle"
  BY DEF Idle
<1>4. TypeOK
  <2>1. marks \in 0 .. MaxMarks /\ crashes \in 0 .. MaxCrashes
    BY BoundsAssumption
  <2> QED
    BY <1>1, <1>2, <1>3, <2>1 DEF TypeOK, PCs
<1>5. ReqOK
  BY <1>3 DEF ReqOK
<1> QED
  BY <1>4, <1>5 DEF TypeInv

(* A step of one request that leaves it well formed.                        *)
LEMMA OneRequest ==
  ASSUME TypeInv, NEW h \in Requests, NEW q,
         req' = [req EXCEPT ![h] = q],
         q.pc \in PCs,
         q.pc \in {"read", "counted"} => q.loaded \in RunRow,
         q.pc = "counted" => q.new \in RunRow,
         q.pc = "loaded" => q.case \in Cases /\ q.mark \in Marks,
         q.pc = "complete" => q.status \in RunStatuses
  PROVE  /\ ReqOK'
         /\ ReqType'
<1>1. /\ req'[h] = q
      /\ \A g \in Requests \ {h} : req'[g] = req[g]
      /\ req' = [g \in Requests |-> req'[g]]
  BY DEF TypeInv, ReqOK
<1> QED
  BY <1>1 DEF TypeInv, TypeOK, ReqOK, ReqType

LEMMA TypeInvStep == TypeInv /\ [Next]_vars => TypeInv'
<1> SUFFICES ASSUME TypeInv, [Next]_vars PROVE TypeInv'
  OBVIOUS
<1> USE DEF TypeInv, TypeOK, ReqType
<1>1. ASSUME NEW h \in Requests, NEW c \in Cases, NEW s \in Marks, Load(h, c, s)
      PROVE  TypeInv'
  <2> DEFINE q == [pc |-> "loaded", case |-> c, old |-> case[c], mark |-> s]
  <2>1. req' = [req EXCEPT ![h] = q]
    BY <1>1 DEF Load
  <2>2. ReqOK' /\ ReqType'
    BY <2>1, OneRequest DEF PCs
  <2>3. loop' \in [Procs -> Requests \cup {None}]
    BY <1>1 DEF Load, Hold
  <2>4. marks' \in 0 .. MaxMarks
    BY <1>1, BoundsAssumption DEF Load
  <2> QED
    BY <1>1, <2>2, <2>3, <2>4 DEF Load
<1>2. ASSUME NEW h \in Requests, CommitCase(h) PROVE TypeInv'
  <2>1. req' = [req EXCEPT ![h] = [pc |-> "marked"]]
    BY <1>2 DEF CommitCase
  <2>2. ReqOK' /\ ReqType'
    BY <2>1, OneRequest DEF PCs
  <2>3. case' \in [Cases -> CaseStatuses]
    BY <1>2, MarksAssumption DEF CommitCase, ReqOK
  <2> QED
    BY <1>2, <2>2, <2>3 DEF CommitCase
<1>3. ASSUME NEW h \in Requests, ReadRun(h) PROVE TypeInv'
  <2>1. req' = [req EXCEPT ![h] = [pc |-> "read", loaded |-> run]]
    BY <1>3 DEF ReadRun
  <2>2. ReqOK' /\ ReqType'
    BY <2>1, OneRequest DEF PCs
  <2>3. since' \subseteq {"edit", "cut"}
    BY <1>3 DEF ReadRun
  <2> QED
    BY <1>3, <2>2, <2>3 DEF ReadRun
<1>4. ASSUME NEW h \in Requests, ReadCases(h) PROVE TypeInv'
  <2>1. req' = [req EXCEPT ![h] =
           [pc |-> "counted", loaded |-> req[h].loaded,
            new |-> Recomputed(req[h].loaded, case),
            complete |-> Complete(case)]]
    BY <1>4 DEF ReadCases
  <2>2. req[h].loaded \in RunRow
    BY <1>4 DEF ReadCases
  <2>3. Recomputed(req[h].loaded, case) \in RunRow
    BY <2>2, RecomputedType
  <2>4. ReqOK' /\ ReqType'
    BY <2>1, <2>2, <2>3, OneRequest DEF PCs
  <2> QED
    BY <1>4, <2>4 DEF ReadCases
<1>5. ASSUME NEW h \in Requests, CommitRun(h) PROVE TypeInv'
  <2>1. req' = [req EXCEPT ![h] =
                  [pc |-> "committed", complete |-> req[h].complete]]
    BY <1>5 DEF CommitRun
  <2>2. ReqOK' /\ ReqType'
    BY <2>1, OneRequest DEF PCs
  <2>3. run' = Written(req[h].loaded, req[h].new)
    BY <1>5 DEF CommitRun
  <2>4. req[h].loaded \in RunRow /\ req[h].new \in RunRow
    BY <1>5 DEF CommitRun
  <2>5. run' \in RunRow
    BY <2>3, <2>4, WrittenType
  <2> QED
    BY <1>5, <2>2, <2>5 DEF CommitRun
<1>6. ASSUME NEW h \in Requests, SendStep(h) PROVE TypeInv'
  <2> DEFINE q == IF Announces(req[h]) THEN [pc |-> "complete", status |-> run.status]
                                       ELSE Idle
  <2>1. req' = [req EXCEPT ![h] = q]
    BY <1>6 DEF SendStep
  <2>2. run.status \in RunStatuses
    BY DEF RunRow
  <2>3. ReqOK' /\ ReqType'
    <3>1. CASE Announces(req[h])
      BY <2>1, <2>2, <3>1, OneRequest DEF PCs
    <3>2. CASE ~ Announces(req[h])
      BY <2>1, <3>2, OneRequest DEF PCs, Idle
    <3> QED BY <3>1, <3>2
  <2>4. loop' \in [Procs -> Requests \cup {None}]
    BY <1>6 DEF SendStep, Yield
  <2> QED
    BY <1>6, <2>3, <2>4 DEF SendStep
<1>7. ASSUME NEW h \in Requests, SendComplete(h) PROVE TypeInv'
  <2>1. req' = [req EXCEPT ![h] = Idle]
    BY <1>7 DEF SendComplete
  <2>2. ReqOK' /\ ReqType'
    BY <2>1, OneRequest DEF PCs, Idle
  <2>3. announced' \subseteq RunStatuses
    BY <1>7 DEF SendComplete, ReqOK
  <2> QED
    BY <1>7, <2>2, <2>3 DEF SendComplete
<1>8. ASSUME NEW h \in Requests, Crash(h) PROVE TypeInv'
  <2>1. req' = [req EXCEPT ![h] = Idle]
    BY <1>8 DEF Crash
  <2>2. ReqOK' /\ ReqType'
    BY <2>1, OneRequest DEF PCs, Idle
  <2>3. loop' \in [Procs -> Requests \cup {None}]
    BY <1>8 DEF Crash
  <2>4. crashes' \in 0 .. MaxCrashes
    BY <1>8, BoundsAssumption DEF Crash
  <2>5. since' \subseteq {"edit", "cut"}
    BY <1>8 DEF Crash
  <2> QED
    BY <1>8, <2>2, <2>3, <2>4, <2>5 DEF Crash
<1>9. ASSUME NEW s \in Edits, EditStatus(s) PROVE TypeInv'
  <2>1. run' \in RunRow
    BY <1>9 DEF EditStatus, RunRow, RunStatuses
  <2>2. since' \subseteq {"edit", "cut"}
    BY <1>9 DEF EditStatus
  <2> QED
    BY <1>9, <2>1, <2>2 DEF EditStatus, ReqOK
<1>10. CASE UNCHANGED vars
  BY <1>10 DEF vars, ReqOK
<1> QED
  BY <1>1, <1>2, <1>3, <1>4, <1>5, <1>6, <1>7, <1>8, <1>9, <1>10
  DEF Next, Handle

LEMMA TypeInvariance == Spec => []TypeInv
BY TypeInvInit, TypeInvStep, PTL DEF Spec

(* The run's row, the results and the requests are well typed, and progress *)
(* is a percentage, for any cases, total, requests and marks.               *)
THEOREM TypeCorrect == Spec => []TypeOK
BY TypeInvariance, PTL DEF TypeInv

-----------------------------------------------------------------------------
(* Completion.                                                              *)

(* A request that will announce the completion, or has yet to read the      *)
(* cases: CompletionSeen, for one request.                                  *)
WillAnnounce(h) ==
  \/ req[h].pc \in {"marked", "read"}
  \/ req[h].pc \in {"counted", "committed"} /\ req[h].complete
  \/ req[h].pc = "complete"

LEMMA SeenInit == Init => CompletionSeen
<1> SUFFICES ASSUME Init PROVE ~ Complete(case)
  BY DEF CompletionSeen
<1> QED
  BY PendingIncomplete DEF Init

(* A step leaves some request that will announce the completion, or it has  *)
(* announced it.                                                            *)
LEMMA SeenStep ==
  TypeInv /\ CompletionSeen /\ [Next]_vars => CompletionSeen'
<1> SUFFICES ASSUME TypeInv, CompletionSeen, [Next]_vars,
                    Complete(case)', crashes' = 0, announced' = {}
             PROVE  \E h \in Requests : WillAnnounce(h)'
  BY DEF CompletionSeen, WillAnnounce
<1> USE DEF WillAnnounce
<1>r. ASSUME NEW h \in Requests, NEW q, req' = [req EXCEPT ![h] = q]
      PROVE  req'[h] = q /\ \A g \in Requests \ {h} : req'[g] = req[g]
  BY <1>r DEF TypeInv, ReqOK
<1>0. ASSUME UNCHANGED <<case, announced, crashes>>
      PROVE  \E h \in Requests : WillAnnounce(h)
  BY <1>0 DEF CompletionSeen, Complete
<1>1. ASSUME NEW h \in Requests, NEW c \in Cases, NEW s \in Marks, Load(h, c, s)
      PROVE  \E g \in Requests : WillAnnounce(g)'
  <2>1. PICK g \in Requests : WillAnnounce(g)
    BY <1>0, <1>1 DEF Load
  <2>2. g # h
    BY <1>1, <2>1 DEF Load
  <2> QED
    BY <1>1, <1>r, <2>1, <2>2 DEF Load
<1>2. ASSUME NEW h \in Requests, CommitCase(h)
      PROVE  \E g \in Requests : WillAnnounce(g)'
  <2>1. req' = [req EXCEPT ![h] = [pc |-> "marked"]]
    BY <1>2 DEF CommitCase
  <2>2. req'[h] = [pc |-> "marked"]
    BY <2>1, <1>r
  <2> QED
    BY <2>2
<1>3. ASSUME NEW h \in Requests, ReadRun(h)
      PROVE  \E g \in Requests : WillAnnounce(g)'
  BY <1>3, <1>r DEF ReadRun
<1>4. ASSUME NEW h \in Requests, ReadCases(h)
      PROVE  \E g \in Requests : WillAnnounce(g)'
  <2>1. Complete(case)
    BY <1>4 DEF ReadCases
  <2> QED
    BY <1>4, <1>r, <2>1 DEF ReadCases
<1>5. ASSUME NEW h \in Requests, CommitRun(h)
      PROVE  \E g \in Requests : WillAnnounce(g)'
  <2>1. PICK g \in Requests : WillAnnounce(g)
    BY <1>0, <1>5 DEF CommitRun
  <2> QED
    BY <1>5, <1>r, <2>1 DEF CommitRun
<1>6. ASSUME NEW h \in Requests, SendStep(h)
      PROVE  \E g \in Requests : WillAnnounce(g)'
  <2>1. PICK g \in Requests : WillAnnounce(g)
    BY <1>0, <1>6 DEF SendStep
  <2> QED
    BY <1>6, <1>r, <2>1 DEF SendStep, Announces
<1>7. ASSUME NEW h \in Requests, SendComplete(h) PROVE FALSE
  BY <1>7 DEF SendComplete
<1>8. ASSUME NEW h \in Requests, Crash(h) PROVE FALSE
  BY <1>8 DEF Crash, TypeInv, TypeOK
<1>9. ASSUME NEW s \in Edits, EditStatus(s)
      PROVE  \E g \in Requests : WillAnnounce(g)'
  BY <1>0, <1>9 DEF EditStatus
<1>10. ASSUME UNCHANGED vars PROVE \E g \in Requests : WillAnnounce(g)'
  BY <1>0, <1>10 DEF vars
<1> QED
  BY <1>1, <1>2, <1>3, <1>4, <1>5, <1>6, <1>7, <1>8, <1>9, <1>10
  DEF Next, Handle

(* However many processes mark the last cases at once, the completion is    *)
(* announced or a request is under way that sees it.                        *)
THEOREM SomebodySeesCompletion == Spec => []CompletionSeen
BY SeenInit, SeenStep, TypeInvariance, PTL DEF Spec

-----------------------------------------------------------------------------
(* The verdict.                                                             *)

(* What no later request can undo while no case is marked twice.            *)
AllPassed == Complete(case) /\ Count(case, {"fail"}) = 0

(* A request that has loaded a case found it pending, and no other request  *)
(* has loaded the same case.                                                *)
FirstMark ==
  \A h \in Requests :
     req[h].pc = "loaded" =>
       /\ case[req[h].case] = "pending"
       /\ \A g \in Requests :
            req[g].pc = "loaded" /\ req[g].case = req[h].case => g = h

(* Wherever a request carries the status "pass", all cases have passed.     *)
PassCarried ==
  \A h \in Requests :
     /\ req[h].pc \in {"read", "counted"} /\ req[h].loaded.status = "pass" =>
          AllPassed
     /\ req[h].pc = "counted" /\ req[h].new.status = "pass" => AllPassed
     /\ req[h].pc = "complete" /\ req[h].status = "pass" => AllPassed

PassInv ==
  /\ FirstMark /\ PassCarried
  /\ "pass" \in {run.status} \cup announced => AllPassed

(* A first marking of every case is what the theorem below assumes.         *)
MarkedOnce ==
  /\ ~ Remark /\ Total = 0 /\ "pending" \notin Marks
  /\ FirstStatus # "pass" /\ Edits = {}

LEMMA PassInvInit == MarkedOnce /\ Init => PassInv
BY DEF MarkedOnce, Init, Idle, PassInv, FirstMark, PassCarried

(* Once all cases have passed no request is left that could mark one.       *)
LEMMA NobodyLoads ==
  ASSUME MarkedOnce, TypeInv, FirstMark, AllPassed, NEW h \in Requests
  PROVE  req[h].pc # "loaded"
BY CompleteMeansAll DEF MarkedOnce, TypeInv, ReqOK, FirstMark, AllPassed

LEMMA PassInvStep ==
  MarkedOnce /\ TypeInv /\ PassInv /\ [Next]_vars => PassInv'
<1> SUFFICES ASSUME MarkedOnce, TypeInv, PassInv, [Next]_vars PROVE PassInv'
  OBVIOUS
<1>r. ASSUME NEW h \in Requests, NEW q, req' = [req EXCEPT ![h] = q]
      PROVE  req'[h] = q /\ \A g \in Requests \ {h} : req'[g] = req[g]
  BY <1>r DEF TypeInv, ReqOK
<1>s. ASSUME UNCHANGED case PROVE AllPassed' <=> AllPassed
  BY <1>s DEF AllPassed, Complete, Count
<1> USE DEF PassInv
<1>1. ASSUME NEW h \in Requests, NEW c \in Cases, NEW s \in Marks, Load(h, c, s)
      PROVE  PassInv'
  <2> DEFINE q == [pc |-> "loaded", case |-> c, old |-> case[c], mark |-> s]
  <2>1. /\ req'[h] = q
        /\ \A g \in Requests \ {h} : req'[g] = req[g]
    BY <1>1, <1>r DEF Load
  <2>2. /\ case[c] = "pending"
        /\ \A g \in Requests : req[g].pc = "loaded" => req[g].case # c
    BY <1>1 DEF Load, MarkedOnce
  <2>3. UNCHANGED <<case, run, announced>>
    BY <1>1 DEF Load
  <2>4. FirstMark'
    BY <2>1, <2>2, <2>3 DEF FirstMark
  <2>5. PassCarried'
    BY <1>s, <2>1, <2>3 DEF PassCarried
  <2> QED
    BY <1>s, <2>3, <2>4, <2>5
<1>2. ASSUME NEW h \in Requests, CommitCase(h) PROVE PassInv'
  <2>1. /\ req'[h] = [pc |-> "marked"]
        /\ \A g \in Requests \ {h} : req'[g] = req[g]
    BY <1>2, <1>r DEF CommitCase
  <2>2. req[h].pc = "loaded" /\ UNCHANGED <<run, announced>>
    BY <1>2 DEF CommitCase
  <2>3. ~ AllPassed
    BY <2>2, NobodyLoads
  <2>4. FirstMark'
    <3> SUFFICES ASSUME NEW g \in Requests, req'[g].pc = "loaded"
                 PROVE  /\ case'[req'[g].case] = "pending"
                        /\ \A f \in Requests :
                             req'[f].pc = "loaded" /\ req'[f].case = req'[g].case
                               => f = g
      BY DEF FirstMark
    <3>1. g # h /\ req'[g] = req[g] /\ req[g].case # req[h].case
      BY <2>1, <2>2 DEF FirstMark
    <3>2. case'[req[g].case] = case[req[g].case]
      BY <1>2, <3>1 DEF CommitCase, TypeInv, TypeOK, ReqOK
    <3> QED
      BY <2>1, <3>1, <3>2 DEF FirstMark
  <2>5. PassCarried'
    BY <2>1, <2>3 DEF PassCarried
  <2> QED
    BY <2>2, <2>3, <2>4, <2>5
<1>3. ASSUME NEW h \in Requests, ReadRun(h) PROVE PassInv'
  <2>1. /\ req'[h] = [pc |-> "read", loaded |-> run]
        /\ \A g \in Requests \ {h} : req'[g] = req[g]
        /\ UNCHANGED <<case, run, announced>>
    BY <1>3, <1>r DEF ReadRun
  <2>2. FirstMark'
    BY <2>1 DEF FirstMark
  <2>3. PassCarried'
    BY <1>s, <2>1 DEF PassCarried
  <2> QED
    BY <1>s, <2>1, <2>2, <2>3
<1>4. ASSUME NEW h \in Requests, ReadCases(h) PROVE PassInv'
  <2> DEFINE new == Recomputed(req[h].loaded, case)
  <2>1. /\ req'[h] = [pc |-> "counted", loaded |-> req[h].loaded,
                      new |-> new, complete |-> Complete(case)]
        /\ \A g \in Requests \ {h} : req'[g] = req[g]
        /\ UNCHANGED <<case, run, announced>>
    BY <1>4, <1>r DEF ReadCases
  <2>2. req[h].loaded.status = "pass" => AllPassed
    BY <1>4 DEF ReadCases, PassCarried
  <2>3. new.status = "pass" => AllPassed
    <3>1. CASE Complete(case)
      <4>1. new.status = Verdict(case)
        BY <3>1 DEF Recomputed
      <4>2. Count(case, {"fail"}) \in Nat
        BY CountType
      <4> QED
        BY <3>1, <4>1, <4>2 DEF Verdict, AllPassed
    <3>2. CASE ~ Complete(case)
      BY <2>2, <3>2 DEF Recomputed
    <3> QED BY <3>1, <3>2
  <2>4. FirstMark'
    BY <2>1 DEF FirstMark
  <2>5. PassCarried'
    <3> HIDE DEF new
    <3> QED BY <1>s, <2>1, <2>2, <2>3 DEF PassCarried
  <2> QED
    BY <1>s, <2>1, <2>4, <2>5
<1>5. ASSUME NEW h \in Requests, CommitRun(h) PROVE PassInv'
  <2>1. /\ req'[h] = [pc |-> "committed", complete |-> req[h].complete]
        /\ \A g \in Requests \ {h} : req'[g] = req[g]
        /\ UNCHANGED <<case, announced>>
    BY <1>5, <1>r DEF CommitRun
  <2>2. /\ req[h].pc = "counted"
        /\ run' = Written(req[h].loaded, req[h].new)
    BY <1>5 DEF CommitRun
  <2>3. run'.status \in {run.status, req[h].new.status}
    BY <2>2, WrittenType DEF TypeInv, TypeOK
  <2>4. run'.status = "pass" => AllPassed
    BY <2>2, <2>3 DEF PassCarried
  <2>5. FirstMark' /\ PassCarried'
    BY <1>s, <2>1 DEF FirstMark, PassCarried
  <2> QED
    BY <1>s, <2>1, <2>4, <2>5
<1>6. ASSUME NEW h \in Requests, SendStep(h) PROVE PassInv'
  <2>1. /\ \/ req'[h] = [pc |-> "complete", status |-> run.status]
           \/ req'[h] = Idle
        /\ \A g \in Requests \ {h} : req'[g] = req[g]
        /\ UNCHANGED <<case, run, announced>>
    <3> DEFINE q == IF Announces(req[h])
                      THEN [pc |-> "complete", status |-> run.status]
                      ELSE Idle
    <3>1. req' = [req EXCEPT ![h] = q] /\ UNCHANGED <<case, run, announced>>
      BY <1>6 DEF SendStep
    <3> HIDE DEF q
    <3>2. req'[h] = q /\ \A g \in Requests \ {h} : req'[g] = req[g]
      BY <3>1, <1>r
    <3> QED
      BY <3>1, <3>2 DEF q
  <2>2. FirstMark'
    BY <2>1 DEF FirstMark, Idle
  <2>3. PassCarried'
    BY <1>s, <2>1 DEF PassCarried, Idle
  <2> QED
    BY <1>s, <2>1, <2>2, <2>3
<1>7. ASSUME NEW h \in Requests, SendComplete(h) PROVE PassInv'
  <2>1. /\ req'[h] = Idle
        /\ \A g \in Requests \ {h} : req'[g] = req[g]
        /\ UNCHANGED <<case, run>>
        /\ req[h].pc = "complete"
        /\ announced' = announced \cup {req[h].status}
    BY <1>7, <1>r DEF SendComplete
  <2>2. FirstMark' /\ PassCarried'
    BY <1>s, <2>1 DEF FirstMark, PassCarried, Idle
  <2> QED
    BY <1>s, <2>1, <2>2 DEF PassCarried
<1>8. ASSUME NEW h \in Requests, Crash(h) PROVE PassInv'
  <2>1. /\ req'[h] = Idle
        /\ \A g \in Requests \ {h} : req'[g] = req[g]
        /\ UNCHANGED <<case, run, announced>>
    BY <1>8, <1>r DEF Crash
  <2>2. FirstMark' /\ PassCarried'
    BY <1>s, <2>1 DEF FirstMark, PassCarried, Idle
  <2> QED
    BY <1>s, <2>1, <2>2
<1>9. ASSUME NEW s \in Edits, EditStatus(s) PROVE FALSE
  BY <1>9 DEF MarkedOnce
<1>10. ASSUME UNCHANGED vars PROVE PassInv'
  <2>1. UNCHANGED <<case, run, req, announced>>
    BY <1>10 DEF vars
  <2> QED
    BY <1>s, <2>1 DEF FirstMark, PassCarried
<1> QED
  BY <1>1, <1>2, <1>3, <1>4, <1>5, <1>6, <1>7, <1>8, <1>9, <1>10
  DEF Next, Handle

(* A run that reads or was announced as passed has no failed and no pending *)
(* case, for any number of processes that overwrite one another's counters, *)
(* if every case is marked once.                                            *)
THEOREM PassedRunsPassed ==
  ASSUME MarkedOnce PROVE Spec => []PassMeansNoFailure
<1>1. Init => PassInv
  BY PassInvInit
<1>2. TypeInv /\ PassInv /\ [Next]_vars => PassInv'
  BY PassInvStep
<1>3. PassInv => PassMeansNoFailure
  BY DEF PassInv, PassMeansNoFailure, AllPassed
<1> QED
  BY <1>1, <1>2, <1>3, TypeInvariance, PTL DEF Spec

-----------------------------------------------------------------------------
(* The counters, while one process serves the run.                          *)

(* From its first statement to its broadcasts a request has the event loop  *)
(* of its process to itself.                                                *)
Uninterrupted(h) ==
  req[h].pc \in {"loaded", "marked", "read", "counted", "committed"}

LoopHeld == \A h \in Requests : Uninterrupted(h) => loop[Proc[h]] = h

(* A step replaces the record of one request.                               *)
LEMMA ReqAfter ==
  ASSUME TypeInv, NEW h \in Requests, NEW q, req' = [req EXCEPT ![h] = q]
  PROVE  req'[h] = q /\ \A g \in Requests \ {h} : req'[g] = req[g]
BY DEF TypeInv, ReqOK

(* ... and this is the stage each step leaves its request at.               *)
LEMMA StageAfter ==
  ASSUME TypeInv, NEW h \in Requests
  PROVE  /\ \A c \in Cases, s \in Marks : Load(h, c, s) =>
              /\ req'[h].pc = "loaded"
              /\ \A g \in Requests \ {h} : req'[g] = req[g]
         /\ CommitCase(h) =>
              /\ req'[h].pc = "marked"
              /\ \A g \in Requests \ {h} : req'[g] = req[g]
         /\ ReadRun(h) =>
              /\ req'[h] = [pc |-> "read", loaded |-> run]
              /\ \A g \in Requests \ {h} : req'[g] = req[g]
         /\ ReadCases(h) =>
              /\ req'[h] = [pc |-> "counted", loaded |-> req[h].loaded,
                            new |-> Recomputed(req[h].loaded, case),
                            complete |-> Complete(case)]
              /\ \A g \in Requests \ {h} : req'[g] = req[g]
         /\ CommitRun(h) =>
              /\ req'[h].pc = "committed"
              /\ \A g \in Requests \ {h} : req'[g] = req[g]
         /\ SendStep(h) =>
              /\ req'[h].pc \in {"complete", "idle"}
              /\ \A g \in Requests \ {h} : req'[g] = req[g]
         /\ SendComplete(h) \/ Crash(h) =>
              /\ req'[h].pc = "idle"
              /\ \A g \in Requests \ {h} : req'[g] = req[g]
<1>1. ASSUME NEW c \in Cases, NEW s \in Marks, Load(h, c, s)
      PROVE  /\ req'[h].pc = "loaded"
             /\ \A g \in Requests \ {h} : req'[g] = req[g]
  <2> DEFINE q == [pc |-> "loaded", case |-> c, old |-> case[c], mark |-> s]
  <2>1. req' = [req EXCEPT ![h] = q] /\ q.pc = "loaded"
    BY <1>1 DEF Load
  <2> HIDE DEF q
  <2> QED
    BY <2>1, ReqAfter
<1>2. ASSUME CommitCase(h)
      PROVE  /\ req'[h].pc = "marked"
             /\ \A g \in Requests \ {h} : req'[g] = req[g]
  <2> DEFINE q == [pc |-> "marked"]
  <2>1. req' = [req EXCEPT ![h] = q] /\ q.pc = "marked"
    BY <1>2 DEF CommitCase
  <2> HIDE DEF q
  <2> QED
    BY <2>1, ReqAfter
<1>3. ASSUME ReadRun(h)
      PROVE  /\ req'[h] = [pc |-> "read", loaded |-> run]
             /\ \A g \in Requests \ {h} : req'[g] = req[g]
  <2> DEFINE q == [pc |-> "read", loaded |-> run]
  <2>1. req' = [req EXCEPT ![h] = q]
    BY <1>3 DEF ReadRun
  <2> HIDE DEF q
  <2>2. req'[h] = q /\ \A g \in Requests \ {h} : req'[g] = req[g]
    BY <2>1, ReqAfter
  <2> QED
    BY <2>2 DEF q
<1>4. ASSUME ReadCases(h)
      PROVE  /\ req'[h] = [pc |-> "counted", loaded |-> req[h].loaded,
                           new |-> Recomputed(req[h].loaded, case),
                           complete |-> Complete(case)]
             /\ \A g \in Requests \ {h} : req'[g] = req[g]
  <2> DEFINE q == [pc |-> "counted", loaded |-> req[h].loaded,
                   new |-> Recomputed(req[h].loaded, case),
                   complete |-> Complete(case)]
  <2>1. req' = [req EXCEPT ![h] = q]
    BY <1>4 DEF ReadCases
  <2> HIDE DEF q
  <2>2. req'[h] = q /\ \A g \in Requests \ {h} : req'[g] = req[g]
    BY <2>1, ReqAfter
  <2> QED
    BY <2>2 DEF q
<1>5. ASSUME CommitRun(h)
      PROVE  /\ req'[h].pc = "committed"
             /\ \A g \in Requests \ {h} : req'[g] = req[g]
  <2> DEFINE q == [pc |-> "committed", complete |-> req[h].complete]
  <2>1. req' = [req EXCEPT ![h] = q] /\ q.pc = "committed"
    BY <1>5 DEF CommitRun
  <2> HIDE DEF q
  <2> QED
    BY <2>1, ReqAfter
<1>6. ASSUME SendStep(h)
      PROVE  /\ req'[h].pc \in {"complete", "idle"}
             /\ \A g \in Requests \ {h} : req'[g] = req[g]
  <2> DEFINE q == IF Announces(req[h])
                    THEN [pc |-> "complete", status |-> run.status]
                    ELSE Idle
  <2>1. req' = [req EXCEPT ![h] = q]
    BY <1>6 DEF SendStep
  <2>2. q.pc \in {"complete", "idle"}
    BY DEF Idle
  <2> HIDE DEF q
  <2> QED
    BY <2>1, <2>2, ReqAfter
<1>7. ASSUME SendComplete(h) \/ Crash(h)
      PROVE  /\ req'[h].pc = "idle"
             /\ \A g \in Requests \ {h} : req'[g] = req[g]
  <2>1. req' = [req EXCEPT ![h] = Idle]
    BY <1>7 DEF SendComplete, Crash
  <2>2. req'[h] = Idle /\ \A g \in Requests \ {h} : req'[g] = req[g]
    BY <2>1, ReqAfter
  <2> QED
    BY <2>2 DEF Idle
<1> QED
  BY <1>1, <1>2, <1>3, <1>4, <1>5, <1>6, <1>7

LEMMA LoopHeldStep == TypeInv /\ LoopHeld /\ [Next]_vars => LoopHeld'
<1> SUFFICES ASSUME TypeInv, LoopHeld, [Next]_vars PROVE LoopHeld'
  OBVIOUS
<1> USE DEF LoopHeld, Uninterrupted
<1>0. loop \in [Procs -> Requests \cup {None}] /\ \A h \in Requests : Proc[h] \in Procs
  BY DEF TypeInv, TypeOK, Procs
<1>1. ASSUME NEW h \in Requests, NEW c \in Cases, NEW s \in Marks, Load(h, c, s)
      PROVE  LoopHeld'
  BY <1>0, <1>1, StageAfter, RequestsAssumption DEF Load, Hold
<1>2. ASSUME NEW h \in Requests,
             CommitCase(h) \/ ReadRun(h) \/ ReadCases(h) \/ CommitRun(h)
      PROVE  LoopHeld'
  <2>1. UNCHANGED loop /\ Uninterrupted(h)
    BY <1>2 DEF CommitCase, ReadRun, ReadCases, CommitRun
  <2>2. \A g \in Requests \ {h} : req'[g] = req[g]
    BY <1>2, StageAfter DEF CommitCase, ReadRun, ReadCases, CommitRun
  <2> QED
    BY <2>1, <2>2
<1>3. ASSUME NEW h \in Requests, SendStep(h) PROVE LoopHeld'
  <2>1. /\ req'[h].pc \in {"complete", "idle"}
        /\ \A g \in Requests \ {h} : req'[g] = req[g]
    BY <1>3, StageAfter
  <2>2. loop[Proc[h]] = h
    BY <1>3 DEF SendStep
  <2> QED
    BY <1>0, <1>3, <2>1, <2>2 DEF SendStep, Yield
<1>4. ASSUME NEW h \in Requests, SendComplete(h) PROVE LoopHeld'
  BY <1>4, StageAfter DEF SendComplete
<1>5. ASSUME NEW h \in Requests, Crash(h) PROVE LoopHeld'
  <2>1. req'[h].pc = "idle" /\ \A g \in Requests \ {h} : req'[g] = req[g]
    BY <1>5, StageAfter
  <2>2. \A g \in Requests \ {h} :
           loop[Proc[g]] = g => loop'[Proc[g]] = g
    BY <1>0, <1>5 DEF Crash
  <2> QED
    BY <2>1, <2>2
<1>6. ASSUME NEW s \in Edits, EditStatus(s) PROVE LoopHeld'
  BY <1>6 DEF EditStatus
<1>7. CASE UNCHANGED vars
  BY <1>7 DEF vars
<1> QED
  BY <1>1, <1>2, <1>3, <1>4, <1>5, <1>6, <1>7 DEF Next, Handle

(* What CountersAgree asks of a row of the run: its counts and its progress *)
(* are those of the cases ...                                               *)
Counted(r) ==
  /\ r.passed = Count(case, {"pass"})
  /\ r.failed = Count(case, {"fail"})
  /\ r.blocked = Count(case, {"blocked", "skip"})
  /\ r.progress = Progress(case)

(* ... and so is its verdict.                                               *)
Judged(r) == Complete(case) => r.status = Verdict(case)

(* Two rows that differ at most in a status somebody has edited.            *)
SameButStatus(r, s) ==
  /\ r.passed = s.passed /\ r.failed = s.failed /\ r.blocked = s.blocked
  /\ r.progress = s.progress
  /\ "edit" \notin since => r.status = s.status

AgreeInv ==
  /\ \A h \in Requests :
       /\ req[h].pc \in {"read", "counted"} => SameButStatus(req[h].loaded, run)
       /\ req[h].pc = "counted" => Counted(req[h].new) /\ Judged(req[h].new)
  /\ Quiet /\ "cut" \notin since =>
       /\ Counted(run)
       /\ "edit" \notin since => Judged(run)

(* A run that was just created agrees with its pending cases.               *)
LEMMA NewAgrees == Init => AgreeInv
<1> SUFFICES ASSUME Init PROVE AgreeInv
  OBVIOUS
<1>1. \A c \in Cases : case[c] = "pending"
  BY DEF Init
<1>2. ~ Complete(case)
  BY <1>1, PendingIncomplete
<1>3. ASSUME NEW statuses, "pending" \notin statuses
      PROVE  Count(case, statuses) = 0
  <2>1. {c \in Cases : case[c] \in statuses} = {}
    BY <1>1, <1>3
  <2> QED
    BY <2>1, FS_EmptySet DEF Count
<1>4. Progress(case) = 0
  <2>1. Count(case, CaseStatuses \ {"pending"}) = 0
    BY <1>3
  <2>2. TotalOf # 0 => 0 \div TotalOf = 0
    BY TotalType
  <2> QED
    BY <1>2, <2>1, <2>2 DEF Progress
<1>5. Counted(run)
  BY <1>3, <1>4 DEF Init, Counted
<1>6. Judged(run)
  BY <1>2 DEF Judged
<1> QED
  BY <1>5, <1>6 DEF Init, Idle, AgreeInv

(* What is computed from the cases agrees with them, and so does the row    *)
(* after its commit: no column is left to an older value.                   *)
LEMMA RecomputedAgrees ==
  ASSUME NEW r
  PROVE  Counted(Recomputed(r, case)) /\ Judged(Recomputed(r, case))
BY DEF Counted, Judged, Recomputed

LEMMA WrittenAgrees ==
  ASSUME run \in RunRow, NEW loaded, NEW new,
         SameButStatus(loaded, run), Counted(new), Judged(new)
  PROVE  /\ Counted(Written(loaded, new))
         /\ "edit" \notin since => Judged(Written(loaded, new))
<1>1. DOMAIN run = {"status", "progress", "passed", "failed", "blocked"}
  BY DEF RunRow
<1> DEFINE w == Written(loaded, new)
<1>2. /\ w.passed = IF new.passed = loaded.passed THEN run.passed ELSE new.passed
      /\ w.failed = IF new.failed = loaded.failed THEN run.failed ELSE new.failed
      /\ w.blocked =
           IF new.blocked = loaded.blocked THEN run.blocked ELSE new.blocked
      /\ w.progress =
           IF new.progress = loaded.progress THEN run.progress ELSE new.progress
      /\ w.status = IF new.status = loaded.status THEN run.status ELSE new.status
  BY <1>1 DEF Written
<1>3. /\ w.passed = new.passed /\ w.failed = new.failed
      /\ w.blocked = new.blocked /\ w.progress = new.progress
      /\ "edit" \notin since => w.status = new.status
  BY <1>2 DEF SameButStatus
<1> HIDE DEF w
<1>4. Counted(w)
  BY <1>3 DEF Counted
<1>5. "edit" \notin since => Judged(w)
  BY <1>3 DEF Judged
<1> QED
  BY <1>4, <1>5 DEF w

(* A step that changes neither the cases nor the run, and at most the stage *)
(* of a request that is not between its commits, keeps the agreement.       *)
LEMMA AgreeElsewhere ==
  ASSUME AgreeInv, UNCHANGED <<case, run, since>>, NEW h \in Requests,
         ~ BetweenCommits(h), ~ BetweenCommits(h)',
         \A g \in Requests \ {h} : req'[g] = req[g]
  PROVE  AgreeInv'
<1>1. Quiet' => Quiet
  BY DEF Quiet, BetweenCommits
<1>2. Counted(run)' <=> Counted(run)
  BY DEF Counted
<1>3. Judged(run)' <=> Judged(run)
  BY DEF Judged
<1>4. ASSUME NEW g \in Requests
      PROVE  /\ req'[g].pc \in {"read", "counted"} =>
                  SameButStatus(req[g].loaded, run)'
             /\ req'[g].pc = "counted" =>
                  Counted(req[g].new)' /\ Judged(req[g].new)'
  <2>1. CASE g = h
    BY <2>1 DEF BetweenCommits
  <2>2. CASE g # h
    <3>1. req'[g] = req[g]
      BY <2>2
    <3>2. req[g].pc \in {"read", "counted"} => SameButStatus(req[g].loaded, run)'
      BY <3>1 DEF AgreeInv, SameButStatus
    <3>3. req[g].pc = "counted" => Counted(req[g].new)' /\ Judged(req[g].new)'
      BY <3>1 DEF AgreeInv, Counted, Judged
    <3> QED
      BY <2>2, <3>1, <3>2, <3>3
  <2> QED
    BY <2>1, <2>2
<1> QED
  BY <1>1, <1>2, <1>3, <1>4 DEF AgreeInv

LEMMA AgreeStep ==
  ASSUME \A g, h \in Requests : Proc[g] = Proc[h]
  PROVE  TypeInv /\ LoopHeld /\ AgreeInv /\ [Next]_vars => AgreeInv'
<1> SUFFICES ASSUME TypeInv, LoopHeld, AgreeInv, [Next]_vars PROVE AgreeInv'
  OBVIOUS
<1>h. \A g, h \in Requests : Uninterrupted(g) /\ Uninterrupted(h) => g = h
  BY DEF LoopHeld
<1>1. ASSUME NEW h \in Requests, NEW c \in Cases, NEW s \in Marks, Load(h, c, s)
      PROVE  AgreeInv'
  <2>1. /\ req'[h].pc = "loaded"
        /\ \A g \in Requests \ {h} : req'[g] = req[g]
    BY <1>1, StageAfter
  <2>2. UNCHANGED <<case, run, since>> /\ req[h].pc = "idle"
    BY <1>1 DEF Load
  <2> QED
    BY <2>1, <2>2, AgreeElsewhere DEF BetweenCommits
<1>2. ASSUME NEW h \in Requests, CommitCase(h) PROVE AgreeInv'
  <2>1. /\ req'[h].pc = "marked"
        /\ \A g \in Requests \ {h} : req'[g] = req[g]
    BY <1>2, StageAfter
  <2>2. \A g \in Requests \ {h} : req[g].pc \notin {"read", "counted"}
    BY <1>2, <1>h DEF CommitCase, Uninterrupted
  <2> QED
    BY <2>1, <2>2 DEF AgreeInv, Quiet, BetweenCommits
<1>3. ASSUME NEW h \in Requests, ReadRun(h) PROVE AgreeInv'
  <2>1. /\ req'[h] = [pc |-> "read", loaded |-> run]
        /\ \A g \in Requests \ {h} : req'[g] = req[g]
        /\ UNCHANGED run
    BY <1>3, StageAfter DEF ReadRun
  <2>2. \A g \in Requests \ {h} : req[g].pc \notin {"read", "counted"}
    BY <1>3, <1>h DEF ReadRun, Uninterrupted
  <2> QED
    BY <2>1, <2>2 DEF AgreeInv, Quiet, BetweenCommits, SameButStatus
<1>4. ASSUME NEW h \in Requests, ReadCases(h) PROVE AgreeInv'
  <2> DEFINE new == Recomputed(req[h].loaded, case)
  <2>1. /\ req'[h] = [pc |-> "counted", loaded |-> req[h].loaded,
                      new |-> new, complete |-> Complete(case)]
        /\ \A g \in Requests \ {h} : req'[g] = req[g]
    BY <1>4, StageAfter
  <2>2. UNCHANGED <<case, run, since>>
    BY <1>4 DEF ReadCases
  <2>3. Counted(new) /\ Judged(new)
    BY RecomputedAgrees
  <2>4. SameButStatus(req[h].loaded, run)
    BY <1>4 DEF ReadCases, AgreeInv
  <2>5. \A g \in Requests \ {h} : req[g].pc \notin {"read", "counted"}
    BY <1>4, <1>h DEF ReadCases, Uninterrupted
  <2> HIDE DEF new
  <2>6. req'[h].loaded = req[h].loaded /\ req'[h].new = new /\ req'[h].pc = "counted"
    BY <2>1
  <2>7. SameButStatus(req[h].loaded, run)'
    BY <2>2, <2>4, <2>6 DEF SameButStatus
  <2>8. Counted(req[h].new)' /\ Judged(req[h].new)'
    BY <2>2, <2>3, <2>6 DEF Counted, Judged
  <2> QED
    BY <2>1, <2>5, <2>6, <2>7, <2>8 DEF AgreeInv, Quiet, BetweenCommits
<1>5. ASSUME NEW h \in Requests, CommitRun(h) PROVE AgreeInv'
  <2>1. /\ req'[h].pc = "committed"
        /\ \A g \in Requests \ {h} : req'[g] = req[g]
    BY <1>5, StageAfter
  <2>2. \A g \in Requests \ {h} : req[g].pc \notin {"read", "counted"}
    BY <1>5, <1>h DEF CommitRun, Uninterrupted
  <2>3. /\ UNCHANGED <<case, since>>
        /\ run' = Written(req[h].loaded, req[h].new)
        /\ req[h].pc = "counted"
    BY <1>5 DEF CommitRun
  <2>4. Counted(run') /\ ("edit" \notin since => Judged(run'))
    BY <2>3, WrittenAgrees DEF AgreeInv, TypeInv, TypeOK
  <2>5. Counted(run)' /\ ("edit" \notin since' => Judged(run)')
    BY <2>3, <2>4 DEF Counted, Judged
  <2> QED
    BY <2>1, <2>2, <2>5 DEF AgreeInv
<1>6. ASSUME NEW h \in Requests, SendStep(h) PROVE AgreeInv'
  <2>1. /\ req'[h].pc \in {"complete", "idle"}
        /\ \A g \in Requests \ {h} : req'[g] = req[g]
    BY <1>6, StageAfter
  <2>2. UNCHANGED <<case, run, since>> /\ req[h].pc = "committed"
    BY <1>6 DEF SendStep
  <2> QED
    BY <2>1, <2>2, AgreeElsewhere DEF BetweenCommits
<1>7. ASSUME NEW h \in Requests, SendComplete(h) PROVE AgreeInv'
  <2>1. /\ req'[h].pc = "idle"
        /\ \A g \in Requests \ {h} : req'[g] = req[g]
    BY <1>7, StageAfter
  <2>2. UNCHANGED <<case, run, since>> /\ req[h].pc = "complete"
    BY <1>7 DEF SendComplete
  <2> QED
    BY <2>1, <2>2, AgreeElsewhere DEF BetweenCommits
<1>8. ASSUME NEW h \in Requests, Crash(h) PROVE AgreeInv'
  <2>1. /\ req'[h].pc = "idle"
        /\ \A g \in Requests \ {h} : req'[g] = req[g]
    BY <1>8, StageAfter
  <2>2. UNCHANGED <<case, run>>
    BY <1>8 DEF Crash
  <2>3. CASE ~ BetweenCommits(h)
    <3>1. UNCHANGED since
      BY <1>8, <2>3 DEF Crash
    <3> QED
      BY <2>1, <2>2, <2>3, <3>1, AgreeElsewhere DEF BetweenCommits
  <2>4. CASE BetweenCommits(h)
    <3>1. since' = since \cup {"cut"}
      BY <1>8, <2>4 DEF Crash
    <3>2. \A g \in Requests \ {h} : req[g].pc \notin {"read", "counted"}
      BY <2>4, <1>h DEF BetweenCommits, Uninterrupted
    <3> QED
      BY <2>1, <3>1, <3>2 DEF AgreeInv
  <2> QED
    BY <2>3, <2>4
<1>9. ASSUME NEW s \in Edits, EditStatus(s) PROVE AgreeInv'
  <2>1. /\ UNCHANGED <<case, req>> /\ since' = since \cup {"edit"}
        /\ run' = [run EXCEPT !.status = s]
    BY <1>9 DEF EditStatus
  <2>2. /\ run'.passed = run.passed /\ run'.failed = run.failed
        /\ run'.blocked = run.blocked /\ run'.progress = run.progress
    BY <2>1 DEF TypeInv, TypeOK, RunRow
  <2>3. \A h \in Requests :
           /\ req[h].pc \in {"read", "counted"} =>
                SameButStatus(req[h].loaded, run)'
           /\ req[h].pc = "counted" =>
                Counted(req[h].new)' /\ Judged(req[h].new)'
    BY <2>1, <2>2 DEF AgreeInv, SameButStatus, Counted, Judged
  <2>4. Quiet' /\ "cut" \notin since' => Counted(run)'
    BY <2>1, <2>2 DEF AgreeInv, Quiet, BetweenCommits, Counted
  <2> QED
    BY <2>1, <2>3, <2>4 DEF AgreeInv
<1>10. CASE UNCHANGED vars
  BY <1>10 DEF vars, AgreeInv, Quiet, BetweenCommits, Counted, Judged,
              SameButStatus
<1> QED
  BY <1>1, <1>2, <1>3, <1>4, <1>5, <1>6, <1>7, <1>8, <1>9, <1>10
  DEF Next, Handle

(* While one process serves all requests, the counters, the progress and    *)
(* the verdict of a run are those of its cases whenever no marking is       *)
(* between its commits, whoever marks which case how often.  A status that  *)
(* was edited and what a request left when it was cut short last until a    *)
(* later request has read the run, and no longer.                           *)
THEOREM CountersAreRight ==
  ASSUME \A g, h \in Requests : Proc[g] = Proc[h]
  PROVE  Spec => []CountersAgree
<1>1. Init => LoopHeld /\ AgreeInv
  BY NewAgrees DEF Init, Idle, LoopHeld, Uninterrupted
<1>2. TypeInv /\ LoopHeld /\ AgreeInv /\ [Next]_vars => (LoopHeld /\ AgreeInv)'
  BY LoopHeldStep, AgreeStep
<1>3. AgreeInv => CountersAgree
  BY DEF AgreeInv, Counted, Judged, CountersAgree
<1> QED
  BY <1>1, <1>2, <1>3, TypeInvariance, PTL DEF Spec
=============================================================================
