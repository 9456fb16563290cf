----------------------------- MODULE RunPageProofs ----------------------------
(* Proofs about the page of a run, as a part of the web client (Clients):     *)
(* the inductive invariant of RunView, the step of every action, and that no  *)
(* result is shown under a run that the server has not had for it.            *)
EXTENDS Clients, FiniteSetTheorems, WellFoundedInduction, TLAPS

-----------------------------------------------------------------------------
(* The page of a run (RunView).                                             *)

\* The results of a run: of the cases it has.
RunResults == UNION {[cs -> V!Result] : cs \in SUBSET Cases}
RunTallies == Nat \X Nat \X Nat
RunRows    == [status : V!Status \cup {"absent"}, res : RunResults]
RunRead    == [status : V!Status, res : RunResults]
RunLists   == [of : Runs \cup {"none"}, res : RunResults]
RunLoads   == [n : Nat, run : Runs, got : {V!NoMark} \cup RunRead]
RunHeads   == [id : Runs, status : V!Status, tally : RunTallies]
RunSteps   == [ev : {"step"}, case : Cases, verdict : V!Result, tally : RunTallies]
RunStates  == [ev : {"state", "complete"}, status : V!Status, tally : RunTallies]
RunSockets == [st : {"off", "asking", "open"}, run : Runs \cup {"none"}, q : Seq(RunSteps \cup RunStates)]
RunMarks   == [stage : {"sent", "ok", "refused"}, run : Runs, of : Runs, case : Cases, verdict : Verdicts,
               snap : RunLists, at : 1..Cardinality(Cases)]
RunEdits   == [run : Runs, to : {"paused", "aborted"}, stage : {"sent", "ok"}]
RunUsed    == {"marks", "others", "edits", "moves", "faults"}
RunType ==
  /\ server \in [Runs -> RunRows] /\ url \in Runs /\ loading \in BOOLEAN
  /\ live \in {V!NoRun} \cup RunHeads /\ list \in RunLists /\ idx \in 1..Cardinality(Cases)
  /\ loads \subseteq RunLoads /\ ws \in RunSockets /\ mark \in {V!NoMark} \cup RunMarks
  /\ edits \subseteq RunEdits /\ retest \in Runs \cup {"none", "done"}
  /\ ever \in [Runs -> [Cases -> SUBSET V!Result]] /\ used \in [RunUsed -> Nat]

\* What the page works with is there: the runs it loads and shows are on the
\* server, and it has a run in its header while anything else is under way.
RunThere ==
  /\ \A r \in Listed : server[r].status # "absent"
  /\ live # V!NoRun => server[live.id].status # "absent"
  /\ \A l \in loads : server[l.run].status # "absent"
  /\ edits # {} \/ mark # V!NoMark \/ list.of # "none" => live # V!NoRun
  /\ list.of = "none" => DOMAIN list.res = {}

\* The socket is of the run in the header, and tells of results that were stored.
RunTold == {m \in RunSteps : m.verdict \in ever[ws.run][m.case]} \cup RunStates
RunSocket ==
  /\ ws.st # "off" => live # V!NoRun /\ ws.run = live.id
  /\ ws.st # "open" => ws.q = <<>>
  /\ ws.st = "open" => ws.q \in Seq(RunTold)

\* Results were stored: those of the server, of what it answered, of the list
\* of the run in the header, and of the list that is written back after a mark.
RunHad(r, res) == \A c \in DOMAIN res : res[c] \in ever[r][c]
RunStored ==
  /\ \A r \in Runs : RunHad(r, server[r].res) /\ \A c \in Cases : "pending" \in ever[r][c]
  /\ \A l \in loads : l.got # V!NoMark => RunHad(l.run, l.got.res)
  /\ live # V!NoRun /\ list.of = live.id => RunHad(list.of, list.res)
RunMarked ==
  mark # V!NoMark =>
    /\ mark.snap.of = mark.of /\ mark.case \in DOMAIN mark.snap.res
    /\ mark.run = mark.of => RunHad(mark.of, mark.snap.res)
    /\ mark.stage = "ok" => mark.run = mark.of /\ mark.verdict \in ever[mark.of][mark.case]

RunInv == RunType /\ RunThere /\ RunSocket /\ RunStored /\ RunMarked

LEMMA RunCount == ASSUME NEW X PROVE V!Cardinality(X) = Cardinality(X)
  BY Zenon DEF V!Cardinality, Cardinality

LEMMA RunCases == Cardinality(Cases) \in Nat \ {0}
  BY RunAssumed, FS_CardinalityType, FS_EmptySet

LEMMA RunParts ==
  ASSUME NEW T, T \subseteq Cases
  PROVE  /\ IsFiniteSet(T) /\ Cardinality(T) \in Nat /\ Cardinality(T) <= Cardinality(Cases)
         /\ T # {} => Cardinality(T) # 0
<1>1. IsFiniteSet(T) /\ Cardinality(T) <= Cardinality(Cases)
  BY RunAssumed, FS_Subset
<1> QED
  BY <1>1, FS_CardinalityType, FS_EmptySet

LEMMA RunResultsAre ==
  ASSUME NEW f \in RunResults
  PROVE  /\ DOMAIN f \subseteq Cases /\ f \in [DOMAIN f -> V!Result]
         /\ \A c \in Cases, v \in V!Result : [f EXCEPT ![c] = v] \in RunResults
<1>1. PICK cs \in SUBSET Cases : f \in [cs -> V!Result]
  BY DEF RunResults
<1>2. ASSUME NEW c \in Cases, NEW v \in V!Result
      PROVE  [f EXCEPT ![c] = v] \in RunResults
  <2>1. [f EXCEPT ![c] = v] \in [cs -> V!Result]
    BY <1>1
  <2> QED
    BY <2>1, <1>1 DEF RunResults
<1> QED
  BY <1>1, <1>2

LEMMA RunMakes ==
  ASSUME NEW cs, cs \subseteq Cases
  PROVE  [c \in cs |-> "pending"] \in RunResults
  BY DEF RunResults, V!Result

LEMMA RunEmpty == << >> \in RunResults /\ DOMAIN << >> = {}
<1>1. << >> = [c \in {} |-> "pending"]
  OBVIOUS
<1> QED
  BY <1>1, RunMakes

LEMMA RunTallied ==
  ASSUME NEW f \in RunResults
  PROVE  V!Tally(f) \in RunTallies
<1>1. \A T : T \subseteq DOMAIN f => V!Cardinality(T) \in Nat
  BY RunResultsAre, RunParts, RunCount
<1> QED
  BY <1>1 DEF V!Tally, RunTallies

\* A nonempty set of numbers has a least one.
LEMMA LeastNumber == ASSUME NEW T, T \subseteq Nat, T # {} PROVE \E c \in T : \A x \in T : c <= x
<1> DEFINE below == OpToRel(<, Nat)
<1>1. IsWellFoundedOn(below, Nat)
  BY NatLessThanWellFounded
<1>2. \A x, y \in Nat : y < x => <<y, x>> \in below
  BY DEF OpToRel
<1> HIDE DEF below
<1>3. PICK c \in T : \A x \in T : <<x, c>> \notin below
  BY <1>1, WFMin
<1>4. \A x \in T : c <= x
  <2> SUFFICES ASSUME NEW x \in T PROVE c <= x
    OBVIOUS
  <2>1. x \in Nat /\ c \in Nat
    OBVIOUS
  <2>2. ~(x < c)
    BY <1>2, <1>3, <2>1
  <2> QED
    BY <2>1, <2>2
<1> QED
  BY <1>4

LEMMA RunAt ==
  ASSUME NEW f \in RunResults, NEW c \in DOMAIN f
  PROVE  V!Position(f, c) \in 1..Cardinality(Cases)
<1> DEFINE T == {x \in DOMAIN f : x <= c}
<1>1. c \in Nat /\ T \subseteq Cases
  BY RunResultsAre, RunAssumed
<1>2. c \in T
  BY <1>1
<1>3. Cardinality(T) \in 1..Cardinality(Cases)
  BY <1>1, <1>2, RunParts, RunCases
<1> QED
  BY <1>3, RunCount DEF V!Position

LEMMA RunLeast ==
  ASSUME NEW f \in RunResults, NEW T, T \subseteq DOMAIN f, T # {}
  PROVE  V!LeastPosition(f, T) \in 1..Cardinality(Cases)
<1>1. T \subseteq Nat
  BY RunResultsAre, RunAssumed
<1>2. \E c \in T : \A x \in T : c <= x
  BY <1>1, LeastNumber
<1>3. (CHOOSE c \in T : \A x \in T : c <= x) \in T
  BY <1>2
<1> QED
  BY <1>3, RunAt DEF V!LeastPosition

LEMMA RunPlaces ==
  ASSUME NEW f \in RunResults, NEW k \in 1..Cardinality(Cases)
  PROVE  /\ V!FirstOpen(f) \in 1..Cardinality(Cases)
         /\ idx \in 1..Cardinality(Cases) => V!Advance(f, k) \in 1..Cardinality(Cases)
<1> DEFINE open == {c \in DOMAIN f : f[c] = "pending"}
           after == {c \in open : V!Position(f, c) > k}
<1>1. open # {} => V!LeastPosition(f, open) \in 1..Cardinality(Cases)
  BY RunLeast
<1>2. after # {} => V!LeastPosition(f, after) \in 1..Cardinality(Cases)
  BY RunLeast
<1>3. 1 \in 1..Cardinality(Cases)
  BY RunCases
<1> HIDE DEF open, after
<1>4. V!FirstOpen(f) \in 1..Cardinality(Cases)
  BY <1>1, <1>3 DEF V!FirstOpen, open
<1>5. idx \in 1..Cardinality(Cases) => V!Advance(f, k) \in 1..Cardinality(Cases)
  BY <1>1, <1>2 DEF V!Advance, open, after
<1> QED
  BY <1>4, <1>5

\* What the type says of the parts of the state.
LEMMA RunKinds ==
  ASSUME RunInv
  PROVE  /\ \A r \in Runs : server[r] \in RunRows /\ server[r].res \in RunResults /\ server[r].status \in V!Status \cup {"absent"}
         /\ live # V!NoRun => live \in RunHeads /\ live.id \in Runs /\ live.status \in V!Status
         /\ list.res \in RunResults /\ list.of \in Runs \cup {"none"} /\ DOMAIN list.res \subseteq Cases
         /\ list.of # "none" => live # V!NoRun
         /\ DOMAIN list.res # {} => list.of \in Runs
         /\ \A l \in loads : /\ l \in RunLoads /\ l.run \in Runs /\ server[l.run].status # "absent"
                             /\ l.got # V!NoMark => l.got \in RunRead /\ l.got.res \in RunResults /\ l.got.status \in V!Status
         /\ mark # V!NoMark => mark \in RunMarks /\ live # V!NoRun
         /\ mark.stage # "none" => mark # V!NoMark
         /\ \A e \in edits : e \in RunEdits /\ e.run \in Runs /\ e.to \in V!Status \ {"absent"} /\ live # V!NoRun
         /\ "absent" \notin V!Status /\ {"running", "pass", "fail"} \subseteq V!Status
<1> USE DEF RunInv, RunType, RunThere
<1>1. \A r \in Runs : server[r] \in RunRows /\ server[r].res \in RunResults /\ server[r].status \in V!Status \cup {"absent"}
  BY DEF RunRows
<1>2. live # V!NoRun => live \in RunHeads /\ live.id \in Runs /\ live.status \in V!Status
  BY DEF RunHeads
<1>3. /\ list.res \in RunResults /\ list.of \in Runs \cup {"none"}
      /\ DOMAIN list.res # {} => list.of \in Runs
  BY DEF RunLists
<1>4. DOMAIN list.res \subseteq Cases
  BY <1>3, RunResultsAre
<1>5. list.of # "none" => live # V!NoRun
  OBVIOUS
<1>6. ASSUME NEW l \in loads
      PROVE  /\ l \in RunLoads /\ l.run \in Runs /\ server[l.run].status # "absent"
             /\ l.got # V!NoMark => l.got \in RunRead /\ l.got.res \in RunResults /\ l.got.status \in V!Status
  BY DEF RunLoads, RunRead
<1>7. /\ mark # V!NoMark => mark \in RunMarks /\ live # V!NoRun
      /\ mark.stage # "none" => mark # V!NoMark
  <2>1. mark # V!NoMark => mark \in RunMarks /\ live # V!NoRun
    OBVIOUS
  <2>2. mark = V!NoMark => mark.stage = "none"
    BY DEF V!NoMark
  <2> QED
    BY <2>1, <2>2
<1>8. "absent" \notin V!Status /\ {"running", "pass", "fail"} \subseteq V!Status
  BY DEF V!Status, V!Final
<1>9. \A e \in edits : e \in RunEdits /\ e.run \in Runs /\ e.to \in V!Status \ {"absent"} /\ live # V!NoRun
  BY <1>8 DEF RunEdits, V!Status
<1> QED
  BY <1>1, <1>2, <1>3, <1>4, <1>5, <1>6, <1>7, <1>8, <1>9

\* The socket of the run that is put into the header.
LEMMA RunShown ==
  ASSUME RunInv, NEW now \in RunHeads, live' = now, ever' = ever,
         ws' = IF live.id = now.id /\ live.status = now.status THEN ws
               ELSE IF now.status = "running" THEN [st |-> "asking", run |-> now.id, q |-> << >>]
               ELSE [st |-> "off", run |-> "none", q |-> << >>]
  PROVE  live' \in RunHeads /\ live' # V!NoRun /\ ws' \in RunSockets /\ RunSocket'
<1>1. now # V!NoRun /\ now.id \in Runs /\ now.id # "none"
  BY RunAssumed DEF RunHeads, V!NoRun
<1>2. CASE live.id = now.id /\ live.status = now.status
  <2>1. ws' = ws
    BY <1>2
  <2> QED
    BY <1>1, <1>2, <2>1 DEF RunInv, RunType, RunSocket, RunTold
<1>3. CASE ~(live.id = now.id /\ live.status = now.status)
  <2>1. ws' = [st |-> "asking", run |-> now.id, q |-> << >>] \/ ws' = [st |-> "off", run |-> "none", q |-> << >>]
    BY <1>3
  <2>2. << >> \in Seq(RunSteps \cup RunStates)
    OBVIOUS
  <2>3. ws' \in RunSockets
    <3>1. [st |-> "asking", run |-> now.id, q |-> << >>] \in RunSockets
      BY <1>1, <2>2 DEF RunSockets
    <3>2. [st |-> "off", run |-> "none", q |-> << >>] \in RunSockets
      BY <2>2 DEF RunSockets
    <3> QED
      BY <2>1, <3>1, <3>2
  <2>4. RunSocket'
    BY <1>1, <2>1 DEF RunSocket
  <2> QED
    BY <1>1, <2>3, <2>4
<1> QED
  BY <1>1, <1>2, <1>3

LEMMA RunQueues ==
  ASSUME NEW X, NEW Y, X \subseteq Y, NEW q \in Seq(X), NEW m \in Seq(Y)
  PROVE  q \in Seq(Y) /\ q \o m \in Seq(Y)
  OBVIOUS

\* The server stores a result.
LEMMA RunStores ==
  ASSUME RunInv, NEW r \in Runs, NEW c \in Cases, NEW v \in Verdicts, V!Store(r, c, v), live' = live
  PROVE  /\ server' \in [Runs -> RunRows] /\ ever' \in [Runs -> [Cases -> SUBSET V!Result]] /\ ws' \in RunSockets
         /\ \A x \in Runs : server[x].status # "absent" => server'[x].status # "absent"
         /\ \A x \in Runs, d \in Cases : ever[x][d] \subseteq ever'[x][d]
         /\ v \in ever'[r][c]
         /\ \A x \in Runs : \A d \in DOMAIN server'[x].res : server'[x].res[d] \in ever'[x][d]
         /\ RunSocket'
<1> DEFINE res == [server[r].res EXCEPT ![c] = v]
           ends == IF V!Complete(res) THEN V!Verdict(res) ELSE server[r].status
           step == [ev |-> "step", case |-> c, verdict |-> v, tally |-> V!Tally(res)]
           done == [ev |-> "complete", status |-> ends, tally |-> V!Tally(res)]
           msgs == IF V!Complete(res) THEN <<step, done>> ELSE <<step>>
<1>1. /\ server' = [server EXCEPT ![r] = [status |-> ends, res |-> res]]
      /\ ever' = [ever EXCEPT ![r][c] = @ \cup {v}]
      /\ ws' = IF ws.st = "open" /\ ws.run = r THEN [ws EXCEPT !.q = @ \o msgs] ELSE ws
  BY DEF V!Store, V!Send
<1>2. v \in V!Result /\ server[r] \in RunRows /\ server[r].res \in RunResults
  BY RunKinds DEF V!Result
<1>3. /\ res \in RunResults /\ DOMAIN res = DOMAIN server[r].res
      /\ \A d \in DOMAIN res : res[d] = IF d = c THEN v ELSE server[r].res[d]
  BY <1>2, RunResultsAre
<1>4. V!Tally(res) \in RunTallies
  BY <1>3, RunTallied
<1>5. V!Verdict(res) \in V!Status \ {"absent"}
  BY DEF V!Verdict, V!Status, V!Final
<1> HIDE DEF res
<1>6. ends \in V!Status \cup {"absent"} /\ (server[r].status # "absent" => ends # "absent")
  BY <1>2, <1>5 DEF RunRows
<1>7. V!Complete(res) => ends \in V!Status
  BY <1>5
<1> HIDE DEF ends
<1>8. server' \in [Runs -> RunRows] /\ \A x \in Runs : server'[x] = IF x = r THEN [status |-> ends, res |-> res] ELSE server[x]
  BY <1>1, <1>3, <1>6 DEF RunInv, RunType, RunRows
<1>9. /\ ever' \in [Runs -> [Cases -> SUBSET V!Result]]
      /\ \A x \in Runs, d \in Cases : ever'[x][d] = IF x = r /\ d = c THEN ever[x][d] \cup {v} ELSE ever[x][d]
  BY <1>1, <1>2 DEF RunInv, RunType
<1>10. \A x \in Runs, d \in Cases : ever[x][d] \subseteq ever'[x][d]
  BY <1>9
<1>11. ASSUME NEW x \in Runs, NEW d \in DOMAIN server'[x].res
       PROVE  server'[x].res[d] \in ever'[x][d]
  <2>1. DOMAIN server[x].res \subseteq Cases /\ \A k \in DOMAIN server[x].res : server[x].res[k] \in ever[x][k]
    BY RunKinds, RunResultsAre DEF RunInv, RunStored, RunHad
  <2>2. CASE x = r
    <3>1. server'[x].res = res
      BY <1>8, <2>2
    <3>2. d \in DOMAIN server[r].res /\ d \in Cases
      BY <3>1, <2>1, <2>2, <1>3
    <3> QED
      BY <3>1, <3>2, <2>1, <2>2, <1>3, <1>9
  <2>3. CASE x # r
    <3>1. server'[x].res = server[x].res
      BY <1>8, <2>3
    <3> QED
      BY <3>1, <2>1, <2>3, <1>9
  <2> QED
    BY <2>2, <2>3
<1>12. ws' \in RunSockets /\ RunSocket'
  <2>1. step \in RunSteps /\ (V!Complete(res) => done \in RunStates)
    BY <1>2, <1>4, <1>7 DEF RunSteps, RunStates
  <2> HIDE DEF step, done
  <2>2. ws' # ws => ws.st = "open" /\ ws.run = r
    BY <1>1
  <2>3. ws.st # "off" => ws.run \in Runs
    BY RunKinds DEF RunInv, RunSocket
  <2>4. CASE ws.st = "open"
    <3> DEFINE old == {m \in RunSteps : m.verdict \in ever[ws.run][m.case]} \cup RunStates
               new == {m \in RunSteps : m.verdict \in ever'[ws.run][m.case]} \cup RunStates
    <3>1. old \subseteq new
      BY <1>10, <2>3, <2>4 DEF RunSteps
    <3>2. ws.run = r => msgs \in Seq(new)
      <4>1. ws.run = r => step \in new
        BY <2>1, <1>9 DEF step
      <4>2. V!Complete(res) => done \in new
        BY <2>1
      <4> HIDE DEF new
      <4> QED
        BY <4>1, <4>2
    <3>3. ws.q \in Seq(old)
      BY <2>4 DEF RunInv, RunSocket, RunTold
    <3>4. new \subseteq RunSteps \cup RunStates
      OBVIOUS
    <3> HIDE DEF old, new, msgs
    <3>5. ws.q \in Seq(new) /\ (ws.run = r => ws.q \o msgs \in Seq(new))
      BY <3>1, <3>2, <3>3, RunQueues
    <3>6. ws' \in RunSockets /\ ws'.st = ws.st /\ ws'.run = ws.run /\ ws'.q \in Seq(new)
      <4>1. CASE ws.run = r
        <5>1. ws' = [ws EXCEPT !.q = @ \o msgs]
          BY <1>1, <2>4, <4>1
        <5>2. ws.q \o msgs \in Seq(RunSteps \cup RunStates)
          BY <3>4, <3>5, <4>1
        <5> QED
          BY <5>1, <5>2, <3>5, <4>1 DEF RunInv, RunType, RunSockets
      <4>2. CASE ws.run # r
        BY <4>2, <2>2, <3>5 DEF RunInv, RunType
      <4> QED
        BY <4>1, <4>2
    <3> QED
      BY <3>6, <2>4 DEF RunSocket, RunTold, RunInv, new
  <2>5. CASE ws.st # "open"
    BY <2>2, <2>5 DEF RunInv, RunType, RunSocket
  <2> QED
    BY <2>4, <2>5
<1>13. \A x \in Runs : server[x].status # "absent" => server'[x].status # "absent"
  BY <1>6, <1>8
<1>14. v \in ever'[r][c]
  BY <1>9
<1> QED
  BY <1>8, <1>9, <1>10, <1>11, <1>12, <1>13, <1>14

\* What was stored stays so.
LEMMA RunKept ==
  ASSUME NEW r \in Runs, NEW f \in RunResults, RunHad(r, f),
         \A x \in Runs, d \in Cases : ever[x][d] \subseteq ever'[x][d]
  PROVE  \A c \in DOMAIN f : f[c] \in ever'[r][c]
  BY RunResultsAre DEF RunHad

\* ... also what the page holds.
LEMMA RunStoredOn ==
  ASSUME RunInv, UNCHANGED <<live, list, loads>>, \A x \in Runs, d \in Cases : ever[x][d] \subseteq ever'[x][d],
         \A a \in Runs : \A d \in DOMAIN server'[a].res : server'[a].res[d] \in ever'[a][d]
  PROVE  RunStored'
<1>1. \A r \in Runs, c \in Cases : "pending" \in ever'[r][c]
  BY DEF RunInv, RunStored
<1>2. ASSUME NEW l \in loads, l.got # V!NoMark
      PROVE  \A c \in DOMAIN l.got.res : l.got.res[c] \in ever'[l.run][c]
  <2>1. l.run \in Runs /\ l.got.res \in RunResults
    BY <1>2, RunKinds
  <2>2. \A c \in DOMAIN l.got.res : c \in Cases /\ l.got.res[c] \in ever[l.run][c]
    BY <1>2, <2>1, RunResultsAre DEF RunInv, RunStored, RunHad
  <2> QED
    BY <2>1, <2>2
<1>3. ASSUME live # V!NoRun, list.of = live.id
      PROVE  \A c \in DOMAIN list.res : list.res[c] \in ever'[list.of][c]
  <2>1. list.of \in Runs /\ list.res \in RunResults
    BY <1>3, RunKinds
  <2>2. \A c \in DOMAIN list.res : c \in Cases /\ list.res[c] \in ever[list.of][c]
    BY <1>3, <2>1, RunResultsAre DEF RunInv, RunStored, RunHad
  <2> QED
    BY <2>1, <2>2
<1> QED
  BY <1>1, <1>2, <1>3 DEF RunStored, RunHad

LEMMA RunMarkedOn ==
  ASSUME RunInv, mark # V!NoMark, \A x \in Runs, d \in Cases : ever[x][d] \subseteq ever'[x][d]
  PROVE  /\ mark.run = mark.of => \A c \in DOMAIN mark.snap.res : mark.snap.res[c] \in ever'[mark.of][c]
         /\ mark.stage = "ok" => mark.verdict \in ever'[mark.of][mark.case]
         /\ mark.snap.of = mark.of /\ mark.case \in DOMAIN mark.snap.res
         /\ mark.stage = "ok" => mark.run = mark.of
<1>1. mark.of \in Runs /\ mark.case \in Cases /\ mark.snap.res \in RunResults
  BY RunKinds DEF RunMarks, RunLists
<1>2. DOMAIN mark.snap.res \subseteq Cases
  BY <1>1, RunResultsAre
<1> QED
  BY <1>1, <1>2 DEF RunInv, RunMarked, RunHad

USE DEF V!NoRun, V!NoMark, V!Off

LEMMA RunStays == ASSUME RunInv, UNCHANGED V!vars PROVE RunInv'
<1>1. RunType'
  BY DEF RunInv, RunType, RunLoads, RunSockets, RunMarks, RunEdits, RunUsed, V!vars
<1>2. RunThere'
  BY DEF RunInv, RunType, RunThere, RunLoads, RunEdits, V!vars
<1>3. RunSocket'
  BY DEF RunInv, RunThere, RunSocket, RunTold, V!vars
<1>4. RunStored'
  BY DEF RunInv, RunStored, RunHad, V!vars
<1>5. RunMarked'
  BY DEF RunInv, RunMarked, RunHad, V!vars
<1> QED
  BY <1>1, <1>2, <1>3, <1>4, <1>5 DEF RunInv

LEMMA RunMove == ASSUME RunInv, NEW r \in Runs, V!Move(r) PROVE RunInv'
<1>1. RunType'
  BY DEF RunInv, RunType, RunLoads, RunSockets, RunMarks, RunEdits, RunUsed, V!Move, V!GoTo,
     V!Spend
<1>2. RunThere'
  BY DEF RunInv, RunType, RunThere, RunLoads, RunEdits, V!Move, V!GoTo, V!Spend
<1>3. RunSocket'
  BY DEF RunInv, RunThere, RunSocket, RunTold, V!Move, V!GoTo, V!Spend
<1>4. RunStored'
  BY DEF RunInv, RunStored, RunHad, V!Move, V!GoTo, V!Spend
<1>5. RunMarked'
  BY DEF RunInv, RunMarked, RunHad, V!Move, V!GoTo, V!Spend
<1> QED
  BY <1>1, <1>2, <1>3, <1>4, <1>5 DEF RunInv

LEMMA RunSelect == ASSUME RunInv, NEW k \in 1..V!Cardinality(Cases), V!Select(k) PROVE RunInv'
<1>1. RunType'

  <2>1. idx' \in 1..Cardinality(Cases)
    BY RunCount DEF V!Select
  <2> QED
    BY <2>1 DEF RunInv, RunType, V!Select
<1>2. RunThere'
  BY DEF RunInv, RunType, RunThere, RunLoads, RunEdits, V!Select
<1>3. RunSocket'
  BY DEF RunInv, RunThere, RunSocket, RunTold, V!Select
<1>4. RunStored'
  BY DEF RunInv, RunStored, RunHad, V!Select
<1>5. RunMarked'
  BY DEF RunInv, RunMarked, RunHad, V!Select
<1> QED
  BY <1>1, <1>2, <1>3, <1>4, <1>5 DEF RunInv

LEMMA RunMark == ASSUME RunInv, NEW v \in Verdicts, V!Mark(v) PROVE RunInv'
<1>1. PICK c \in V!At(list.res, idx) :
        mark' = [stage |-> "sent", run |-> live.id, of |-> list.of, case |-> c, verdict |-> v, snap |-> list, at |-> idx]
  BY DEF V!Mark
<1>2. c \in DOMAIN list.res
  BY DEF V!At
<1>3. c \in Cases /\ list.of \in Runs /\ live.id \in Runs /\ live # V!NoRun
  BY <1>2, RunKinds, RunAssumed
<1>4. mark' \in RunMarks /\ list \in RunLists
  BY <1>1, <1>3 DEF RunInv, RunType, RunMarks
<1>5. UNCHANGED <<server, url, loading, live, list, idx, loads, ws, edits, retest, ever>> /\ mark = V!NoMark
  BY DEF V!Mark
<1>6. used' \in [RunUsed -> Nat]
  BY DEF V!Mark, V!Spend, RunInv, RunType, RunUsed
<1>7. RunType'
  BY <1>4, <1>5, <1>6 DEF RunInv, RunType
<1>8. RunThere' /\ RunSocket'
  BY <1>3, <1>5 DEF RunInv, RunThere, RunSocket, RunTold
<1>9. RunStored'
  BY <1>5 DEF RunInv, RunStored, RunHad
<1>10. RunMarked'
  <2>1. /\ mark'.snap = list /\ mark'.of = list.of /\ mark'.case = c /\ mark'.run = live.id
        /\ mark'.stage = "sent"
    BY <1>1
  <2>2. live.id = list.of => RunHad(list.of, list.res)
    BY <1>3 DEF RunInv, RunStored
  <2> QED
    BY <1>2, <1>5, <2>1, <2>2 DEF RunMarked, RunHad
<1> QED
  BY <1>7, <1>8, <1>9, <1>10 DEF RunInv

LEMMA RunEdit == ASSUME RunInv, NEW to \in {"paused", "aborted"}, V!Edit(to) PROVE RunInv'
<1>1. RunType'

  <2>1. live \in RunHeads /\ live.id \in Runs
    BY RunKinds DEF V!Edit
  <2>2. edits' \subseteq RunEdits
    BY <2>1 DEF RunInv, RunType, RunEdits, V!Edit
  <2>3. used' \in [RunUsed -> Nat]
    BY DEF RunInv, RunType, RunUsed, V!Edit, V!Spend
  <2> QED
    BY <2>2, <2>3 DEF RunInv, RunType, V!Edit
<1>2. RunThere'
  BY DEF RunInv, RunType, RunThere, RunLoads, RunEdits, V!Edit, V!Spend
<1>3. RunSocket'
  BY DEF RunInv, RunThere, RunSocket, RunTold, V!Edit, V!Spend
<1>4. RunStored'
  BY DEF RunInv, RunStored, RunHad, V!Edit, V!Spend
<1>5. RunMarked'
  BY DEF RunInv, RunMarked, RunHad, V!Edit, V!Spend
<1> QED
  BY <1>1, <1>2, <1>3, <1>4, <1>5 DEF RunInv

LEMMA RunRetest == ASSUME RunInv, V!Retest PROVE RunInv'
<1>1. RunType'

  <2>1. live # V!NoRun
    BY DEF V!Retest
  <2>2. retest' \in Runs
    BY <2>1, RunKinds DEF V!Retest
  <2> QED
    BY <2>2 DEF RunInv, RunType, V!Retest
<1>2. RunThere'
  BY DEF RunInv, RunType, RunThere, RunLoads, RunEdits, V!Retest
<1>3. RunSocket'
  BY DEF RunInv, RunThere, RunSocket, RunTold, V!Retest
<1>4. RunStored'
  BY DEF RunInv, RunStored, RunHad, V!Retest
<1>5. RunMarked'
  BY DEF RunInv, RunMarked, RunHad, V!Retest
<1> QED
  BY <1>1, <1>2, <1>3, <1>4, <1>5 DEF RunInv

LEMMA RunOtherMarks ==
  ASSUME RunInv, NEW r \in Runs, NEW c \in Cases, NEW v \in Verdicts, V!OtherMarks(r, c, v)
  PROVE  RunInv'
<1>1. PICK x \in Runs, y \in Cases, z \in Verdicts : V!Store(x, y, z)
  BY DEF V!OtherMarks
<1>2. UNCHANGED <<url, loading, live, list, idx, loads, mark, edits, retest>>
  BY DEF V!OtherMarks
<1>3. used' \in [RunUsed -> Nat]
  BY DEF V!OtherMarks, V!Spend, RunInv, RunType, RunUsed
<1>4. /\ server' \in [Runs -> RunRows] /\ ever' \in [Runs -> [Cases -> SUBSET V!Result]] /\ ws' \in RunSockets
      /\ \A a \in Runs : server[a].status # "absent" => server'[a].status # "absent"
      /\ \A a \in Runs, d \in Cases : ever[a][d] \subseteq ever'[a][d]
      /\ \A a \in Runs : \A d \in DOMAIN server'[a].res : server'[a].res[d] \in ever'[a][d]
      /\ RunSocket'
  BY <1>1, <1>2, RunStores
<1>5. RunType'
  BY <1>2, <1>3, <1>4 DEF RunInv, RunType
<1>6. RunThere'
  BY <1>2, <1>4, RunKinds, RunAssumed DEF RunInv, RunThere
<1>7. RunStored'
  BY <1>2, <1>4, RunStoredOn
<1>8. RunMarked'
  BY <1>2, <1>4, RunMarkedOn DEF RunMarked, RunHad
<1> QED
  BY <1>4, <1>5, <1>6, <1>7, <1>8 DEF RunInv

LEMMA RunLoadServed == ASSUME RunInv, NEW l \in loads, V!LoadServed(l) PROVE RunInv'
<1>1. RunType'

  <2>1. l \in RunLoads /\ server[l.run] \in RunRead
    BY RunKinds DEF RunRows, RunRead
  <2>2. [l EXCEPT !.got = server[l.run]] \in RunLoads
    BY <2>1 DEF RunLoads
  <2>3. loads' \subseteq RunLoads
    BY <2>2 DEF RunInv, RunType, V!LoadServed
  <2> QED
    BY <2>3 DEF RunInv, RunType, V!LoadServed
<1>2. RunThere'
  BY DEF RunInv, RunType, RunThere, RunLoads, RunEdits, V!LoadServed
<1>3. RunSocket'
  BY DEF RunInv, RunThere, RunSocket, RunTold, V!LoadServed
<1>4. RunStored'

  <2>1. l \in RunLoads /\ l.run \in Runs
    BY RunKinds
  <2>2. ASSUME NEW k \in loads', k.got # V!NoMark
        PROVE  RunHad(k.run, k.got.res)
    <3>1. CASE k \in loads
      BY <2>2, <3>1 DEF RunInv, RunStored
    <3>2. CASE k = [l EXCEPT !.got = server[l.run]]
      <4>1. k.run = l.run /\ k.got = server[l.run]
        BY <2>1, <3>2 DEF RunLoads
      <4> QED
        BY <2>1, <4>1 DEF RunInv, RunStored
    <3> QED
      BY <2>2, <3>1, <3>2 DEF V!LoadServed
  <2> QED
    BY <2>2 DEF RunInv, RunStored, RunHad, V!LoadServed
<1>5. RunMarked'
  BY DEF RunInv, RunMarked, RunHad, V!LoadServed
<1> QED
  BY <1>1, <1>2, <1>3, <1>4, <1>5 DEF RunInv

LEMMA RunLoadAnswered == ASSUME RunInv, NEW l \in loads, V!LoadAnswered(l) PROVE RunInv'
<1> DEFINE now == [id |-> l.run, status |-> l.got.status, tally |-> V!Tally(l.got.res)]
<1>1. /\ l \in RunLoads /\ l.run \in Runs /\ server[l.run].status # "absent" /\ l.got # V!NoMark
      /\ l.got.res \in RunResults /\ l.got.status \in V!Status
  BY RunKinds DEF V!LoadAnswered
<1>2. /\ live' = now /\ ws' = IF live.id = now.id /\ live.status = now.status THEN ws
              ELSE IF now.status = "running" THEN [st |-> "asking", run |-> now.id, q |-> << >>]
              ELSE [st |-> "off", run |-> "none", q |-> << >>]
      /\ list' = [of |-> l.run, res |-> l.got.res] /\ idx' = V!FirstOpen(l.got.res) /\ loading' = FALSE
      /\ loads' = loads \ {l}
  BY DEF V!LoadAnswered, V!Show, V!Socket
<1>3. UNCHANGED <<server, url, mark, edits, retest, ever, used>>
  BY DEF V!LoadAnswered
<1>4. now \in RunHeads
  BY <1>1, RunTallied DEF RunHeads
<1>5. now.id = l.run /\ now.status = l.got.status
  OBVIOUS
<1> HIDE DEF now
<1>6. live' \in RunHeads /\ live' # V!NoRun /\ ws' \in RunSockets /\ RunSocket'
  BY <1>2, <1>3, <1>4, RunShown
<1>7. RunType'
  <2>1. idx' \in 1..Cardinality(Cases)
    BY <1>1, <1>2, RunPlaces, RunCases
  <2>2. list' \in RunLists
    BY <1>1, <1>2 DEF RunLists
  <2> QED
    BY <1>2, <1>3, <1>6, <2>1, <2>2 DEF RunInv, RunType
<1>8. RunThere'
  <2>1. list'.of # "none"
    BY <1>1, <1>2, RunAssumed
  <2>2. server'[live'.id].status # "absent"
    BY <1>1, <1>2, <1>3, <1>5
  <2> QED
    BY <1>2, <1>3, <1>6, <2>1, <2>2 DEF RunInv, RunThere
<1>9. RunStored'
  <2>1. list'.of = l.run /\ list'.res = l.got.res
    BY <1>2
  <2>2. RunHad(l.run, l.got.res)
    BY <1>1 DEF RunInv, RunStored
  <2> QED
    BY <1>2, <1>3, <2>1, <2>2 DEF RunInv, RunStored, RunHad
<1>10. RunMarked'
  BY <1>3 DEF RunInv, RunMarked, RunHad
<1> QED
  BY <1>6, <1>7, <1>8, <1>9, <1>10 DEF RunInv

LEMMA RunLoadFailed == ASSUME RunInv, NEW l \in loads, V!LoadFailed(l) PROVE RunInv'
<1> DEFINE now == [id |-> IF l.run \in Listed THEN l.run ELSE First, status |-> "running", tally |-> <<0, 0, 0>>]
<1>1. l.run \in Runs /\ now.id \in Listed /\ Listed \subseteq Runs
  BY RunKinds, RunAssumed
<1>2. /\ live' = now /\ ws' = IF live.id = now.id /\ live.status = now.status THEN ws
              ELSE IF now.status = "running" THEN [st |-> "asking", run |-> now.id, q |-> << >>]
              ELSE [st |-> "off", run |-> "none", q |-> << >>]
      /\ list' = [of |-> "none", res |-> << >>] /\ loading' = FALSE /\ loads' = loads \ {l}
  BY DEF V!LoadFailed, V!Show, V!Socket
<1>3. UNCHANGED <<server, url, idx, mark, edits, retest, ever>>
  BY DEF V!LoadFailed
<1>4. now \in RunHeads
  <2>1. <<0, 0, 0>> \in RunTallies
    BY DEF RunTallies
  <2>2. "running" \in V!Status
    BY DEF V!Status
  <2> QED
    BY <1>1, <2>1, <2>2 DEF RunHeads
<1>5. used' \in [RunUsed -> Nat]
  BY DEF V!LoadFailed, V!Spend, RunInv, RunType, RunUsed
<1> HIDE DEF now
<1>6. live' \in RunHeads /\ live' # V!NoRun /\ ws' \in RunSockets /\ RunSocket'
  BY <1>2, <1>3, <1>4, RunShown
<1>7. RunType'
  <2>1. list' \in RunLists
    BY <1>2, RunEmpty DEF RunLists
  <2> QED
    BY <1>2, <1>3, <1>5, <1>6, <2>1 DEF RunInv, RunType
<1>8. RunThere'
  <2>1. server'[live'.id].status # "absent"
    BY <1>1, <1>2, <1>3 DEF RunInv, RunThere
  <2>2. DOMAIN list'.res = {}
    BY <1>2, RunEmpty
  <2> QED
    BY <1>2, <1>3, <1>6, <2>1, <2>2 DEF RunInv, RunThere
<1>9. RunStored'
  <2>1. DOMAIN list'.res = {}
    BY <1>2, RunEmpty
  <2> QED
    BY <1>2, <1>3, <2>1 DEF RunInv, RunStored, RunHad
<1>10. RunMarked'
  BY <1>3 DEF RunInv, RunMarked, RunHad
<1> QED
  BY <1>6, <1>7, <1>8, <1>9, <1>10 DEF RunInv

LEMMA RunWsOpen == ASSUME RunInv, V!WsOpen PROVE RunInv'
<1> DEFINE now == [ev |-> "state", status |-> server[ws.run].status, tally |-> V!Tally(server[ws.run].res)]
<1>1. ws.st = "asking" /\ ws' = [ws EXCEPT !.st = "open", !.q = <<now>>]
  BY DEF V!WsOpen
<1>2. UNCHANGED <<server, url, loading, live, list, idx, loads, mark, edits, retest, ever, used>>
  BY DEF V!WsOpen
<1>3. ws.run \in Runs /\ ws.run = live.id /\ live # V!NoRun
  BY <1>1, RunKinds DEF RunInv, RunSocket
<1>4. now \in RunStates
  <2>1. server[ws.run].status \in V!Status
    BY <1>3, RunKinds DEF RunInv, RunThere
  <2>2. V!Tally(server[ws.run].res) \in RunTallies
    BY <1>3, RunKinds, RunTallied
  <2> QED
    BY <2>1, <2>2 DEF RunStates
<1> HIDE DEF now
<1>5. <<now>> \in Seq(RunSteps \cup RunStates) /\ <<now>> \in Seq(RunTold')
  BY <1>4 DEF RunTold
<1>6. ws' \in RunSockets /\ ws'.st = "open" /\ ws'.run = ws.run /\ ws'.q = <<now>>
  BY <1>1, <1>5 DEF RunInv, RunType, RunSockets
<1>7. RunType'
  BY <1>2, <1>6 DEF RunInv, RunType
<1>8. RunThere' /\ RunStored' /\ RunMarked'
  BY <1>2 DEF RunInv, RunThere, RunStored, RunMarked, RunHad
<1>9. RunSocket'
  BY <1>2, <1>3, <1>5, <1>6 DEF RunSocket
<1> QED
  BY <1>7, <1>8, <1>9 DEF RunInv

LEMMA RunWsMessage == ASSUME RunInv, V!WsMessage PROVE RunInv'
<1> DEFINE m == Head(ws.q)
           now == CASE m.ev = "step" -> [live EXCEPT !.tally = m.tally]
                    [] m.ev = "complete" -> [live EXCEPT !.status = m.status, !.tally = m.tally]
                    [] m.ev = "state" -> [live EXCEPT !.status = m.status, !.tally = m.tally]
<1>1. /\ ws.st = "open" /\ ws.q # << >> /\ live' = now
      /\ ws' = IF now.status = live.status THEN [ws EXCEPT !.q = Tail(@)]
               ELSE IF live.id = now.id /\ live.status = now.status THEN ws
               ELSE IF now.status = "running" THEN [st |-> "asking", run |-> now.id, q |-> << >>]
               ELSE [st |-> "off", run |-> "none", q |-> << >>]
      /\ list' = IF m.ev = "step" /\ m.case \in DOMAIN list.res THEN [list EXCEPT !.res[m.case] = m.verdict] ELSE list
  BY DEF V!WsMessage, V!Socket
<1>2. UNCHANGED <<server, url, loading, idx, loads, mark, edits, retest, ever, used>>
  BY DEF V!WsMessage
<1>3. ws.run = live.id /\ live # V!NoRun /\ live \in RunHeads /\ live.id \in Runs
  BY <1>1, RunKinds DEF RunInv, RunSocket
<1>4. ws.q \in Seq(RunTold)
  BY <1>1 DEF RunInv, RunSocket
<1>5. m \in RunTold /\ Tail(ws.q) \in Seq(RunTold)
  BY <1>1, <1>4
<1> HIDE DEF m
<1>6. \/ m \in RunSteps /\ m.ev = "step" /\ m.verdict \in ever[ws.run][m.case]
      \/ m \in RunStates /\ m.ev # "step" /\ m.ev \in {"state", "complete"}
  BY <1>5 DEF RunTold, RunSteps, RunStates
<1>7. now \in RunHeads /\ now.id = live.id
  <2>1. CASE m \in RunSteps /\ m.ev = "step"
    <3>1. now = [live EXCEPT !.tally = m.tally]
      BY <2>1
    <3> QED
      BY <1>3, <2>1, <3>1 DEF RunHeads, RunSteps
  <2>2. CASE m \in RunStates /\ m.ev \in {"state", "complete"}
    <3>1. now = [live EXCEPT !.status = m.status, !.tally = m.tally]
      BY <2>2
    <3> QED
      BY <1>3, <2>2, <3>1 DEF RunHeads, RunStates
  <2> QED
    BY <1>6, <2>1, <2>2
<1> HIDE DEF now
<1>8. live' \in RunHeads /\ live' # V!NoRun /\ ws' \in RunSockets /\ RunSocket'
  <2>1. CASE now.status = live.status
    <3>1. ws' = [ws EXCEPT !.q = Tail(@)]
      BY <1>1, <2>1
    <3>2. Tail(ws.q) \in Seq(RunSteps \cup RunStates)
      BY <1>1 DEF RunInv, RunType, RunSockets
    <3>3. ws' \in RunSockets /\ ws'.st = "open" /\ ws'.run = ws.run /\ ws'.q = Tail(ws.q)
      BY <1>1, <3>1, <3>2 DEF RunInv, RunType, RunSockets
    <3>4. RunTold' = RunTold
      BY <1>2, <3>3 DEF RunTold
    <3>5. now # V!NoRun /\ live' = now
      BY <1>1, <1>3, <1>7, RunAssumed DEF RunHeads
    <3> QED
      BY <1>3, <1>5, <1>7, <3>3, <3>4, <3>5 DEF RunSocket
  <2>2. CASE now.status # live.status
    <3>1. /\ live' = now
          /\ ws' = IF live.id = now.id /\ live.status = now.status THEN ws
                   ELSE IF now.status = "running" THEN [st |-> "asking", run |-> now.id, q |-> << >>]
                   ELSE [st |-> "off", run |-> "none", q |-> << >>]
      BY <1>1, <2>2
    <3> QED
      BY <1>2, <1>7, <3>1, RunShown
  <2> QED
    BY <2>1, <2>2
<1>9. /\ list' \in RunLists /\ list'.of = list.of /\ DOMAIN list'.res = DOMAIN list.res
      /\ \A c \in DOMAIN list.res :
           list'.res[c] = list.res[c] \/ (list'.res[c] \in ever[live.id][c])
  <2>1. CASE m \in RunSteps /\ m.ev = "step" /\ m.case \in DOMAIN list.res
    <3>1. list' = [list EXCEPT !.res[m.case] = m.verdict]
      BY <1>1, <2>1
    <3>2. m.verdict \in V!Result /\ m.case \in Cases /\ m.verdict \in ever[live.id][m.case]
      BY <1>3, <1>6, <2>1 DEF RunSteps
    <3>3. list \in RunLists /\ list.res \in RunResults
      BY RunKinds DEF RunInv, RunType
    <3>4. [list.res EXCEPT ![m.case] = m.verdict] \in RunResults
      BY <3>2, <3>3, RunResultsAre
    <3>5. list' \in RunLists /\ list'.of = list.of /\ list'.res = [list.res EXCEPT ![m.case] = m.verdict]
      BY <3>1, <3>3, <3>4 DEF RunLists
    <3> QED
      BY <3>2, <3>5
  <2>2. CASE ~(m.ev = "step" /\ m.case \in DOMAIN list.res)
    BY <1>1, <2>2 DEF RunInv, RunType
  <2> QED
    BY <1>6, <2>1, <2>2
<1>10. RunType'
  BY <1>2, <1>8, <1>9 DEF RunInv, RunType
<1>11. RunThere'
  BY <1>1, <1>2, <1>3, <1>7, <1>8, <1>9 DEF RunInv, RunThere
<1>12. RunStored'
  <2>1. ASSUME list'.of = live'.id, NEW c \in DOMAIN list'.res
        PROVE  list'.res[c] \in ever[list'.of][c]
    <3>1. list.of = live.id /\ c \in DOMAIN list.res
      BY <1>1, <1>7, <1>9, <2>1
    <3>2. list.res[c] \in ever[list.of][c]
      BY <1>3, <3>1 DEF RunInv, RunStored, RunHad
    <3> QED
      BY <1>9, <3>1, <3>2
  <2> QED
    BY <1>2, <2>1 DEF RunInv, RunStored, RunHad
<1>13. RunMarked'
  BY <1>2 DEF RunInv, RunMarked, RunHad
<1> QED
  BY <1>8, <1>10, <1>11, <1>12, <1>13 DEF RunInv

LEMMA RunWsLost == ASSUME RunInv, V!WsLost PROVE RunInv'
<1>1. RunType'
  BY DEF RunInv, RunType, RunLoads, RunSockets, RunMarks, RunEdits, RunUsed, V!WsLost, V!Spend
<1>2. RunThere'
  BY DEF RunInv, RunType, RunThere, RunLoads, RunEdits, V!WsLost, V!Spend
<1>3. RunSocket'
  BY DEF RunInv, RunThere, RunSocket, RunTold, V!WsLost, V!Spend
<1>4. RunStored'
  BY DEF RunInv, RunStored, RunHad, V!WsLost, V!Spend
<1>5. RunMarked'
  BY DEF RunInv, RunMarked, RunHad, V!WsLost, V!Spend
<1> QED
  BY <1>1, <1>2, <1>3, <1>4, <1>5 DEF RunInv

LEMMA RunMarkStored == ASSUME RunInv, V!MarkStored PROVE RunInv'
<1>1. /\ mark.stage = "sent" /\ mark # V!NoMark /\ mark \in RunMarks /\ mark.run \in Runs /\ mark.case \in Cases
      /\ mark.verdict \in Verdicts
  BY RunKinds DEF V!MarkStored, RunMarks
<1>2. UNCHANGED <<url, loading, live, list, idx, loads, edits, retest, used>>
  BY DEF V!MarkStored
<1>3. CASE mark.run = mark.of
  <2>1. PICK r \in Runs, c \in Cases, v \in Verdicts : r = mark.run /\ c = mark.case /\ v = mark.verdict
    BY <1>1
  <2>2. V!Store(r, c, v)
    BY <1>3, <2>1 DEF V!MarkStored, V!Store
  <2>3. /\ server' \in [Runs -> RunRows] /\ ever' \in [Runs -> [Cases -> SUBSET V!Result]] /\ ws' \in RunSockets
        /\ \A a \in Runs : server[a].status # "absent" => server'[a].status # "absent"
        /\ \A a \in Runs, d \in Cases : ever[a][d] \subseteq ever'[a][d]
        /\ \A a \in Runs : \A d \in DOMAIN server'[a].res : server'[a].res[d] \in ever'[a][d]
        /\ RunSocket' /\ v \in ever'[r][c]
    BY <1>2, <2>2, RunStores
  <2>4. mark' = [mark EXCEPT !.stage = "ok"]
    BY <1>3 DEF V!MarkStored
  <2>5. mark' \in RunMarks /\ mark' # V!NoMark /\ \A f \in DOMAIN mark \ {"stage"} : mark'[f] = mark[f]
    BY <1>1, <2>4 DEF RunMarks
  <2>6. /\ mark'.run = mark.run /\ mark'.of = mark.of /\ mark'.case = mark.case /\ mark'.verdict = mark.verdict
        /\ mark'.snap = mark.snap
    BY <1>1, <2>4 DEF RunMarks
  <2>7. RunType'
    BY <1>2, <2>3, <2>5 DEF RunInv, RunType
  <2>8. RunThere'
    BY <1>1, <1>2, <2>3, RunKinds, RunAssumed DEF RunInv, RunThere
  <2>9. RunStored'
    BY <1>2, <2>3, RunStoredOn
  <2>10. RunMarked'
    <3>1. /\ mark.run = mark.of => \A x \in DOMAIN mark.snap.res : mark.snap.res[x] \in ever'[mark.of][x]
          /\ mark.snap.of = mark.of /\ mark.case \in DOMAIN mark.snap.res
      BY <1>1, <2>3, RunMarkedOn
    <3>2. mark.verdict \in ever'[mark.of][mark.case]
      BY <1>3, <2>1, <2>3
    <3> QED
      BY <1>3, <2>6, <3>1, <3>2 DEF RunMarked, RunHad
  <2> QED
    BY <2>3, <2>7, <2>8, <2>9, <2>10 DEF RunInv
<1>4. CASE mark.run # mark.of
  <2>1. mark' = [mark EXCEPT !.stage = "refused"] /\ UNCHANGED <<server, ws, ever>>
    BY <1>4 DEF V!MarkStored
  <2>2. /\ mark' \in RunMarks /\ mark'.run = mark.run /\ mark'.of = mark.of /\ mark'.case = mark.case
        /\ mark'.snap = mark.snap /\ mark'.stage = "refused"
    BY <1>1, <2>1 DEF RunMarks
  <2>3. RunType'
    BY <1>2, <2>1, <2>2 DEF RunInv, RunType
  <2>4. RunThere' /\ RunSocket'
    BY <1>1, <1>2, <2>1 DEF RunInv, RunThere, RunSocket, RunTold
  <2>5. RunStored'
    BY <1>2, <2>1 DEF RunInv, RunStored, RunHad
  <2>6. RunMarked'
    BY <1>1, <1>4, <2>1, <2>2 DEF RunInv, RunMarked, RunHad
  <2> QED
    BY <2>3, <2>4, <2>5, <2>6 DEF RunInv
<1> QED
  BY <1>3, <1>4

LEMMA RunMarkAnswered == ASSUME RunInv, V!MarkAnswered PROVE RunInv'
<1> DEFINE snap == V!MarkShown(mark)
           now == [live EXCEPT !.status = IF V!Complete(snap.res) THEN V!Verdict(snap.res) ELSE "running",
                               !.tally = V!Tally(snap.res)]
<1>1. /\ mark # V!NoMark /\ mark \in RunMarks /\ mark.stage = "ok" /\ live # V!NoRun /\ live \in RunHeads
      /\ mark.snap \in RunLists /\ mark.snap.res \in RunResults /\ mark.case \in Cases /\ mark.verdict \in V!Result
      /\ mark.of \in Runs /\ mark.at \in 1..Cardinality(Cases)
  BY RunKinds DEF V!MarkAnswered, RunMarks, RunLists, V!Result
<1>2. /\ live' = now /\ ws' = IF live.id = now.id /\ live.status = now.status THEN ws
              ELSE IF now.status = "running" THEN [st |-> "asking", run |-> now.id, q |-> << >>]
              ELSE [st |-> "off", run |-> "none", q |-> << >>]
      /\ list' = snap /\ idx' = V!Advance(snap.res, mark.at) /\ mark' = V!NoMark
  BY DEF V!MarkAnswered, V!Show, V!Socket, V!Recomputed
<1>3. UNCHANGED <<server, url, loading, loads, edits, retest, ever, used>>
  BY DEF V!MarkAnswered
<1>4. /\ snap \in RunLists /\ snap.of = mark.snap.of /\ DOMAIN snap.res = DOMAIN mark.snap.res /\ snap.res \in RunResults
      /\ \A c \in DOMAIN snap.res : snap.res[c] = IF c = mark.case THEN mark.verdict ELSE mark.snap.res[c]
  <2>1. [mark.snap.res EXCEPT ![mark.case] = mark.verdict] \in RunResults
    BY <1>1, RunResultsAre
  <2>2. snap = [of |-> mark.snap.of, res |-> [mark.snap.res EXCEPT ![mark.case] = mark.verdict]]
    BY <1>1 DEF V!MarkShown, RunLists
  <2> HIDE DEF snap
  <2>3. snap \in RunLists
    BY <1>1, <2>1, <2>2 DEF RunLists
  <2>4. snap.of = mark.snap.of /\ snap.res = [mark.snap.res EXCEPT ![mark.case] = mark.verdict]
    BY <2>2
  <2> QED
    BY <2>1, <2>3, <2>4
<1> HIDE DEF snap
<1>5. now \in RunHeads /\ now.id = live.id
  <2>1. V!Verdict(snap.res) \in V!Status /\ "running" \in V!Status
    BY DEF V!Verdict, V!Status, V!Final
  <2>2. V!Tally(snap.res) \in RunTallies
    BY <1>4, RunTallied
  <2>3. (IF V!Complete(snap.res) THEN V!Verdict(snap.res) ELSE "running") \in V!Status
    BY <2>1
  <2> QED
    BY <1>1, <2>2, <2>3 DEF RunHeads
<1> HIDE DEF now
<1>6. live' \in RunHeads /\ live' # V!NoRun /\ ws' \in RunSockets /\ RunSocket'
  BY <1>2, <1>3, <1>5, RunShown
<1>7. RunType'
  <2>1. idx' \in 1..Cardinality(Cases)
    BY <1>1, <1>2, <1>4, RunPlaces DEF RunInv, RunType
  <2> QED
    BY <1>2, <1>3, <1>4, <1>6, <2>1 DEF RunInv, RunType
<1>8. RunThere'
  <2>1. list'.of \in Runs /\ list'.of # "none"
    BY <1>1, <1>2, <1>4, RunAssumed DEF RunInv, RunMarked
  <2>2. server'[live'.id].status # "absent"
    BY <1>1, <1>2, <1>3, <1>5 DEF RunInv, RunThere
  <2> QED
    BY <1>2, <1>3, <1>6, <2>1, <2>2 DEF RunInv, RunThere
<1>9. RunStored'
  <2>1. \A c \in DOMAIN list'.res : list'.res[c] \in ever[list'.of][c]
    <3>1. /\ mark.snap.of = mark.of /\ RunHad(mark.of, mark.snap.res) /\ mark.verdict \in ever[mark.of][mark.case]
      BY <1>1 DEF RunInv, RunMarked
    <3>2. snap.of = mark.of
      BY <1>4, <3>1
    <3> QED
      BY <1>2, <1>4, <3>1, <3>2 DEF RunHad
  <2> QED
    BY <1>2, <1>3, <2>1 DEF RunInv, RunStored, RunHad
<1>10. RunMarked'
  BY <1>2 DEF RunMarked
<1> QED
  BY <1>6, <1>7, <1>8, <1>9, <1>10 DEF RunInv

LEMMA RunMarkFailed == ASSUME RunInv, V!MarkFailed PROVE RunInv'
<1>1. RunType'
  BY DEF RunInv, RunType, RunLoads, RunSockets, RunMarks, RunEdits, RunUsed, V!MarkFailed, V!Spend
<1>2. RunThere'
  BY DEF RunInv, RunType, RunThere, RunLoads, RunEdits, V!MarkFailed, V!Spend
<1>3. RunSocket'
  BY DEF RunInv, RunThere, RunSocket, RunTold, V!MarkFailed, V!Spend
<1>4. RunStored'
  BY DEF RunInv, RunStored, RunHad, V!MarkFailed, V!Spend
<1>5. RunMarked'
  BY DEF RunInv, RunMarked, RunHad, V!MarkFailed, V!Spend
<1> QED
  BY <1>1, <1>2, <1>3, <1>4, <1>5 DEF RunInv

LEMMA RunEditStored == ASSUME RunInv, NEW e \in edits, V!EditStored(e) PROVE RunInv'
<1>1. e \in RunEdits /\ e.run \in Runs /\ e.to \in V!Status /\ e.to # "absent"
  BY RunKinds
<1>2. server' = [server EXCEPT ![e.run].status = e.to] /\ edits' = (edits \ {e}) \cup {[e EXCEPT !.stage = "ok"]}
  BY DEF V!EditStored
<1>3. UNCHANGED <<url, loading, live, list, idx, loads, ws, mark, retest, ever, used>>
  BY DEF V!EditStored
<1>4. edits' \subseteq RunEdits
  BY <1>1, <1>2 DEF RunInv, RunType, RunEdits
<1>5. /\ server' \in [Runs -> RunRows] /\ \A r \in Runs : server'[r].res = server[r].res
      /\ \A r \in Runs : server'[r].status = IF r = e.run THEN e.to ELSE server[r].status
  BY <1>1, <1>2 DEF RunInv, RunType, RunRows
<1>6. RunType'
  BY <1>3, <1>4, <1>5 DEF RunInv, RunType
<1>7. RunThere'
  BY <1>1, <1>3, <1>5, RunKinds, RunAssumed DEF RunInv, RunThere
<1>8. RunSocket'
  BY <1>3 DEF RunInv, RunSocket, RunTold
<1>9. RunStored'
  BY <1>3, <1>5 DEF RunInv, RunStored, RunHad
<1>10. RunMarked'
  BY <1>3 DEF RunInv, RunMarked, RunHad
<1> QED
  BY <1>6, <1>7, <1>8, <1>9, <1>10 DEF RunInv

LEMMA RunEditAnswered == ASSUME RunInv, NEW e \in edits, V!EditAnswered(e) PROVE RunInv'
<1> DEFINE now == [live EXCEPT !.status = e.to]
<1>1. e.to \in V!Status /\ live # V!NoRun /\ live \in RunHeads
  BY RunKinds
<1>2. /\ live' = now /\ ws' = IF live.id = now.id /\ live.status = now.status THEN ws
              ELSE IF now.status = "running" THEN [st |-> "asking", run |-> now.id, q |-> << >>]
              ELSE [st |-> "off", run |-> "none", q |-> << >>]
      /\ edits' = edits \ {e}
  BY DEF V!EditAnswered, V!Show, V!Socket
<1>3. UNCHANGED <<server, url, loading, list, idx, loads, mark, retest, ever, used>>
  BY DEF V!EditAnswered
<1>4. now \in RunHeads /\ now.id = live.id
  BY <1>1 DEF RunHeads
<1> HIDE DEF now
<1>6. live' \in RunHeads /\ live' # V!NoRun /\ ws' \in RunSockets /\ RunSocket'
  BY <1>2, <1>3, <1>4, RunShown
<1>7. RunType'
  BY <1>2, <1>3, <1>6 DEF RunInv, RunType
<1>8. RunThere'
  BY <1>1, <1>2, <1>3, <1>4, <1>6 DEF RunInv, RunThere
<1>9. RunStored'
  BY <1>1, <1>2, <1>3, <1>4 DEF RunInv, RunStored, RunHad
<1>10. RunMarked'
  BY <1>3 DEF RunInv, RunMarked, RunHad
<1> QED
  BY <1>6, <1>7, <1>8, <1>9, <1>10 DEF RunInv

LEMMA RunEditFailed == ASSUME RunInv, NEW e \in edits, V!EditFailed(e) PROVE RunInv'
<1>1. RunType'
  BY DEF RunInv, RunType, RunLoads, RunSockets, RunMarks, RunEdits, RunUsed, V!EditFailed, V!Spend
<1>2. RunThere'
  BY DEF RunInv, RunType, RunThere, RunLoads, RunEdits, V!EditFailed, V!Spend
<1>3. RunSocket'
  BY DEF RunInv, RunThere, RunSocket, RunTold, V!EditFailed, V!Spend
<1>4. RunStored'
  BY DEF RunInv, RunStored, RunHad, V!EditFailed, V!Spend
<1>5. RunMarked'
  BY DEF RunInv, RunMarked, RunHad, V!EditFailed, V!Spend
<1> QED
  BY <1>1, <1>2, <1>3, <1>4, <1>5 DEF RunInv

LEMMA RunRetested == ASSUME RunInv, NEW r \in Runs, V!Retested(r) PROVE RunInv'
<1> DEFINE failing == V!Failures(server[retest].res)
           fresh == [c \in failing |-> "pending"]
<1>1. /\ retest \in Runs /\ server[r].status = "absent"
      /\ server' = [server EXCEPT ![r] = [status |-> "running", res |-> fresh]] /\ retest' = "done"
      /\ url' = r /\ loading' = TRUE /\ loads' = loads \cup {[n |-> used["moves"] + 1, run |-> r, got |-> V!NoMark]}
      /\ used' = [used EXCEPT !["moves"] = @ + 1]
  BY DEF V!Retested, V!GoTo, V!Spend
<1>2. UNCHANGED <<live, list, idx, ws, mark, edits, ever>>
  BY DEF V!Retested
<1>3. fresh \in RunResults /\ failing \subseteq Cases
  <2>1. failing \subseteq Cases
    BY <1>1, RunKinds, RunResultsAre DEF V!Failures
  <2> QED
    BY <2>1, RunMakes
<1>4. DOMAIN fresh = failing /\ \A c \in failing : fresh[c] = "pending"
  OBVIOUS
<1> HIDE DEF fresh, failing
<1>5. /\ server' \in [Runs -> RunRows]
      /\ \A x \in Runs : server'[x] = IF x = r THEN [status |-> "running", res |-> fresh] ELSE server[x]
  BY <1>1, <1>3, RunKinds DEF RunInv, RunType, RunRows
<1>6. used' \in [RunUsed -> Nat] /\ loads' \subseteq RunLoads
  BY <1>1 DEF RunInv, RunType, RunUsed, RunLoads
<1>7. RunType'
  BY <1>1, <1>2, <1>5, <1>6 DEF RunInv, RunType
<1>8. RunThere'
  <2>1. \A x \in Runs : server[x].status # "absent" => server'[x].status # "absent"
    BY <1>5
  <2>2. \A l \in loads' : server'[l.run].status # "absent"
    BY <1>1, <1>5, <2>1, RunKinds
  <2> QED
    BY <1>2, <2>1, <2>2, RunKinds, RunAssumed DEF RunInv, RunThere
<1>9. RunSocket' /\ RunMarked'
  BY <1>2 DEF RunInv, RunSocket, RunTold, RunMarked, RunHad
<1>10. RunStored'
  <2>1. ASSUME NEW x \in Runs
        PROVE  \A c \in DOMAIN server'[x].res : server'[x].res[c] \in ever[x][c]
    BY <1>3, <1>4, <1>5 DEF RunInv, RunStored, RunHad
  <2>2. \A l \in loads' : l.got # V!NoMark => l \in loads
    BY <1>1
  <2> QED
    BY <1>2, <2>1, <2>2 DEF RunInv, RunStored, RunHad
<1> QED
  BY <1>7, <1>8, <1>9, <1>10 DEF RunInv

LEMMA RunRetestFailed == ASSUME RunInv, V!RetestFailed PROVE RunInv'
<1>1. RunType'
  BY DEF RunInv, RunType, RunLoads, RunSockets, RunMarks, RunEdits, RunUsed, V!RetestFailed,
     V!Spend
<1>2. RunThere'
  BY DEF RunInv, RunType, RunThere, RunLoads, RunEdits, V!RetestFailed, V!Spend
<1>3. RunSocket'
  BY DEF RunInv, RunThere, RunSocket, RunTold, V!RetestFailed, V!Spend
<1>4. RunStored'
  BY DEF RunInv, RunStored, RunHad, V!RetestFailed, V!Spend
<1>5. RunMarked'
  BY DEF RunInv, RunMarked, RunHad, V!RetestFailed, V!Spend
<1> QED
  BY <1>1, <1>2, <1>3, <1>4, <1>5 DEF RunInv

LEMMA RunStep == RunInv /\ V!Next => RunInv'
  BY RunMove, RunSelect, RunMark, RunEdit, RunRetest, RunOtherMarks, RunLoadServed,
     RunLoadAnswered,
     RunLoadFailed, RunWsOpen, RunWsMessage, RunWsLost, RunMarkStored, RunMarkAnswered, RunMarkFailed,
     RunEditStored, RunEditAnswered, RunEditFailed, RunRetested, RunRetestFailed
  DEF V!Next, V!User, V!Others, V!Answers, V!Faults

LEMMA RunStart == V!Init => RunInv
<1> SUFFICES ASSUME V!Init PROVE RunInv
  OBVIOUS
<1>1. First \in Runs /\ Listed \subseteq Runs /\ Cases \subseteq Cases /\ {} \subseteq Cases
  BY RunAssumed
<1>2. ASSUME NEW r \in Runs
      PROVE  /\ server[r] \in RunRows /\ (r \in Listed => server[r].status # "absent")
             /\ \A c \in DOMAIN server[r].res : server[r].res[c] = "pending" /\ c \in Cases
  <2> DEFINE cs == IF r \in Listed THEN Cases ELSE {}
  <2>1. cs \subseteq Cases
    OBVIOUS
  <2>2. server[r] = [status |-> IF r \in Listed THEN "running" ELSE "absent", res |-> [c \in cs |-> "pending"]]
    BY DEF V!Init
  <2>3. (IF r \in Listed THEN "running" ELSE "absent") \in V!Status \cup {"absent"}
    BY DEF V!Status
  <2> HIDE DEF cs
  <2>4. [c \in cs |-> "pending"] \in RunResults
    BY <2>1, RunMakes
  <2> QED
    BY <2>1, <2>2, <2>3, <2>4 DEF RunRows
<1>3. /\ server \in [Runs -> RunRows]
      /\ \A r \in Runs : \A c \in DOMAIN server[r].res : server[r].res[c] = "pending" /\ c \in Cases
  BY <1>2 DEF V!Init
<1>4. /\ url = First /\ loading = TRUE /\ live = V!NoRun /\ list = [of |-> "none", res |-> << >>] /\ idx = 1
      /\ loads = {[n |-> 0, run |-> First, got |-> V!NoMark]}
      /\ ws = V!Off /\ mark = V!NoMark /\ edits = {} /\ retest = "none"
      /\ ever = [r \in Runs |-> [c \in Cases |-> {"pending"}]]
      /\ used = [k \in RunUsed |-> 0]
  BY DEF V!Init, RunUsed
<1>5. list \in RunLists /\ list.of = "none" /\ DOMAIN list.res = {}
  BY <1>4, RunEmpty DEF RunLists
<1>6. loads \subseteq RunLoads /\ \A l \in loads : l.run = First /\ l.got = V!NoMark
  BY <1>1, <1>4 DEF RunLoads
<1>7. ws \in RunSockets /\ ws.st = "off" /\ ws.q = << >>
  BY <1>4 DEF RunSockets
<1>8. ever \in [Runs -> [Cases -> SUBSET V!Result]] /\ \A r \in Runs, c \in Cases : ever[r][c] = {"pending"}
  BY <1>4 DEF V!Result
<1>9. used \in [RunUsed -> Nat] /\ idx \in 1..Cardinality(Cases)
  BY <1>4, RunCases
<1>10. RunType
  BY <1>1, <1>3, <1>4, <1>5, <1>6, <1>7, <1>8, <1>9 DEF RunType
<1>11. RunThere
  BY <1>1, <1>2, <1>4, <1>5, <1>6, RunAssumed DEF RunThere
<1>12. RunSocket /\ RunMarked
  BY <1>4, <1>7 DEF RunSocket, RunMarked
<1>13. RunStored
  BY <1>3, <1>4, <1>6, <1>8 DEF RunStored, RunHad
<1> QED
  BY <1>10, <1>11, <1>12, <1>13 DEF RunInv

\* No result is shown under a run that the server has not had for it, for any runs,
\* any marks of this and other testers and any order of answers, events and
\* faults (frontend/views/view-runs.jsx).
THEOREM RunShowsWhatWasStored == ClientSpec => []ShowsOnlyStored
<1>1. ClientInit => (part = "run" => RunInv)
  BY RunStart DEF ClientInit
<1>2. (part = "run" => RunInv) /\ [ClientNext]_cells => (part = "run" => RunInv)'
  <2> SUFFICES ASSUME part = "run" => RunInv, [ClientNext]_cells, part' = "run"
               PROVE RunInv'
    OBVIOUS
  <2>1. CASE V!Next /\ part = "run"
    BY <2>1, RunStep
  <2>2. CASE UNCHANGED cells
    <3>1. UNCHANGED V!vars
      BY <2>2 DEF cells, V!vars, server, url, loading, live, list, idx, loads, ws, mark, edits,
         retest, ever, used
    <3> QED
      BY <2>2, <3>1, RunStays DEF cells
  <2> QED
    BY <2>1, <2>2 DEF ClientNext, Kept6, Kept7, Kept9, Kept11, Kept13, Kept14, Kept15
<1>3. (part = "run" => RunInv) => ShowsOnlyStored
  <2> SUFFICES ASSUME RunInv, part = "run" PROVE V!TypeOK /\ V!ShowsOnlyStored
    BY DEF ShowsOnlyStored
  <2>1. V!TypeOK
    <3>1. ASSUME NEW r \in Runs
          PROVE  /\ server[r].status \in V!Status \cup {"absent"} /\ DOMAIN server[r].res \subseteq Cases
                 /\ \A c \in DOMAIN server[r].res : server[r].res[c] \in V!Result
      BY RunKinds, RunResultsAre
    <3>2. live = V!NoRun \/ (live.id \in Runs /\ live.status \in V!Status)
      BY RunKinds
    <3>3. idx \in 1..V!Cardinality(Cases) /\ list.of \in Runs \cup {"none"}
      BY RunCount, RunKinds DEF RunInv, RunType
    <3>4. ws.st \in {"off", "asking", "open"} /\ (ws.st # "open" => ws.q = << >>)
      BY DEF RunInv, RunType, RunSockets, RunSocket
    <3>5. mark.stage \in {"none", "sent", "ok", "refused"}
      <4>1. mark # V!NoMark => mark.stage \in {"sent", "ok", "refused"}
        BY RunKinds DEF RunMarks
      <4>2. mark = V!NoMark => mark.stage = "none"
        OBVIOUS
      <4> QED
        BY <4>1, <4>2
    <3> QED
      BY <3>1, <3>2, <3>3, <3>4, <3>5 DEF RunInv, RunType, V!TypeOK
  <2>2. V!ShowsOnlyStored
    <3>1. list.of \in Runs => live # V!NoRun
      BY RunKinds, RunAssumed
    <3> QED
      BY <3>1 DEF RunInv, RunStored, RunHad, V!ShowsOnlyStored
  <2> QED
    BY <2>1, <2>2
<1> QED
  BY <1>1, <1>2, <1>3, PTL DEF ClientSpec
=============================================================================
