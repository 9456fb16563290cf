--------------------------- MODULE RunSocketsProofs ---------------------------
(***************************************************************************)
(* Proofs about RunSockets for every set of processes, viewers, requests   *)
(* and messages and any number of faults.                                  *)
(***************************************************************************)
EXTENDS RunSockets, ListProofs, FiniteSetTheorems, SequenceTheorems, TLAPS

-----------------------------------------------------------------------------
(* The shape of the state: the types, but for the sign of the gauge.        *)

Carriers == Requests \cup Procs

LEMMA ProcOfType == \A k \in Carriers : ProcOf(k) \in Procs
BY AtAssumption DEF ProcOf, Carriers

ShapeOK ==
  /\ sock \in [Sockets -> {"new", "open", "lost", "closed"}]
  /\ conns \in [Procs -> Seq(Seq(Sockets))]
  /\ reg = [p \in Procs |-> reg[p]]
  /\ \A p \in Procs : reg[p] \in 0 .. Len(conns[p])
  /\ task \in [Carriers -> Tasks]
  /\ \A k \in Carriers : task[k].list \in 0 .. Len(conns[ProcOf(k)])
  /\ sent \in [Requests -> Nat]
  /\ \A h \in Requests : sent[h] \in 0 .. MaxMessages[h]
  /\ queue \in [Procs -> Seq(Messages)]
  /\ gauge \in [Procs -> Int]
  /\ got \in [Sockets -> Seq(Messages)]
  /\ faults \in 0 .. MaxFaults

(* A list object that is replaced in place.                                 *)
Replaced(p, l, new) == conns' = [conns EXCEPT ![p][l] = new]

LEMMA ListReplaced ==
  ASSUME ShapeOK, NEW p \in Procs, NEW l \in 1 .. Len(conns[p]),
         NEW new \in Seq(Sockets), Replaced(p, l, new)
  PROVE  /\ conns' \in [Procs -> Seq(Seq(Sockets))]
         /\ \A q \in Procs : Len(conns'[q]) = Len(conns[q])
         /\ conns'[p][l] = new
         /\ \A q \in Procs : \A m \in 1 .. Len(conns[q]) :
              q # p \/ m # l => conns'[q][m] = conns[q][m]
<1> DEFINE c == [conns[p] EXCEPT ![l] = new]
<1>1. conns[p] \in Seq(Seq(Sockets))
  BY DEF ShapeOK
<1>2. /\ c \in Seq(Seq(Sockets)) /\ Len(c) = Len(conns[p]) /\ c[l] = new
      /\ \A m \in 1 .. Len(conns[p]) : m # l => c[m] = conns[p][m]
  BY <1>1, ExceptSeq
<1>3. conns' = [conns EXCEPT ![p] = c]
  BY DEF Replaced
<1>4. conns \in [Procs -> Seq(Seq(Sockets))]
  BY DEF ShapeOK
<1> HIDE DEF c
<1>5. /\ conns' \in [Procs -> Seq(Seq(Sockets))]
      /\ conns'[p] = c
      /\ \A q \in Procs : q # p => conns'[q] = conns[q]
  BY <1>2, <1>3, <1>4
<1>6. \A q \in Procs : Len(conns'[q]) = Len(conns[q])
  BY <1>2, <1>5
<1>7. ASSUME NEW q \in Procs, NEW m \in 1 .. Len(conns[q]), q # p \/ m # l
      PROVE  conns'[q][m] = conns[q][m]
  BY <1>2, <1>5, <1>7
<1> QED
  BY <1>2, <1>5, <1>6, <1>7

(* The lists hold sockets, and a process never has fewer list objects.      *)
LEMMA ListType ==
  ASSUME ShapeOK, NEW p \in Procs, NEW l \in 1 .. Len(conns[p])
  PROVE  /\ conns[p][l] \in Seq(Sockets) /\ Len(conns[p][l]) \in Nat
         /\ \A i \in 1 .. Len(conns[p][l]) : conns[p][l][i] \in Sockets
<1>1. conns[p] \in Seq(Seq(Sockets))
  BY DEF ShapeOK
<1>2. conns[p][l] \in Seq(Sockets)
  BY <1>1, ElementOfSeq
<1> QED
  BY <1>2, ElementOfSeq, LenProperties

(* The lists the parties look at.                                           *)
LEMMA Lists ==
  ASSUME ShapeOK
  PROVE  /\ \A p \in Procs : Registered(p) \in Seq(Sockets)
         /\ \A k \in Carriers : List(k) \in Seq(Sockets)
<1>1. <<>> \in Seq(Sockets)
  BY EmptySeq
<1>2. ASSUME NEW p \in Procs PROVE Registered(p) \in Seq(Sockets)
  BY <1>1, ListType DEF Registered, ShapeOK
<1>3. ASSUME NEW k \in Carriers PROVE List(k) \in Seq(Sockets)
  <2>1. ProcOf(k) \in Procs /\ task[k].list \in 0 .. Len(conns[ProcOf(k)])
    BY ProcOfType DEF ShapeOK
  <2>2. CASE task[k].list = 0
    BY <1>1, <2>2 DEF List
  <2>3. CASE task[k].list # 0
    <3>1. conns[ProcOf(k)] \in Seq(Seq(Sockets))
      BY <2>1 DEF ShapeOK
    <3>2. Len(conns[ProcOf(k)]) \in Nat
      BY <3>1, LenProperties
    <3>3. task[k].list \in 1 .. Len(conns[ProcOf(k)])
      BY <2>1, <2>3, <3>2
    <3> QED
      BY <2>1, <2>3, <3>3, ListType DEF List
  <2> QED
    BY <2>2, <2>3
<1> QED
  BY <1>2, <1>3

(* What connecting does to the lists: a list of one is added, or the        *)
(* registered list gets one more.                                           *)
LEMMA ConnectEffect ==
  ASSUME ShapeOK, NEW s \in Sockets, Connect(s)
  PROVE  LET p == Home[s] IN
         /\ p \in Procs
         /\ conns' \in [Procs -> Seq(Seq(Sockets))]
         /\ \A q \in Procs \ {p} : conns'[q] = conns[q]
         /\ \/ /\ Len(conns'[p]) = Len(conns[p]) + 1
               /\ reg'[p] = Len(conns[p]) + 1
               /\ conns'[p][Len(conns[p]) + 1] = <<s>>
               /\ \A l \in 1 .. Len(conns[p]) : conns'[p][l] = conns[p][l]
            \/ /\ reg[p] \in 1 .. Len(conns[p]) /\ reg'[p] = reg[p]
               /\ Len(conns'[p]) = Len(conns[p])
               /\ conns'[p][reg[p]] = Append(conns[p][reg[p]], s)
               /\ \A l \in 1 .. Len(conns[p]) :
                    l # reg[p] => conns'[p][l] = conns[p][l]
<1> DEFINE p == Home[s]
<1>0. p \in Procs /\ conns[p] \in Seq(Seq(Sockets)) /\ Len(conns[p]) \in Nat
  BY HomeAssumption DEF ShapeOK
<1>1. CASE reg[p] = 0
  <2> DEFINE c == Append(conns[p], <<s>>)
  <2>1. <<s>> \in Seq(Sockets)
    OBVIOUS
  <2>2. /\ c \in Seq(Seq(Sockets)) /\ Len(c) = Len(conns[p]) + 1
        /\ c[Len(conns[p]) + 1] = <<s>>
        /\ \A l \in 1 .. Len(conns[p]) : c[l] = conns[p][l]
    BY <1>0, <2>1, AppendProperties
  <2>3. conns' = [conns EXCEPT ![p] = c]
    BY <1>1 DEF Connect
  <2>4. reg'[p] = Len(conns[p]) + 1
    BY <1>0, <1>1 DEF Connect, ShapeOK
  <2> HIDE DEF c, p
  <2>5. /\ conns' \in [Procs -> Seq(Seq(Sockets))]
        /\ conns'[p] = c
        /\ \A q \in Procs \ {p} : conns'[q] = conns[q]
    BY <1>0, <2>2, <2>3 DEF ShapeOK
  <2> QED
    BY <1>0, <2>2, <2>4, <2>5 DEF p
<1>2. CASE reg[p] # 0
  <2>1. reg[p] \in 1 .. Len(conns[p])
    BY <1>0, <1>2 DEF ShapeOK
  <2> DEFINE new == Append(conns[p][reg[p]], s)
  <2>2. new \in Seq(Sockets)
    BY <1>0, <2>1, ListType, AppendProperties
  <2>3. /\ conns' = [conns EXCEPT ![p][reg[p]] = new] /\ reg' = reg
        /\ Replaced(p, reg[p], new)
    BY <1>2 DEF Connect, Replaced
  <2> HIDE DEF new, p
  <2>4. /\ conns' \in [Procs -> Seq(Seq(Sockets))]
        /\ \A q \in Procs : Len(conns'[q]) = Len(conns[q])
        /\ conns'[p][reg[p]] = new
        /\ \A q \in Procs : \A m \in 1 .. Len(conns[q]) :
             q # p \/ m # reg[p] => conns'[q][m] = conns[q][m]
    BY <1>0, <2>1, <2>2, <2>3, ListReplaced
  <2>5. conns \in [Procs -> Seq(Seq(Sockets))]
    BY DEF ShapeOK
  <2>6. \A q \in Procs \ {p} : conns'[q] = conns[q]
    BY <2>3, <2>5
  <2> QED
    BY <1>0, <2>1, <2>3, <2>4, <2>6 DEF p, new
<1> QED
  BY <1>1, <1>2

(* A removal from a list object, and what it takes off the gauge.           *)
Shrunk(p, l, gone) ==
  /\ Replaced(p, l, Without(conns[p][l], gone))
  /\ gauge' = [gauge EXCEPT ![p] = @ - Cardinality(gone)]
  /\ \A s \in gone : Contains(conns[p][l], s) /\ sock[s] \notin {"new", "open"}

(* Whoever has been found dead is not connected any more.                   *)
DeadOK ==
  \A k \in Carriers : \A i \in 1 .. Len(task[k].dead) :
     sock[task[k].dead[i]] \notin {"new", "open"}

LEMMA TaskFields ==
  ASSUME ShapeOK, NEW k \in Carriers
  PROVE  /\ task[k] \in Tasks
         /\ task[k].pc \in {"idle", "local", "publish", "failed"}
         /\ task[k].list \in Nat
         /\ task[k].at \in Nat /\ task[k].at >= 1
         /\ task[k].dead \in Seq(Sockets) /\ Len(task[k].dead) \in Nat
         /\ \A i \in 1 .. Len(task[k].dead) : task[k].dead[i] \in Sockets
         /\ task[k].msg \in Messages \cup {Nothing}
         /\ task[k].audience \in SUBSET Sockets
<1>1. task[k] \in Tasks
  BY DEF ShapeOK
<1>2. /\ task[k].pc \in {"idle", "local", "publish", "failed"}
      /\ task[k].list \in Nat
      /\ task[k].at \in Nat /\ task[k].at >= 1
      /\ task[k].dead \in Seq(Sockets)
      /\ task[k].msg \in Messages \cup {Nothing}
      /\ task[k].audience \in SUBSET Sockets
  BY <1>1 DEF Tasks
<1> QED
  BY <1>1, <1>2, ElementOfSeq, LenProperties

LEMMA RemovedListed ==
  ASSUME ShapeOK, NEW k \in Carriers
  PROVE  /\ Removed(k) \in SUBSET Sockets
         /\ \A s \in Removed(k) :
              /\ Contains(List(k), s)
              /\ \E i \in 1 .. Len(task[k].dead) : s = task[k].dead[i]
<1>1. Len(task[k].dead) \in Nat
      /\ \A i \in 1 .. Len(task[k].dead) : task[k].dead[i] \in Sockets
  BY TaskFields
<1>2. ASSUME NEW s \in Removed(k)
      PROVE  /\ s \in Sockets /\ Contains(List(k), s)
             /\ \E i \in 1 .. Len(task[k].dead) : s = task[k].dead[i]
  <2>1. PICK i \in 1 .. Len(task[k].dead) :
           s = task[k].dead[i] /\ \A n \in 1 .. i : Contains(List(k), task[k].dead[n])
    BY DEF Removed
  <2>2. i \in 1 .. i
    BY <1>1
  <2> QED
    BY <1>1, <2>1, <2>2
<1> QED
  BY <1>2

LEMMA DisconnectEffect ==
  ASSUME ShapeOK, NEW s \in Sockets, Disconnect(s)
  PROVE  \/ UNCHANGED <<conns, gauge>>
         \/ /\ reg[Home[s]] \in 1 .. Len(conns[Home[s]])
            /\ Shrunk(Home[s], reg[Home[s]], {s})
<1> DEFINE p == Home[s]
<1>0. p \in Procs /\ conns[p] \in Seq(Seq(Sockets)) /\ Len(conns[p]) \in Nat
      /\ gauge \in [Procs -> Int]
  BY HomeAssumption DEF ShapeOK
<1>1. CASE ~ Contains(Registered(p), s)
  <2>1. conns' = conns /\ gauge' = [gauge EXCEPT ![p] = @]
    BY <1>1 DEF Disconnect
  <2> QED
    BY <1>0, <2>1
<1>2. CASE Contains(Registered(p), s)
  <2>1. reg[p] # 0
    BY <1>2 DEF Registered, Contains
  <2>2. reg[p] \in 1 .. Len(conns[p])
    BY <1>0, <2>1 DEF ShapeOK
  <2>3. Contains(conns[p][reg[p]], s)
    BY <1>2, <2>1 DEF Registered
  <2>4. Cardinality({s}) = 1
    BY FS_Singleton
  <2>5. Replaced(p, reg[p], Without(conns[p][reg[p]], {s}))
    BY <1>2 DEF Disconnect, Replaced
  <2>6. gauge' = [gauge EXCEPT ![p] = gauge[p] - 1]
    BY <1>2 DEF Disconnect
  <2>7. sock[s] = "lost"
    BY DEF Disconnect
  <2> QED
    BY <2>2, <2>3, <2>4, <2>5, <2>6, <2>7 DEF Shrunk
<1> QED
  BY <1>1, <1>2

LEMMA PruneEffect ==
  ASSUME ShapeOK, DeadOK, NEW k \in Carriers, Prune(k)
  PROVE  \/ UNCHANGED <<conns, gauge>>
         \/ /\ task[k].list \in 1 .. Len(conns[ProcOf(k)])
            /\ Shrunk(ProcOf(k), task[k].list, Removed(k))
<1> DEFINE p == ProcOf(k)
           l == task[k].list
<1>0. /\ p \in Procs /\ conns[p] \in Seq(Seq(Sockets)) /\ Len(conns[p]) \in Nat
      /\ gauge \in [Procs -> Int]
      /\ l \in 0 .. Len(conns[p])
  BY ProcOfType DEF ShapeOK
<1>1. gauge' = [gauge EXCEPT ![p] = gauge[p] - Cardinality(Removed(k))]
  BY DEF Prune
<1>2. CASE l = 0
  <2>1. conns' = conns
    BY <1>2 DEF Prune
  <2>2. List(k) = <<>>
    BY <1>2 DEF List
  <2>3. Removed(k) = {}
    BY <2>2, RemovedListed DEF Contains
  <2>4. Cardinality(Removed(k)) = 0
    BY <2>3, FS_EmptySet
  <2> HIDE DEF p
  <2>5. gauge' = gauge
    BY <1>0, <1>1, <2>4
  <2> QED
    BY <2>1, <2>5
<1>3. CASE l # 0
  <2>1. l \in 1 .. Len(conns[p])
    BY <1>0, <1>3
  <2>2. List(k) = conns[p][l]
    BY <1>3 DEF List
  <2>3. Replaced(p, l, Without(conns[p][l], Removed(k)))
    BY <1>3 DEF Prune, Replaced
  <2>4. \A s \in Removed(k) : Contains(conns[p][l], s) /\ sock[s] \notin {"new", "open"}
    BY <2>2, RemovedListed DEF DeadOK
  <2> QED
    BY <1>1, <2>1, <2>3, <2>4 DEF Shrunk
<1> QED
  BY <1>2, <1>3

(* What a step does to the lists and the gauge.                             *)
LEMMA ListsEffect ==
  ASSUME ShapeOK, DeadOK, Next
  PROVE  \/ UNCHANGED <<conns, gauge>>
         \/ \E s \in Sockets : Connect(s)
         \/ \E p \in Procs : \E l \in 1 .. Len(conns[p]) :
              \E gone \in SUBSET Sockets : Shrunk(p, l, gone)
<1>1. ASSUME NEW s \in Sockets, Lose(s) \/ Break(s)
      PROVE  UNCHANGED <<conns, gauge>>
  BY <1>1 DEF Lose, Break
<1>2. ASSUME NEW s \in Sockets, Disconnect(s)
      PROVE  \/ UNCHANGED <<conns, gauge>>
             \/ \E p \in Procs : \E l \in 1 .. Len(conns[p]) :
                  \E gone \in SUBSET Sockets : Shrunk(p, l, gone)
  <2>1. Home[s] \in Procs /\ {s} \in SUBSET Sockets
    BY HomeAssumption
  <2> QED
    BY <1>2, <2>1, DisconnectEffect
<1>3. ASSUME NEW h \in Requests, Broadcast(h) \/ Publish(h)
      PROVE  UNCHANGED <<conns, gauge>>
  BY <1>3 DEF Broadcast, Publish
<1>4. ASSUME NEW k \in Carriers, Send(k)
      PROVE  UNCHANGED <<conns, gauge>>
  BY <1>4 DEF Send
<1>5. ASSUME NEW k \in Carriers, Prune(k)
      PROVE  \/ UNCHANGED <<conns, gauge>>
             \/ \E p \in Procs : \E l \in 1 .. Len(conns[p]) :
                  \E gone \in SUBSET Sockets : Shrunk(p, l, gone)
  BY <1>5, PruneEffect, RemovedListed, ProcOfType
<1>6. ASSUME NEW p \in Procs, Dispatch(p) \/ Resubscribe(p)
      PROVE  UNCHANGED <<conns, gauge>>
  BY <1>6 DEF Dispatch, Resubscribe
<1> QED
  BY <1>1, <1>2, <1>3, <1>4, <1>5, <1>6 DEF Next, Carriers

LEMMA ConnsStep ==
  ASSUME ShapeOK, DeadOK, Next
  PROVE  /\ conns' \in [Procs -> Seq(Seq(Sockets))]
         /\ \A p \in Procs : Len(conns'[p]) \in Nat /\ Len(conns[p]) \in Nat
                             /\ Len(conns[p]) <= Len(conns'[p])
         /\ gauge' \in [Procs -> Int]
<1>0. /\ conns \in [Procs -> Seq(Seq(Sockets))] /\ gauge \in [Procs -> Int]
      /\ \A p \in Procs : conns[p] \in Seq(Seq(Sockets)) /\ Len(conns[p]) \in Nat
  BY DEF ShapeOK
<1>1. CASE UNCHANGED <<conns, gauge>>
  BY <1>0, <1>1
<1>2. ASSUME NEW s \in Sockets, Connect(s)
      PROVE  /\ conns' \in [Procs -> Seq(Seq(Sockets))]
             /\ \A p \in Procs : Len(conns[p]) <= Len(conns'[p])
             /\ gauge' \in [Procs -> Int]
  <2> DEFINE p == Home[s]
  <2>1. /\ conns' \in [Procs -> Seq(Seq(Sockets))] /\ p \in Procs
        /\ \A q \in Procs \ {p} : conns'[q] = conns[q]
        /\ (Len(conns'[p]) = Len(conns[p]) + 1 \/ Len(conns'[p]) = Len(conns[p]))
    BY <1>2, ConnectEffect
  <2>2. gauge' = [gauge EXCEPT ![p] = gauge[p] + 1]
    BY <1>2 DEF Connect
  <2> HIDE DEF p
  <2>3. gauge' \in [Procs -> Int]
    <3>1. gauge \in [Procs -> Int] /\ p \in Procs
      BY <1>0, <2>1
    <3> QED
      BY <2>2, <3>1
  <2>4. ASSUME NEW q \in Procs PROVE Len(conns[q]) <= Len(conns'[q])
    <3>1. Len(conns[q]) \in Nat /\ Len(conns[p]) \in Nat
      BY <1>0, <2>1
    <3>2. CASE q = p
      <4>1. Len(conns'[p]) = Len(conns[p]) + 1 \/ Len(conns'[p]) = Len(conns[p])
        BY <2>1
      <4> QED
        BY <3>1, <3>2, <4>1
    <3>3. CASE q # p
      <4>1. conns'[q] = conns[q]
        BY <2>1, <3>3
      <4> QED
        BY <3>1, <4>1
    <3> QED
      BY <3>2, <3>3
  <2> QED
    BY <2>1, <2>3, <2>4
<1>3. ASSUME NEW p \in Procs, NEW l \in 1 .. Len(conns[p]),
             NEW gone \in SUBSET Sockets, Shrunk(p, l, gone)
      PROVE  /\ conns' \in [Procs -> Seq(Seq(Sockets))]
             /\ \A q \in Procs : Len(conns[q]) <= Len(conns'[q])
             /\ gauge' \in [Procs -> Int]
  <2>1. Without(conns[p][l], gone) \in Seq(Sockets)
    BY ListType, WithoutEmbeds
  <2>2. /\ conns' \in [Procs -> Seq(Seq(Sockets))]
        /\ \A q \in Procs : Len(conns'[q]) = Len(conns[q])
    BY <1>3, <2>1, ListReplaced DEF Shrunk
  <2>3. Cardinality(gone) \in Nat
    BY SocketsAssumption, FS_Subset, FS_CardinalityType
  <2>4. gauge' = [gauge EXCEPT ![p] = gauge[p] - Cardinality(gone)]
    BY <1>3 DEF Shrunk
  <2> QED
    BY <1>0, <2>2, <2>3, <2>4
<1>4. /\ conns' \in [Procs -> Seq(Seq(Sockets))]
      /\ \A p \in Procs : Len(conns[p]) <= Len(conns'[p])
      /\ gauge' \in [Procs -> Int]
  BY <1>1, <1>2, <1>3, ListsEffect
<1>5. \A p \in Procs : Len(conns'[p]) \in Nat
  BY <1>4
<1> QED
  BY <1>0, <1>4, <1>5

LEMMA RegStep ==
  ASSUME ShapeOK, DeadOK, Next
  PROVE  /\ reg' = [p \in Procs |-> reg'[p]]
         /\ \A p \in Procs : reg'[p] \in 0 .. Len(conns'[p])
<1>0. /\ reg = [p \in Procs |-> reg[p]]
      /\ \A p \in Procs : reg[p] \in 0 .. Len(conns[p])
      /\ \A p \in Procs : Len(conns'[p]) \in Nat /\ Len(conns[p]) \in Nat
                          /\ Len(conns[p]) <= Len(conns'[p])
  BY ConnsStep DEF ShapeOK
<1>1. \A p \in Procs : reg[p] \in 0 .. Len(conns'[p]) /\ 0 \in 0 .. Len(conns'[p])
  BY <1>0
<1>2. ASSUME NEW s \in Sockets, Connect(s)
      PROVE  /\ reg' = [p \in Procs |-> reg'[p]]
             /\ \A p \in Procs : reg'[p] \in 0 .. Len(conns'[p])
  <2>1. CASE reg[Home[s]] = 0
    <3>1. reg' = [reg EXCEPT ![Home[s]] = Len(conns[Home[s]]) + 1]
      BY <1>2, <2>1 DEF Connect
    <3>2. reg'[Home[s]] \in 0 .. Len(conns'[Home[s]])
      <4>1. /\ Home[s] \in Procs
            /\ Len(conns'[Home[s]]) = Len(conns[Home[s]]) + 1
            /\ reg'[Home[s]] = Len(conns[Home[s]]) + 1
        BY <1>2, <2>1, ConnectEffect
      <4> QED
        BY <1>0, <4>1
    <3>3. \A q \in Procs : q # Home[s] => reg'[q] = reg[q]
      BY <1>0, <3>1
    <3>4. reg' = [p \in Procs |-> reg'[p]]
      BY <1>0, <3>1
    <3> QED
      BY <1>1, <3>2, <3>3, <3>4
  <2>2. CASE reg[Home[s]] # 0
    BY <1>0, <1>1, <1>2, <2>2 DEF Connect
  <2> QED
    BY <2>1, <2>2
<1>3. ASSUME NEW p \in Procs, NEW c, reg' = [reg EXCEPT ![p] = IF c THEN 0 ELSE @]
      PROVE  /\ reg' = [q \in Procs |-> reg'[q]]
             /\ \A q \in Procs : reg'[q] \in 0 .. Len(conns'[q])
  <2>1. \A q \in Procs : reg'[q] = reg[q] \/ reg'[q] = 0
    BY <1>0, <1>3
  <2>2. reg' = [q \in Procs |-> reg'[q]]
    BY <1>0, <1>3
  <2> QED
    BY <1>1, <2>1, <2>2
<1>4. ASSUME NEW s \in Sockets, Disconnect(s)
      PROVE  /\ reg' = [p \in Procs |-> reg'[p]]
             /\ \A p \in Procs : reg'[p] \in 0 .. Len(conns'[p])
  <2>1. reg' = [reg EXCEPT ![Home[s]] =
                  IF Without(Registered(Home[s]), {s}) = <<>> THEN 0 ELSE @]
    BY <1>4 DEF Disconnect
  <2> QED
    BY <1>3, <2>1, HomeAssumption
<1>5. ASSUME NEW k \in Carriers, Prune(k)
      PROVE  /\ reg' = [p \in Procs |-> reg'[p]]
             /\ \A p \in Procs : reg'[p] \in 0 .. Len(conns'[p])
  <2>1. reg' = [reg EXCEPT ![ProcOf(k)] =
          IF ~ Raises(k) /\ Without(List(k), Removed(k)) = <<>> THEN 0 ELSE @]
    BY <1>5 DEF Prune
  <2> QED
    BY <1>3, <2>1, ProcOfType
<1>6. reg' = reg => /\ reg' = [p \in Procs |-> reg'[p]]
                    /\ \A p \in Procs : reg'[p] \in 0 .. Len(conns'[p])
  BY <1>0, <1>1
<1>7. ASSUME NEW s \in Sockets, Lose(s) \/ Break(s) PROVE reg' = reg
  BY <1>7 DEF Lose, Break
<1>8. ASSUME NEW h \in Requests, Broadcast(h) \/ Publish(h) PROVE reg' = reg
  BY <1>8 DEF Broadcast, Publish
<1>9. ASSUME NEW k \in Carriers, Send(k) PROVE reg' = reg
  BY <1>9 DEF Send
<1>10. ASSUME NEW p \in Procs, Dispatch(p) \/ Resubscribe(p) PROVE reg' = reg
  BY <1>10 DEF Dispatch, Resubscribe
<1> QED
  BY <1>2, <1>4, <1>5, <1>6, <1>7, <1>8, <1>9, <1>10 DEF Next, Carriers

(* A socket opens once, and does not come back.                             *)
SockMoves ==
  /\ sock' \in [Sockets -> {"new", "open", "lost", "closed"}]
  /\ \A s \in Sockets :
       /\ sock[s] # "new" => sock'[s] # "new"
       /\ sock[s] \notin {"new", "open"} => sock'[s] \notin {"new", "open"}
       /\ sock'[s] = "open" => sock[s] = "open" \/ Connect(s)

LEMMA SockStep ==
  ASSUME ShapeOK, Next
  PROVE  SockMoves
<1>0. sock \in [Sockets -> {"new", "open", "lost", "closed"}]
  BY DEF ShapeOK
<1>1. sock' = sock => SockMoves
  BY <1>0 DEF SockMoves
<1>2. ASSUME NEW s \in Sockets, Connect(s) PROVE SockMoves
  BY <1>0, <1>2 DEF Connect, SockMoves
<1>3. ASSUME NEW s \in Sockets, NEW new \in {"lost", "closed"}, sock[s] # "new",
             sock' = [sock EXCEPT ![s] = new]
      PROVE  SockMoves
  BY <1>0, <1>3 DEF SockMoves
<1>4. ASSUME NEW s \in Sockets, Lose(s) \/ Disconnect(s) \/ Break(s) PROVE SockMoves
  <2>1. Lose(s) => sock[s] # "new" /\ sock' = [sock EXCEPT ![s] = "lost"]
    BY DEF Lose
  <2>2. Disconnect(s) \/ Break(s) =>
          sock[s] # "new" /\ sock' = [sock EXCEPT ![s] = "closed"]
    BY DEF Disconnect, Break
  <2>3. CASE Lose(s)
    BY <1>3, <2>1, <2>3
  <2>4. CASE Disconnect(s) \/ Break(s)
    BY <1>3, <2>2, <2>4
  <2> QED
    BY <1>4, <2>3, <2>4
<1>5. ASSUME NEW h \in Requests, Broadcast(h) \/ Publish(h) PROVE sock' = sock
  BY <1>5 DEF Broadcast, Publish
<1>6. ASSUME NEW k \in Carriers, Send(k) \/ Prune(k) PROVE sock' = sock
  BY <1>6 DEF Send, Prune
<1>7. ASSUME NEW p \in Procs, Dispatch(p) \/ Resubscribe(p) PROVE sock' = sock
  BY <1>7 DEF Dispatch, Resubscribe
<1> QED
  BY <1>1, <1>2, <1>4, <1>5, <1>6, <1>7 DEF Next, Carriers

(* What is written to a socket, only Send writes.                           *)
Target(k) == List(k)[task[k].at]

Delivers(k) ==
  /\ task[k].pc = "local" /\ task[k].at <= Len(List(k))
  /\ sock[Target(k)] = "open" /\ Target(k) \in Sockets
  /\ got' = [got EXCEPT ![Target(k)] = Append(@, task[k].msg)]

LEMMA GotStep ==
  ASSUME ShapeOK, Next
  PROVE  got' = got \/ \E k \in Carriers : Send(k) /\ Delivers(k)
<1>1. ASSUME NEW s \in Sockets, Connect(s) \/ Lose(s) \/ Disconnect(s) \/ Break(s)
      PROVE  got' = got
  BY <1>1 DEF Connect, Lose, Disconnect, Break
<1>2. ASSUME NEW h \in Requests, Broadcast(h) \/ Publish(h) PROVE got' = got
  BY <1>2 DEF Broadcast, Publish
<1>3. ASSUME NEW k \in Carriers, Prune(k) PROVE got' = got
  BY <1>3 DEF Prune
<1>4. ASSUME NEW p \in Procs, Dispatch(p) \/ Resubscribe(p) PROVE got' = got
  BY <1>4 DEF Dispatch, Resubscribe
<1>5. ASSUME NEW k \in Carriers, Send(k)
      PROVE  got' = got \/ Delivers(k)
  <2>1. List(k) \in Seq(Sockets) /\ task[k].at \in Nat /\ task[k].at >= 1
    BY Lists, TaskFields
  <2>2. task[k].pc = "local" /\ task[k].at <= Len(List(k))
    BY <1>5 DEF Send
  <2>3. task[k].at \in 1 .. Len(List(k))
    BY <2>1, <2>2
  <2>4. Target(k) \in Sockets
    BY <2>1, <2>3, ElementOfSeq DEF Target
  <2> QED
    BY <1>5, <2>2, <2>4 DEF Send, Delivers, Target
<1> QED
  BY <1>1, <1>2, <1>3, <1>4, <1>5 DEF Next, Carriers

LEMMA ServedMessage ==
  ASSUME ShapeOK, NEW h \in Requests, sent[h] < MaxMessages[h]
  PROVE  <<h, sent[h] + 1>> \in Messages
<1>1. sent[h] \in 0 .. MaxMessages[h] /\ MaxMessages[h] \in Nat
  BY BoundsAssumption DEF ShapeOK
<1> QED
  BY <1>1 DEF Messages

LEMMA BegunFields ==
  ASSUME ShapeOK, NEW k \in Carriers, NEW m \in Messages
  PROVE  /\ Begun(k, m) \in Tasks
         /\ Begun(k, m).pc = "local" /\ Begun(k, m).at = 1
         /\ Begun(k, m).msg = m /\ Begun(k, m).dead = <<>>
         /\ Begun(k, m).list = reg[ProcOf(k)]
         /\ Begun(k, m).audience = ToSet(Registered(ProcOf(k)))
<1>1. ProcOf(k) \in Procs /\ reg[ProcOf(k)] \in 0 .. Len(conns[ProcOf(k)])
  BY ProcOfType DEF ShapeOK
<1>2. reg[ProcOf(k)] \in Nat
  <2>1. conns[ProcOf(k)] \in Seq(Seq(Sockets))
    BY <1>1 DEF ShapeOK
  <2> QED
    BY <1>1, <2>1, LenProperties
<1>3. ToSet(Registered(ProcOf(k))) \in SUBSET Sockets
  <2>1. Registered(ProcOf(k)) \in Seq(Sockets)
    BY <1>1, Lists
  <2> QED
    BY <2>1, ElementOfSeq DEF ToSet
<1>4. <<>> \in Seq(Sockets)
  BY EmptySeq
<1> DEFINE a == ToSet(Registered(ProcOf(k)))
           b == [pc |-> "local", list |-> reg[ProcOf(k)], at |-> 1, dead |-> <<>>,
                 msg |-> m, audience |-> a]
<1>5. Begun(k, m) = b
  <2>1. Begun(k, m) = [Idle EXCEPT !.pc = "local", !.list = reg[ProcOf(k)],
                                   !.msg = m, !.audience = a]
    BY DEF Begun
  <2> HIDE DEF a
  <2> QED
    BY <2>1 DEF Idle
<1> HIDE DEF a
<1>6. b \in Tasks
  <2>1. 1 \in Nat \ {0}
    OBVIOUS
  <2>2. a \in SUBSET Sockets
    BY <1>3 DEF a
  <2> QED
    BY <1>2, <2>2, <1>4, <2>1 DEF Tasks
<1>7. /\ b.pc = "local" /\ b.at = 1 /\ b.msg = m /\ b.dead = <<>>
      /\ b.list = reg[ProcOf(k)] /\ b.audience = a
  OBVIOUS
<1> QED
  BY <1>5, <1>6, <1>7 DEF a

(* The fields of a task that a step leaves alone.                           *)
SameLoop(k) ==
  /\ task'[k].list = task[k].list /\ task'[k].msg = task[k].msg
  /\ task'[k].audience = task[k].audience

(* What a step makes of a task.                                             *)
SendMoves(k) ==
  /\ Send(k) /\ SameLoop(k)
  /\ task'[k].pc = "local" /\ task'[k].at = task[k].at + 1
  /\ \/ sock[Target(k)] = "open" /\ task'[k].dead = task[k].dead
     \/ sock[Target(k)] # "open" /\ task'[k].dead = Append(task[k].dead, Target(k))

PruneMoves(k) ==
  /\ Prune(k)
  /\ \/ k \in Procs /\ task'[k] = Idle
     \/ /\ k \in Requests /\ SameLoop(k)
        /\ task'[k].pc \in {"failed", "publish"}
        /\ task'[k].at = task[k].at /\ task'[k].dead = task[k].dead

TaskMoves(k) ==
  \/ task'[k] = task[k]
  \/ k \in Requests /\ Broadcast(k) /\ task'[k] = Begun(k, <<k, sent[k] + 1>>)
  \/ /\ k \in Procs /\ Dispatch(k) /\ NotOwn(k, Head(queue[k]))
     /\ task'[k] = Begun(k, Head(queue[k]))
  \/ SendMoves(k)
  \/ PruneMoves(k)
  \/ k \in Requests /\ Publish(k) /\ task'[k] = Idle

LEMMA QueueHeads ==
  ASSUME ShapeOK, NEW p \in Procs, queue[p] # <<>>
  PROVE  /\ Head(queue[p]) \in Messages /\ Tail(queue[p]) \in Seq(Messages)
         /\ Head(queue[p]) = queue[p][1]
         /\ Len(queue[p]) \in Nat \ {0} /\ Len(Tail(queue[p])) = Len(queue[p]) - 1
         /\ \A i \in 1 .. Len(queue[p]) - 1 : Tail(queue[p])[i] = queue[p][i + 1]
<1>1. queue[p] \in Seq(Messages)
  BY DEF ShapeOK
<1> QED
  BY <1>1, HeadTailProperties

LEMMA IdleTask == Idle \in Tasks /\ Idle.pc = "idle" /\ Idle.list = 0 /\ Idle.dead = <<>>
<1>1. <<>> \in Seq(Sockets) /\ 1 \in Nat \ {0} /\ {} \in SUBSET Sockets
  BY EmptySeq
<1> QED
  BY <1>1 DEF Idle, Tasks

LEMMA SendTask ==
  ASSUME ShapeOK, NEW k \in Carriers, Send(k)
  PROVE  /\ task' \in [Carriers -> Tasks] /\ SendMoves(k)
         /\ \A j \in Carriers : j # k => task'[j] = task[j]
<1>0. /\ task \in [Carriers -> Tasks] /\ task[k] \in Tasks
      /\ task[k].at \in Nat /\ task[k].at >= 1 /\ task[k].pc = "local"
      /\ task[k].dead \in Seq(Sockets)
  BY TaskFields DEF ShapeOK, Send
<1>1. Target(k) \in Sockets
  <2>1. List(k) \in Seq(Sockets) /\ task[k].at <= Len(List(k))
    BY Lists DEF Send
  <2>2. task[k].at \in 1 .. Len(List(k))
    BY <1>0, <2>1
  <2> QED
    BY <2>1, <2>2, ElementOfSeq DEF Target
<1>2. CASE sock[Target(k)] = "open"
  <2>1. task' = [task EXCEPT ![k] = [task[k] EXCEPT !.at = task[k].at + 1]]
    BY <1>2 DEF Send, Target
  <2> DEFINE b == [task[k] EXCEPT !.at = task[k].at + 1]
  <2>2. /\ b \in Tasks /\ b.list = task[k].list /\ b.msg = task[k].msg
        /\ b.audience = task[k].audience /\ b.pc = "local"
        /\ b.at = task[k].at + 1 /\ b.dead = task[k].dead
    <3>1. task[k].at + 1 \in Nat \ {0}
      BY <1>0
    <3> QED
      BY <1>0, <3>1 DEF Tasks
  <2>3. /\ task' \in [Carriers -> Tasks] /\ task'[k] = b
        /\ \A j \in Carriers : j # k => task'[j] = task[j]
    <3> HIDE DEF b
    <3> QED
      BY <1>0, <2>1, <2>2 DEF b
  <2> HIDE DEF b
  <2> QED
    BY <1>2, <2>2, <2>3 DEF SendMoves, SameLoop
<1>3. CASE sock[Target(k)] # "open"
  <2>1. task' = [task EXCEPT ![k].at = task[k].at + 1,
                             ![k].dead = Append(@, Target(k))]
    BY <1>3 DEF Send, Target
  <2> DEFINE d == Append(task[k].dead, Target(k))
             b == [task[k] EXCEPT !.at = task[k].at + 1, !.dead = d]
  <2>2. d \in Seq(Sockets)
    BY <1>0, <1>1, AppendProperties
  <2>3. task' = [task EXCEPT ![k] = b]
    BY <1>0, <2>1
  <2> HIDE DEF d
  <2>4. /\ b \in Tasks /\ b.list = task[k].list /\ b.msg = task[k].msg
        /\ b.audience = task[k].audience /\ b.pc = "local"
        /\ b.at = task[k].at + 1 /\ b.dead = d
    <3>1. task[k].at + 1 \in Nat \ {0}
      BY <1>0
    <3> QED
      BY <1>0, <2>2, <3>1 DEF Tasks
  <2> HIDE DEF b
  <2>5. /\ task' \in [Carriers -> Tasks] /\ task'[k] = b
        /\ \A j \in Carriers : j # k => task'[j] = task[j]
    BY <1>0, <2>3, <2>4
  <2> QED
    BY <1>3, <2>4, <2>5 DEF SendMoves, SameLoop, d
<1> QED
  BY <1>2, <1>3

LEMMA PruneTask ==
  ASSUME ShapeOK, NEW k \in Carriers, Prune(k)
  PROVE  /\ task' \in [Carriers -> Tasks] /\ PruneMoves(k)
         /\ \A j \in Carriers : j # k => task'[j] = task[j]
<1>0. task \in [Carriers -> Tasks] /\ task[k] \in Tasks
  BY DEF ShapeOK
<1>1. CASE k \in Procs
  <2>1. task' = [task EXCEPT ![k] = Idle]
    BY <1>1 DEF Prune
  <2>2. /\ task' \in [Carriers -> Tasks] /\ task'[k] = Idle
        /\ \A j \in Carriers : j # k => task'[j] = task[j]
    BY <1>0, <2>1, IdleTask
  <2> QED
    BY <1>1, <2>2 DEF PruneMoves
<1>2. CASE k \notin Procs
  <2> DEFINE b == [task[k] EXCEPT !.pc = IF Raises(k) THEN "failed" ELSE "publish"]
  <2>1. task' = [task EXCEPT ![k] = b]
    BY <1>2 DEF Prune
  <2>2. /\ b \in Tasks /\ b.list = task[k].list /\ b.msg = task[k].msg
        /\ b.audience = task[k].audience /\ b.pc \in {"failed", "publish"}
        /\ b.at = task[k].at /\ b.dead = task[k].dead
    BY <1>0 DEF Tasks
  <2> HIDE DEF b
  <2>3. /\ task' \in [Carriers -> Tasks] /\ task'[k] = b
        /\ \A j \in Carriers : j # k => task'[j] = task[j]
    BY <1>0, <2>1, <2>2
  <2>4. k \in Requests
    BY <1>2 DEF Carriers
  <2> QED
    BY <2>2, <2>3, <2>4 DEF PruneMoves, SameLoop
<1> QED
  BY <1>1, <1>2

LEMMA BeginTask ==
  ASSUME ShapeOK, NEW k \in Carriers, NEW m \in Messages,
         task' = [task EXCEPT ![k] = Begun(k, m)]
  PROVE  /\ task' \in [Carriers -> Tasks] /\ task'[k] = Begun(k, m)
         /\ \A j \in Carriers : j # k => task'[j] = task[j]
<1>1. task \in [Carriers -> Tasks] /\ Begun(k, m) \in Tasks
  BY BegunFields DEF ShapeOK
<1> QED
  BY <1>1

LEMMA TaskStep ==
  ASSUME ShapeOK, Next
  PROVE  /\ task' \in [Carriers -> Tasks]
         /\ \A k \in Carriers : TaskMoves(k)
<1> DEFINE Goal == /\ task' \in [Carriers -> Tasks]
                   /\ \A k \in Carriers : TaskMoves(k)
<1>0. task \in [Carriers -> Tasks]
  BY DEF ShapeOK
<1>1. task' = task => Goal
  BY <1>0 DEF TaskMoves
<1>2. ASSUME NEW s \in Sockets, Connect(s) \/ Lose(s) \/ Disconnect(s) \/ Break(s)
      PROVE  task' = task
  BY <1>2 DEF Connect, Lose, Disconnect, Break
<1>3. ASSUME NEW h \in Requests, Broadcast(h) PROVE Goal
  <2>1. <<h, sent[h] + 1>> \in Messages /\ h \in Carriers
    BY <1>3, ServedMessage DEF Broadcast, Carriers
  <2>2. task' = [task EXCEPT ![h] = Begun(h, <<h, sent[h] + 1>>)]
    BY <1>3 DEF Broadcast
  <2>3. /\ task' \in [Carriers -> Tasks] /\ task'[h] = Begun(h, <<h, sent[h] + 1>>)
        /\ \A j \in Carriers : j # h => task'[j] = task[j]
    BY <2>1, <2>2, BeginTask
  <2> QED
    BY <1>3, <2>3 DEF TaskMoves
<1>4. ASSUME NEW h \in Requests, Publish(h) PROVE Goal
  <2>1. task' = [task EXCEPT ![h] = Idle] /\ h \in Carriers
    BY <1>4 DEF Publish, Carriers
  <2>2. /\ task' \in [Carriers -> Tasks] /\ task'[h] = Idle
        /\ \A j \in Carriers : j # h => task'[j] = task[j]
    BY <1>0, <2>1, IdleTask
  <2> QED
    BY <1>4, <2>2 DEF TaskMoves
<1>5. ASSUME NEW k \in Carriers, Send(k) PROVE Goal
  BY <1>5, SendTask DEF TaskMoves
<1>6. ASSUME NEW k \in Carriers, Prune(k) PROVE Goal
  BY <1>6, PruneTask DEF TaskMoves
<1>7. ASSUME NEW p \in Procs, Dispatch(p) PROVE Goal
  <2>1. queue[p] # <<>> /\ p \in Carriers
    BY <1>7 DEF Dispatch, Carriers
  <2>2. CASE ~ NotOwn(p, Head(queue[p]))
    BY <1>1, <1>7, <2>2 DEF Dispatch
  <2>3. CASE NotOwn(p, Head(queue[p]))
    <3>1. task' = [task EXCEPT ![p] = Begun(p, Head(queue[p]))]
      BY <1>7, <2>3 DEF Dispatch
    <3>2. /\ task' \in [Carriers -> Tasks] /\ task'[p] = Begun(p, Head(queue[p]))
          /\ \A j \in Carriers : j # p => task'[j] = task[j]
      BY <2>1, <3>1, QueueHeads, BeginTask
    <3> QED
      BY <1>7, <2>3, <3>2 DEF TaskMoves
  <2> QED
    BY <2>2, <2>3
<1>8. ASSUME NEW p \in Procs, Resubscribe(p) PROVE task' = task
  BY <1>8 DEF Resubscribe
<1> QED
  BY <1>1, <1>2, <1>3, <1>4, <1>5, <1>6, <1>7, <1>8 DEF Next, Carriers

(* What a step makes of the subscription of a process.                      *)
QueueMoves(p) ==
  \/ queue'[p] = queue[p]
  \/ \E h \in Requests : Publish(h) /\ queue'[p] = Append(queue[p], task[h].msg)
  \/ Dispatch(p) /\ queue[p] # <<>> /\ queue'[p] = Tail(queue[p])
  \/ queue'[p] = <<>>

(* A request carries the message it has counted.                            *)
CarryOK ==
  \A h \in Requests : task[h].pc # "idle" =>
     sent[h] >= 1 /\ task[h].msg = <<h, sent[h]>>

LEMMA CarriedMessage ==
  ASSUME ShapeOK, CarryOK, NEW h \in Requests, task[h].pc # "idle"
  PROVE  task[h].msg \in Messages
<1>1. sent[h] \in 0 .. MaxMessages[h] /\ MaxMessages[h] \in Nat
      /\ sent[h] >= 1 /\ task[h].msg = <<h, sent[h]>>
  BY BoundsAssumption DEF ShapeOK, CarryOK
<1> QED
  BY <1>1 DEF Messages

LEMMA QueueStep ==
  ASSUME ShapeOK, CarryOK, Next
  PROVE  /\ queue' \in [Procs -> Seq(Messages)]
         /\ \A p \in Procs : QueueMoves(p)
<1> DEFINE Goal == /\ queue' \in [Procs -> Seq(Messages)]
                   /\ \A p \in Procs : QueueMoves(p)
<1>0. queue \in [Procs -> Seq(Messages)]
  BY DEF ShapeOK
<1>1. queue' = queue => Goal
  BY <1>0 DEF QueueMoves
<1>2. ASSUME NEW s \in Sockets, Connect(s) \/ Lose(s) \/ Disconnect(s) \/ Break(s)
      PROVE  queue' = queue
  BY <1>2 DEF Connect, Lose, Disconnect, Break
<1>3. ASSUME NEW h \in Requests, Broadcast(h) PROVE queue' = queue
  BY <1>3 DEF Broadcast
<1>4. ASSUME NEW h \in Requests, Publish(h) PROVE Goal
  <2>1. task[h].msg \in Messages
    BY <1>4, CarriedMessage DEF Publish
  <2>2. CASE queue' = [p \in Procs |-> Append(queue[p], task[h].msg)]
    <3>1. \A p \in Procs : queue'[p] = Append(queue[p], task[h].msg)
                           /\ queue'[p] \in Seq(Messages)
      BY <1>0, <2>1, <2>2, AppendProperties
    <3>2. queue' \in [Procs -> Seq(Messages)]
      BY <2>2, <3>1
    <3> QED
      BY <1>4, <3>1, <3>2 DEF QueueMoves
  <2> QED
    BY <1>1, <1>4, <2>2 DEF Publish
<1>5. ASSUME NEW k \in Carriers, Send(k) \/ Prune(k) PROVE queue' = queue
  BY <1>5 DEF Send, Prune
<1>6. ASSUME NEW p \in Procs, Dispatch(p) PROVE Goal
  <2>1. queue[p] # <<>> /\ queue' = [queue EXCEPT ![p] = Tail(queue[p])]
    BY <1>6 DEF Dispatch
  <2>2. Tail(queue[p]) \in Seq(Messages)
    BY <2>1, QueueHeads
  <2> QED
    BY <1>0, <1>6, <2>1, <2>2 DEF QueueMoves
<1>7. ASSUME NEW p \in Procs, Resubscribe(p) PROVE Goal
  <2>1. queue' = [queue EXCEPT ![p] = <<>>]
    BY <1>7 DEF Resubscribe
  <2>2. <<>> \in Seq(Messages)
    BY EmptySeq
  <2> QED
    BY <1>0, <2>1, <2>2 DEF QueueMoves
<1> QED
  BY <1>1, <1>2, <1>3, <1>4, <1>5, <1>6, <1>7 DEF Next, Carriers

LEMMA SentStep ==
  ASSUME ShapeOK, Next
  PROVE  /\ sent' \in [Requests -> Nat]
         /\ \A h \in Requests : sent'[h] \in 0 .. MaxMessages[h]
         /\ \A h \in Requests :
              \/ sent'[h] = sent[h]
              \/ Broadcast(h) /\ sent'[h] = sent[h] + 1
<1> DEFINE Goal == /\ sent' \in [Requests -> Nat]
                   /\ \A h \in Requests : sent'[h] \in 0 .. MaxMessages[h]
                   /\ \A h \in Requests :
                        \/ sent'[h] = sent[h]
                        \/ Broadcast(h) /\ sent'[h] = sent[h] + 1
<1>0. /\ sent \in [Requests -> Nat]
      /\ \A h \in Requests : sent[h] \in 0 .. MaxMessages[h] /\ MaxMessages[h] \in Nat
  BY BoundsAssumption DEF ShapeOK
<1>1. sent' = sent => Goal
  BY <1>0
<1>2. ASSUME NEW h \in Requests, Broadcast(h) PROVE Goal
  <2>1. sent' = [sent EXCEPT ![h] = sent[h] + 1] /\ sent[h] < MaxMessages[h]
    BY <1>2 DEF Broadcast
  <2>2. sent[h] + 1 \in 0 .. MaxMessages[h]
    BY <1>0, <2>1
  <2>3. sent'[h] = sent[h] + 1 /\ \A g \in Requests : g # h => sent'[g] = sent[g]
    BY <1>0, <2>1
  <2>4. sent' \in [Requests -> Nat]
    BY <1>0, <2>1
  <2> QED
    BY <1>0, <1>2, <2>2, <2>3, <2>4
<1>3. ASSUME NEW s \in Sockets, Connect(s) \/ Lose(s) \/ Disconnect(s) \/ Break(s)
      PROVE  sent' = sent
  BY <1>3 DEF Connect, Lose, Disconnect, Break
<1>4. ASSUME NEW h \in Requests, Publish(h) PROVE sent' = sent
  BY <1>4 DEF Publish
<1>5. ASSUME NEW k \in Carriers, Send(k) \/ Prune(k) PROVE sent' = sent
  BY <1>5 DEF Send, Prune
<1>6. ASSUME NEW p \in Procs, Dispatch(p) \/ Resubscribe(p) PROVE sent' = sent
  BY <1>6 DEF Dispatch, Resubscribe
<1> HIDE DEF Goal
<1>7. Goal
  BY <1>1, <1>2, <1>3, <1>4, <1>5, <1>6 DEF Next, Carriers
<1> QED
  BY <1>7 DEF Goal

LEMMA FaultsStep ==
  ASSUME ShapeOK, Next
  PROVE  faults' \in 0 .. MaxFaults
<1>0. faults \in 0 .. MaxFaults /\ MaxFaults \in Nat
  BY BoundsAssumption DEF ShapeOK
<1>1. ASSUME NEW s \in Sockets, Connect(s) \/ Lose(s) \/ Disconnect(s) \/ Break(s)
      PROVE  faults' = faults
  BY <1>1 DEF Connect, Lose, Disconnect, Break
<1>2. ASSUME NEW h \in Requests, Broadcast(h) \/ Publish(h) PROVE faults' \in 0 .. MaxFaults
  BY <1>0, <1>2 DEF Broadcast, Publish
<1>3. ASSUME NEW k \in Carriers, Send(k) \/ Prune(k) PROVE faults' = faults
  BY <1>3 DEF Send, Prune
<1>4. ASSUME NEW p \in Procs, Dispatch(p) \/ Resubscribe(p) PROVE faults' \in 0 .. MaxFaults
  BY <1>0, <1>4 DEF Dispatch, Resubscribe
<1> QED
  BY <1>0, <1>1, <1>2, <1>3, <1>4 DEF Next, Carriers

(* The listener of a process carries the messages of requests elsewhere.    *)
LocalOK ==
  \A p \in Procs :
     /\ task[p].pc \in {"idle", "local"}
     /\ task[p].pc = "local" => task[p].msg \in Messages /\ At[task[p].msg[1]] # p

LEMMA LocalMessage ==
  ASSUME ShapeOK, CarryOK, LocalOK, NEW k \in Carriers, task[k].pc = "local"
  PROVE  task[k].msg \in Messages
BY CarriedMessage DEF LocalOK, Carriers

LEMMA GotTypeStep ==
  ASSUME ShapeOK, CarryOK, LocalOK, Next
  PROVE  got' \in [Sockets -> Seq(Messages)]
<1>0. got \in [Sockets -> Seq(Messages)]
  BY DEF ShapeOK
<1>1. ASSUME NEW k \in Carriers, Delivers(k)
      PROVE  got' \in [Sockets -> Seq(Messages)]
  <2>1. task[k].msg \in Messages /\ Target(k) \in Sockets
    BY <1>1, LocalMessage DEF Delivers
  <2>2. Append(got[Target(k)], task[k].msg) \in Seq(Messages)
    BY <1>0, <2>1, AppendProperties
  <2>3. got' = [got EXCEPT ![Target(k)] = Append(got[Target(k)], task[k].msg)]
    BY <1>1 DEF Delivers
  <2> QED
    BY <1>0, <2>1, <2>2, <2>3
<1> QED
  BY <1>0, <1>1, GotStep

LEMMA CarryStep ==
  ASSUME ShapeOK, CarryOK, Next
  PROVE  CarryOK'
<1> SUFFICES ASSUME NEW h \in Requests, task'[h].pc # "idle"
             PROVE  sent'[h] >= 1 /\ task'[h].msg = <<h, sent'[h]>>
  BY DEF CarryOK
<1>0. h \in Carriers /\ h \notin Procs /\ sent[h] \in Nat
  BY TasksAssumption, BoundsAssumption DEF Carriers, ShapeOK
<1>1. CASE Broadcast(h)
  <2>1. /\ task' = [task EXCEPT ![h] = Begun(h, <<h, sent[h] + 1>>)]
        /\ sent' = [sent EXCEPT ![h] = sent[h] + 1] /\ sent[h] < MaxMessages[h]
    BY <1>1 DEF Broadcast
  <2>2. <<h, sent[h] + 1>> \in Messages
    BY <2>1, ServedMessage
  <2>3. task'[h] = Begun(h, <<h, sent[h] + 1>>)
    BY <1>0, <2>1, <2>2, BeginTask
  <2>4. task'[h].msg = <<h, sent[h] + 1>>
    BY <1>0, <2>2, <2>3, BegunFields
  <2>5. sent'[h] = sent[h] + 1
    BY <2>1 DEF ShapeOK
  <2> QED
    BY <1>0, <2>4, <2>5
<1>2. CASE ~ Broadcast(h)
  <2>1. sent'[h] = sent[h]
    BY <1>2, SentStep
  <2>2. TaskMoves(h)
    BY <1>0, TaskStep
  <2>3. task[h].pc # "idle" /\ task'[h].msg = task[h].msg
    BY <1>0, <1>2, <2>2, IdleTask
       DEF TaskMoves, SendMoves, PruneMoves, SameLoop, Send, Prune
  <2> QED
    BY <2>1, <2>3 DEF CarryOK
<1> QED
  BY <1>1, <1>2

LEMMA LocalStep ==
  ASSUME ShapeOK, LocalOK, Next
  PROVE  LocalOK'
<1> SUFFICES ASSUME NEW p \in Procs
             PROVE  /\ task'[p].pc \in {"idle", "local"}
                    /\ task'[p].pc = "local" =>
                         task'[p].msg \in Messages /\ At[task'[p].msg[1]] # p
  BY DEF LocalOK
<1>0. p \in Carriers /\ p \notin Requests /\ TaskMoves(p)
  BY TasksAssumption, TaskStep DEF Carriers
<1>1. /\ task[p].pc \in {"idle", "local"}
      /\ task[p].pc = "local" => task[p].msg \in Messages /\ At[task[p].msg[1]] # p
  BY DEF LocalOK
<1>2. CASE task'[p] = task[p]
  BY <1>1, <1>2
<1>3. CASE /\ Dispatch(p) /\ NotOwn(p, Head(queue[p]))
           /\ task'[p] = Begun(p, Head(queue[p]))
  <2>1. Head(queue[p]) \in Messages
    BY <1>3, QueueHeads DEF Dispatch
  <2>2. task'[p].pc = "local" /\ task'[p].msg = Head(queue[p])
    BY <1>0, <1>3, <2>1, BegunFields
  <2> QED
    BY <1>3, <2>1, <2>2 DEF NotOwn
<1>4. CASE SendMoves(p)
  BY <1>1, <1>4 DEF SendMoves, SameLoop, Send
<1>5. CASE PruneMoves(p)
  BY <1>0, <1>5, IdleTask DEF PruneMoves
<1> QED
  BY <1>0, <1>2, <1>3, <1>4, <1>5 DEF TaskMoves

LEMMA ShapeStep ==
  ASSUME ShapeOK, DeadOK, CarryOK, LocalOK, Next
  PROVE  ShapeOK'
<1>1. sock' \in [Sockets -> {"new", "open", "lost", "closed"}]
  BY SockStep DEF SockMoves
<1>2. /\ conns' \in [Procs -> Seq(Seq(Sockets))]
      /\ \A p \in Procs : Len(conns'[p]) \in Nat /\ Len(conns[p]) \in Nat
                          /\ Len(conns[p]) <= Len(conns'[p])
      /\ gauge' \in [Procs -> Int]
  BY ConnsStep
<1>3. ASSUME NEW k \in Carriers
      PROVE  task'[k].list \in 0 .. Len(conns'[ProcOf(k)])
  <2>0. ProcOf(k) \in Procs /\ task[k].list \in 0 .. Len(conns[ProcOf(k)])
        /\ reg[ProcOf(k)] \in 0 .. Len(conns[ProcOf(k)])
    BY ProcOfType DEF ShapeOK
  <2>1. \/ task'[k].list = task[k].list
        \/ task'[k].list = reg[ProcOf(k)]
        \/ task'[k].list = 0
    <3>1. TaskMoves(k)
      BY TaskStep
    <3>2. CASE k \in Requests /\ Broadcast(k) /\ task'[k] = Begun(k, <<k, sent[k] + 1>>)
      <4>1. <<k, sent[k] + 1>> \in Messages
        BY <3>2, ServedMessage DEF Broadcast
      <4> QED
        BY <3>2, <4>1, BegunFields
    <3>3. CASE k \in Procs /\ Dispatch(k) /\ task'[k] = Begun(k, Head(queue[k]))
      <4>1. Head(queue[k]) \in Messages
        BY <3>3, QueueHeads DEF Dispatch
      <4> QED
        BY <3>3, <4>1, BegunFields
    <3> QED
      BY <3>1, <3>2, <3>3, IdleTask DEF TaskMoves, SendMoves, PruneMoves, SameLoop
  <2> QED
    BY <1>2, <2>0, <2>1
<1> QED
  BY <1>1, <1>2, <1>3, RegStep, TaskStep, SentStep, QueueStep, GotTypeStep,
     FaultsStep DEF ShapeOK

-----------------------------------------------------------------------------
(* Who is in the lists.                                                     *)

(* Who is where.                                                            *)
Holds(p, l, i, s) ==
  l \in 1 .. Len(conns[p]) /\ i \in 1 .. Len(conns[p][l]) /\ conns[p][l][i] = s

(* A list of a process holds sockets of that process which have connected,  *)
(* and none is at two places.                                               *)
ListsOK ==
  \A p \in Procs : \A l, i, s : Holds(p, l, i, s) =>
     /\ Home[s] = p
     /\ sock[s] # "new"
     /\ \A m, j : Holds(p, m, j, s) => m = l /\ j = i

LEMMA HoldsType ==
  ASSUME ShapeOK, NEW p \in Procs, NEW l, NEW i, NEW s, Holds(p, l, i, s)
  PROVE  s \in Sockets /\ l \in Nat \ {0} /\ i \in Nat \ {0}
<1>1. l \in 1 .. Len(conns[p]) /\ i \in 1 .. Len(conns[p][l]) /\ conns[p][l][i] = s
  BY DEF Holds
<1>2. Len(conns[p]) \in Nat
  BY DEF ShapeOK
<1>3. Len(conns[p][l]) \in Nat /\ s \in Sockets
  BY <1>1, ListType
<1> QED
  BY <1>1, <1>2, <1>3

(* A socket that connects comes last in the list that is, or begins a new   *)
(* one, and the lists stay as they are otherwise.                           *)
Joins(s, p, L, I) ==
  /\ p \in Procs /\ p = Home[s]
  /\ L \in 1 .. Len(conns'[p])
  /\ Len(conns'[p][L]) = I /\ I \in Nat \ {0} /\ conns'[p][L][I] = s
  /\ L <= Len(conns[p]) => Len(conns[p][L]) = I - 1
  /\ L > Len(conns[p]) => I = 1
  /\ \A q \in Procs \ {p} : conns'[q] = conns[q]
  /\ \A l \in 1 .. Len(conns'[p]) : \A i \in 1 .. Len(conns'[p][l]) :
       \/ l = L /\ i = I
       \/ /\ l \in 1 .. Len(conns[p]) /\ i \in 1 .. Len(conns[p][l])
          /\ conns'[p][l][i] = conns[p][l][i]
  /\ \A l \in 1 .. Len(conns[p]) :
       /\ l \in 1 .. Len(conns'[p])
       /\ \A i \in 1 .. Len(conns[p][l]) :
            i \in 1 .. Len(conns'[p][l]) /\ conns'[p][l][i] = conns[p][l][i]

LEMMA ConnectJoins ==
  ASSUME ShapeOK, NEW s \in Sockets, Connect(s)
  PROVE  \E p, L, I : Joins(s, p, L, I)
<1> DEFINE p == Home[s]
           N == Len(conns[p])
<1>0. /\ p \in Procs /\ N \in Nat
      /\ \A q \in Procs \ {p} : conns'[q] = conns[q]
      /\ \A l \in 1 .. N : conns[p][l] \in Seq(Sockets) /\ Len(conns[p][l]) \in Nat
  <2>1. p \in Procs /\ \A q \in Procs \ {p} : conns'[q] = conns[q]
    BY ConnectEffect
  <2>2. N \in Nat
    BY <2>1 DEF ShapeOK
  <2> QED
    BY <2>1, <2>2, ListType
<1>1. CASE /\ Len(conns'[p]) = N + 1 /\ conns'[p][N + 1] = <<s>>
           /\ \A l \in 1 .. N : conns'[p][l] = conns[p][l]
  <2>1. Len(<<s>>) = 1 /\ <<s>>[1] = s
    OBVIOUS
  <2> HIDE DEF p, N
  <2>2. \A l \in 1 .. N + 1 : l \in 1 .. N \/ l = N + 1
    BY <1>0
  <2>3. N + 1 \in 1 .. N + 1 /\ \A l \in 1 .. N : l \in 1 .. N + 1
    BY <1>0
  <2>4. ASSUME NEW l \in 1 .. Len(conns'[p]), NEW i \in 1 .. Len(conns'[p][l])
        PROVE  \/ l = N + 1 /\ i = 1
               \/ /\ l \in 1 .. N /\ i \in 1 .. Len(conns[p][l])
                  /\ conns'[p][l][i] = conns[p][l][i]
    <3>1. CASE l \in 1 .. N
      BY <1>1, <3>1
    <3>2. CASE l = N + 1
      BY <1>1, <2>1, <3>2
    <3> QED
      BY <1>1, <2>2, <3>1, <3>2
  <2>5. ASSUME NEW l \in 1 .. N
        PROVE  /\ l \in 1 .. Len(conns'[p])
               /\ \A i \in 1 .. Len(conns[p][l]) :
                    i \in 1 .. Len(conns'[p][l]) /\ conns'[p][l][i] = conns[p][l][i]
    BY <1>1, <2>3
  <2>6. Len(conns'[p][N + 1]) = 1 /\ conns'[p][N + 1][1] = s /\ 1 \in Nat \ {0}
        /\ N + 1 \in 1 .. Len(conns'[p]) /\ ~ (N + 1 <= N)
    BY <1>0, <1>1, <2>1, <2>3
  <2>7. Joins(s, p, N + 1, 1)
    BY <1>0, <2>4, <2>5, <2>6 DEF Joins, p, N
  <2> QED
    BY <2>7
<1>2. CASE /\ reg[p] \in 1 .. N /\ Len(conns'[p]) = N
           /\ conns'[p][reg[p]] = Append(conns[p][reg[p]], s)
           /\ \A l \in 1 .. N : l # reg[p] => conns'[p][l] = conns[p][l]
  <2> DEFINE L == reg[p]
             I == Len(conns[p][L]) + 1
  <2>1. /\ Len(conns'[p][L]) = I /\ conns'[p][L][I] = s
        /\ \A i \in 1 .. Len(conns[p][L]) : conns'[p][L][i] = conns[p][L][i]
    <3> DEFINE old == conns[p][L]
    <3>1. old \in Seq(Sockets)
      BY <1>0, <1>2
    <3>2. conns'[p][L] = Append(old, s)
      BY <1>2
    <3> HIDE DEF old
    <3>3. /\ Len(Append(old, s)) = Len(old) + 1
          /\ Append(old, s)[Len(old) + 1] = s
          /\ \A i \in 1 .. Len(old) : Append(old, s)[i] = old[i]
      BY <3>1, AppendProperties
    <3> QED
      BY <3>2, <3>3 DEF old
  <2>2. L \in 1 .. N /\ Len(conns[p][L]) \in Nat /\ I \in Nat \ {0}
    BY <1>0, <1>2
  <2> HIDE DEF p, N, L, I
  <2>3. \A i \in 1 .. I : i \in 1 .. Len(conns[p][L]) \/ i = I
    BY <2>2 DEF I
  <2>4. \A i \in 1 .. Len(conns[p][L]) : i \in 1 .. I
    BY <2>2 DEF I
  <2>5. ASSUME NEW l \in 1 .. Len(conns'[p]), NEW i \in 1 .. Len(conns'[p][l])
        PROVE  \/ l = L /\ i = I
               \/ /\ l \in 1 .. N /\ i \in 1 .. Len(conns[p][l])
                  /\ conns'[p][l][i] = conns[p][l][i]
    <3>1. CASE l = L
      BY <2>1, <2>2, <2>3, <3>1
    <3>2. CASE l # L
      BY <1>2, <3>2 DEF L
    <3> QED
      BY <3>1, <3>2
  <2>6. ASSUME NEW l \in 1 .. N
        PROVE  /\ l \in 1 .. Len(conns'[p])
               /\ \A i \in 1 .. Len(conns[p][l]) :
                    i \in 1 .. Len(conns'[p][l]) /\ conns'[p][l][i] = conns[p][l][i]
    <3>1. CASE l = L
      BY <1>2, <2>1, <2>4, <3>1
    <3>2. CASE l # L
      BY <1>2, <3>2 DEF L
    <3> QED
      BY <3>1, <3>2
  <2>7. Len(conns[p][L]) = I - 1 /\ ~ (L > N) /\ L \in 1 .. Len(conns'[p])
    BY <1>0, <1>2, <2>2 DEF I
  <2>8. Joins(s, p, L, I)
    BY <1>0, <2>1, <2>2, <2>5, <2>6, <2>7 DEF Joins, p, N
  <2> QED
    BY <2>8
<1> QED
  BY <1>1, <1>2, ConnectEffect

(* What is left of a list after a removal was in it, in the same order; the *)
(* other lists stay.                                                        *)
LEMMA ShrunkMoves ==
  ASSUME ShapeOK, NEW p \in Procs, NEW l \in 1 .. Len(conns[p]),
         NEW gone \in SUBSET Sockets, Shrunk(p, l, gone)
  PROVE  /\ conns'[p][l] = Without(conns[p][l], gone)
         /\ \A q \in Procs : Len(conns'[q]) = Len(conns[q])
         /\ \A q \in Procs : \A m \in 1 .. Len(conns[q]) :
              q # p \/ m # l => conns'[q][m] = conns[q][m]
         /\ \E f : Embeds(conns[p][l], gone, f)
         /\ \A s : Contains(conns'[p][l], s) <=> Contains(conns[p][l], s) /\ s \notin gone
<1>0. conns[p][l] \in Seq(Sockets)
  BY ListType
<1>1. Without(conns[p][l], gone) \in Seq(Sockets)
  BY <1>0, WithoutEmbeds
<1>2. Replaced(p, l, Without(conns[p][l], gone))
  BY DEF Shrunk
<1>3. /\ conns'[p][l] = Without(conns[p][l], gone)
      /\ \A q \in Procs : Len(conns'[q]) = Len(conns[q])
      /\ \A q \in Procs : \A m \in 1 .. Len(conns[q]) :
           q # p \/ m # l => conns'[q][m] = conns[q][m]
  BY <1>1, <1>2, ListReplaced
<1>4. \E f : Embeds(conns[p][l], gone, f)
  BY <1>0, WithoutEmbeds
<1>5. ASSUME NEW s
      PROVE  Contains(conns'[p][l], s) <=> Contains(conns[p][l], s) /\ s \notin gone
  BY <1>0, <1>3, WithoutSet
<1> QED
  BY <1>3, <1>4, <1>5

LEMMA HoldsJoin ==
  ASSUME ShapeOK, NEW s, NEW p, NEW L, NEW I, Joins(s, p, L, I)
  PROVE  \A q \in Procs : \A l, i, t :
           Holds(q, l, i, t)' <=>
             Holds(q, l, i, t) \/ (q = p /\ l = L /\ i = I /\ t = s)
<1> SUFFICES ASSUME NEW q \in Procs, NEW l, NEW i, NEW t
             PROVE  Holds(q, l, i, t)' <=>
                      Holds(q, l, i, t) \/ (q = p /\ l = L /\ i = I /\ t = s)
  OBVIOUS
<1>1. /\ L \in 1 .. Len(conns'[p]) /\ Len(conns'[p][L]) = I /\ I \in Nat \ {0}
      /\ conns'[p][L][I] = s
      /\ \A r \in Procs \ {p} : conns'[r] = conns[r]
  BY DEF Joins
<1>2. \A m \in 1 .. Len(conns'[p]) : \A j \in 1 .. Len(conns'[p][m]) :
         \/ m = L /\ j = I
         \/ /\ m \in 1 .. Len(conns[p]) /\ j \in 1 .. Len(conns[p][m])
            /\ conns'[p][m][j] = conns[p][m][j]
  BY DEF Joins
<1>3. \A m \in 1 .. Len(conns[p]) :
         /\ m \in 1 .. Len(conns'[p])
         /\ \A j \in 1 .. Len(conns[p][m]) :
              j \in 1 .. Len(conns'[p][m]) /\ conns'[p][m][j] = conns[p][m][j]
  BY DEF Joins
<1>4. CASE q # p
  BY <1>1, <1>4 DEF Holds
<1>5. CASE q = p
  <2>1. Holds(p, l, i, t) => Holds(p, l, i, t)'
    BY <1>3 DEF Holds
  <2>2. Holds(p, L, I, s)'
    BY <1>1 DEF Holds
  <2>3. Holds(p, l, i, t)' => Holds(p, l, i, t) \/ (l = L /\ i = I /\ t = s)
    BY <1>1, <1>2 DEF Holds
  <2> QED
    BY <1>5, <2>1, <2>2, <2>3
<1> QED
  BY <1>4, <1>5

LEMMA ListsJoin ==
  ASSUME ShapeOK, ListsOK, Next, NEW s \in Sockets, Connect(s),
         NEW p, NEW L, NEW I, Joins(s, p, L, I)
  PROVE  ListsOK'
<1>0. p \in Procs /\ p = Home[s]
  BY DEF Joins
<1>1. sock[s] = "new" /\ sock'[s] = "open"
  BY DEF Connect, ShapeOK
<1>2. \A t \in Sockets : sock[t] # "new" => sock'[t] # "new"
  BY SockStep DEF SockMoves
<1>3. \A q \in Procs : \A l, i, t : Holds(q, l, i, t) =>
         /\ t # s /\ sock'[t] # "new" /\ Home[t] = q
         /\ \A m, j : Holds(q, m, j, t) => m = l /\ j = i
  BY <1>1, <1>2, HoldsType DEF ListsOK
<1>4. \A q \in Procs : \A l, i, t : Holds(q, l, i, t)' <=>
         Holds(q, l, i, t) \/ (q = p /\ l = L /\ i = I /\ t = s)
  BY HoldsJoin
<1> QED
  BY <1>0, <1>1, <1>3, <1>4 DEF ListsOK

(* Where an element of a list was before a removal.                         *)
Before(p, l, f, q, m, j) == IF q = p /\ m = l THEN f[j] ELSE j

LEMMA Whence ==
  ASSUME ShapeOK, NEW p \in Procs, NEW l \in 1 .. Len(conns[p]),
         NEW gone \in SUBSET Sockets, Shrunk(p, l, gone),
         NEW f, Embeds(conns[p][l], gone, f)
  PROVE  /\ \A q \in Procs : \A m, j, t : Holds(q, m, j, t)' =>
              /\ Holds(q, m, Before(p, l, f, q, m, j), t)
              /\ q = p /\ m = l => t \notin gone
              /\ j <= Before(p, l, f, q, m, j)
         /\ \A q \in Procs : \A m, i, j, s, t :
              /\ Holds(q, m, i, s)' /\ Holds(q, m, j, t)'
              /\ Before(p, l, f, q, m, i) = Before(p, l, f, q, m, j)
              => i = j
<1>1. conns'[p][l] = Without(conns[p][l], gone)
  BY ShrunkMoves
<1>2. /\ \A n \in 1 .. Len(conns'[p][l]) :
           /\ f[n] \in 1 .. Len(conns[p][l]) /\ conns[p][l][f[n]] \notin gone
           /\ conns'[p][l][n] = conns[p][l][f[n]]
           /\ n <= f[n]
      /\ \A n, o \in 1 .. Len(conns'[p][l]) : n < o => f[n] < f[o]
  BY <1>1 DEF Embeds, Kept
<1>3. Len(conns'[p][l]) \in Nat
  BY <1>1, ListType, WithoutEmbeds
<1>4. Len(conns[p][l]) \in Nat
  BY ListType
<1>5. ASSUME NEW n \in 1 .. Len(conns'[p][l]), NEW o \in 1 .. Len(conns'[p][l]),
             f[n] = f[o]
      PROVE  n = o
  <2>1. f[n] \in Nat /\ ~ (f[n] < f[o]) /\ ~ (f[o] < f[n])
    BY <1>2, <1>4, <1>5
  <2>2. ~ (n < o) /\ ~ (o < n) /\ n \in Nat /\ o \in Nat
    BY <1>2, <1>3, <2>1
  <2> QED
    BY <2>2
<1>6. /\ \A q \in Procs : Len(conns'[q]) = Len(conns[q])
      /\ \A q \in Procs : \A m \in 1 .. Len(conns[q]) : q # p \/ m # l =>
           conns'[q][m] = conns[q][m] /\ Len(conns[q][m]) \in Nat
  BY ShrunkMoves, ListType
<1>7. ASSUME NEW q \in Procs, NEW m, NEW j, NEW t, Holds(q, m, j, t)'
      PROVE  /\ Holds(q, m, Before(p, l, f, q, m, j), t)
             /\ q = p /\ m = l => t \notin gone
             /\ j <= Before(p, l, f, q, m, j)
  <2>1. m \in 1 .. Len(conns[q]) /\ j \in 1 .. Len(conns'[q][m]) /\ conns'[q][m][j] = t
    BY <1>6, <1>7 DEF Holds
  <2>2. CASE q = p /\ m = l
    BY <1>2, <2>1, <2>2 DEF Holds, Before
  <2>3. CASE ~ (q = p /\ m = l)
    <3>1. conns'[q][m] = conns[q][m] /\ Len(conns[q][m]) \in Nat
      BY <1>6, <2>1, <2>3
    <3>2. j \in Nat
      BY <2>1, <3>1
    <3> QED
      BY <2>1, <2>3, <3>1, <3>2 DEF Holds, Before
  <2> QED
    BY <2>2, <2>3
<1>8. ASSUME NEW q \in Procs, NEW m, NEW i, NEW j, NEW s, NEW t,
             Holds(q, m, i, s)', Holds(q, m, j, t)',
             Before(p, l, f, q, m, i) = Before(p, l, f, q, m, j)
      PROVE  i = j
  <2>1. i \in 1 .. Len(conns'[q][m]) /\ j \in 1 .. Len(conns'[q][m])
    BY <1>8 DEF Holds
  <2> QED
    BY <1>5, <1>8, <2>1 DEF Before
<1> QED
  BY <1>7, <1>8

LEMMA ListsShrink ==
  ASSUME ShapeOK, ListsOK, Next, NEW p \in Procs, NEW l \in 1 .. Len(conns[p]),
         NEW gone \in SUBSET Sockets, Shrunk(p, l, gone)
  PROVE  ListsOK'
<1>1. PICK f : Embeds(conns[p][l], gone, f)
  BY ShrunkMoves
<1>2. /\ \A q \in Procs : \A m, j, t : Holds(q, m, j, t)' =>
              Holds(q, m, Before(p, l, f, q, m, j), t)
      /\ \A q \in Procs : \A m, i, j, s, t :
              /\ Holds(q, m, i, s)' /\ Holds(q, m, j, t)'
              /\ Before(p, l, f, q, m, i) = Before(p, l, f, q, m, j)
              => i = j
  BY <1>1, Whence
<1>3. \A t \in Sockets : sock[t] # "new" => sock'[t] # "new"
  BY SockStep DEF SockMoves
<1>4. ASSUME NEW q \in Procs, NEW m, NEW j, NEW t, Holds(q, m, j, t)'
      PROVE  Home[t] = q /\ sock'[t] # "new"
  <2>1. Holds(q, m, Before(p, l, f, q, m, j), t)
    BY <1>2, <1>4
  <2>2. t \in Sockets
    BY <2>1, HoldsType
  <2> QED
    BY <1>3, <2>1, <2>2 DEF ListsOK
<1>5. ASSUME NEW q \in Procs, NEW m, NEW j, NEW n, NEW i, NEW t,
             Holds(q, m, j, t)', Holds(q, n, i, t)'
      PROVE  n = m /\ i = j
  <2>1. /\ Holds(q, m, Before(p, l, f, q, m, j), t)
        /\ Holds(q, n, Before(p, l, f, q, n, i), t)
    BY <1>2, <1>5
  <2>2. n = m /\ Before(p, l, f, q, n, i) = Before(p, l, f, q, m, j)
    BY <2>1 DEF ListsOK
  <2> QED
    BY <1>2, <1>5, <2>2
<1> QED
  BY <1>4, <1>5 DEF ListsOK

LEMMA HoldsKept ==
  ASSUME conns' = conns
  PROVE  \A p, l, i, s : Holds(p, l, i, s)' <=> Holds(p, l, i, s)
BY DEF Holds

LEMMA ListsStep ==
  ASSUME ShapeOK, DeadOK, ListsOK, Next
  PROVE  ListsOK'
<1>1. CASE UNCHANGED <<conns, gauge>>
  <2>1. \A t \in Sockets : sock[t] # "new" => sock'[t] # "new"
    BY SockStep DEF SockMoves
  <2>2. \A p, l, i, s : Holds(p, l, i, s)' <=> Holds(p, l, i, s)
    BY <1>1, HoldsKept
  <2> QED
    BY <2>1, <2>2, HoldsType DEF ListsOK
<1> QED
  BY <1>1, ListsEffect, ConnectJoins, ListsJoin, ListsShrink

(* The list of a broadcast under way, and what it looks at next.            *)
LEMMA TargetHeld ==
  ASSUME ShapeOK, NEW k \in Carriers, NEW i \in 1 .. Len(List(k))
  PROVE  ProcOf(k) \in Procs /\ Holds(ProcOf(k), task[k].list, i, List(k)[i])
<1>1. task[k].list # 0
  BY DEF List
<1>2. /\ ProcOf(k) \in Procs /\ task[k].list \in 0 .. Len(conns[ProcOf(k)])
      /\ Len(conns[ProcOf(k)]) \in Nat
  BY ProcOfType DEF ShapeOK
<1>3. List(k) = conns[ProcOf(k)][task[k].list]
  BY <1>1 DEF List
<1> QED
  BY <1>1, <1>2, <1>3 DEF Holds

LEMMA SendTarget ==
  ASSUME ShapeOK, NEW k \in Carriers, task[k].at <= Len(List(k))
  PROVE  /\ task[k].at \in 1 .. Len(List(k)) /\ Target(k) \in Sockets
         /\ ProcOf(k) \in Procs
         /\ Holds(ProcOf(k), task[k].list, task[k].at, Target(k))
<1>1. List(k) \in Seq(Sockets) /\ task[k].at \in Nat /\ task[k].at >= 1
  BY Lists, TaskFields
<1>2. task[k].at \in 1 .. Len(List(k))
  BY <1>1
<1> QED
  BY <1>1, <1>2, TargetHeld, ElementOfSeq DEF Target

LEMMA DeadStep ==
  ASSUME ShapeOK, DeadOK, ListsOK, Next
  PROVE  DeadOK'
<1> SUFFICES ASSUME NEW k \in Carriers, NEW i \in 1 .. Len(task'[k].dead)
             PROVE  sock'[task'[k].dead[i]] \notin {"new", "open"}
  BY DEF DeadOK
<1>0. \A s \in Sockets : sock[s] \notin {"new", "open"} => sock'[s] \notin {"new", "open"}
  BY SockStep DEF SockMoves
<1>1. task[k].dead \in Seq(Sockets) /\ Len(task[k].dead) \in Nat
      /\ \A j \in 1 .. Len(task[k].dead) :
           task[k].dead[j] \in Sockets /\ sock[task[k].dead[j]] \notin {"new", "open"}
  BY TaskFields DEF DeadOK
<1>2. CASE task'[k].dead = task[k].dead
  BY <1>0, <1>1, <1>2
<1>3. CASE task'[k].dead = <<>>
  BY <1>3
<1>4. CASE SendMoves(k) /\ sock[Target(k)] # "open"
           /\ task'[k].dead = Append(task[k].dead, Target(k))
  <2>1. task[k].at <= Len(List(k))
    BY <1>4 DEF SendMoves, Send
  <2>2. Target(k) \in Sockets /\ sock[Target(k)] # "new"
    BY <2>1, SendTarget DEF ListsOK
  <2>3. \/ i \in 1 .. Len(task[k].dead) /\ task'[k].dead[i] = task[k].dead[i]
        \/ task'[k].dead[i] = Target(k)
    BY <1>1, <1>4, <2>2, AppendProperties
  <2> QED
    BY <1>0, <1>1, <1>4, <2>2, <2>3
<1>5. TaskMoves(k)
  BY TaskStep
<1>6. CASE k \in Requests /\ Broadcast(k) /\ task'[k] = Begun(k, <<k, sent[k] + 1>>)
  <2>1. <<k, sent[k] + 1>> \in Messages
    BY <1>6, ServedMessage DEF Broadcast
  <2> QED
    BY <1>3, <1>6, <2>1, BegunFields
<1>7. CASE k \in Procs /\ Dispatch(k) /\ task'[k] = Begun(k, Head(queue[k]))
  <2>1. Head(queue[k]) \in Messages
    BY <1>7, QueueHeads DEF Dispatch
  <2> QED
    BY <1>3, <1>7, <2>1, BegunFields
<1> QED
  BY <1>2, <1>3, <1>4, <1>5, <1>6, <1>7, IdleTask
     DEF TaskMoves, SendMoves, PruneMoves

-----------------------------------------------------------------------------
(* The gauge.                                                               *)

ListedIn(p) == {s \in Sockets : Home[s] = p /\ Listed(s)}

LEMMA ListedHolds ==
  ASSUME NEW s \in Sockets
  PROVE  /\ Listed(s) <=> \E l, i : Holds(Home[s], l, i, s)
         /\ Listed(s)' <=> \E l, i : Holds(Home[s], l, i, s)'
BY DEF Listed, Holds, Contains

LEMMA GaugeJoin ==
  ASSUME ShapeOK, ListsOK, GaugeCountsListed, NEW s \in Sockets, Connect(s)
  PROVE  GaugeCountsListed'
<1>1. PICK p, L, I : Joins(s, p, L, I)
  BY ConnectJoins
<1>2. p \in Procs /\ p = Home[s]
  BY <1>1 DEF Joins
<1>3. \A q \in Procs : \A l, i, t :
         Holds(q, l, i, t)' <=>
           Holds(q, l, i, t) \/ (q = p /\ l = L /\ i = I /\ t = s)
  BY <1>1, HoldsJoin
<1>4. \A t \in Sockets : Listed(t)' <=> Listed(t) \/ t = s
  <2>1. \A t \in Sockets : Home[t] \in Procs
    BY HomeAssumption
  <2> QED
    BY <1>2, <1>3, <2>1, ListedHolds
<1>5. ~ Listed(s)
  <2>1. sock[s] = "new"
    BY DEF Connect
  <2> QED
    BY <1>2, <2>1, ListedHolds DEF ListsOK
<1>6. gauge \in [Procs -> Int] /\ gauge' = [gauge EXCEPT ![p] = gauge[p] + 1]
  BY <1>2 DEF Connect, ShapeOK
<1>7. ASSUME NEW q \in Procs PROVE gauge'[q] = Cardinality(ListedIn(q)')
  <2>1. gauge[q] = Cardinality(ListedIn(q))
    BY DEF GaugeCountsListed, ListedIn
  <2>2. CASE q = p
    <3>1. ListedIn(p)' = ListedIn(p) \cup {s} /\ s \notin ListedIn(p)
      BY <1>2, <1>4, <1>5 DEF ListedIn
    <3>2. IsFiniteSet(ListedIn(p))
      <4>1. ListedIn(p) \in SUBSET Sockets
        BY DEF ListedIn
      <4> QED
        BY <4>1, SocketsAssumption, FS_Subset
    <3>3. Cardinality(ListedIn(p) \cup {s}) = Cardinality(ListedIn(p)) + 1
      BY <3>1, <3>2, FS_AddElement
    <3> QED
      BY <1>6, <2>1, <2>2, <3>1, <3>3
  <2>3. CASE q # p
    <3>1. ListedIn(q)' = ListedIn(q)
      BY <1>2, <1>4, <2>3 DEF ListedIn
    <3> QED
      BY <1>6, <2>1, <2>3, <3>1
  <2> QED
    BY <2>2, <2>3
<1> QED
  BY <1>7 DEF GaugeCountsListed, ListedIn

LEMMA GaugeShrink ==
  ASSUME ShapeOK, ListsOK, GaugeCountsListed,
         NEW p \in Procs, NEW l \in 1 .. Len(conns[p]),
         NEW gone \in SUBSET Sockets, Shrunk(p, l, gone)
  PROVE  GaugeCountsListed'
<1>1. /\ \A q \in Procs : Len(conns'[q]) = Len(conns[q])
      /\ \A q \in Procs : \A m \in 1 .. Len(conns[q]) :
           q # p \/ m # l => conns'[q][m] = conns[q][m]
      /\ \A s : Contains(conns'[p][l], s) <=> Contains(conns[p][l], s) /\ s \notin gone
  BY ShrunkMoves
<1>2. \A s \in gone : /\ Contains(conns[p][l], s) /\ Home[s] = p
                      /\ \A m \in 1 .. Len(conns[p]) : Contains(conns[p][m], s) => m = l
  <2> SUFFICES ASSUME NEW s \in gone
               PROVE  /\ Contains(conns[p][l], s) /\ Home[s] = p
                      /\ \A m \in 1 .. Len(conns[p]) : Contains(conns[p][m], s) => m = l
    OBVIOUS
  <2>1. Contains(conns[p][l], s)
    BY DEF Shrunk
  <2>2. PICK i : Holds(p, l, i, s)
    BY <2>1 DEF Holds, Contains
  <2>3. \A m \in 1 .. Len(conns[p]) : Contains(conns[p][m], s) => \E j : Holds(p, m, j, s)
    BY DEF Holds, Contains
  <2> QED
    BY <2>1, <2>2, <2>3 DEF ListsOK
<1>3. ASSUME NEW s \in Sockets PROVE Listed(s)' <=> Listed(s) /\ s \notin gone
  <2>0. Home[s] \in Procs
    BY HomeAssumption
  <2>1. CASE Home[s] # p
    <3>1. s \notin gone
      BY <1>2, <2>1
    <3> QED
      BY <1>1, <2>0, <2>1, <3>1 DEF Listed
  <2>2. CASE Home[s] = p
    <3>1. ASSUME Listed(s)' PROVE Listed(s) /\ s \notin gone
      <4>1. PICK m \in 1 .. Len(conns[p]) : Contains(conns'[p][m], s)
        BY <1>1, <2>2, <3>1 DEF Listed
      <4>2. Contains(conns[p][m], s) /\ s \notin gone
        <5>1. CASE m = l
          BY <1>1, <4>1, <5>1
        <5>2. CASE m # l
          <6>1. Contains(conns[p][m], s)
            BY <1>1, <4>1, <5>2
          <6> QED
            BY <1>2, <5>2, <6>1
        <5> QED
          BY <5>1, <5>2
      <4> QED
        BY <2>2, <4>2 DEF Listed
    <3>2. ASSUME Listed(s), s \notin gone PROVE Listed(s)'
      <4>1. PICK m \in 1 .. Len(conns[p]) : Contains(conns[p][m], s)
        BY <2>2, <3>2 DEF Listed
      <4>2. Contains(conns'[p][m], s)
        BY <1>1, <3>2, <4>1
      <4> QED
        BY <1>1, <2>2, <4>2 DEF Listed
    <3> QED
      BY <3>1, <3>2
  <2> QED
    BY <2>1, <2>2
<1>4. /\ gauge \in [Procs -> Int]
      /\ gauge' = [gauge EXCEPT ![p] = gauge[p] - Cardinality(gone)]
  BY DEF Shrunk, ShapeOK
<1>5. ASSUME NEW q \in Procs PROVE gauge'[q] = Cardinality(ListedIn(q)')
  <2>1. gauge[q] = Cardinality(ListedIn(q))
    BY DEF GaugeCountsListed, ListedIn
  <2>2. CASE q = p
    <3>1. ListedIn(p)' = ListedIn(p) \ gone
      BY <1>3 DEF ListedIn
    <3>2. \A s \in gone : s \in ListedIn(p)
      BY <1>2 DEF ListedIn, Listed
    <3>3. IsFiniteSet(ListedIn(p))
      <4>1. ListedIn(p) \in SUBSET Sockets
        BY DEF ListedIn
      <4> QED
        BY <4>1, SocketsAssumption, FS_Subset
    <3>4. /\ Cardinality(ListedIn(p) \ gone)
               = Cardinality(ListedIn(p)) - Cardinality(ListedIn(p) \cap gone)
          /\ ListedIn(p) \cap gone = gone
      BY <3>2, <3>3, FS_Difference
    <3> QED
      BY <1>4, <2>1, <2>2, <3>1, <3>4
  <2>3. CASE q # p
    <3>1. ListedIn(q)' = ListedIn(q)
      BY <1>2, <1>3, <2>3 DEF ListedIn
    <3> QED
      BY <1>4, <2>1, <2>3, <3>1
  <2> QED
    BY <2>2, <2>3
<1> QED
  BY <1>5 DEF GaugeCountsListed, ListedIn

LEMMA GaugeStep ==
  ASSUME ShapeOK, DeadOK, ListsOK, GaugeCountsListed, Next
  PROVE  GaugeCountsListed'
<1>1. CASE UNCHANGED <<conns, gauge>>
  BY <1>1 DEF GaugeCountsListed, Listed
<1> QED
  BY <1>1, ListsEffect, GaugeJoin, GaugeShrink

-----------------------------------------------------------------------------
(* What holds of the sockets, lists and tasks in every state.               *)

CoreOK == ShapeOK /\ DeadOK /\ CarryOK /\ LocalOK /\ ListsOK

LEMMA CoreInit == Init => CoreOK
<1> SUFFICES ASSUME Init PROVE CoreOK
  OBVIOUS
<1>1. <<>> \in Seq(Seq(Sockets)) /\ <<>> \in Seq(Messages) /\ Len(<<>>) = 0
  BY EmptySeq
<1>2. \A k \in Carriers : task[k] = Idle /\ ProcOf(k) \in Procs
  BY ProcOfType DEF Init, Carriers
<1>3. \A p \in Procs : conns[p] = <<>> /\ p \in Carriers
  BY DEF Init, Carriers
<1>4. ShapeOK
  <2>1. task \in [Carriers -> Tasks]
    BY IdleTask DEF Init, Carriers
  <2>2. \A k \in Carriers : task[k].list \in 0 .. Len(conns[ProcOf(k)])
    BY <1>1, <1>2, <1>3, IdleTask
  <2>3. sent \in [Requests -> Nat] /\ \A h \in Requests : sent[h] \in 0 .. MaxMessages[h]
    BY BoundsAssumption DEF Init
  <2>4. /\ sock \in [Sockets -> {"new", "open", "lost", "closed"}]
        /\ gauge \in [Procs -> Int] /\ faults \in 0 .. MaxFaults
    BY BoundsAssumption DEF Init
  <2>5. /\ conns \in [Procs -> Seq(Seq(Sockets))]
        /\ queue \in [Procs -> Seq(Messages)] /\ got \in [Sockets -> Seq(Messages)]
    BY <1>1 DEF Init
  <2>6. reg = [p \in Procs |-> reg[p]] /\ \A p \in Procs : reg[p] \in 0 .. Len(conns[p])
    BY <1>1, <1>3 DEF Init
  <2> QED
    BY <2>1, <2>2, <2>3, <2>4, <2>5, <2>6 DEF ShapeOK
<1>5. DeadOK
  BY <1>1, <1>2, IdleTask DEF DeadOK
<1>6. CarryOK
  BY <1>2, IdleTask DEF CarryOK, Carriers
<1>7. LocalOK
  BY <1>2, <1>3, IdleTask DEF LocalOK
<1>8. ListsOK
  BY <1>1, <1>3 DEF ListsOK, Holds
<1> QED
  BY <1>4, <1>5, <1>6, <1>7, <1>8 DEF CoreOK

LEMMA CoreStep == CoreOK /\ [Next]_vars => CoreOK'
<1> SUFFICES ASSUME CoreOK, [Next]_vars PROVE CoreOK'
  OBVIOUS
<1>1. CASE Next
  BY <1>1, ShapeStep, DeadStep, CarryStep, LocalStep, ListsStep DEF CoreOK
<1>2. CASE UNCHANGED vars
  BY <1>2 DEF CoreOK, ShapeOK, DeadOK, CarryOK, LocalOK, ListsOK, Holds, vars
<1> QED
  BY <1>1, <1>2

LEMMA CoreInvariance == Spec => []CoreOK
BY CoreInit, CoreStep, PTL DEF Spec

(* A socket is counted by the gauge of its process exactly as long as a     *)
(* list of the process holds it, whoever takes it out: the endpoint on a    *)
(* disconnect, or broadcasts that find it dead, several at once.            *)
THEOREM GaugeIsRight == Spec => []GaugeCountsListed
<1>1. Init => GaugeCountsListed
  <2> SUFFICES ASSUME Init PROVE GaugeCountsListed
    OBVIOUS
  <2>1. \A p \in Procs : gauge[p] = 0 /\ Len(conns[p]) = 0
    BY DEF Init
  <2>2. \A s \in Sockets : ~ Listed(s)
    BY <2>1, HomeAssumption DEF Listed
  <2>3. \A p \in Procs : ListedIn(p) = {}
    BY <2>2 DEF ListedIn
  <2> QED
    BY <2>1, <2>3, FS_EmptySet DEF GaugeCountsListed, ListedIn
<1>2. CoreOK /\ GaugeCountsListed /\ [Next]_vars => GaugeCountsListed'
  <2> SUFFICES ASSUME CoreOK, GaugeCountsListed, [Next]_vars PROVE GaugeCountsListed'
    OBVIOUS
  <2>1. CASE Next
    BY <2>1, GaugeStep DEF CoreOK
  <2>2. CASE UNCHANGED vars
    BY <2>2 DEF GaugeCountsListed, Listed, vars
  <2> QED
    BY <2>1, <2>2
<1> QED
  BY <1>1, <1>2, CoreInvariance, PTL DEF Spec

(* Every variable has its type, the gauge never goes below zero.            *)
THEOREM TypesHold == Spec => []TypeOK
<1>1. CoreOK /\ GaugeCountsListed => TypeOK
  <2> SUFFICES ASSUME CoreOK, GaugeCountsListed PROVE TypeOK
    OBVIOUS
  <2>1. ASSUME NEW p \in Procs PROVE gauge[p] \in Nat
    <3>1. ListedIn(p) \in SUBSET Sockets
      BY DEF ListedIn
    <3>2. Cardinality(ListedIn(p)) \in Nat
      BY <3>1, SocketsAssumption, FS_Subset, FS_CardinalityType
    <3> QED
      BY <3>2 DEF GaugeCountsListed, ListedIn
  <2>2. gauge \in [Procs -> Nat]
    BY <2>1 DEF CoreOK, ShapeOK
  <2> QED
    BY <2>2 DEF CoreOK, ShapeOK, TypeOK, Carriers
<1> QED
  BY <1>1, CoreInvariance, GaugeIsRight, PTL

-----------------------------------------------------------------------------
(* The order of the messages of a request.                                  *)

(* Whoever is in a list was there before, no earlier, or connects.          *)
LEMMA HoldsStep ==
  ASSUME ShapeOK, DeadOK, Next, NEW p \in Procs, NEW l, NEW i, NEW s,
         Holds(p, l, i, s)'
  PROVE  \/ s \in Sockets /\ Connect(s)
         \/ \E j \in Nat : i <= j /\ Holds(p, l, j, s)
<1>1. CASE UNCHANGED <<conns, gauge>>
  <2>1. Holds(p, l, i, s)
    BY <1>1, HoldsKept
  <2>2. i \in Nat
    BY <2>1, HoldsType
  <2> QED
    BY <2>1, <2>2
<1>2. ASSUME NEW t \in Sockets, Connect(t)
      PROVE  \/ s \in Sockets /\ Connect(s)
             \/ \E j \in Nat : i <= j /\ Holds(p, l, j, s)
  <2>1. PICK q, L, I : Joins(t, q, L, I)
    BY <1>2, ConnectJoins
  <2>2. Holds(p, l, i, s) \/ s = t
    BY <2>1, HoldsJoin
  <2>3. Holds(p, l, i, s) => i \in Nat
    BY HoldsType
  <2> QED
    BY <1>2, <2>2, <2>3
<1>3. ASSUME NEW q \in Procs, NEW m \in 1 .. Len(conns[q]),
             NEW gone \in SUBSET Sockets, Shrunk(q, m, gone)
      PROVE  \E j \in Nat : i <= j /\ Holds(p, l, j, s)
  <2>1. PICK f : Embeds(conns[q][m], gone, f)
    BY <1>3, ShrunkMoves
  <2>2. /\ Holds(p, l, Before(q, m, f, p, l, i), s)
        /\ i <= Before(q, m, f, p, l, i)
    BY <1>3, <2>1, Whence
  <2>3. Before(q, m, f, p, l, i) \in Nat
    BY <2>2, HoldsType
  <2> QED
    BY <2>2, <2>3
<1> QED
  BY <1>1, <1>2, <1>3, ListsEffect

(* All that a socket has got of a request is older than its message n.      *)
Below(s, h, n) ==
  \A j \in 1 .. Len(got[s]) : got[s][j][1] = h => got[s][j][2] < n

LEMMA GotMessages ==
  ASSUME ShapeOK, NEW s \in Sockets
  PROVE  /\ got[s] \in Seq(Messages) /\ Len(got[s]) \in Nat
         /\ \A j \in 1 .. Len(got[s]) :
              got[s][j] \in Messages /\ got[s][j][1] \in Requests /\ got[s][j][2] \in Nat
<1>1. got[s] \in Seq(Messages)
  BY DEF ShapeOK
<1>2. \A m \in Messages : m[1] \in Requests /\ m[2] \in Nat
  BY DEF Messages
<1> QED
  BY <1>1, <1>2, ElementOfSeq, LenProperties

LEMMA BelowGrows ==
  ASSUME ShapeOK, NEW s \in Sockets, NEW h, NEW m \in Nat, NEW n \in Nat,
         m <= n, Below(s, h, m)
  PROVE  Below(s, h, n)
<1>1. \A j \in 1 .. Len(got[s]) : got[s][j][2] \in Nat
  BY GotMessages
<1>2. \A j \in 1 .. Len(got[s]) : got[s][j][1] = h => got[s][j][2] < m
  BY DEF Below
<1>3. \A j \in 1 .. Len(got[s]) : got[s][j][1] = h => got[s][j][2] < n
  BY <1>1, <1>2
<1> QED
  BY <1>3 DEF Below

(* A message that is delivered is the only one a socket gets in the step.   *)
LEMMA BelowDelivered ==
  ASSUME ShapeOK, NEW k \in Carriers, Delivers(k), task[k].msg \in Messages,
         NEW s \in Sockets, NEW h, NEW n \in Nat
  PROVE  /\ s # Target(k) => got'[s] = got[s]
         /\ s # Target(k) => (Below(s, h, n)' <=> Below(s, h, n))
         /\ s = Target(k) =>
              (Below(s, h, n)' <=>
                 Below(s, h, n) /\ (task[k].msg[1] = h => task[k].msg[2] < n))
<1> DEFINE m == task[k].msg
<1>0. got \in [Sockets -> Seq(Messages)] /\ got[s] \in Seq(Messages)
      /\ Len(got[s]) \in Nat
  BY GotMessages DEF ShapeOK
<1>1. got' = [got EXCEPT ![Target(k)] = Append(got[Target(k)], m)] /\ m \in Messages
      /\ Target(k) \in Sockets
  BY DEF Delivers
<1> HIDE DEF m
<1>2. CASE s # Target(k)
  <2>1. got'[s] = got[s]
    BY <1>0, <1>1, <1>2
  <2> QED
    BY <1>2, <2>1 DEF Below
<1>3. CASE s = Target(k)
  <2>1. got'[s] = Append(got[s], m)
    BY <1>0, <1>1, <1>3
  <2> DEFINE N == Len(got[s])
  <2>2. /\ Len(Append(got[s], m)) = N + 1
        /\ \A i \in 1 .. N : Append(got[s], m)[i] = got[s][i]
        /\ Append(got[s], m)[N + 1] = m
    BY <1>0, <1>1, AppendProperties
  <2>3. Below(s, h, n)' => Below(s, h, n) /\ (m[1] = h => m[2] < n)
    <3>1. \A i \in 1 .. N : i \in 1 .. N + 1
      BY <1>0
    <3>2. N + 1 \in 1 .. N + 1
      BY <1>0
    <3> QED
      BY <2>1, <2>2, <3>1, <3>2 DEF Below
  <2>4. Below(s, h, n) /\ (m[1] = h => m[2] < n) => Below(s, h, n)'
    <3>1. \A i \in 1 .. N + 1 : i \in 1 .. N \/ i = N + 1
      BY <1>0
    <3> QED
      BY <2>1, <2>2, <3>1 DEF Below
  <2> QED
    BY <1>3, <2>3, <2>4 DEF m
<1> QED
  BY <1>2, <1>3

LEMMA BelowKept ==
  ASSUME NEW s, got'[s] = got[s]
  PROVE  \A h, n : Below(s, h, n)' <=> Below(s, h, n)
BY DEF Below

(* What is in the subscription of a process, and what its listener carries. *)
Queued(p, i, h, n) ==
  i \in 1 .. Len(queue[p]) /\ queue[p][i][1] = h /\ queue[p][i][2] = n

Carrying(p, h, n) ==
  task[p].pc = "local" /\ task[p].msg[1] = h /\ task[p].msg[2] = n

(* The messages of a request that other processes may have heard of are     *)
(* those before this one.                                                   *)
Bound(h) == IF task[h].pc \in {"local", "publish"} THEN sent[h] ELSE sent[h] + 1

LEMMA QueuedType ==
  ASSUME ShapeOK, NEW p \in Procs, NEW i, NEW h, NEW n, Queued(p, i, h, n)
  PROVE  i \in Nat /\ i >= 1 /\ h \in Requests /\ n \in Nat /\ <<h, n>> \in Messages
         /\ queue[p][i] = <<h, n>>
<1>1. queue[p] \in Seq(Messages) /\ Len(queue[p]) \in Nat
  BY LenProperties DEF ShapeOK
<1>2. i \in 1 .. Len(queue[p]) /\ queue[p][i][1] = h /\ queue[p][i][2] = n
  BY DEF Queued
<1>3. queue[p][i] \in Messages
  BY <1>1, <1>2, ElementOfSeq
<1>4. \A m \in Messages : m[1] \in Requests /\ m[2] \in Nat /\ m = <<m[1], m[2]>>
  BY DEF Messages
<1>5. i \in Nat /\ i >= 1
  BY <1>1, <1>2
<1>6. h \in Requests /\ n \in Nat /\ queue[p][i] = <<h, n>>
  BY <1>2, <1>3, <1>4
<1> QED
  BY <1>3, <1>5, <1>6

(* Messages of a request wait in the order of their numbers, and the one    *)
(* that the listener carries came before them.                              *)
BusOK ==
  \A p \in Procs : \A h \in Requests :
     /\ \A i, n : Queued(p, i, h, n) => n < Bound(h)
     /\ \A i, j, m, n :
          Queued(p, i, h, m) /\ Queued(p, j, h, n) /\ i < j => m < n
     /\ \A n : Carrying(p, h, n) =>
          n < Bound(h) /\ \A i, m : Queued(p, i, h, m) => n < m

LEMMA BoundStep ==
  ASSUME CoreOK, Next, NEW h \in Requests
  PROVE  /\ Bound(h) \in Nat /\ Bound(h)' \in Nat /\ Bound(h) <= Bound(h)'
         /\ Publish(h) => /\ Bound(h) = sent[h] /\ Bound(h)' = sent[h] + 1
                          /\ task[h].msg = <<h, sent[h]>>
         /\ sent[h] \in Nat /\ sent'[h] \in Nat /\ sent[h] <= sent'[h]
<1>0. h \in Carriers /\ h \notin Procs /\ ShapeOK /\ CarryOK
  BY TasksAssumption DEF Carriers, CoreOK
<1>1. sent[h] \in Nat /\ sent'[h] \in Nat /\ TaskMoves(h)
  BY <1>0, SentStep, TaskStep DEF ShapeOK
<1>2. CASE Broadcast(h)
  <2>1. task[h].pc = "idle" /\ sent[h] < MaxMessages[h]
        /\ task' = [task EXCEPT ![h] = Begun(h, <<h, sent[h] + 1>>)]
        /\ sent' = [sent EXCEPT ![h] = sent[h] + 1]
    BY <1>2 DEF Broadcast
  <2>2. <<h, sent[h] + 1>> \in Messages
    BY <1>0, <2>1, ServedMessage
  <2>3. task'[h].pc = "local"
    BY <1>0, <2>1, <2>2, BeginTask, BegunFields
  <2>4. sent'[h] = sent[h] + 1
    BY <1>0, <2>1 DEF ShapeOK
  <2>5. ~ Publish(h)
    BY <2>1 DEF Publish
  <2> QED
    BY <1>1, <2>1, <2>3, <2>4, <2>5 DEF Bound
<1>3. CASE Publish(h)
  <2>1. task[h].pc = "publish" /\ task' = [task EXCEPT ![h] = Idle] /\ sent' = sent
    BY <1>3 DEF Publish
  <2>2. task'[h].pc = "idle"
    BY <1>0, <2>1, IdleTask DEF ShapeOK
  <2>3. task[h].msg = <<h, sent[h]>>
    BY <1>0, <2>1 DEF CarryOK
  <2> QED
    BY <1>1, <2>1, <2>2, <2>3 DEF Bound
<1>4. CASE ~ Broadcast(h) /\ ~ Publish(h)
  <2>1. sent'[h] = sent[h]
    BY <1>0, <1>4, SentStep
  <2>2. task[h].pc \notin {"local", "publish"} => task'[h].pc \notin {"local", "publish"}
    BY <1>0, <1>1, <1>4
       DEF TaskMoves, SendMoves, PruneMoves, Send, Prune
  <2> QED
    BY <1>1, <1>4, <2>1, <2>2 DEF Bound
<1> QED
  BY <1>2, <1>3, <1>4

(* What a step adds to a subscription is the message published, after all   *)
(* the others; what it takes out is the first.                              *)
LEMMA QueuedStep ==
  ASSUME CoreOK, Next, NEW p \in Procs
  PROVE  \/ /\ queue'[p] = queue[p]
            /\ \A i, h, n : Queued(p, i, h, n)' <=> Queued(p, i, h, n)
         \/ \E g \in Requests :
              /\ Publish(g)
              /\ \A i, h, n : Queued(p, i, h, n)' =>
                   \/ Queued(p, i, h, n)
                   \/ h = g /\ n = sent[g] /\ i = Len(queue[p]) + 1
         \/ /\ Dispatch(p)
            /\ \A i, h, n : Queued(p, i, h, n)' => Queued(p, i + 1, h, n)
         \/ \A i, h, n : ~ Queued(p, i, h, n)'
<1>0. /\ queue[p] \in Seq(Messages) /\ Len(queue[p]) \in Nat /\ ShapeOK /\ CarryOK
  BY LenProperties DEF ShapeOK, CoreOK
<1>1. CASE queue'[p] = queue[p]
  BY <1>1 DEF Queued
<1>2. ASSUME NEW g \in Requests, Publish(g), queue'[p] = Append(queue[p], task[g].msg)
      PROVE  \A i, h, n : Queued(p, i, h, n)' =>
               \/ Queued(p, i, h, n)
               \/ h = g /\ n = sent[g] /\ i = Len(queue[p]) + 1
  <2>1. task[g].msg = <<g, sent[g]>> /\ task[g].msg \in Messages
    BY <1>0, <1>2, CarriedMessage DEF CarryOK, Publish
  <2> DEFINE N == Len(queue[p])
             m == task[g].msg
  <2>2. /\ Len(Append(queue[p], m)) = N + 1
        /\ \A i \in 1 .. N : Append(queue[p], m)[i] = queue[p][i]
        /\ Append(queue[p], m)[N + 1] = m
    BY <1>0, <2>1, AppendProperties
  <2>3. \A i \in 1 .. N + 1 : i \in 1 .. N \/ i = N + 1
    BY <1>0
  <2>4. m[1] = g /\ m[2] = sent[g]
    BY <2>1
  <2> QED
    BY <1>2, <2>2, <2>3, <2>4 DEF Queued
<1>3. CASE Dispatch(p) /\ queue[p] # <<>> /\ queue'[p] = Tail(queue[p])
  <2>1. /\ Len(Tail(queue[p])) = Len(queue[p]) - 1
        /\ \A i \in 1 .. Len(queue[p]) - 1 : Tail(queue[p])[i] = queue[p][i + 1]
    BY <1>0, <1>3, QueueHeads
  <2>2. \A i \in 1 .. Len(queue[p]) - 1 : i + 1 \in 1 .. Len(queue[p])
    BY <1>0
  <2>3. \A i, h, n : Queued(p, i, h, n)' => Queued(p, i + 1, h, n)
    BY <1>3, <2>1, <2>2 DEF Queued
  <2> QED
    BY <1>3, <2>3
<1>4. CASE queue'[p] = <<>>
  <2>1. \A i : i \notin 1 .. Len(<<>>)
    BY EmptySeq
  <2> QED
    BY <1>4, <2>1 DEF Queued
<1> QED
  BY <1>0, <1>1, <1>2, <1>3, <1>4, QueueStep DEF QueueMoves

(* A listener carries on, or takes the first message.                       *)
LEMMA CarryingStep ==
  ASSUME CoreOK, Next, NEW p \in Procs, NEW h, NEW n, Carrying(p, h, n)'
  PROVE  \/ Carrying(p, h, n) /\ ~ Dispatch(p)
         \/ Dispatch(p) /\ Queued(p, 1, h, n) /\ At[h] # p
<1>0. p \in Carriers /\ p \notin Requests /\ ShapeOK
  BY TasksAssumption DEF Carriers, CoreOK
<1>1. TaskMoves(p)
  BY <1>0, TaskStep
<1>2. task'[p].pc = "local" /\ task'[p].msg[1] = h /\ task'[p].msg[2] = n
  BY DEF Carrying
<1>3. CASE task'[p] = task[p] \/ SendMoves(p)
  <2>1. Carrying(p, h, n)
    BY <1>2, <1>3 DEF Carrying, SendMoves, SameLoop, Send
  <2> QED
    BY <2>1 DEF Carrying, Dispatch
<1>4. CASE /\ Dispatch(p) /\ NotOwn(p, Head(queue[p]))
           /\ task'[p] = Begun(p, Head(queue[p]))
  <2>1. queue[p] # <<>>
    BY <1>4 DEF Dispatch
  <2>2. /\ Head(queue[p]) \in Messages /\ Head(queue[p]) = queue[p][1]
        /\ Len(queue[p]) \in Nat \ {0}
    BY <1>0, <2>1, QueueHeads
  <2>3. task'[p].msg = Head(queue[p])
    BY <1>0, <1>4, <2>2, BegunFields
  <2>4. 1 \in 1 .. Len(queue[p])
    BY <2>2
  <2> QED
    BY <1>2, <1>4, <2>2, <2>3, <2>4 DEF Queued, NotOwn
<1>5. CASE PruneMoves(p)
  BY <1>0, <1>2, <1>5, IdleTask DEF PruneMoves
<1> QED
  BY <1>0, <1>1, <1>3, <1>4, <1>5 DEF TaskMoves

LEMMA BusStep ==
  ASSUME CoreOK, BusOK, Next
  PROVE  BusOK'
<1> SUFFICES ASSUME NEW p \in Procs, NEW h \in Requests
             PROVE  /\ \A i, n : Queued(p, i, h, n)' => n < Bound(h)'
                    /\ \A i, j, m, n : Queued(p, i, h, m)' /\ Queued(p, j, h, n)'
                                       /\ i < j => m < n
                    /\ \A n : Carrying(p, h, n)' =>
                         n < Bound(h)' /\ \A i, m : Queued(p, i, h, m)' => n < m
  BY DEF BusOK
<1>0. /\ Bound(h) \in Nat /\ Bound(h)' \in Nat /\ Bound(h) <= Bound(h)'
      /\ Publish(h) => Bound(h) = sent[h] /\ Bound(h)' = sent[h] + 1
      /\ sent[h] \in Nat
  BY BoundStep
<1>1. /\ \A i, n : Queued(p, i, h, n) =>
           i \in Nat /\ i >= 1 /\ n \in Nat /\ n < Bound(h) /\ i <= Len(queue[p])
      /\ \A i, j, m, n :
           Queued(p, i, h, m) /\ Queued(p, j, h, n) /\ i < j => m < n
      /\ \A n : Carrying(p, h, n) =>
           n < Bound(h) /\ \A i, m : Queued(p, i, h, m) => n < m
  <2>1. Len(queue[p]) \in Nat
    BY LenProperties DEF CoreOK, ShapeOK
  <2>2. \A i, n : Queued(p, i, h, n) => i <= Len(queue[p])
    BY <2>1 DEF Queued
  <2> QED
    BY <2>2, QueuedType DEF BusOK, CoreOK
<1>2. \A n : Carrying(p, h, n) => n \in Nat
  <2>1. task[p].pc = "local" => task[p].msg \in Messages
    BY DEF CoreOK, LocalOK
  <2> QED
    BY <2>1 DEF Carrying, Messages
<1>3. \A n : Carrying(p, h, n)' =>
        \/ Carrying(p, h, n) /\ ~ Dispatch(p)
        \/ Dispatch(p) /\ Queued(p, 1, h, n)
  BY CarryingStep
<1>4. CASE /\ queue'[p] = queue[p]
           /\ \A i, g, n : Queued(p, i, g, n)' <=> Queued(p, i, g, n)
  <2>1. \A n : Carrying(p, h, n)' => Carrying(p, h, n)
    <3>1. SUFFICES ASSUME Dispatch(p), NEW n, Queued(p, 1, h, n), Carrying(p, h, n)'
                   PROVE  FALSE
      BY <1>3
    <3>2. queue[p] # <<>> /\ queue' = [queue EXCEPT ![p] = Tail(@)]
      BY <3>1 DEF Dispatch
    <3>3. Len(queue'[p]) = Len(queue[p]) - 1 /\ Len(queue[p]) \in Nat \ {0}
          /\ Len(queue'[p]) \in Nat
      BY <3>2, QueueHeads DEF CoreOK, ShapeOK
    <3> QED
      BY <1>4, <3>3
  <2> QED
    BY <1>0, <1>1, <1>2, <1>4, <2>1
<1>5. ASSUME NEW g \in Requests, Publish(g),
             \A i, e, n : Queued(p, i, e, n)' =>
               \/ Queued(p, i, e, n)
               \/ e = g /\ n = sent[g] /\ i = Len(queue[p]) + 1
      PROVE  /\ \A i, n : Queued(p, i, h, n)' => n < Bound(h)'
             /\ \A i, j, m, n : Queued(p, i, h, m)' /\ Queued(p, j, h, n)'
                                /\ i < j => m < n
             /\ \A n : Carrying(p, h, n)' =>
                  n < Bound(h)' /\ \A i, m : Queued(p, i, h, m)' => n < m
  <2>1. ~ Dispatch(p)
    <3>1. p # g /\ task[g].pc = "publish" /\ task' = [task EXCEPT ![g] = Idle]
      BY <1>5, TasksAssumption DEF Publish
    <3>2. g \in Carriers /\ p \in Carriers
      BY DEF Carriers
    <3>3. task'[g] # task[g]
      BY <3>1, <3>2, IdleTask DEF CoreOK, ShapeOK
    <3>4. ASSUME Dispatch(p) PROVE FALSE
      <4>1. task'[g] = task[g]
        BY <3>1, <3>2, <3>4 DEF Dispatch, CoreOK, ShapeOK
      <4> QED
        BY <3>3, <4>1
    <3> QED
      BY <3>4
  <2>2. \A n : Carrying(p, h, n)' => Carrying(p, h, n)
    BY <1>3, <2>1
  <2>3. \A i, n : Queued(p, i, h, n)' =>
          \/ Queued(p, i, h, n)
          \/ n = Bound(h) /\ i = Len(queue[p]) + 1 /\ Bound(h) < Bound(h)'
    BY <1>0, <1>5
  <2>4. Len(queue[p]) \in Nat
    BY LenProperties DEF CoreOK, ShapeOK
  <2> QED
    BY <1>0, <1>1, <1>2, <2>2, <2>3, <2>4
<1>6. CASE /\ Dispatch(p)
           /\ \A i, g, n : Queued(p, i, g, n)' => Queued(p, i + 1, g, n)
  <2>1. \A n : Carrying(p, h, n)' => Queued(p, 1, h, n)
    BY <1>3, <1>6
  <2>2. \A i, n : Queued(p, i, h, n)' => i \in Nat /\ i >= 1
    <3>1. Len(queue'[p]) \in Nat
      <4>1. CoreOK'
        BY CoreStep
      <4>2. queue'[p] \in Seq(Messages)
        BY <4>1 DEF CoreOK, ShapeOK
      <4> QED
        BY <4>2, LenProperties
    <3> QED
      BY <3>1 DEF Queued
  <2>3. \A i, j, m, n : Queued(p, i, h, m)' /\ Queued(p, j, h, n)' /\ i < j => m < n
    <3> SUFFICES ASSUME NEW i, NEW j, NEW m, NEW n,
                        Queued(p, i, h, m)', Queued(p, j, h, n)', i < j
                 PROVE  m < n
      OBVIOUS
    <3>1. Queued(p, i + 1, h, m) /\ Queued(p, j + 1, h, n)
      BY <1>6
    <3>2. i + 1 < j + 1
      BY <2>2
    <3> QED
      BY <1>1, <3>1, <3>2
  <2>4. \A n : Carrying(p, h, n)' =>
          n < Bound(h) /\ \A i, m : Queued(p, i, h, m)' => n < m
    <3>1. \A i \in Nat : i >= 1 => 1 < i + 1
      OBVIOUS
    <3> QED
      BY <1>1, <1>6, <2>1, <2>2, <3>1
  <2> QED
    BY <1>0, <1>1, <1>2, <1>6, <2>1, <2>3, <2>4
<1>7. CASE \A i, g, n : ~ Queued(p, i, g, n)'
  BY <1>0, <1>1, <1>2, <1>3, <1>7
<1> QED
  BY <1>4, <1>5, <1>6, <1>7, QueuedStep

(* Nothing is written to a socket that has not connected.                   *)
FreshOK == \A s \in Sockets : sock[s] = "new" => got[s] = <<>>

(* A viewer is not ahead of the carrier of its process.                     *)
HeardOK ==
  \A s \in Sockets : \A h \in Requests :
     /\ At[h] = Home[s] => \A n \in Nat : sent[h] < n => Below(s, h, n)
     /\ At[h] # Home[s] =>
          /\ \A n \in Nat : Bound(h) <= n => Below(s, h, n)
          /\ \A i, n : Queued(Home[s], i, h, n) => Below(s, h, n)
          /\ \A n : Carrying(Home[s], h, n) => Below(s, h, n + 1)

(* Whom the loop has yet to reach has not got the message, nor a later one. *)
BehindOK ==
  \A k \in Carriers : task[k].pc = "local" =>
     \A l, i, s, h, n :
        /\ l = task[k].list /\ h = task[k].msg[1] /\ n = task[k].msg[2]
        /\ Holds(ProcOf(k), l, i, s) /\ task[k].at <= i
        => Below(s, h, n)

OrderOK == BusOK /\ FreshOK /\ HeardOK /\ BehindOK /\ OnceInOrder

(* Two carriers in a process carry messages of different requests.          *)
LEMMA OneCarrier ==
  ASSUME CoreOK, NEW j \in Carriers, NEW k \in Carriers, j # k,
         task[j].pc = "local", task[k].pc = "local", ProcOf(j) = ProcOf(k)
  PROVE  task[j].msg[1] # task[k].msg[1]
<1>1. \A h \in Requests : task[h].pc = "local" =>
         task[h].msg[1] = h /\ ProcOf(h) = At[h]
  BY TasksAssumption DEF CoreOK, CarryOK, ProcOf
<1>2. \A p \in Procs : task[p].pc = "local" =>
         At[task[p].msg[1]] # p /\ ProcOf(p) = p
  BY DEF CoreOK, LocalOK, ProcOf
<1> QED
  BY <1>1, <1>2 DEF Carriers

(* What is delivered, and by whom.                                          *)
LEMMA DeliveryFacts ==
  ASSUME CoreOK, NEW k \in Carriers, Send(k), Delivers(k)
  PROVE  /\ task[k].msg \in Messages /\ task[k].msg[1] \in Requests
         /\ task[k].msg[2] \in Nat
         /\ Target(k) \in Sockets /\ ProcOf(k) \in Procs
         /\ Holds(ProcOf(k), task[k].list, task[k].at, Target(k))
         /\ Home[Target(k)] = ProcOf(k)
         /\ At[task[k].msg[1]] = ProcOf(k) =>
              k = task[k].msg[1] /\ task[k].msg[2] = sent[k]
         /\ At[task[k].msg[1]] # ProcOf(k) =>
              k = ProcOf(k) /\ Carrying(k, task[k].msg[1], task[k].msg[2])
         /\ conns' = conns /\ queue' = queue /\ sent' = sent
<1>0. ShapeOK /\ CarryOK /\ LocalOK /\ ListsOK
  BY DEF CoreOK
<1>1. task[k].pc = "local" /\ task[k].at <= Len(List(k))
      /\ conns' = conns /\ queue' = queue /\ sent' = sent
  BY DEF Send
<1>2. task[k].msg \in Messages
  BY <1>0, <1>1, LocalMessage
<1>3. task[k].msg[1] \in Requests /\ task[k].msg[2] \in Nat
  BY <1>2 DEF Messages
<1>4. /\ Target(k) \in Sockets /\ ProcOf(k) \in Procs
      /\ Holds(ProcOf(k), task[k].list, task[k].at, Target(k))
  BY <1>0, <1>1, SendTarget
<1>5. Home[Target(k)] = ProcOf(k)
  BY <1>0, <1>4 DEF ListsOK
<1>6. CASE k \in Procs
  <2>1. ProcOf(k) = k /\ At[task[k].msg[1]] # k
    BY <1>0, <1>1, <1>6 DEF ProcOf, LocalOK
  <2> QED
    BY <1>1, <1>2, <1>3, <1>4, <1>5, <2>1 DEF Carrying
<1>7. CASE k \notin Procs
  <2>1. k \in Requests /\ ProcOf(k) = At[k]
    BY <1>7 DEF Carriers, ProcOf
  <2>2. task[k].msg[1] = k /\ task[k].msg[2] = sent[k]
    BY <1>0, <1>1, <2>1 DEF CarryOK
  <2> QED
    BY <1>1, <1>2, <1>3, <1>4, <1>5, <2>1, <2>2
<1> QED
  BY <1>6, <1>7

LEMMA FreshStep ==
  ASSUME CoreOK, FreshOK, Next
  PROVE  FreshOK'
<1> SUFFICES ASSUME NEW s \in Sockets, sock'[s] = "new" PROVE got'[s] = <<>>
  BY DEF FreshOK
<1>0. sock[s] = "new" /\ got[s] = <<>>
  BY SockStep DEF SockMoves, FreshOK, CoreOK
<1>1. ASSUME NEW k \in Carriers, Delivers(k) PROVE got'[s] = got[s]
  <2>1. Target(k) # s
    BY <1>0, <1>1 DEF Delivers
  <2>2. got \in [Sockets -> Seq(Messages)]
    BY DEF CoreOK, ShapeOK
  <2> QED
    BY <1>1, <2>1, <2>2 DEF Delivers
<1> QED
  BY <1>0, <1>1, GotStep DEF CoreOK

LEMMA HeardKept ==
  ASSUME CoreOK, BusOK, HeardOK, Next, got' = got
  PROVE  HeardOK'
<1> SUFFICES ASSUME NEW s \in Sockets, NEW h \in Requests
             PROVE  /\ At[h] = Home[s] =>
                         \A n \in Nat : sent'[h] < n => Below(s, h, n)'
                    /\ At[h] # Home[s] =>
                         /\ \A n \in Nat : Bound(h)' <= n => Below(s, h, n)'
                         /\ \A i, n : Queued(Home[s], i, h, n)' => Below(s, h, n)'
                         /\ \A n : Carrying(Home[s], h, n)' => Below(s, h, n + 1)'
  BY DEF HeardOK
<1> DEFINE p == Home[s]
<1>0. p \in Procs /\ ShapeOK /\ \A g, n : Below(s, g, n)' <=> Below(s, g, n)
  BY HomeAssumption, BelowKept DEF CoreOK
<1>1. /\ Bound(h) \in Nat /\ Bound(h)' \in Nat /\ Bound(h) <= Bound(h)'
      /\ Publish(h) => Bound(h) = sent[h]
      /\ sent[h] \in Nat /\ sent'[h] \in Nat /\ sent[h] <= sent'[h]
  BY BoundStep
<1>2. CASE At[h] = Home[s]
  <2>1. \A n \in Nat : sent[h] < n => Below(s, h, n)
    BY <1>2 DEF HeardOK
  <2>2. \A n \in Nat : sent'[h] < n => sent[h] < n
    BY <1>1
  <2> QED
    BY <1>0, <1>2, <2>1, <2>2
<1>3. CASE At[h] # Home[s]
  <2>1. /\ \A n \in Nat : Bound(h) <= n => Below(s, h, n)
        /\ \A i, n : Queued(p, i, h, n) => Below(s, h, n)
        /\ \A n : Carrying(p, h, n) => Below(s, h, n + 1)
    BY <1>3 DEF HeardOK
  <2>2. \A n \in Nat : Bound(h)' <= n => Below(s, h, n)'
    <3>1. \A n \in Nat : Bound(h)' <= n => Bound(h) <= n
      BY <1>1
    <3> QED
      BY <1>0, <2>1, <3>1
  <2>3. ASSUME NEW i, NEW n, Queued(p, i, h, n)' PROVE Below(s, h, n)'
    <3>1. \/ \E j : Queued(p, j, h, n)
          \/ n = Bound(h)
      <4> HIDE DEF p
      <4> QED
        BY <1>0, <1>1, <2>3, QueuedStep
    <3>2. Bound(h) <= Bound(h)
      BY <1>1
    <3> QED
      BY <1>0, <1>1, <2>1, <3>1, <3>2
  <2>4. ASSUME NEW n, Carrying(p, h, n)' PROVE Below(s, h, n + 1)'
    <3>1. Carrying(p, h, n) \/ Queued(p, 1, h, n)
      <4> HIDE DEF p
      <4> QED
        BY <1>0, <2>4, CarryingStep
    <3>2. CASE Carrying(p, h, n)
      BY <1>0, <2>1, <3>2
    <3>3. CASE Queued(p, 1, h, n)
      <4>1. n \in Nat /\ Below(s, h, n)
        BY <1>0, <2>1, <3>3, QueuedType
      <4>2. n + 1 \in Nat /\ n <= n + 1
        BY <4>1
      <4>3. Below(s, h, n + 1)
        BY <1>0, <4>1, <4>2, BelowGrows
      <4> QED
        BY <1>0, <4>3
    <3> QED
      BY <3>1, <3>2, <3>3
  <2> QED
    BY <1>3, <2>2, <2>3, <2>4
<1> QED
  BY <1>2, <1>3

LEMMA HeardDelivered ==
  ASSUME CoreOK, BusOK, HeardOK, Next, NEW k \in Carriers, Send(k), Delivers(k)
  PROVE  HeardOK'
<1> SUFFICES ASSUME NEW s \in Sockets, NEW h \in Requests
             PROVE  /\ At[h] = Home[s] =>
                         \A n \in Nat : sent'[h] < n => Below(s, h, n)'
                    /\ At[h] # Home[s] =>
                         /\ \A n \in Nat : Bound(h)' <= n => Below(s, h, n)'
                         /\ \A i, n : Queued(Home[s], i, h, n)' => Below(s, h, n)'
                         /\ \A n : Carrying(Home[s], h, n)' => Below(s, h, n + 1)'
  BY DEF HeardOK
<1> DEFINE p == Home[s]
           g == task[k].msg[1]
           q == task[k].msg[2]
<1>0. p \in Procs /\ ShapeOK /\ sent[h] \in Nat
  BY HomeAssumption DEF CoreOK, ShapeOK
<1>1. /\ task[k].msg \in Messages /\ g \in Requests /\ q \in Nat
      /\ Home[Target(k)] = ProcOf(k)
      /\ At[g] = ProcOf(k) => k = g /\ q = sent[k]
      /\ At[g] # ProcOf(k) => k = ProcOf(k) /\ Carrying(k, g, q)
      /\ queue' = queue /\ sent' = sent
  BY DeliveryFacts
<1>2. ASSUME NEW n \in Nat, Below(s, h, n), s = Target(k) /\ g = h => q < n
      PROVE  Below(s, h, n)'
  BY <1>0, <1>1, <1>2, BelowDelivered
<1>3. Bound(h) \in Nat /\ Bound(h)' \in Nat /\ Bound(h) <= Bound(h)'
  BY BoundStep
<1>4. CASE At[h] = Home[s]
  <2>1. \A n \in Nat : sent[h] < n => Below(s, h, n)
    BY <1>4 DEF HeardOK
  <2>2. s = Target(k) /\ g = h => q = sent[h]
    BY <1>1, <1>4
  <2>3. ASSUME NEW n \in Nat, sent[h] < n PROVE Below(s, h, n)'
    BY <1>2, <2>1, <2>2, <2>3
  <2> QED
    BY <1>1, <1>4, <2>3
<1>5. CASE At[h] # Home[s]
  <2>1. /\ \A n \in Nat : Bound(h) <= n => Below(s, h, n)
        /\ \A i, n : Queued(p, i, h, n) => Below(s, h, n)
        /\ \A n : Carrying(p, h, n) => Below(s, h, n + 1)
    BY <1>5 DEF HeardOK
  <2>2. s = Target(k) /\ g = h => Carrying(p, h, q)
    BY <1>1, <1>5
  <2>3. s = Target(k) /\ g = h =>
          q < Bound(h) /\ \A i, m : Queued(p, i, h, m) => q < m
    BY <1>0, <2>2 DEF BusOK
  <2>4. \A i, n : Queued(p, i, h, n)' => Queued(p, i, h, n) /\ n \in Nat
    <3>1. \A i, n : Queued(p, i, h, n)' => Queued(p, i, h, n)
      BY <1>1 DEF Queued
    <3> HIDE DEF p
    <3> QED
      BY <1>0, <3>1, QueuedType
  <2>5. \A i, n : Queued(p, i, h, n)' => Below(s, h, n)'
    BY <1>2, <2>1, <2>3, <2>4
  <2>6. ASSUME NEW n \in Nat, Bound(h)' <= n PROVE Below(s, h, n)'
    <3>1. Below(s, h, n)
      BY <1>3, <2>1, <2>6
    <3>2. s = Target(k) /\ g = h => q < n
      BY <1>1, <1>3, <2>3, <2>6
    <3> QED
      BY <1>2, <3>1, <3>2
  <2>7. ASSUME NEW n, Carrying(p, h, n)' PROVE Below(s, h, n + 1)'
    <3>1. Carrying(p, h, n)
      <4>1. Carrying(p, h, n) \/ (Dispatch(p) /\ Queued(p, 1, h, n))
        <5> HIDE DEF p
        <5> QED
          BY <1>0, <2>7, CarryingStep
      <4>2. ~ Dispatch(p)
        <5>1. ASSUME Dispatch(p) PROVE FALSE
          <6>1. queue[p] # <<>> /\ queue' = [queue EXCEPT ![p] = Tail(@)]
            BY <5>1 DEF Dispatch
          <6>2. Len(queue'[p]) = Len(queue[p]) - 1 /\ Len(queue[p]) \in Nat \ {0}
            <7> HIDE DEF p
            <7> QED
              BY <1>0, <6>1, QueueHeads DEF ShapeOK
          <6> QED
            BY <1>1, <6>2
        <5> QED
          BY <5>1
      <4> QED
        BY <4>1, <4>2
    <3>2. task[p].msg \in Messages
      BY <1>0, <3>1 DEF Carrying, CoreOK, LocalOK
    <3>3. n \in Nat
      BY <3>1, <3>2 DEF Carrying, Messages
    <3>4. s = Target(k) /\ g = h => q = n
      BY <2>2, <3>1 DEF Carrying
    <3>5. n + 1 \in Nat /\ (s = Target(k) /\ g = h => q < n + 1)
      BY <3>3, <3>4
    <3>6. Below(s, h, n + 1)
      BY <2>1, <3>1
    <3> QED
      BY <1>2, <3>5, <3>6
  <2> QED
    BY <1>5, <2>5, <2>6, <2>7
<1> QED
  BY <1>4, <1>5

LEMMA HeardStep ==
  ASSUME CoreOK, BusOK, HeardOK, Next
  PROVE  HeardOK'
BY HeardKept, HeardDelivered, GotStep DEF CoreOK

LEMMA PlaceNext ==
  ASSUME CoreOK, Next, NEW p \in Procs, NEW l, NEW i, NEW s, Holds(p, l, i, s)'
  PROVE  i \in Nat /\ s \in Sockets
<1>1. conns'[p] \in Seq(Seq(Sockets)) /\ l \in 1 .. Len(conns'[p])
      /\ i \in 1 .. Len(conns'[p][l]) /\ conns'[p][l][i] = s
  BY ConnsStep DEF Holds, CoreOK
<1>2. conns'[p][l] \in Seq(Sockets)
  BY <1>1, ElementOfSeq
<1>3. Len(conns'[p][l]) \in Nat /\ s \in Sockets
  BY <1>1, <1>2, ElementOfSeq, LenProperties
<1> QED
  BY <1>1, <1>3

(* A loop that a step leaves alone.                                         *)
LEMMA BehindKept ==
  ASSUME CoreOK, FreshOK, BehindOK, Next,
         NEW k \in Carriers, task'[k] = task[k], task[k].pc = "local",
         NEW i, NEW s, Holds(ProcOf(k), task[k].list, i, s)', task[k].at <= i
  PROVE  Below(s, task[k].msg[1], task[k].msg[2])'
<1> DEFINE h == task[k].msg[1]
           n == task[k].msg[2]
           p == ProcOf(k)
           l == task[k].list
<1> SUFFICES ASSUME NEW g, NEW m, g = h, m = n
             PROVE  Below(s, g, m)'
  BY DEF Below
<1>0. ShapeOK /\ DeadOK /\ ListsOK /\ p \in Procs
  BY ProcOfType DEF CoreOK
<1>1. task[k].msg \in Messages /\ task[k].at \in Nat
  BY LocalMessage, TaskFields DEF CoreOK
<1>2. h \in Requests /\ n \in Nat
  BY <1>1 DEF Messages
<1>3. i \in Nat /\ s \in Sockets
  BY <1>0, PlaceNext
<1>4. CASE Connect(s)
  <2>1. got' = got /\ got[s] = <<>>
    BY <1>3, <1>4 DEF Connect, FreshOK
  <2>2. \A j : j \notin 1 .. Len(<<>>)
    BY EmptySeq
  <2> QED
    BY <2>1, <2>2 DEF Below
<1>5. ASSUME NEW j \in Nat, i <= j, Holds(p, l, j, s)
      PROVE  Below(s, g, m)'
  <2>1. task[k].at <= j
    BY <1>1, <1>3, <1>5
  <2>2. Below(s, g, m) /\ Home[s] = p
    <3>1. Below(s, g, m)
      BY <1>5, <2>1 DEF BehindOK
    <3>2. Home[s] = p
      <4> HIDE DEF p, l
      <4> QED
        BY <1>0, <1>5 DEF ListsOK
    <3> QED
      BY <3>1, <3>2
  <2>3. CASE got' = got
    BY <2>2, <2>3, BelowKept
  <2>4. ASSUME NEW o \in Carriers, Send(o), Delivers(o)
        PROVE  Below(s, g, m)'
    <3>1. SendMoves(o)
      BY <1>0, <2>4, SendTask
    <3>2. task[o].at \in Nat /\ task'[o].at = task[o].at + 1 /\ task[o].pc = "local"
      BY <1>0, <3>1, TaskFields DEF SendMoves, Send
    <3>3. o # k
      BY <3>2
    <3>4. task[o].msg \in Messages /\ Home[Target(o)] = ProcOf(o)
      BY <2>4, DeliveryFacts
    <3>5. s = Target(o) => task[o].msg[1] # g
      BY <2>2, <3>2, <3>3, <3>4, OneCarrier
    <3> QED
      BY <1>0, <1>2, <1>3, <2>2, <2>4, <3>4, <3>5, BelowDelivered
  <2> QED
    BY <1>0, <2>3, <2>4, GotStep
<1> QED
  BY <1>0, <1>4, <1>5, HoldsStep

LEMMA BehindStep ==
  ASSUME CoreOK, BusOK, FreshOK, HeardOK, BehindOK, Next
  PROVE  BehindOK'
<1> SUFFICES ASSUME NEW k \in Carriers, task'[k].pc = "local",
                    NEW l, NEW i, NEW s, NEW h, NEW n,
                    l = task'[k].list, h = task'[k].msg[1], n = task'[k].msg[2],
                    Holds(ProcOf(k), l, i, s)', task'[k].at <= i
             PROVE  Below(s, h, n)'
  BY DEF BehindOK
<1> DEFINE p == ProcOf(k)
<1>0. /\ ShapeOK /\ DeadOK /\ ListsOK /\ p \in Procs /\ TaskMoves(k)
      /\ i \in Nat /\ s \in Sockets /\ task[k].at \in Nat
  BY ProcOfType, TaskStep, PlaceNext, TaskFields DEF CoreOK
<1>1. CASE task'[k] = task[k]
  <2>1. Below(s, task[k].msg[1], task[k].msg[2])'
    BY <1>1, BehindKept
  <2> QED
    BY <1>1, <2>1 DEF Below
<1>2. CASE SendMoves(k)
  <2>1. /\ task[k].pc = "local" /\ task[k].at + 1 <= i
        /\ l = task[k].list /\ h = task[k].msg[1] /\ n = task[k].msg[2]
        /\ task[k].at <= Len(List(k)) /\ conns' = conns
    BY <1>2 DEF SendMoves, SameLoop, Send
  <2>2. Holds(p, l, i, s)
    BY <2>1, HoldsKept
  <2>3. task[k].at <= i /\ task[k].at # i
    BY <1>0, <2>1
  <2>4. Below(s, h, n)
    BY <2>1, <2>2, <2>3 DEF BehindOK
  <2>5. s # Target(k)
    BY <1>0, <2>1, <2>2, <2>3, SendTarget DEF ListsOK
  <2>6. got'[s] = got[s]
    BY <1>0, <1>2, <2>5 DEF SendMoves, Send, Target, ShapeOK
  <2> QED
    BY <2>4, <2>6, BelowKept
<1>3. CASE k \in Requests /\ Broadcast(k) /\ task'[k] = Begun(k, <<k, sent[k] + 1>>)
  <2>1. <<k, sent[k] + 1>> \in Messages /\ got' = got /\ conns' = conns
    BY <1>0, <1>3, ServedMessage DEF Broadcast
  <2>2. h = k /\ n = sent[k] + 1
    BY <1>0, <1>3, <2>1, BegunFields
  <2>3. Holds(p, l, i, s) /\ p = At[k]
    BY <1>3, <2>1, HoldsKept, TasksAssumption DEF ProcOf
  <2>4. Home[s] = At[k] /\ sent[k] \in Nat
    BY <1>0, <1>3, <2>3 DEF ListsOK, ShapeOK
  <2>5. n \in Nat /\ sent[k] < n
    BY <2>2, <2>4
  <2>6. Below(s, h, n)
    BY <1>0, <1>3, <2>2, <2>4, <2>5 DEF HeardOK
  <2> QED
    BY <2>1, <2>6, BelowKept
<1>4. CASE /\ k \in Procs /\ Dispatch(k) /\ NotOwn(k, Head(queue[k]))
           /\ task'[k] = Begun(k, Head(queue[k]))
  <2>1. /\ queue[k] # <<>> /\ got' = got /\ conns' = conns /\ p = k
    BY <1>4 DEF Dispatch, ProcOf
  <2>2. /\ Head(queue[k]) \in Messages /\ Head(queue[k]) = queue[k][1]
        /\ Len(queue[k]) \in Nat \ {0}
    BY <1>0, <1>4, <2>1, QueueHeads
  <2>3. h = Head(queue[k])[1] /\ n = Head(queue[k])[2]
    BY <1>0, <1>4, <2>2, BegunFields
  <2>4. 1 \in 1 .. Len(queue[k])
    BY <2>2
  <2>5. Queued(k, 1, h, n) /\ At[h] # k /\ h \in Requests
    BY <1>4, <2>2, <2>3, <2>4 DEF Queued, NotOwn, Messages
  <2>6. Holds(p, l, i, s)
    BY <2>1, HoldsKept
  <2>7. Home[s] = k
    BY <1>0, <2>1, <2>6 DEF ListsOK
  <2>8. Below(s, h, n)
    BY <1>0, <2>5, <2>7 DEF HeardOK
  <2> QED
    BY <2>1, <2>8, BelowKept
<1>5. ~ PruneMoves(k) /\ task'[k] # Idle
  BY IdleTask DEF PruneMoves
<1> QED
  BY <1>0, <1>1, <1>2, <1>3, <1>4, <1>5 DEF TaskMoves

LEMMA OnceStep ==
  ASSUME CoreOK, BehindOK, OnceInOrder, Next
  PROVE  OnceInOrder'
<1>1. CASE got' = got
  BY <1>1 DEF OnceInOrder
<1>2. ASSUME NEW k \in Carriers, Send(k), Delivers(k)
      PROVE  OnceInOrder'
  <2> SUFFICES ASSUME NEW s \in Sockets, NEW i \in 1 .. Len(got'[s]),
                      NEW j \in 1 .. Len(got'[s]),
                      i < j, got'[s][i][1] = got'[s][j][1]
               PROVE  got'[s][i][2] < got'[s][j][2]
    BY DEF OnceInOrder
  <2> DEFINE m == task[k].msg
             N == Len(got[s])
  <2>0. ShapeOK /\ got \in [Sockets -> Seq(Messages)] /\ got[s] \in Seq(Messages)
        /\ N \in Nat /\ m \in Messages /\ Target(k) \in Sockets
    BY <1>2, DeliveryFacts, GotMessages DEF CoreOK, ShapeOK
  <2>1. CASE s # Target(k)
    <3>1. got'[s] = got[s]
      BY <1>2, <2>0, <2>1 DEF Delivers
    <3> QED
      BY <3>1 DEF OnceInOrder
  <2>2. CASE s = Target(k)
    <3>1. got'[s] = Append(got[s], m)
      BY <1>2, <2>0, <2>2 DEF Delivers
    <3>2. /\ Len(Append(got[s], m)) = N + 1
          /\ \A o \in 1 .. N : Append(got[s], m)[o] = got[s][o]
          /\ Append(got[s], m)[N + 1] = m
      BY <2>0, AppendProperties
    <3>3. Below(s, m[1], m[2])
      <4>1. Holds(ProcOf(k), task[k].list, task[k].at, s)
        BY <1>2, <2>2, DeliveryFacts
      <4>2. task[k].pc = "local" /\ task[k].at \in Nat /\ task[k].at <= task[k].at
        BY <1>2, <2>0, TaskFields DEF Send
      <4> QED
        BY <4>1, <4>2 DEF BehindOK
    <3>4. i \in 1 .. N
      BY <2>0, <3>1, <3>2
    <3>5. CASE j \in 1 .. N
      BY <3>1, <3>2, <3>4, <3>5 DEF OnceInOrder
    <3>6. CASE j = N + 1
      BY <3>1, <3>2, <3>3, <3>4, <3>6 DEF Below
    <3>7. j \in 1 .. N \/ j = N + 1
      BY <2>0, <3>1, <3>2
    <3> QED
      BY <3>5, <3>6, <3>7
  <2> QED
    BY <2>1, <2>2
<1> QED
  BY <1>1, <1>2, GotStep DEF CoreOK

LEMMA OrderInit == Init => OrderOK
<1> SUFFICES ASSUME Init PROVE OrderOK
  OBVIOUS
<1>0. \A i : i \notin 1 .. Len(<<>>)
  BY EmptySeq
<1>1. /\ \A k \in Carriers : task[k].pc = "idle"
      /\ \A s \in Sockets : got[s] = <<>>
      /\ \A p \in Procs : queue[p] = <<>>
  BY IdleTask DEF Init, Carriers
<1>2. \A p \in Procs : \A i, h, n : ~ Queued(p, i, h, n) /\ ~ Carrying(p, h, n)
  BY <1>0, <1>1 DEF Queued, Carrying, Carriers
<1>3. \A s \in Sockets : \A h, n : Below(s, h, n) /\ Home[s] \in Procs
  BY <1>0, <1>1, HomeAssumption DEF Below
<1> QED
  BY <1>0, <1>1, <1>2, <1>3
     DEF OrderOK, BusOK, FreshOK, HeardOK, BehindOK, OnceInOrder

LEMMA OrderStep == CoreOK /\ OrderOK /\ [Next]_vars => OrderOK'
<1> SUFFICES ASSUME CoreOK, OrderOK, [Next]_vars PROVE OrderOK'
  OBVIOUS
<1>1. CASE Next
  BY <1>1, BusStep, FreshStep, HeardStep, BehindStep, OnceStep DEF OrderOK
<1>2. CASE UNCHANGED vars
  BY <1>2 DEF vars, OrderOK, BusOK, FreshOK, HeardOK, BehindOK, OnceInOrder,
              Queued, Carrying, Bound, Below, Holds
<1> QED
  BY <1>1, <1>2

(* Every viewer gets the messages of a request in their order and none of   *)
(* them twice, in the process of the request and in every other one,        *)
(* however the lists change under the broadcasts.                           *)
THEOREM DeliveryInOrder == Spec => []DeliveredInOrder
<1>1. OrderOK => OnceInOrder
  BY DEF OrderOK
<1> QED
  BY <1>1, CoreInvariance, OrderInit, OrderStep, TypesHold, PTL
     DEF Spec, DeliveredInOrder

-----------------------------------------------------------------------------
(* Who is skipped when elements are removed under an iteration.             *)

(* Those of a group that a removal moves from at, or after, a position to   *)
(* before it, and those of the group that it takes out.                     *)
Slipped(list, gone, f, group, at) ==
  {list[f[n]] : n \in {m \in 1 .. Len(Without(list, gone)) :
                         m < at /\ at <= f[m] /\ list[f[m]] \in group}}

TakenOut(list, gone, group) == {s \in group : s \in gone /\ Contains(list, s)}

(* As long as the group comes first in the list, no more of them slip than  *)
(* are taken out.                                                           *)
LEMMA SkipCount ==
  ASSUME NEW S, IsFiniteSet(S), NEW list \in Seq(S), NEW gone,
         NEW group \in SUBSET S, NEW at \in Nat, at >= 1,
         NEW f, Embeds(list, gone, f),
         \A i, j \in 1 .. Len(list) : list[i] = list[j] => i = j,
         \A i, j \in 1 .. Len(list) : i < j /\ list[j] \in group => list[i] \in group
  PROVE  /\ IsFiniteSet(Slipped(list, gone, f, group, at))
         /\ IsFiniteSet(TakenOut(list, gone, group))
         /\ Cardinality(Slipped(list, gone, f, group, at))
              <= Cardinality(TakenOut(list, gone, group))
<1> DEFINE w == Without(list, gone)
           N == Len(list)
           kept == Kept(list, gone)
           New == {m \in 1 .. Len(w) : m < at /\ at <= f[m] /\ list[f[m]] \in group}
           Slip == Slipped(list, gone, f, group, at)
           Lost == TakenOut(list, gone, group)
           Low == {i \in 1 .. N : i < at /\ list[i] \in gone}
           KeptLow == {i \in kept : i < at}
<1>1. /\ N \in Nat /\ Len(w) \in Nat /\ \A i \in 1 .. N : list[i] \in S
  BY WithoutEmbeds, ElementOfSeq, LenProperties
<1>2. \A n \in 1 .. Len(w) : /\ f[n] \in kept /\ f[n] \in 1 .. N
                             /\ list[f[n]] \notin gone /\ RankIn(kept, f[n]) = n
  BY DEF Embeds, Kept
<1>3. IsFiniteSet(Lost) /\ Lost \in SUBSET S /\ Cardinality(Lost) \in Nat
  <2>1. Lost \in SUBSET S
    BY DEF TakenOut
  <2> QED
    BY <2>1, FS_Subset, FS_CardinalityType
<1>4. IsFiniteSet(New) /\ Cardinality(New) \in Nat
  <2>1. IsFiniteSet(1 .. Len(w))
    BY <1>1, FS_Interval
  <2>2. New \in SUBSET (1 .. Len(w))
    OBVIOUS
  <2> QED
    BY <2>1, <2>2, FS_Subset, FS_CardinalityType
<1>5. IsFiniteSet(Slip) /\ Cardinality(Slip) <= Cardinality(New)
      /\ Cardinality(Slip) \in Nat
  <2> DEFINE g == [n \in New |-> list[f[n]]]
  <2>1. Slip = {list[f[n]] : n \in New}
    BY DEF Slipped
  <2> HIDE DEF New, Slip
  <2>2. g \in Surjection(New, Slip)
    BY <2>1 DEF Surjection
  <2> QED
    BY <1>4, <2>2, FS_Surjection, FS_CardinalityType
<1>6. ASSUME NEW n0 \in New
      PROVE  Cardinality(New) <= Cardinality(Lost)
  <2>0. /\ at <= f[n0] /\ f[n0] \in 1 .. N /\ list[f[n0]] \in group
        /\ at - 1 \in Nat /\ at - 1 <= N
    BY <1>1, <1>2
  <2>1. IsFiniteSet(Low) /\ Cardinality(Low) \in Nat
    <3>1. IsFiniteSet(1 .. N)
      BY <1>1, FS_Interval
    <3>2. Low \in SUBSET (1 .. N)
      OBVIOUS
    <3> QED
      BY <3>1, <3>2, FS_Subset, FS_CardinalityType
  <2>2. Cardinality(Low) <= Cardinality(Lost)
    <3> DEFINE g == [i \in Low |-> list[i]]
    <3>1. \A i \in Low : list[i] \in Lost
      <4> SUFFICES ASSUME NEW i \in Low PROVE list[i] \in Lost
        OBVIOUS
      <4>1. i \in 1 .. N /\ i < f[n0] /\ list[i] \in gone
        BY <1>1, <2>0
      <4>2. list[i] \in group
        BY <2>0, <4>1
      <4>3. Contains(list, list[i])
        BY <4>1 DEF Contains
      <4> QED
        BY <4>1, <4>2, <4>3 DEF TakenOut
    <3>2. \A i, j \in Low : list[i] = list[j] => i = j
      OBVIOUS
    <3> HIDE DEF Low, Lost
    <3>3. g \in Injection(Low, Lost)
      BY <3>1, <3>2 DEF Injection, IsInjective
    <3> QED
      BY <1>3, <3>3, FS_Injection
  <2>3. IsFiniteSet(KeptLow) /\ Cardinality(KeptLow) = at - 1 - Cardinality(Low)
        /\ Cardinality(KeptLow) \in Nat
    <3> DEFINE T == 1 .. at - 1
    <3>1. IsFiniteSet(T) /\ Cardinality(T) = at - 1
      BY <2>0, FS_Interval
    <3>2. \A i : i \in KeptLow <=> i \in T \ Low
      <4>1. \A i : i \in T <=> i \in 1 .. N /\ i < at
        BY <1>1, <2>0
      <4> QED
        BY <4>1 DEF Kept
    <3>3. \A i \in Low : i \in T
      BY <1>1, <2>0
    <3> HIDE DEF KeptLow, Low, T
    <3>4. KeptLow = T \ Low
      BY <3>2
    <3>5. T \cap Low = Low
      BY <3>3
    <3>6. /\ IsFiniteSet(T \ Low)
          /\ Cardinality(T \ Low) = at - 1 - Cardinality(Low)
      BY <3>1, <3>5, FS_Difference
    <3> QED
      BY <3>4, <3>6, FS_CardinalityType
  <2>4. ASSUME NEW n \in New
        PROVE  n \in at - Cardinality(Low) .. at - 1
    <3> DEFINE Up == {m \in kept : m <= f[n]}
    <3>1. /\ n \in 1 .. Len(w) /\ n < at /\ at <= f[n] /\ f[n] \in kept
          /\ Cardinality(Up) = n /\ n \in Nat
      BY <1>1, <1>2 DEF RankIn
    <3>2. IsFiniteSet(Up)
      <4>1. IsFiniteSet(1 .. N)
        BY <1>1, FS_Interval
      <4>2. Up \in SUBSET (1 .. N)
        BY DEF Kept
      <4> QED
        BY <4>1, <4>2, FS_Subset
    <3>3. KeptLow \cup {f[n]} \in SUBSET Up /\ f[n] \notin KeptLow
      <4>1. f[n] \in Nat
        BY <1>1, <1>2, <3>1
      <4>2. \A m \in kept : m \in Nat
        BY <1>1 DEF Kept
      <4>3. \A m \in KeptLow : m \in Up /\ m # f[n]
        BY <3>1, <4>1, <4>2
      <4>4. f[n] \in Up
        BY <3>1, <4>1
      <4> QED
        BY <4>3, <4>4
    <3> HIDE DEF KeptLow, Up
    <3>4. Cardinality(KeptLow \cup {f[n]}) = Cardinality(KeptLow) + 1
      BY <2>3, <3>3, FS_AddElement
    <3>5. Cardinality(KeptLow \cup {f[n]}) <= n
      BY <3>1, <3>2, <3>3, FS_Subset
    <3>6. at - Cardinality(Low) <= n
      BY <2>1, <2>3, <3>1, <3>4, <3>5
    <3> QED
      BY <2>1, <3>1, <3>6
  <2>5. /\ IsFiniteSet(at - Cardinality(Low) .. at - 1)
        /\ Cardinality(at - Cardinality(Low) .. at - 1) = Cardinality(Low)
    <3>1. at - Cardinality(Low) \in Int /\ at - 1 \in Int
      BY <2>0, <2>1
    <3> HIDE DEF Low
    <3>2. IF at - Cardinality(Low) > at - 1 THEN Cardinality(Low) = 0
          ELSE at - 1 - (at - Cardinality(Low)) + 1 = Cardinality(Low)
      BY <2>1
    <3> QED
      BY <3>1, <3>2, FS_Interval
  <2>6. New \in SUBSET (at - Cardinality(Low) .. at - 1)
    BY <2>4
  <2> HIDE DEF New, Low, Lost
  <2>7. Cardinality(New) <= Cardinality(Low)
    BY <2>5, <2>6, FS_Subset
  <2> QED
    BY <1>3, <1>4, <2>1, <2>2, <2>7
<1>7. CASE New = {}
  <2>1. Cardinality(New) = 0
    BY <1>7, FS_EmptySet
  <2> HIDE DEF New, Slip, Lost
  <2>2. Cardinality(Slip) <= Cardinality(Lost)
    BY <1>3, <1>5, <2>1
  <2> QED
    BY <1>3, <1>5, <2>2 DEF Slip, Lost
<1>8. CASE New # {}
  <2>1. Cardinality(New) <= Cardinality(Lost)
    BY <1>6, <1>8
  <2> HIDE DEF New, Slip, Lost
  <2>2. Cardinality(Slip) <= Cardinality(Lost)
    BY <1>3, <1>4, <1>5, <2>1
  <2> QED
    BY <1>3, <1>5, <2>2 DEF Slip, Lost
<1> QED
  BY <1>7, <1>8

(* Where a socket is in the list a broadcast iterates over.                 *)
InLoop(k, i, s) == \E l : l = task[k].list /\ Holds(ProcOf(k), l, i, s)

(* The audience of a broadcast: those of it still connected are in the list *)
(* and before everybody who joined later.                                   *)
AudienceOK ==
  \A k \in Carriers : task[k].pc = "local" =>
     /\ \A s \in task[k].audience :
          /\ sock[s] # "new"
          /\ sock[s] = "open" => \E i : InLoop(k, i, s)
     /\ \A i, j, s, t : /\ InLoop(k, i, s) /\ InLoop(k, j, t)
                        /\ i < j /\ t \in task[k].audience
                        => s \in task[k].audience

(* Those the loop has passed without a send, and those who have left.       *)
Skipped(k) ==
  {s \in task[k].audience :
     /\ sock[s] = "open" /\ ~ Contains(got[s], task[k].msg)
     /\ \E i : InLoop(k, i, s) /\ i < task[k].at}

Left(k) == {s \in task[k].audience : ~ \E i : InLoop(k, i, s)}

SkippedOK ==
  \A k \in Carriers :
     task[k].pc = "local" => Cardinality(Skipped(k)) <= Cardinality(Left(k))

LEMMA LoopType ==
  ASSUME ShapeOK, NEW k \in Carriers, NEW i, NEW s, InLoop(k, i, s)
  PROVE  i \in Nat /\ i >= 1 /\ s \in Sockets
BY HoldsType, ProcOfType DEF InLoop

LEMMA LoopList ==
  ASSUME ShapeOK, NEW k \in Carriers
  PROVE  /\ \A i, s : InLoop(k, i, s) <=> i \in 1 .. Len(List(k)) /\ List(k)[i] = s
         /\ \A s : Contains(List(k), s) <=> \E i : InLoop(k, i, s)
         /\ \A s : s \in ToSet(List(k)) <=> \E i : InLoop(k, i, s)
<1>1. /\ task[k].list \in 0 .. Len(conns[ProcOf(k)]) /\ Len(conns[ProcOf(k)]) \in Nat
  BY ProcOfType DEF ShapeOK
<1>2. ASSUME NEW i, NEW s
      PROVE  InLoop(k, i, s) <=> i \in 1 .. Len(List(k)) /\ List(k)[i] = s
  <2>1. CASE task[k].list = 0
    <3>1. List(k) = <<>> /\ i \notin 1 .. Len(<<>>)
      BY <2>1, EmptySeq DEF List
    <3>2. 0 \notin 1 .. Len(conns[ProcOf(k)])
      BY <1>1
    <3> QED
      BY <2>1, <3>1, <3>2 DEF InLoop, Holds
  <2>2. CASE task[k].list # 0
    <3>1. List(k) = conns[ProcOf(k)][task[k].list]
      BY <2>2 DEF List
    <3>2. task[k].list \in 1 .. Len(conns[ProcOf(k)])
      BY <1>1, <2>2
    <3> QED
      BY <3>1, <3>2 DEF InLoop, Holds
  <2> QED
    BY <2>1, <2>2
<1>3. ASSUME NEW s PROVE Contains(List(k), s) <=> \E i : InLoop(k, i, s)
  BY <1>2 DEF Contains
<1>4. ASSUME NEW s PROVE s \in ToSet(List(k)) <=> \E i : InLoop(k, i, s)
  BY <1>2 DEF ToSet
<1> QED
  BY <1>2, <1>3, <1>4

(* What a step does to the list of a loop that is not its own.              *)
LEMMA LoopMoves ==
  ASSUME CoreOK, Next, NEW k \in Carriers, task'[k].list = task[k].list
  PROVE  \/ \A i, s : InLoop(k, i, s)' <=> InLoop(k, i, s)
         \/ \E t \in Sockets : \E I :
              /\ Connect(t)
              /\ \A i, s : InLoop(k, i, s)' <=> InLoop(k, i, s) \/ (i = I /\ s = t)
              /\ \A i, s : InLoop(k, i, s) => i < I
         \/ \E gone \in SUBSET Sockets :
              /\ task[k].list \in 1 .. Len(conns[ProcOf(k)])
              /\ Shrunk(ProcOf(k), task[k].list, gone)
<1> DEFINE p == ProcOf(k)
           l == task[k].list
<1>0. p \in Procs /\ ShapeOK /\ DeadOK
  BY ProcOfType DEF CoreOK
<1>1. \A i, s : InLoop(k, i, s) <=> Holds(p, l, i, s)
  BY DEF InLoop
<1>2. ASSUME NEW i, NEW s, NEW m, m = task[k].list
      PROVE  InLoop(k, i, s)' <=> Holds(p, m, i, s)'
  BY <1>2 DEF InLoop
<1>3. CASE UNCHANGED <<conns, gauge>>
  <2>1. \A q, m, i, s : Holds(q, m, i, s)' <=> Holds(q, m, i, s)
    BY <1>3, HoldsKept
  <2> QED
    BY <1>1, <1>2, <2>1
<1>4. ASSUME NEW t \in Sockets, Connect(t)
      PROVE  \/ \A i, s : InLoop(k, i, s)' <=> InLoop(k, i, s)
             \/ \E I :
                  /\ \A i, s : InLoop(k, i, s)' <=>
                                 InLoop(k, i, s) \/ (i = I /\ s = t)
                  /\ \A i, s : InLoop(k, i, s) => i < I
  <2>1. PICK q, L, I : Joins(t, q, L, I)
    BY <1>0, <1>4, ConnectJoins
  <2>2. \A r \in Procs : \A m, i, s :
          Holds(r, m, i, s)' <=>
            Holds(r, m, i, s) \/ (r = q /\ m = L /\ i = I /\ s = t)
    BY <1>0, <2>1, HoldsJoin
  <2>3. CASE p = q /\ l = L
    <3>1. \A i, s : InLoop(k, i, s)' <=> InLoop(k, i, s) \/ (i = I /\ s = t)
      BY <1>0, <1>1, <1>2, <2>2, <2>3
    <3>2. ASSUME NEW i, NEW s, Holds(q, L, i, s) PROVE i < I
      <4>1. L \in 1 .. Len(conns[q]) /\ i \in 1 .. Len(conns[q][L])
        BY <3>2 DEF Holds
      <4>2. Len(conns[q]) \in Nat /\ I \in Nat
            /\ (L <= Len(conns[q]) => Len(conns[q][L]) = I - 1)
        BY <1>0, <2>1 DEF Joins, ShapeOK
      <4>3. Len(conns[q][L]) = I - 1
        BY <4>1, <4>2
      <4> QED
        BY <4>1, <4>2, <4>3
    <3> QED
      BY <1>1, <2>3, <3>1, <3>2
  <2>4. CASE ~ (p = q /\ l = L)
    BY <1>0, <1>1, <1>2, <2>2, <2>4
  <2> QED
    BY <2>3, <2>4
<1>5. ASSUME NEW q \in Procs, NEW m \in 1 .. Len(conns[q]),
             NEW gone \in SUBSET Sockets, Shrunk(q, m, gone)
      PROVE  \/ \A i, s : InLoop(k, i, s)' <=> InLoop(k, i, s)
             \/ \E g \in SUBSET Sockets :
                  /\ l \in 1 .. Len(conns[p])
                  /\ Shrunk(p, l, g)
  <2>1. CASE p = q /\ l = m
    BY <1>5, <2>1
  <2>2. CASE ~ (p = q /\ l = m)
    <3>1. /\ \A r \in Procs : Len(conns'[r]) = Len(conns[r])
          /\ \A r \in Procs : \A n \in 1 .. Len(conns[r]) :
               r # q \/ n # m => conns'[r][n] = conns[r][n]
      BY <1>0, <1>5, ShrunkMoves
    <3>2. \A i, s : Holds(p, l, i, s) <=>
            l \in 1 .. Len(conns'[p]) /\ i \in 1 .. Len(conns'[p][l])
            /\ conns'[p][l][i] = s
      <4> HIDE DEF p, l
      <4> QED
        BY <1>0, <2>2, <3>1 DEF Holds
    <3>3. \A i, s : InLoop(k, i, s)' <=>
            l \in 1 .. Len(conns'[p]) /\ i \in 1 .. Len(conns'[p][l])
            /\ conns'[p][l][i] = s
      BY <1>2 DEF Holds
    <3> QED
      BY <1>1, <3>2, <3>3
  <2> QED
    BY <2>1, <2>2
<1> QED
  BY <1>0, <1>3, <1>4, <1>5, ListsEffect

LEMMA LoopShrunk ==
  ASSUME CoreOK, NEW k \in Carriers, task'[k].list = task[k].list,
         task[k].list \in 1 .. Len(conns[ProcOf(k)]), NEW gone \in SUBSET Sockets,
         Shrunk(ProcOf(k), task[k].list, gone)
  PROVE  /\ List(k) \in Seq(Sockets) /\ Len(List(k)) \in Nat
         /\ Len(Without(List(k), gone)) \in Nat
         /\ \E f : /\ Embeds(List(k), gone, f)
                   /\ \A i, s : InLoop(k, i, s)' <=>
                        /\ i \in 1 .. Len(Without(List(k), gone))
                        /\ List(k)[f[i]] = s
         /\ \A s : (\E i : InLoop(k, i, s)') <=>
                     (\E i : InLoop(k, i, s)) /\ s \notin gone
<1> DEFINE p == ProcOf(k)
           l == task[k].list
<1>0. p \in Procs /\ ShapeOK /\ List(k) \in Seq(Sockets) /\ Len(List(k)) \in Nat
      /\ Len(conns[p]) \in Nat
  BY ProcOfType, Lists, LenProperties DEF CoreOK, ShapeOK
<1>1. List(k) = conns[p][l]
  <2>1. l # 0
    BY <1>0
  <2> QED
    BY <2>1 DEF List
<1>2. /\ conns'[p][l] = Without(List(k), gone) /\ Len(conns'[p]) = Len(conns[p])
      /\ \A s : Contains(conns'[p][l], s) <=> Contains(List(k), s) /\ s \notin gone
  BY <1>0, <1>1, ShrunkMoves
<1>3. PICK f : Embeds(List(k), gone, f)
  BY <1>0, WithoutEmbeds
<1>4. ASSUME NEW i, NEW s
      PROVE  InLoop(k, i, s)' <=>
               i \in 1 .. Len(Without(List(k), gone)) /\ Without(List(k), gone)[i] = s
  BY <1>2 DEF InLoop, Holds
<1>5. ASSUME NEW i, NEW s
      PROVE  InLoop(k, i, s)' <=>
               i \in 1 .. Len(Without(List(k), gone)) /\ List(k)[f[i]] = s
  BY <1>3, <1>4 DEF Embeds
<1>6. ASSUME NEW s
      PROVE  (\E i : InLoop(k, i, s)') <=> (\E i : InLoop(k, i, s)) /\ s \notin gone
  <2>1. (\E i : InLoop(k, i, s)') <=> Contains(conns'[p][l], s)
    BY <1>2, <1>4 DEF Contains
  <2> QED
    BY <1>0, <1>2, <2>1, LoopList
<1> QED
  BY <1>0, <1>3, <1>5, <1>6, WithoutEmbeds

(* Nobody of the audience opens again.                                      *)
LEMMA AudienceSock ==
  ASSUME CoreOK, AudienceOK, Next, NEW k \in Carriers, task[k].pc = "local",
         NEW s \in task[k].audience
  PROVE  /\ s \in Sockets /\ sock'[s] # "new" /\ ~ Connect(s)
         /\ sock'[s] = "open" => sock[s] = "open"
<1>1. s \in Sockets
  BY TaskFields DEF CoreOK
<1>2. sock[s] # "new"
  BY DEF AudienceOK
<1> QED
  BY <1>1, <1>2, SockStep DEF CoreOK, SockMoves, Connect

LEMMA AudienceKept ==
  ASSUME CoreOK, AudienceOK, Next, NEW k \in Carriers, task[k].pc = "local",
         task'[k].list = task[k].list
  PROVE  /\ \A s \in task[k].audience : sock'[s] = "open" => \E i : InLoop(k, i, s)'
         /\ \A i, j, s, t : /\ InLoop(k, i, s)' /\ InLoop(k, j, t)'
                            /\ i < j /\ t \in task[k].audience
                            => s \in task[k].audience
<1> DEFINE A == task[k].audience
<1>0. /\ \A s \in A : sock'[s] = "open" => \E i : InLoop(k, i, s)
      /\ \A i, j, s, t : /\ InLoop(k, i, s) /\ InLoop(k, j, t) /\ i < j /\ t \in A
                         => s \in A
      /\ ShapeOK
  BY AudienceSock DEF AudienceOK, CoreOK
<1>1. CASE \A i, s : InLoop(k, i, s)' <=> InLoop(k, i, s)
  BY <1>0, <1>1
<1>2. ASSUME NEW c \in Sockets, NEW I, Connect(c),
             \A i, s : InLoop(k, i, s)' <=> InLoop(k, i, s) \/ (i = I /\ s = c),
             \A i, s : InLoop(k, i, s) => i < I
      PROVE  /\ \A s \in A : sock'[s] = "open" => \E i : InLoop(k, i, s)'
             /\ \A i, j, s, t : /\ InLoop(k, i, s)' /\ InLoop(k, j, t)'
                                /\ i < j /\ t \in A
                                => s \in A
  <2>1. c \notin A
    BY <1>2, AudienceSock
  <2>2. ASSUME NEW i, NEW j, NEW s, NEW t, InLoop(k, i, s)', InLoop(k, j, t)',
               i < j, t \in A
        PROVE  s \in A
    <3>1. InLoop(k, j, t)
      BY <1>2, <2>1, <2>2
    <3>2. CASE InLoop(k, i, s)
      BY <1>0, <2>2, <3>1, <3>2
    <3>3. CASE i = I /\ s = c
      <4>1. j < I /\ I < j /\ j \in Nat
        BY <1>0, <1>2, <2>2, <3>1, <3>3, LoopType
      <4>2. I \in Nat
        <5>1. PICK p, L, J : Joins(c, p, L, J)
          BY <1>0, <1>2, ConnectJoins
        <5>2. InLoop(k, I, c)' /\ i = I
          BY <1>2, <3>3
        <5>3. ProcOf(k) \in Procs
          BY ProcOfType
        <5>4. I \in Nat
          BY <5>2, <5>3, PlaceNext DEF InLoop
        <5> QED
          BY <5>4
      <4> QED
        BY <4>1, <4>2
    <3> QED
      BY <1>2, <2>2, <3>2, <3>3
  <2> QED
    BY <1>0, <1>2, <2>2
<1>3. ASSUME NEW gone \in SUBSET Sockets, task[k].list \in 1 .. Len(conns[ProcOf(k)]),
             Shrunk(ProcOf(k), task[k].list, gone)
      PROVE  /\ \A s \in A : sock'[s] = "open" => \E i : InLoop(k, i, s)'
             /\ \A i, j, s, t : /\ InLoop(k, i, s)' /\ InLoop(k, j, t)'
                                /\ i < j /\ t \in A
                                => s \in A
  <2>1. ASSUME NEW s \in A, sock'[s] = "open" PROVE \E i : InLoop(k, i, s)'
    <3>1. sock[s] = "open"
      BY <2>1, AudienceSock
    <3>2. s \notin gone
      BY <1>3, <3>1 DEF Shrunk
    <3> QED
      BY <1>0, <1>3, <2>1, <3>2, LoopShrunk
  <2>2. PICK f : /\ Embeds(List(k), gone, f)
                 /\ \A i, s : InLoop(k, i, s)' <=>
                        /\ i \in 1 .. Len(Without(List(k), gone))
                        /\ List(k)[f[i]] = s
    BY <1>3, LoopShrunk
  <2>3. /\ \A n \in 1 .. Len(Without(List(k), gone)) : f[n] \in 1 .. Len(List(k))
        /\ \A m, n \in 1 .. Len(Without(List(k), gone)) : m < n => f[m] < f[n]
    BY <2>2 DEF Embeds, Kept
  <2>4. ASSUME NEW i, NEW j, NEW s, NEW t, InLoop(k, i, s)', InLoop(k, j, t)',
               i < j, t \in A
        PROVE  s \in A
    <3>1. /\ i \in 1 .. Len(Without(List(k), gone)) /\ List(k)[f[i]] = s
          /\ j \in 1 .. Len(Without(List(k), gone)) /\ List(k)[f[j]] = t
      BY <2>2, <2>4
    <3>2. InLoop(k, f[i], s) /\ InLoop(k, f[j], t) /\ f[i] < f[j]
      BY <1>0, <2>3, <2>4, <3>1, LoopList
    <3> QED
      BY <1>0, <2>4, <3>2
  <2> QED
    BY <2>1, <2>4
<1> QED
  BY <1>1, <1>2, <1>3, LoopMoves

LEMMA BegunLoop ==
  ASSUME CoreOK, NEW k \in Carriers, NEW m \in Messages, conns' = conns,
         task'[k] = Begun(k, m)
  PROVE  /\ \A i, s : InLoop(k, i, s)' <=>
              i \in 1 .. Len(Registered(ProcOf(k))) /\ Registered(ProcOf(k))[i] = s
         /\ \A s : s \in task'[k].audience <=> \E i : InLoop(k, i, s)'
         /\ \A i, s : InLoop(k, i, s)' => sock[s] # "new" /\ s \in Sockets
<1> DEFINE p == ProcOf(k)
<1>0. ShapeOK /\ ListsOK /\ p \in Procs /\ reg[p] \in 0 .. Len(conns[p])
      /\ Len(conns[p]) \in Nat
  BY ProcOfType DEF CoreOK, ShapeOK
<1>1. /\ task'[k].list = reg[p]
      /\ task'[k].audience = ToSet(Registered(p))
  BY <1>0, BegunFields
<1>2. ASSUME NEW i, NEW s
      PROVE  InLoop(k, i, s)' <=> Holds(p, reg[p], i, s)
  BY <1>1 DEF InLoop, Holds
<1>3. ASSUME NEW i, NEW s
      PROVE  Holds(p, reg[p], i, s) <=>
               i \in 1 .. Len(Registered(p)) /\ Registered(p)[i] = s
  <2>1. CASE reg[p] = 0
    <3>1. Registered(p) = <<>> /\ i \notin 1 .. Len(<<>>)
      BY <2>1, EmptySeq DEF Registered
    <3>2. 0 \notin 1 .. Len(conns[p])
      BY <1>0
    <3> QED
      BY <2>1, <3>1, <3>2 DEF Holds
  <2>2. CASE reg[p] # 0
    <3>1. Registered(p) = conns[p][reg[p]] /\ reg[p] \in 1 .. Len(conns[p])
      BY <1>0, <2>2 DEF Registered
    <3> QED
      BY <3>1 DEF Holds
  <2> QED
    BY <2>1, <2>2
<1>4. ASSUME NEW s PROVE s \in task'[k].audience <=> \E i : InLoop(k, i, s)'
  BY <1>1, <1>2, <1>3 DEF ToSet
<1>5. ASSUME NEW i, NEW s, InLoop(k, i, s)' PROVE sock[s] # "new" /\ s \in Sockets
  <2> HIDE DEF p
  <2> QED
    BY <1>0, <1>2, <1>5, HoldsType DEF ListsOK
<1> QED
  BY <1>2, <1>3, <1>4, <1>5

LEMMA AudienceStep ==
  ASSUME CoreOK, AudienceOK, Next
  PROVE  AudienceOK'
<1> SUFFICES ASSUME NEW k \in Carriers, task'[k].pc = "local"
             PROVE  /\ \A s \in task'[k].audience :
                         /\ sock'[s] # "new"
                         /\ sock'[s] = "open" => \E i : InLoop(k, i, s)'
                    /\ \A i, j, s, t : /\ InLoop(k, i, s)' /\ InLoop(k, j, t)'
                                       /\ i < j /\ t \in task'[k].audience
                                       => s \in task'[k].audience
  BY DEF AudienceOK
<1>0. TaskMoves(k) /\ ShapeOK
  BY TaskStep DEF CoreOK
<1>1. CASE task'[k] = task[k] \/ SendMoves(k)
  <2>1. /\ task[k].pc = "local" /\ task'[k].list = task[k].list
        /\ task'[k].audience = task[k].audience
    BY <1>1 DEF SendMoves, SameLoop, Send
  <2>2. \A s \in task[k].audience : sock'[s] # "new"
    BY <2>1, AudienceSock
  <2> QED
    BY <2>1, <2>2, AudienceKept
<1>2. ASSUME NEW m \in Messages, task'[k] = Begun(k, m), conns' = conns, sock' = sock
      PROVE  /\ \A s \in task'[k].audience :
                  /\ sock'[s] # "new"
                  /\ sock'[s] = "open" => \E i : InLoop(k, i, s)'
             /\ \A i, j, s, t : /\ InLoop(k, i, s)' /\ InLoop(k, j, t)'
                                /\ i < j /\ t \in task'[k].audience
                                => s \in task'[k].audience
  <2>1. /\ \A s : s \in task'[k].audience <=> \E i : InLoop(k, i, s)'
        /\ \A i, s : InLoop(k, i, s)' => sock[s] # "new"
    BY <1>2, BegunLoop
  <2> QED
    BY <1>2, <2>1
<1>3. CASE k \in Requests /\ Broadcast(k) /\ task'[k] = Begun(k, <<k, sent[k] + 1>>)
  <2>1. <<k, sent[k] + 1>> \in Messages /\ conns' = conns /\ sock' = sock
    BY <1>0, <1>3, ServedMessage DEF Broadcast
  <2> QED
    BY <1>2, <1>3, <2>1
<1>4. CASE k \in Procs /\ Dispatch(k) /\ task'[k] = Begun(k, Head(queue[k]))
  <2>1. Head(queue[k]) \in Messages /\ conns' = conns /\ sock' = sock
    BY <1>0, <1>4, QueueHeads DEF Dispatch
  <2> QED
    BY <1>2, <1>4, <2>1
<1>5. ~ PruneMoves(k) /\ task'[k] # Idle
  BY IdleTask DEF PruneMoves
<1> QED
  BY <1>0, <1>1, <1>3, <1>4, <1>5 DEF TaskMoves

LEMMA ContainsAppend ==
  ASSUME NEW S, NEW q \in Seq(S), NEW e \in S
  PROVE  /\ Contains(Append(q, e), e)
         /\ \A m : Contains(q, m) => Contains(Append(q, e), m)
<1>1. /\ Len(q) \in Nat /\ Len(Append(q, e)) = Len(q) + 1
      /\ \A i \in 1 .. Len(q) : Append(q, e)[i] = q[i]
      /\ Append(q, e)[Len(q) + 1] = e
  BY AppendProperties, LenProperties
<1>2. /\ Len(q) + 1 \in 1 .. Len(q) + 1
      /\ \A i \in 1 .. Len(q) : i \in 1 .. Len(q) + 1
  BY <1>1
<1> QED
  BY <1>1, <1>2 DEF Contains

(* Nothing that was written is taken back.                                  *)
LEMMA GotGrows ==
  ASSUME CoreOK, Next, NEW s \in Sockets, NEW m, Contains(got[s], m)
  PROVE  Contains(got'[s], m)
<1>1. ASSUME NEW k \in Carriers, Send(k), Delivers(k)
      PROVE  Contains(got'[s], m)
  <2>1. got \in [Sockets -> Seq(Messages)] /\ got[s] \in Seq(Messages)
        /\ task[k].msg \in Messages
    BY <1>1, DeliveryFacts DEF CoreOK, ShapeOK
  <2>2. got'[s] = got[s] \/ got'[s] = Append(got[s], task[k].msg)
    BY <1>1, <2>1 DEF Delivers
  <2>3. Contains(Append(got[s], task[k].msg), m)
    BY <2>1, ContainsAppend
  <2>4. CASE got'[s] = got[s]
    BY <2>4
  <2>5. CASE got'[s] = Append(got[s], task[k].msg)
    BY <2>3, <2>5
  <2> QED
    BY <2>2, <2>4, <2>5
<1> QED
  BY <1>1, GotStep DEF CoreOK

LEMMA AudienceFinite ==
  ASSUME CoreOK, NEW k \in Carriers
  PROVE  /\ task[k].audience \in SUBSET Sockets
         /\ \A T \in SUBSET task[k].audience :
              IsFiniteSet(T) /\ Cardinality(T) \in Nat
<1>1. task[k].audience \in SUBSET Sockets
  BY TaskFields DEF CoreOK
<1>2. \A T \in SUBSET task[k].audience : T \in SUBSET Sockets
  BY <1>1
<1> QED
  BY <1>1, <1>2, SocketsAssumption, FS_Subset, FS_CardinalityType

(* No more are skipped, and nobody is back.                                 *)
LEMMA FewerSkipped ==
  ASSUME CoreOK, SkippedOK, NEW k \in Carriers, task[k].pc = "local",
         NEW X \in SUBSET Skipped(k), NEW Y \in SUBSET task[k].audience,
         Left(k) \in SUBSET Y
  PROVE  Cardinality(X) <= Cardinality(Y)
<1> DEFINE A == task[k].audience
<1>1. Skipped(k) \in SUBSET A /\ X \in SUBSET A /\ Left(k) \in SUBSET A
  BY DEF Skipped, Left
<1>2. /\ IsFiniteSet(Skipped(k)) /\ Cardinality(Skipped(k)) \in Nat
      /\ IsFiniteSet(Y) /\ Cardinality(Y) \in Nat
      /\ Cardinality(X) \in Nat /\ Cardinality(Left(k)) \in Nat
  BY <1>1, AudienceFinite
<1>3. Cardinality(X) <= Cardinality(Skipped(k))
  BY <1>2, FS_Subset
<1>4. Cardinality(Left(k)) <= Cardinality(Y)
  BY <1>2, FS_Subset
<1>5. Cardinality(Skipped(k)) <= Cardinality(Left(k))
  BY DEF SkippedOK
<1> QED
  BY <1>2, <1>3, <1>4, <1>5

(* A removal makes the loop skip at most as many as it takes out.           *)
LEMMA SkippedShrunk ==
  ASSUME CoreOK, AudienceOK, SkippedOK, Next,
         NEW k \in Carriers, task'[k] = task[k], task[k].pc = "local",
         task[k].list \in 1 .. Len(conns[ProcOf(k)]), NEW gone \in SUBSET Sockets,
         Shrunk(ProcOf(k), task[k].list, gone)
  PROVE  Cardinality(Skipped(k)') <= Cardinality(Left(k)')
<1> DEFINE A == task[k].audience
           at == task[k].at
           list == List(k)
           w == Without(list, gone)
<1>0. /\ ShapeOK /\ ListsOK /\ list \in Seq(Sockets) /\ Len(list) \in Nat
      /\ Len(w) \in Nat /\ at \in Nat /\ at >= 1 /\ ProcOf(k) \in Procs
      /\ A \in SUBSET Sockets
  BY LoopShrunk, TaskFields, ProcOfType DEF CoreOK
<1>1. PICK f : /\ Embeds(list, gone, f)
               /\ \A i, s : InLoop(k, i, s)' <=> i \in 1 .. Len(w) /\ list[f[i]] = s
  BY LoopShrunk
<1>2. ASSUME NEW s
      PROVE  (\E i : InLoop(k, i, s)') <=> (\E i : InLoop(k, i, s)) /\ s \notin gone
  <2>1. task'[k].list = task[k].list
    OBVIOUS
  <2> QED
    BY <2>1, LoopShrunk
<1>3. \A i, s : InLoop(k, i, s) <=> i \in 1 .. Len(list) /\ list[i] = s
  BY <1>0, LoopList
<1>4. ASSUME NEW n \in 1 .. Len(w)
      PROVE  f[n] \in 1 .. Len(list) /\ f[n] \in Nat /\ n \in Nat
  <2>1. f \in [1 .. Len(w) -> Kept(list, gone)]
    BY <1>1 DEF Embeds
  <2> HIDE DEF w, list
  <2>2. f[n] \in 1 .. Len(list)
    BY <2>1 DEF Kept
  <2> QED
    BY <1>0, <2>2
<1> DEFINE Slip == Slipped(list, gone, f, A, at)
           Lost == TakenOut(list, gone, A)
<1>5. /\ IsFiniteSet(Slip) /\ IsFiniteSet(Lost)
      /\ Cardinality(Slip) <= Cardinality(Lost)
  <2>1. \A i, j \in 1 .. Len(list) : list[i] = list[j] => i = j
    <3> SUFFICES ASSUME NEW i \in 1 .. Len(list), NEW j \in 1 .. Len(list),
                        list[i] = list[j]
                 PROVE  i = j
      OBVIOUS
    <3>1. InLoop(k, i, list[i]) /\ InLoop(k, j, list[i])
      BY <1>3
    <3> QED
      BY <1>0, <3>1 DEF InLoop, ListsOK
  <2>2. \A i, j \in 1 .. Len(list) : i < j /\ list[j] \in A => list[i] \in A
    <3> SUFFICES ASSUME NEW i \in 1 .. Len(list), NEW j \in 1 .. Len(list),
                        i < j, list[j] \in A
                 PROVE  list[i] \in A
      OBVIOUS
    <3>1. InLoop(k, i, list[i]) /\ InLoop(k, j, list[j])
      BY <1>3
    <3> QED
      BY <3>1 DEF AudienceOK
  <2> HIDE DEF list, A, at
  <2> QED
    BY <1>0, <1>1, <2>1, <2>2, SkipCount, SocketsAssumption
<1>6. Skipped(k)' \in SUBSET (Skipped(k) \cup Slip)
  <2> SUFFICES ASSUME NEW s \in Skipped(k)' PROVE s \in Skipped(k) \/ s \in Slip
    OBVIOUS
  <2>1. /\ s \in A /\ sock'[s] = "open" /\ ~ Contains(got'[s], task[k].msg)
        /\ \E i : InLoop(k, i, s)' /\ i < at
    BY DEF Skipped
  <2>2. sock[s] = "open" /\ ~ Contains(got[s], task[k].msg) /\ s \in Sockets
    BY <2>1, AudienceSock, GotGrows
  <2>3. PICK i : InLoop(k, i, s)' /\ i < at
    BY <2>1
  <2>4. i \in 1 .. Len(w) /\ list[f[i]] = s /\ f[i] \in Nat /\ i \in Nat
    BY <1>1, <1>4, <2>3
  <2>5. CASE f[i] < at
    <3>1. InLoop(k, f[i], s)
      BY <1>3, <1>4, <2>4
    <3>2. s \in Skipped(k)
      BY <2>1, <2>2, <2>5, <3>1 DEF Skipped
    <3> QED
      BY <3>2
  <2>6. CASE ~ (f[i] < at)
    <3>1. at <= f[i]
      BY <1>0, <2>4, <2>6
    <3>2. s \in Slip
      BY <2>1, <2>3, <2>4, <3>1 DEF Slipped
    <3> QED
      BY <3>2
  <2> QED
    BY <2>5, <2>6
<1>7. Left(k) \cup Lost \in SUBSET Left(k)' /\ Left(k) \cap Lost = {}
      /\ Left(k)' \in SUBSET A
  <2>1. \A s \in Lost : s \in A /\ s \in gone /\ \E i : InLoop(k, i, s)
    BY <1>3 DEF TakenOut, Contains
  <2>2. \A s \in Left(k) : s \in A /\ ~ \E i : InLoop(k, i, s)
    BY DEF Left
  <2>3. \A s : s \in Left(k)' <=> s \in A /\ ~ \E i : InLoop(k, i, s)'
    BY DEF Left
  <2> HIDE DEF Lost
  <2> QED
    BY <1>2, <2>1, <2>2, <2>3
<1>8. /\ IsFiniteSet(Skipped(k)) /\ IsFiniteSet(Left(k)) /\ IsFiniteSet(Left(k)')
      /\ Cardinality(Skipped(k)) \in Nat /\ Cardinality(Left(k)) \in Nat
      /\ Cardinality(Left(k)') \in Nat
  <2>1. Skipped(k) \in SUBSET A /\ Left(k) \in SUBSET A
    BY DEF Skipped, Left
  <2> QED
    BY <1>7, <2>1, AudienceFinite
<1> HIDE DEF Slip, Lost
<1>9. /\ IsFiniteSet(Skipped(k) \cup Slip)
      /\ Cardinality(Skipped(k) \cup Slip) <= Cardinality(Skipped(k)) + Cardinality(Slip)
      /\ Cardinality(Slip) \in Nat /\ Cardinality(Lost) \in Nat
      /\ Cardinality(Skipped(k) \cup Slip) \in Nat
  <2>1. /\ IsFiniteSet(Skipped(k) \cup Slip)
        /\ Cardinality(Skipped(k) \cup Slip) =
             Cardinality(Skipped(k)) + Cardinality(Slip)
               - Cardinality(Skipped(k) \cap Slip)
    BY <1>5, <1>8, FS_Union
  <2>2. Cardinality(Skipped(k) \cap Slip) \in Nat
    <3>1. Skipped(k) \cap Slip \in SUBSET Slip
      OBVIOUS
    <3> QED
      BY <1>5, <3>1, FS_Subset, FS_CardinalityType
  <2>3. /\ Cardinality(Slip) \in Nat /\ Cardinality(Lost) \in Nat
        /\ Cardinality(Skipped(k) \cup Slip) \in Nat
    BY <1>5, <2>1, FS_CardinalityType
  <2> QED
    BY <1>8, <2>1, <2>2, <2>3
<1>10. Cardinality(Skipped(k)') <= Cardinality(Skipped(k) \cup Slip)
       /\ Cardinality(Skipped(k)') \in Nat
  BY <1>6, <1>9, FS_Subset, FS_CardinalityType
<1>11. Cardinality(Left(k)) + Cardinality(Lost) <= Cardinality(Left(k)')
  <2>1. Cardinality(Left(k) \cup Lost) =
          Cardinality(Left(k)) + Cardinality(Lost) - Cardinality(Left(k) \cap Lost)
    BY <1>5, <1>8, FS_Union
  <2>2. Cardinality(Left(k) \cap Lost) = 0
    BY <1>7, FS_EmptySet
  <2>3. Cardinality(Left(k) \cup Lost) <= Cardinality(Left(k)')
    BY <1>7, <1>8, FS_Subset
  <2> QED
    BY <1>8, <1>9, <2>1, <2>2, <2>3
<1>12. Cardinality(Skipped(k)) <= Cardinality(Left(k))
  BY DEF SkippedOK
<1> QED
  BY <1>5, <1>8, <1>9, <1>10, <1>11, <1>12

(* In every step the departures pay for the viewers that are skipped.       *)
LEMMA SkippedSend ==
  ASSUME CoreOK, AudienceOK, SkippedOK, Next, NEW k \in Carriers,
         task[k].pc = "local", SendMoves(k)
  PROVE  Cardinality(Skipped(k)') <= Cardinality(Left(k)')
<1>0. /\ ShapeOK /\ conns' = conns /\ task[k].at <= Len(List(k))
      /\ task'[k].list = task[k].list /\ task'[k].msg = task[k].msg
      /\ task'[k].audience = task[k].audience /\ task'[k].at = task[k].at + 1
      /\ task[k].at \in Nat /\ task[k].msg \in Messages
      /\ got \in [Sockets -> Seq(Messages)]
  BY TaskFields, LocalMessage DEF SendMoves, SameLoop, Send, CoreOK, ShapeOK
<1>1. ASSUME NEW i, NEW s PROVE InLoop(k, i, s)' <=> InLoop(k, i, s)
  BY <1>0 DEF InLoop, Holds
<1>2. Skipped(k)' \in SUBSET Skipped(k)
  <2> SUFFICES ASSUME NEW s \in Skipped(k)' PROVE s \in Skipped(k)
    OBVIOUS
  <2>1. /\ s \in task[k].audience /\ sock'[s] = "open"
        /\ ~ Contains(got'[s], task[k].msg)
        /\ \E i : InLoop(k, i, s)' /\ i < task[k].at + 1
    BY <1>0 DEF Skipped
  <2>2. /\ sock[s] = "open" /\ ~ Contains(got[s], task[k].msg) /\ s \in Sockets
    BY <2>1, AudienceSock, GotGrows
  <2>3. PICK i : InLoop(k, i, s) /\ i < task[k].at + 1
    BY <1>1, <2>1
  <2>4. i \in Nat
    BY <1>0, <2>3, LoopType
  <2>5. i # task[k].at
    <3> SUFFICES ASSUME i = task[k].at PROVE FALSE
      OBVIOUS
    <3>1. s = Target(k)
      BY <1>0, <2>3, LoopList DEF Target
    <3>2. got' = [got EXCEPT ![s] = Append(@, task[k].msg)]
      BY <2>2, <3>1 DEF SendMoves, Send, Target
    <3>3. got'[s] = Append(got[s], task[k].msg) /\ got[s] \in Seq(Messages)
      BY <1>0, <2>2, <3>2
    <3> QED
      BY <1>0, <2>1, <3>3, ContainsAppend
  <2> QED
    BY <1>0, <2>1, <2>2, <2>3, <2>4, <2>5 DEF Skipped
<1>3. Left(k) \in SUBSET Left(k)' /\ Left(k)' \in SUBSET task[k].audience
  BY <1>0, <1>1 DEF Left
<1> QED
  BY <1>2, <1>3, FewerSkipped

LEMMA SkippedKept ==
  ASSUME CoreOK, AudienceOK, SkippedOK, Next, NEW k \in Carriers,
         task[k].pc = "local", task'[k] = task[k]
  PROVE  Cardinality(Skipped(k)') <= Cardinality(Left(k)')
<1>1. ASSUME \A s \in task[k].audience : \A i :
               InLoop(k, i, s)' <=> InLoop(k, i, s)
      PROVE  Cardinality(Skipped(k)') <= Cardinality(Left(k)')
  <2>1. Skipped(k)' \in SUBSET Skipped(k)
    <3> SUFFICES ASSUME NEW s \in Skipped(k)' PROVE s \in Skipped(k)
      OBVIOUS
    <3>1. /\ s \in task[k].audience /\ sock'[s] = "open"
          /\ ~ Contains(got'[s], task[k].msg)
          /\ \E i : InLoop(k, i, s)' /\ i < task[k].at
      BY DEF Skipped
    <3>2. sock[s] = "open" /\ ~ Contains(got[s], task[k].msg)
      BY <3>1, AudienceSock, GotGrows
    <3> QED
      BY <1>1, <3>1, <3>2 DEF Skipped
  <2>2. Left(k) \in SUBSET Left(k)' /\ Left(k)' \in SUBSET task[k].audience
    BY <1>1 DEF Left
  <2> QED
    BY <2>1, <2>2, FewerSkipped
<1>2. ASSUME NEW t \in Sockets, NEW I, Connect(t),
             \A i, s : InLoop(k, i, s)' <=> InLoop(k, i, s) \/ (i = I /\ s = t)
      PROVE  \A s \in task[k].audience : \A i :
               InLoop(k, i, s)' <=> InLoop(k, i, s)
  <2>1. t \notin task[k].audience
    BY <1>2, AudienceSock
  <2> QED
    BY <1>2, <2>1
<1>3. ASSUME NEW gone \in SUBSET Sockets, task[k].list \in 1 .. Len(conns[ProcOf(k)]),
             Shrunk(ProcOf(k), task[k].list, gone)
      PROVE  Cardinality(Skipped(k)') <= Cardinality(Left(k)')
  BY <1>3, SkippedShrunk
<1> QED
  BY <1>1, <1>2, <1>3, LoopMoves

LEMMA SkippedStep ==
  ASSUME CoreOK, AudienceOK, SkippedOK, Next
  PROVE  SkippedOK'
<1> SUFFICES ASSUME NEW k \in Carriers, task'[k].pc = "local"
             PROVE  Cardinality(Skipped(k)') <= Cardinality(Left(k)')
  BY DEF SkippedOK
<1>0. TaskMoves(k) /\ ShapeOK
  BY TaskStep DEF CoreOK
<1>1. CASE task'[k] = task[k]
  BY <1>1, SkippedKept
<1>2. CASE SendMoves(k)
  <2>1. task[k].pc = "local"
    BY <1>2 DEF SendMoves, Send
  <2> QED
    BY <1>2, <2>1, SkippedSend
<1>3. ASSUME NEW m \in Messages, task'[k] = Begun(k, m), conns' = conns
      PROVE  Cardinality(Skipped(k)') <= Cardinality(Left(k)')
  <2>1. /\ \A i, s : InLoop(k, i, s)' =>
              i \in 1 .. Len(Registered(ProcOf(k)))
        /\ \A s : s \in task'[k].audience <=> \E i : InLoop(k, i, s)'
    BY <1>3, BegunLoop
  <2>2. task'[k].at = 1
    BY <1>0, <1>3, BegunFields
  <2>3. Skipped(k)' = {}
    <3>1. ASSUME NEW s \in Skipped(k)' PROVE FALSE
      <4>1. PICK i : InLoop(k, i, s)' /\ i < 1
        BY <2>2, <3>1 DEF Skipped
      <4>2. i \in 1 .. Len(Registered(ProcOf(k)))
        BY <2>1, <4>1
      <4> QED
        BY <4>1, <4>2
    <3> QED
      BY <3>1
  <2>4. Left(k)' = {}
    BY <2>1 DEF Left
  <2>5. Cardinality(Skipped(k)') = 0 /\ Cardinality(Left(k)') = 0
    BY <2>3, <2>4, FS_EmptySet
  <2> QED
    BY <2>5
<1>4. CASE k \in Requests /\ Broadcast(k) /\ task'[k] = Begun(k, <<k, sent[k] + 1>>)
  <2>1. <<k, sent[k] + 1>> \in Messages /\ conns' = conns
    BY <1>0, <1>4, ServedMessage DEF Broadcast
  <2> QED
    BY <1>3, <1>4, <2>1
<1>5. CASE k \in Procs /\ Dispatch(k) /\ task'[k] = Begun(k, Head(queue[k]))
  <2>1. Head(queue[k]) \in Messages /\ conns' = conns
    BY <1>0, <1>5, QueueHeads DEF Dispatch
  <2> QED
    BY <1>3, <1>5, <2>1
<1>6. ~ PruneMoves(k) /\ task'[k] # Idle
  BY IdleTask DEF PruneMoves
<1> QED
  BY <1>0, <1>1, <1>2, <1>4, <1>5, <1>6 DEF TaskMoves

LEMMA AudienceInvariance == Spec => [](AudienceOK /\ SkippedOK)
<1>1. Init => AudienceOK /\ SkippedOK
  BY IdleTask DEF Init, Carriers, AudienceOK, SkippedOK
<1>2. CoreOK /\ AudienceOK /\ SkippedOK /\ [Next]_vars => AudienceOK' /\ SkippedOK'
  <2> SUFFICES ASSUME CoreOK, AudienceOK, SkippedOK, [Next]_vars
               PROVE  AudienceOK' /\ SkippedOK'
    OBVIOUS
  <2>1. CASE Next
    BY <2>1, AudienceStep, SkippedStep
  <2>2. CASE UNCHANGED vars
    <3>1. /\ conns' = conns /\ task' = task /\ sock' = sock /\ got' = got
      BY <2>2 DEF vars
    <3>2. \A k, i, s : InLoop(k, i, s)' <=> InLoop(k, i, s)
      BY <3>1 DEF InLoop, Holds
    <3>3. \A k : Skipped(k)' = Skipped(k) /\ Left(k)' = Left(k)
      BY <3>1, <3>2 DEF Skipped, Left
    <3> QED
      BY <3>1, <3>2, <3>3 DEF AudienceOK, SkippedOK
  <2> QED
    BY <2>1, <2>2
<1> QED
  BY <1>1, <1>2, CoreInvariance, PTL DEF Spec

(* When a broadcast is through with its list, the viewers of the list it    *)
(* began with that are connected and have not had its message are no more   *)
(* than those who have left the list: the loop of _broadcast_local goes by  *)
(* position, so each departure makes it pass over one viewer at most.       *)
THEOREM MissesArePaidFor == Spec => []MissedOnlyByDepartures
<1>1. CoreOK /\ AudienceOK /\ SkippedOK => MissedOnlyByDepartures
  <2> SUFFICES ASSUME CoreOK, AudienceOK, SkippedOK, NEW k \in Requests \cup Procs,
                      task[k].pc = "local", task[k].at > Len(List(k))
               PROVE  Cardinality({s \in task[k].audience :
                         sock[s] = "open" /\ ~ Contains(got[s], task[k].msg)})
                        <= Cardinality(task[k].audience \ ToSet(List(k)))
    BY DEF MissedOnlyByDepartures
  <2>0. /\ k \in Carriers /\ ShapeOK /\ List(k) \in Seq(Sockets)
        /\ Len(List(k)) \in Nat /\ task[k].at \in Nat
    BY Lists, TaskFields, LenProperties DEF Carriers, CoreOK
  <2> DEFINE missed == {s \in task[k].audience :
                          sock[s] = "open" /\ ~ Contains(got[s], task[k].msg)}
             left == task[k].audience \ ToSet(List(k))
  <2>1. missed \in SUBSET Skipped(k)
    <3> SUFFICES ASSUME NEW s \in missed PROVE s \in Skipped(k)
      OBVIOUS
    <3>1. PICK i : InLoop(k, i, s)
      BY <2>0 DEF AudienceOK
    <3>2. i \in 1 .. Len(List(k))
      BY <2>0, <3>1, LoopList
    <3>3. i < task[k].at
      BY <2>0, <3>2
    <3> QED
      BY <3>1, <3>3 DEF Skipped
  <2>2. Left(k) \in SUBSET left /\ left \in SUBSET task[k].audience
    BY <2>0, LoopList DEF Left
  <2> HIDE DEF missed, left
  <2>3. Cardinality(missed) <= Cardinality(left)
    BY <2>0, <2>1, <2>2, FewerSkipped
  <2> QED
    BY <2>3 DEF missed, left
<1> QED
  BY <1>1, CoreInvariance, AudienceInvariance, PTL
=============================================================================
