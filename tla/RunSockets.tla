------------------------------ MODULE RunSockets ------------------------------
(***************************************************************************)
(* The sockets of the viewers of one run (RunWSManager in                  *)
(* backend/ws_manager.py, the endpoint run_ws of backend/main.py) and the  *)
(* event bus that carries a broadcast to the other processes               *)
(* (RuntimeEventBus in backend/event_bus.py).  NotificationManager in      *)
(* backend/notifications.py is the same code, with a user for the run.     *)
(*                                                                         *)
(* A coroutine gives way at every send, so that the list it iterates over  *)
(* changes under it: connections[run_id] is a list object, which others    *)
(* append to, remove from, or replace by a new one.                        *)
(***************************************************************************)
EXTENDS Integers, Sequences, SequencesExt, FiniteSets, Lists

CONSTANTS
    Procs,       \* server processes
    Sockets,
    Home,        \* [Sockets -> Procs]
    Requests,    \* requests that broadcast messages, one after the other
    At,          \* [Requests -> Procs]
    MaxMessages, \* bound: [Requests -> Nat], the messages of each
    Breaks,      \* endpoints may end by another exception than a disconnect
    MaxFaults    \* bound: publishes that fail, subscriptions that are lost

ASSUME SocketsAssumption == IsFiniteSet(Sockets)
ASSUME HomeAssumption == Home \in [Sockets -> Procs]
ASSUME AtAssumption == At \in [Requests -> Procs]
ASSUME TasksAssumption == Requests \cap Procs = {}
ASSUME BoundsAssumption == MaxMessages \in [Requests -> Nat] /\ MaxFaults \in Nat

VARIABLES
    sock,    \* each socket: "new", "open", "lost" (its peer is gone), "closed"
    conns,   \* the list objects of each process, in order of their creation
    reg,     \* the one that connections[run_id] is, 0 if there is no entry
    task,    \* the broadcasts of requests, and those of the bus listeners
    sent,    \* messages that each request has begun to broadcast
    queue,   \* the subscription of each process to the Redis channel
    gauge,   \* thorotest_websocket_connections of each process
    got,     \* history: messages written to each socket
    faults

vars == <<sock, conns, reg, task, sent, queue, gauge, got, faults>>

Messages == {m \in Requests \X Nat : m[2] \in 1 .. MaxMessages[m[1]]}
Nothing == <<>>

Idle == [pc |-> "idle", list |-> 0, at |-> 1, dead |-> <<>>,
         msg |-> Nothing, audience |-> {}]

Tasks == [pc : {"idle", "local", "publish", "failed"}, list : Nat,
          at : Nat \ {0}, dead : Seq(Sockets), msg : Messages \cup {Nothing},
          audience : SUBSET Sockets]

TypeOK ==
  /\ sock \in [Sockets -> {"new", "open", "lost", "closed"}]
  /\ conns \in [Procs -> Seq(Seq(Sockets))]
  /\ \A p \in Procs : reg[p] \in 0 .. Len(conns[p])
  /\ task \in [Requests \cup Procs -> Tasks]
  /\ \A h \in Requests : sent[h] \in 0 .. MaxMessages[h]
  /\ queue \in [Procs -> Seq(Messages)]
  /\ gauge \in [Procs -> Nat]
  /\ got \in [Sockets -> Seq(Messages)]
  /\ faults \in 0 .. MaxFaults

Init ==
  /\ sock = [s \in Sockets |-> "new"]
  /\ conns = [p \in Procs |-> <<>>]
  /\ reg = [p \in Procs |-> 0]
  /\ task = [k \in Requests \cup Procs |-> Idle]
  /\ sent = [h \in Requests |-> 0]
  /\ queue = [p \in Procs |-> <<>>]
  /\ gauge = [p \in Procs |-> 0]
  /\ got = [s \in Sockets |-> <<>>]
  /\ faults = 0

(* connections.get(run_id, []).                                             *)
Registered(p) == IF reg[p] = 0 THEN <<>> ELSE conns[p][reg[p]]

-----------------------------------------------------------------------------
(* The endpoint: accept, connect, and disconnect on WebSocketDisconnect.    *)

Connect(s) ==
  LET p == Home[s] IN
  /\ sock[s] = "new"
  /\ sock' = [sock EXCEPT ![s] = "open"]
  /\ IF reg[p] = 0
       THEN /\ conns' = [conns EXCEPT ![p] = Append(@, <<s>>)]
            /\ reg' = [reg EXCEPT ![p] = Len(conns[p]) + 1]
       ELSE /\ conns' = [conns EXCEPT ![p][reg[p]] = Append(@, s)]
            /\ UNCHANGED reg
  /\ gauge' = [gauge EXCEPT ![p] = @ + 1]
  /\ UNCHANGED <<task, sent, queue, got, faults>>

Lose(s) ==
  /\ sock[s] = "open"
  /\ sock' = [sock EXCEPT ![s] = "lost"]
  /\ UNCHANGED <<conns, reg, task, sent, queue, gauge, got, faults>>

(* Faulty variants of the definition that follows, here and below, are used *)
(* to show that the properties can fail: the gauge goes down whether or not *)
(* a broadcast has pruned the socket already.                               *)
DisconnectAnyway(s) ==
  LET p == Home[s] IN
  /\ sock[s] = "lost"
  /\ sock' = [sock EXCEPT ![s] = "closed"]
  /\ conns' = IF reg[p] = 0 THEN conns
              ELSE [conns EXCEPT ![p][reg[p]] = Without(@, {s})]
  /\ gauge' = [gauge EXCEPT ![p] = @ - 1]
  /\ reg' = [reg EXCEPT ![p] =
               IF Without(Registered(p), {s}) = <<>> THEN 0 ELSE @]
  /\ UNCHANGED <<task, sent, queue, got, faults>>

Disconnect(s) ==
  LET p == Home[s]
      listed == Contains(Registered(p), s)
  IN /\ sock[s] = "lost"
     /\ sock' = [sock EXCEPT ![s] = "closed"]
     /\ conns' = IF listed THEN [conns EXCEPT ![p][reg[p]] = Without(@, {s})]
                           ELSE conns
     /\ gauge' = [gauge EXCEPT ![p] = IF listed THEN @ - 1 ELSE @]
     /\ reg' = [reg EXCEPT ![p] =
                  IF Without(Registered(p), {s}) = <<>> THEN 0 ELSE @]
     /\ UNCHANGED <<task, sent, queue, got, faults>>

(* Text that is no JSON, or a state message that cannot be sent, ends the   *)
(* endpoint without a disconnect.                                           *)
Break(s) ==
  /\ Breaks
  /\ sock[s] \in {"open", "lost"}
  /\ sock' = [sock EXCEPT ![s] = "closed"]
  /\ UNCHANGED <<conns, reg, task, sent, queue, gauge, got, faults>>

-----------------------------------------------------------------------------
(* _broadcast_local, by a request or by the bus listener of a process.      *)

ProcOf(k) == IF k \in Procs THEN k ELSE At[k]

Begun(k, m) ==
  [Idle EXCEPT !.pc = "local", !.list = reg[ProcOf(k)], !.msg = m,
     !.audience = ToSet(Registered(ProcOf(k)))]

List(k) == IF task[k].list = 0 THEN <<>> ELSE conns[ProcOf(k)][task[k].list]

Broadcast(h) ==
  /\ task[h].pc = "idle" /\ sent[h] < MaxMessages[h]
  /\ sent' = [sent EXCEPT ![h] = @ + 1]
  /\ task' = [task EXCEPT ![h] = Begun(h, <<h, sent[h] + 1>>)]
  /\ UNCHANGED <<sock, conns, reg, queue, gauge, got, faults>>

(* Faulty: the first send that raises ends the loop.                        *)
SendUntilDead(k) ==
  LET s == List(k)[task[k].at] IN
  /\ task[k].pc = "local" /\ task[k].at <= Len(List(k))
  /\ IF sock[s] = "open"
       THEN /\ got' = [got EXCEPT ![s] = Append(@, task[k].msg)]
            /\ task' = [task EXCEPT ![k].at = @ + 1]
       ELSE /\ task' = [task EXCEPT ![k].at = Len(List(k)) + 1,
                                    ![k].dead = Append(@, s)]
            /\ UNCHANGED got
  /\ UNCHANGED <<sock, conns, reg, sent, queue, gauge, faults>>

(* A send to a socket that is not open raises.                              *)
Send(k) ==
  LET s == List(k)[task[k].at] IN
  /\ task[k].pc = "local" /\ task[k].at <= Len(List(k))
  /\ IF sock[s] = "open"
       THEN /\ got' = [got EXCEPT ![s] = Append(@, task[k].msg)]
            /\ task' = [task EXCEPT ![k].at = @ + 1]
       ELSE /\ task' = [task EXCEPT ![k].at = @ + 1,
                                    ![k].dead = Append(@, s)]
            /\ UNCHANGED got
  /\ UNCHANGED <<sock, conns, reg, sent, queue, gauge, faults>>

(* The dead sockets that conns.remove(ws) takes out before it raises.       *)
Removed(k) ==
  LET dead == task[k].dead IN
  {dead[i] : i \in {j \in 1 .. Len(dead) :
                      \A n \in 1 .. j : Contains(List(k), dead[n])}}

(* Somebody else has removed one of them: ValueError.                       *)
Raises(k) == \E i \in 1 .. Len(task[k].dead) : ~ Contains(List(k), task[k].dead[i])

(* Emptiness is that of the iterated list; the entry that is popped is the  *)
(* one registered now.                                                      *)
Prune(k) ==
  LET p == ProcOf(k)
      l == task[k].list
  IN /\ task[k].pc = "local" /\ task[k].at > Len(List(k))
     /\ conns' = IF l = 0 THEN conns
                 ELSE [conns EXCEPT ![p][l] = Without(@, Removed(k))]
     /\ gauge' = [gauge EXCEPT ![p] = @ - Cardinality(Removed(k))]
     /\ reg' = [reg EXCEPT ![p] =
          IF ~ Raises(k) /\ Without(List(k), Removed(k)) = <<>> THEN 0 ELSE @]
     /\ task' = [task EXCEPT ![k] =
          IF k \in Procs THEN Idle
          ELSE [@ EXCEPT !.pc = IF Raises(k) THEN "failed" ELSE "publish"]]
     /\ UNCHANGED <<sock, sent, queue, got, faults>>

-----------------------------------------------------------------------------
(* The event bus: Redis hands a message to every process subscribed, in the *)
(* order of the publishes, or the publish fails.                            *)

Publish(h) ==
  /\ task[h].pc = "publish"
  /\ task' = [task EXCEPT ![h] = Idle]
  /\ \/ /\ queue' = [p \in Procs |-> Append(queue[p], task[h].msg)]
        /\ UNCHANGED faults
     \/ /\ faults < MaxFaults
        /\ faults' = faults + 1
        /\ UNCHANGED queue
  /\ UNCHANGED <<sock, conns, reg, sent, gauge, got>>

(* The subscription breaks, and what it held is lost.                       *)
Resubscribe(p) ==
  /\ task[p].pc = "idle" /\ queue[p] # <<>>
  /\ faults < MaxFaults
  /\ faults' = faults + 1
  /\ queue' = [queue EXCEPT ![p] = <<>>]
  /\ UNCHANGED <<sock, conns, reg, task, sent, gauge, got>>

(* Faulty: messages of this process are delivered once more.                *)
NotOwnAlways(p, m) == TRUE

NotOwn(p, m) == At[m[1]] # p

(* The listener dispatches a message, and reads the next when all handlers  *)
(* have run.                                                                *)
Dispatch(p) ==
  /\ task[p].pc = "idle" /\ queue[p] # <<>>
  /\ queue' = [queue EXCEPT ![p] = Tail(@)]
  /\ task' = IF NotOwn(p, Head(queue[p]))
               THEN [task EXCEPT ![p] = Begun(p, Head(queue[p]))]
               ELSE task
  /\ UNCHANGED <<sock, conns, reg, sent, gauge, got, faults>>

-----------------------------------------------------------------------------

Next ==
  \/ \E s \in Sockets : Connect(s) \/ Lose(s) \/ Disconnect(s) \/ Break(s)
  \/ \E h \in Requests : Broadcast(h) \/ Publish(h)
  \/ \E k \in Requests \cup Procs : Send(k) \/ Prune(k)
  \/ \E p \in Procs : Dispatch(p) \/ Resubscribe(p)

Spec == Init /\ [][Next]_vars

-----------------------------------------------------------------------------
(* Properties.                                                              *)

(* The messages of a request reach every viewer in their order and no       *)
(* message twice, in its process and in the others, whatever is removed     *)
(* from the list under an iteration: "complete" never comes before the last *)
(* step.                                                                    *)
OnceInOrder ==
  \A s \in Sockets : \A i, j \in 1 .. Len(got[s]) :
     i < j /\ got[s][i][1] = got[s][j][1] => got[s][i][2] < got[s][j][2]

(* What _broadcast_local and the bus promise a viewer.                      *)
DeliveredInOrder == TypeOK /\ OnceInOrder

Listed(s) == \E l \in 1 .. Len(conns[Home[s]]) : Contains(conns[Home[s]][l], s)

(* Whoever finds a socket dead, the endpoint or any number of broadcasts at *)
(* once, it is taken out and counted out once.                              *)
GaugeCountsListed ==
  \A p \in Procs :
     gauge[p] = Cardinality({s \in Sockets : Home[s] = p /\ Listed(s)})

(* A viewer in the list that a broadcast iterates over misses its message   *)
(* only because somebody else has left that list in the meantime, and each  *)
(* one who leaves costs at most one viewer the message.                     *)
MissedOnlyByDepartures ==
  \A k \in Requests \cup Procs :
     task[k].pc = "local" /\ task[k].at > Len(List(k)) =>
       LET missed == {s \in task[k].audience :
                        sock[s] = "open" /\ ~ Contains(got[s], task[k].msg)}
           left == task[k].audience \ ToSet(List(k))
       IN Cardinality(missed) <= Cardinality(left)
=============================================================================
