------------------------------- MODULE RateLimit -------------------------------
(* The sliding-window limiter of backend/rate_limit.py.  Requests of any      *)
(* thread are decided on the event loop, one after the other, so that no two  *)
(* wait for the lock.  Without Redis the stamps are in a table of the         *)
(* process, which is bounded: the key that was let through longest ago goes   *)
(* first.  With Redis one script reads the clock and decides.                 *)
EXTENDS Integers, Sequences, FiniteSets, SequencesExt, Lists

CONSTANTS
  Keys,        \* what is limited: a user, an address
  MaxEvents,   \* events per window
  Window,      \* the window, in ticks
  Second,      \* ticks per second
  MaxKeys,     \* size of the table
  MaxTime      \* bound: ticks

VARIABLES
  backend,   \* "memory" or "redis"
  now,
  events,    \* stamps of each key; empty if the key is not in the table
  order,     \* keys of the table, least recently let through first
  granted,   \* history: the events of each key in this window, since it was forgotten
  wait,      \* history: until when a refused key was told to wait
  spent,     \* history: the last event of each key
  hasty      \* history: a live key was dropped although the others fit

limitVars == <<backend, now, events, order, granted, wait, spent, hasty>>

\* What the constructors insist on, and the bounds.
Limits ==
  /\ {MaxEvents, Window, Second, MaxKeys} \subseteq Nat \ {0}
  /\ MaxTime \in Nat /\ IsFiniteSet(Keys)

NoWait == [until |-> 0, head |-> 0]
Never  == 0 - Window

LimitInit ==
  /\ backend \in {"memory", "redis"}
  /\ now = 0
  /\ events = [k \in Keys |-> <<>>] /\ order = <<>>
  /\ granted = [k \in Keys |-> <<>>] /\ wait = [k \in Keys |-> NoWait]
  /\ spent = [k \in Keys |-> Never] /\ hasty = FALSE

Stale(stamp, t) == stamp <= t - Window

\* Stamps leave the window from the head.
Pruned(es, t) ==
  LET passed == {i \in DOMAIN es : \A j \in 1..i : Stale(es[j], t)}
  IN  SubSeq(es, Cardinality(passed) + 1, Len(es))

Tick ==
  /\ now < MaxTime /\ now' = now + 1
  /\ granted' = [k \in Keys |-> Pruned(granted[k], now')]
  /\ spent' = [k \in Keys |-> IF spent[k] > now' - Window THEN spent[k] ELSE Never]
  /\ UNCHANGED <<backend, events, order, wait, hasty>>

-----------------------------------------------------------------------------
Full(es) == Len(es) >= MaxEvents

\* Seconds until the oldest stamp leaves the window: the table cuts the rest
\* and adds one, the script rounds up.
RetryAfter(head, t) ==
  LET left == Window - (t - head)
  IN  IF backend = "memory" THEN left \div Second + 1 ELSE (left + Second - 1) \div Second

\* Keys the table drops to make room: first those that have expired, whoever
\* they are, then the ones let through longest ago.
Expired(es, o, t) == {k \in Range(o) : Stale(Last(es[k]), t)}
\* Faulty: nobody looks for expired keys
DroppedOldest(es, o, t) == {o[i] : i \in 1..(Len(o) - MaxKeys)}
Dropped(es, o, t) ==
  IF Len(o) <= MaxKeys THEN {}
  ELSE LET old  == Expired(es, o, t)
           live == Without(o, old)
       IN  old \cup {live[i] : i \in 1..(Len(live) - MaxKeys)}

Moved(o, k) == Append(Without(o, {k}), k)

Refuse(k, es) ==
  /\ events' = [events EXCEPT ![k] = es]
  /\ wait' = [wait EXCEPT ![k] = [until |-> now + Second * RetryAfter(Head(es), now), head |-> Head(es)]]
  /\ UNCHANGED <<order, granted, spent, hasty>>

\* An empty entry leaves the table; any other is now the last to be dropped.
Permit(k, es) ==
  /\ events' = [events EXCEPT ![k] = es]
  /\ order' = IF backend = "redis" THEN order ELSE IF es = <<>> THEN Without(order, {k}) ELSE Moved(order, k)
  /\ UNCHANGED <<granted, wait, spent, hasty>>

\* Keys that were let through in the last window.
Recent == {k \in Keys : spent'[k] > now - Window}
\* The last events of a key, one more than may be let through.
LastOf(s) == IF Len(s) <= MaxEvents + 1 THEN s ELSE Tail(s)

Enter(k, es) ==
  LET entered == [events EXCEPT ![k] = Append(es, now)]
      lined   == Moved(order, k)
      gone    == IF backend = "redis" THEN {} ELSE Dropped(entered, lined, now)
      alive   == {j \in gone : ~Stale(Last(entered[j]), now)}
  IN /\ events' = [j \in Keys |-> IF j \in gone THEN <<>> ELSE entered[j]]
     /\ order' = IF backend = "redis" THEN order ELSE Without(lined, gone)
     /\ spent' = [spent EXCEPT ![k] = now]
     /\ granted' = [j \in Keys |-> IF j \in gone THEN <<>>
                                   ELSE IF j = k THEN LastOf(Append(granted[k], now)) ELSE granted[j]]
     /\ wait' = [j \in Keys |-> IF j = k \/ j \in gone THEN NoWait ELSE wait[j]]
     /\ hasty' = (hasty \/ (alive # {} /\ Cardinality(Recent) <= MaxKeys))

\* A request asks whether it may try, counts a failure or a use, or forgets the
\* failures after a success.  Where Redis does not answer the request ends with
\* 503, and nothing is counted in the table instead.
Left(k) == Pruned(events[k], now)

Check(k) ==
  /\ IF Full(Left(k)) THEN Refuse(k, Left(k)) ELSE Permit(k, Left(k))
  /\ UNCHANGED <<backend, now>>

Record(k) ==
  /\ IF Full(Left(k)) THEN Refuse(k, Left(k)) ELSE Enter(k, Left(k))
  /\ UNCHANGED <<backend, now>>

Clear(k) ==
  /\ events' = [events EXCEPT ![k] = <<>>] /\ order' = Without(order, {k})
  /\ granted' = [granted EXCEPT ![k] = <<>>] /\ wait' = [wait EXCEPT ![k] = NoWait]
  /\ spent' = [spent EXCEPT ![k] = Never]
  /\ UNCHANGED <<backend, now, hasty>>

LimitNext == Tick \/ \E k \in Keys : Check(k) \/ Record(k) \/ Clear(k)

LimitSpec == LimitInit /\ [][LimitNext]_limitVars

-----------------------------------------------------------------------------
LimitTypeOK ==
  /\ \A k \in Keys : Len(events[k]) <= MaxEvents /\ \A i \in DOMAIN events[k] : events[k][i] \in 0..now
  /\ Len(order) <= MaxKeys
  /\ backend = "memory" => Range(order) = {k \in Keys : events[k] # <<>>} /\ IsInjective(order)

\* No key is let through more than MaxEvents times within a window, unless the
\* table has forgotten it meanwhile.
WindowHolds ==
  \A k \in Keys : Len(granted[k]) > MaxEvents =>
                     Last(granted[k]) - Head(granted[k]) >= Window

\* A key that waits as long as it was told is let through, if nobody used it
\* meanwhile; and it is told to wait a second too long at most.
RetryAfterIsTrue ==
  \A k \in Keys : wait[k].until # 0 =>
    /\ now >= wait[k].until => ~Full(Pruned(events[k], now))
    /\ wait[k].until <= wait[k].head + Window + Second

\* A key is forgotten early only if more keys than fit were used within the
\* window.
TableFits == ~hasty

\* What is promised of the limiter.
LimiterKeeps == LimitTypeOK /\ WindowHolds /\ RetryAfterIsTrue /\ TableFits
=============================================================================
