---------------------------------- MODULE Bell ----------------------------------
(* The bell of the web client (components/notification-bell.jsx): a copy of  *)
(* the newest notifications that is loaded once, grows by the messages of a  *)
(* WebSocket and marks notifications as read before the server knows.        *)
EXTENDS Integers, Sequences

CONSTANTS
  Cap,                                 \* how many notifications the bell keeps (20)
  MaxNotes, MaxLosses, MaxReloads, MaxReadings   \* bounds

VARIABLES
  notes,    \* the server: for each notification, by its number, whether it is read
  bell,     \* the bell's list: [id, read], the newest first
  loads,    \* the loads whose answers are to come
  sock,     \* the socket: off, asking (for a ticket) or open, and its queue
  posts,    \* the requests "mark this" or "mark all" that are on their way
  crossed,  \* history: a notification was made, or marked, while a load, a request or
            \* a message was under way or the socket was not open
  losses, reloads, readings   \* how much of the bounds is used up

bellVars == <<notes, bell, loads, sock, posts, crossed, losses, reloads, readings>>

Entry(i) == [id |-> i, read |-> notes[i]]
\* GET /notifications?limit=20
Latest == [k \in 1..(IF Len(notes) < Cap THEN Len(notes) ELSE Cap) |-> Entry(Len(notes) + 1 - k)]
NoSock == [st |-> "off", q |-> <<>>]
Asking == [st |-> "asking", q |-> <<>>]

\* something is under way that a notification or a mark may cross
Calm == loads = {} /\ posts = {} /\ sock.st = "open" /\ sock.q = <<>>

Init ==
  /\ notes \in {<<>>, <<FALSE, TRUE>>}
  /\ bell = <<>> /\ loads = {[n |-> 0, got |-> <<>>, st |-> "asked"]} /\ sock = Asking
  /\ posts = {} /\ crossed = FALSE /\ losses = 0 /\ reloads = 0 /\ readings = 0

\* the server makes a notification and sends it to the sockets it knows
Notify ==
  /\ Len(notes) < MaxNotes
  /\ notes' = Append(notes, FALSE)
  /\ sock' = IF sock.st = "open" THEN [sock EXCEPT !.q = Append(@, [id |-> Len(notes) + 1, read |-> FALSE])]
             ELSE sock
  /\ crossed' = (crossed \/ loads # {} \/ posts # {} \/ sock.st # "open")
  /\ UNCHANGED <<bell, loads, posts, losses, reloads, readings>>

-----------------------------------------------------------------------------
LoadServed(l) ==
  /\ l.st = "asked"
  /\ loads' = (loads \ {l}) \cup {[l EXCEPT !.st = "ok", !.got = Latest]}
  /\ UNCHANGED <<notes, bell, sock, posts, crossed, losses, reloads, readings>>

\* replaces the list, with what has been pushed in the meantime
LoadAnswered(l) ==
  /\ l.st = "ok"
  /\ loads' = loads \ {l} /\ bell' = l.got
  /\ UNCHANGED <<notes, sock, posts, crossed, losses, reloads, readings>>

LoadFailed(l) ==
  /\ losses < MaxLosses /\ losses' = losses + 1
  /\ loads' = loads \ {l}
  /\ UNCHANGED <<notes, bell, sock, posts, crossed, reloads, readings>>

SockOpen ==
  /\ sock.st = "asking" /\ sock' = [sock EXCEPT !.st = "open"]
  /\ UNCHANGED <<notes, bell, loads, posts, crossed, losses, reloads, readings>>

\* nobody opens another one
SockLost ==
  /\ sock.st # "off" /\ losses < MaxLosses /\ losses' = losses + 1
  /\ sock' = NoSock
  /\ UNCHANGED <<notes, bell, loads, posts, crossed, reloads, readings>>

\* Faulty: behind the others
MessageLast ==
  /\ sock.q # <<>>
  /\ bell' = SubSeq(Append(bell, Head(sock.q)), 1, IF Len(bell) < Cap THEN Len(bell) + 1 ELSE Cap)
  /\ sock' = [sock EXCEPT !.q = Tail(@)]
  /\ UNCHANGED <<notes, loads, posts, crossed, losses, reloads, readings>>

\* ws.onmessage: in front of the others, of which the last drops out
Message ==
  /\ sock.q # <<>>
  /\ bell' = SubSeq(<<Head(sock.q)>> \o bell, 1, IF Len(bell) < Cap THEN Len(bell) + 1 ELSE Cap)
  /\ sock' = [sock EXCEPT !.q = Tail(@)]
  /\ UNCHANGED <<notes, loads, posts, crossed, losses, reloads, readings>>

\* The profile was saved: currentUser is another object, so the effects load
\* again, close the socket and open another.
UserChanged ==
  /\ reloads < MaxReloads /\ reloads' = reloads + 1
  /\ loads' = loads \cup {[n |-> reloads + 1, got |-> <<>>, st |-> "asked"]}
  /\ sock' = Asking
  /\ crossed' = (crossed \/ ~Calm)
  /\ UNCHANGED <<notes, bell, posts, losses, readings>>

-----------------------------------------------------------------------------
(* Reading.                                                                  *)

Mark(ids) ==
  /\ readings < MaxReadings /\ readings' = readings + 1
  /\ bell' = [k \in DOMAIN bell |-> IF ids = {} \/ bell[k].id \in ids THEN [bell[k] EXCEPT !.read = TRUE]
                                    ELSE bell[k]]
  /\ posts' = posts \cup {[n |-> readings + 1, ids |-> ids]}
  /\ crossed' = (crossed \/ loads # {} \/ sock.q # <<>>)
  /\ UNCHANGED <<notes, loads, sock, losses, reloads>>

\* {} stands for all; the button is there while something is unread
MarkAllRead == (\E k \in DOMAIN bell : ~bell[k].read) /\ Mark({})
Click(k) == k \in DOMAIN bell /\ ~bell[k].read /\ Mark({bell[k].id})

MarkStored(p) ==
  /\ posts' = posts \ {p}
  /\ notes' = [i \in DOMAIN notes |-> notes[i] \/ p.ids = {} \/ i \in p.ids]
  /\ UNCHANGED <<bell, loads, sock, crossed, losses, reloads, readings>>

\* errors are ignored
MarkLost(p) ==
  /\ losses < MaxLosses /\ losses' = losses + 1
  /\ posts' = posts \ {p}
  /\ UNCHANGED <<notes, bell, loads, sock, crossed, reloads, readings>>

Next == \/ Notify \/ SockOpen \/ SockLost \/ Message \/ UserChanged \/ MarkAllRead
        \/ \E l \in loads : LoadServed(l) \/ LoadAnswered(l) \/ LoadFailed(l)
        \/ \E k \in 1..Cap : Click(k)
        \/ \E p \in posts : MarkStored(p) \/ MarkLost(p)

-----------------------------------------------------------------------------
TypeOK ==
  /\ Len(bell) <= Cap /\ \A k \in DOMAIN bell : bell[k].id \in DOMAIN notes
  /\ sock.st \in {"off", "asking", "open"} /\ (sock.st # "open" => sock.q = <<>>)

\* Once all has arrived the bell has what the server has: the newest
\* notifications, none twice, none missing, and as many of them unread - though
\* it never asks again.  The exceptions are a lost connection or request, and a
\* notification or a mark that crosses the load or is made before the socket is
\* open: those may be missing, twice or unread again.
BellAgrees == (Calm /\ losses = 0 /\ ~crossed) => bell = Latest
=============================================================================
