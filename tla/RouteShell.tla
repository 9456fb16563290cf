------------------------------ MODULE RouteShell ------------------------------
(* The shell of the web client: which view is shown, what the address bar    *)
(* says, and whether the scripts the view needs have been loaded (App of     *)
(* frontend/app.jsx and frontend/route-loader.js).  The address and the view *)
(* follow each other: a change of the view is written to the hash at once, a *)
(* change of the hash reaches the view with an event of its own; a script    *)
(* comes or fails whenever the network lets it.                              *)
EXTENDS Integers, Sequences, FiniteSets, SequencesExt

CONSTANTS
  Needs,     \* view -> the scripts it needs, in order (`routes`)
  Strange,   \* addresses that are no view
  MaxVisits,  \* bound: navigations
  MaxScriptErrors,  \* bound: scripts that fail to load
  MaxRoles   \* bound: changes of the user's role

VARIABLES
  admin,     \* the user has the role admin
  view,      \* the view chosen: [name, id]
  hash,      \* the address: [name, id]
  events,    \* hashchange events that are to come
  route,     \* routeLoad: [key, status]
  loads,     \* loads under way: [key, rest, active]
  fetching,  \* `pending`: scripts that are inserted in the page
  loaded,    \* `loaded`
  runs,      \* history: how often each script has run
  refused,   \* history: a role was taken while the admin page was shown
  moves, errors, roles

shellVars == <<admin, view, hash, events, route, loads, fetching, loaded, runs,
               refused, moves, errors, roles>>

Views   == DOMAIN Needs
Scripts == UNION {ToSet(Needs[v]) : v \in Views}
Ids     == {"none", "id"}
At(v)   == [name |-> v, id |-> "none"]

\* A detail view has an address of its own as long as an id is known.
Detail == {"test-detail", "run-detail"} \cap Views
Key(v) == IF v.name \in Views THEN v.name ELSE "overview"

\* parseHash after buildHash: an id is kept by a detail view alone.
Address(v) == IF v.name \in Detail THEN v ELSE At(v.name)

Load(k) == [key |-> k, rest |-> Needs[k], active |-> TRUE]
Stopped == {[l EXCEPT !.active = FALSE] : l \in loads}

Init ==
  /\ admin \in BOOLEAN
  /\ view \in {At(v) : v \in Views \cup Strange} \cup [name : Detail, id : {"id"}]
  /\ view.name = "admin" => admin       \* safeInitialView
  /\ hash = Address(view)
  /\ events \in 0..1                    \* 1: the address was written or mended
  /\ route = [key |-> Key(view), status |-> "loading"]
  /\ loads = {Load(Key(view))}
  /\ fetching = {} /\ loaded = {} /\ runs = [s \in Scripts |-> 0]
  /\ refused = FALSE /\ moves = 0 /\ errors = 0 /\ roles = 0

-----------------------------------------------------------------------------
(* Showing a view: the effect that loads it, when its key changes, and the   *)
(* effect that writes the address.                                           *)

Starts(k) ==
  /\ route' = [key |-> k, status |-> "loading"]
  /\ loads' = Stopped \cup {Load(k)}

Show(v) ==
  /\ view' = v
  /\ hash' = Address(v)
  /\ events' = IF Address(v) = hash THEN events ELSE events + 1
  /\ IF Key(v) = Key(view) THEN UNCHANGED <<route, loads>> ELSE Starts(Key(v))

Move == moves < MaxVisits /\ moves' = moves + 1

\* nav: a click in the side bar, or on a page.
Nav(v) ==
  /\ Move /\ v \notin Detail
  /\ IF v = "admin" /\ ~admin
     THEN UNCHANGED <<view, hash, events, route, loads>>
     ELSE Show(At(v))
  /\ UNCHANGED <<admin, fetching, loaded, runs, refused, errors, roles>>

\* openTest, openRun
Open(v) ==
  /\ Move /\ Show([name |-> v, id |-> "id"])
  /\ UNCHANGED <<admin, fetching, loaded, runs, refused, errors, roles>>

\* Back, Forward, a link, or a typed address: the browser changes the hash,
\* the event follows.
Browse(a) ==
  /\ Move /\ a # hash
  /\ hash' = a /\ events' = events + 1
  /\ UNCHANGED <<admin, view, route, loads, fetching, loaded, runs, refused, errors, roles>>

\* onHashChange, which reads the address there is by now.
HashChanged ==
  /\ events > 0
  /\ LET v == IF hash.name = "admin" /\ ~admin THEN At("overview") ELSE hash IN
     /\ view' = v /\ hash' = Address(v)
     /\ events' = IF Address(v) = hash THEN events - 1 ELSE events
     /\ IF Key(v) = Key(view) THEN UNCHANGED <<route, loads>>
        ELSE Starts(Key(v))
  /\ UNCHANGED <<admin, fetching, loaded, runs, refused, moves, errors, roles>>

\* the Retry button of RouteError
Retry ==
  /\ route = [key |-> Key(view), status |-> "error"]
  /\ Move /\ Starts(Key(view))
  /\ UNCHANGED <<admin, view, hash, events, fetching, loaded, runs, refused, errors, roles>>

\* A saved profile brings the role the user has by now (onProfileUpdate).
RoleChanged ==
  /\ roles < MaxRoles /\ roles' = roles + 1
  /\ admin' = ~admin
  /\ refused' = (refused \/ (admin /\ view.name = "admin"))
  /\ UNCHANGED <<view, hash, events, route, loads, fetching, loaded, runs, moves, errors>>

-----------------------------------------------------------------------------
(* The loader.                                                               *)

\* loadScript: a script that is there is passed over, one that is not is
\* inserted unless it already is.
Insert(l) ==
  /\ l.rest # <<>> /\ Head(l.rest) \notin loaded \cup fetching
  /\ fetching' = fetching \cup {Head(l.rest)}
  /\ UNCHANGED <<admin, view, hash, events, route, loads, loaded, runs, refused,
                 moves, errors, roles>>

Pass(l) ==
  /\ l.rest # <<>> /\ Head(l.rest) \in loaded
  /\ loads' = (loads \ {l}) \cup {[l EXCEPT !.rest = Tail(@)]}
  /\ UNCHANGED <<admin, view, hash, events, route, fetching, loaded, runs, refused,
                 moves, errors, roles>>

\* Faulty: the effect does not ask whether it is over
ReadyAnyway(l) ==
  /\ l.rest = <<>>
  /\ loads' = loads \ {l}
  /\ route' = [key |-> l.key, status |-> "ready"]
  /\ UNCHANGED <<admin, view, hash, events, fetching, loaded, runs, refused,
                 moves, errors, roles>>

\* the promise of load() resolves; the effect that asked may be over
Ready(l) ==
  /\ l.rest = <<>>
  /\ loads' = loads \ {l}
  /\ route' = IF l.active THEN [key |-> l.key, status |-> "ready"] ELSE route
  /\ UNCHANGED <<admin, view, hash, events, fetching, loaded, runs, refused,
                 moves, errors, roles>>

ScriptRan(s) ==
  /\ s \in fetching
  /\ fetching' = fetching \ {s} /\ loaded' = loaded \cup {s}
  /\ runs' = [runs EXCEPT ![s] = @ + 1]
  /\ UNCHANGED <<admin, view, hash, events, route, loads, refused, moves, errors, roles>>

\* onerror rejects the one promise all the loads that wait for it share
Waiting(s) == {l \in loads : l.rest # <<>> /\ Head(l.rest) = s}

\* Faulty: nobody catches the rejection
ScriptFailedQuietly(s) ==
  /\ s \in fetching /\ errors < MaxScriptErrors
  /\ errors' = errors + 1
  /\ fetching' = fetching \ {s}
  /\ loads' = loads \ Waiting(s)
  /\ UNCHANGED <<admin, view, hash, events, route, loaded, runs, refused, moves, roles>>

ScriptFailed(s) ==
  /\ s \in fetching /\ errors < MaxScriptErrors
  /\ errors' = errors + 1
  /\ fetching' = fetching \ {s}
  /\ loads' = loads \ Waiting(s)
  /\ route' = IF \E l \in Waiting(s) : l.active
              THEN [key |-> Key(view), status |-> "error"] ELSE route
  /\ UNCHANGED <<admin, view, hash, events, loaded, runs, refused, moves, roles>>

Loader == \/ \E l \in loads : Insert(l) \/ Pass(l) \/ Ready(l)
          \/ \E s \in Scripts : ScriptRan(s)

Next ==
  \/ \E v \in Views : Nav(v)
  \/ \E v \in Detail : Open(v)
  \/ \E a \in [name : Views \cup Strange, id : Ids] : Browse(Address(a))
  \/ HashChanged \/ Retry \/ RoleChanged
  \/ Loader
  \/ \E s \in Scripts : ScriptFailed(s)

\* the event loop goes on, and a script arrives or fails
Turns == HashChanged \/ Loader

-----------------------------------------------------------------------------
(* Properties                                                                *)

TypeOK ==
  /\ view \in [name : Views \cup Strange, id : Ids]
  /\ hash \in [name : Views \cup Strange, id : Ids]
  /\ route \in [key : Views, status : {"loading", "ready", "error"}]
  /\ \A l \in loads : l.key \in Views /\ l.active \in BOOLEAN
  /\ fetching \cup loaded \subseteq Scripts
  /\ Cardinality({l \in loads : l.active}) <= 1

Presented == route = [key |-> Key(view), status |-> "ready"]

\* A page is drawn only when every script it needs has run, once (the views
\* publish their components on window: one that is missing takes the whole
\* application down), whatever was clicked while scripts were on their way.
DrawnWhenLoaded ==
  /\ Presented => ToSet(Needs[Key(view)]) \subseteq loaded
  /\ \A s \in Scripts : runs[s] <= 1

\* When nothing is under way any more the page shown is the one chosen, or
\* the error for it: no late answer for an earlier page takes its place, and
\* the address is the page's.
RestsWhereItShould ==
  /\ {l \in loads : l.active} = {} => route.key = Key(view) /\ route.status # "loading"
  /\ events = 0 => hash = Address(view)

\* Someone who is not an administrator is not led to the admin page by any
\* address; only one who loses the role on it stays there.
AdminsOnly == view.name = "admin" /\ ~refused => admin

\* What was chosen is shown, or its error.
AtRest == route.status # "loading"
RouteSettles == []<>AtRest
=============================================================================
