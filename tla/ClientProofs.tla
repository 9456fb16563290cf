----------------------------- MODULE ClientProofs -----------------------------
(* Proofs about the pages of the web client (Clients): for each of its parts  *)
(* the inductive invariant, the step of every action, and the theorem that    *)
(* what is promised of the part holds in every behaviour of ClientSpec.       *)
EXTENDS Clients, FiniteSetTheorems, SequenceTheorems, WellFoundedInduction, TLAPS

-----------------------------------------------------------------------------
(* Log-in and sessions (Session).                                           *)

Pages    == {"closed", "checking", "login", "twofa", "confirm", "app"}
Somebody == Users \cup {"none"}
TokenVals   == [user : Somebody, n : Nat]
Kinds    == {"me", "login", "twofa", "confirm", "init", "profile"}

SessionType ==
  /\ token \in TokenVals /\ (token = S!NoToken \/ token.user \in Users)
  /\ tab \in [Tabs -> [page : Pages, user : Somebody, data : Somebody, partial : Somebody]]
  /\ calls \subseteq [tab : Tabs, kind : Kinds, tok : TokenVals, n : Nat]
  /\ crossed \subseteq Tabs /\ steps \in Nat /\ outages \in Nat

\* A page has a user if and only if it is the application, and a second step
\* knows whose it is.
TabSound(t) ==
  /\ (tab[t].page = "app") = (tab[t].user # "none")
  /\ tab[t].page \in {"twofa", "confirm"} => tab[t].partial \in Users
\* Requests are somebody's, but for the one that reads the data; the first of a
\* page is its only one.
CallSound(c) ==
  /\ c.kind # "init" => c.tok.user \in Users
  /\ tab[c.tab].page # "closed"
  /\ (c.kind = "me") = (tab[c.tab].page = "checking")
  /\ c.kind = "me" => S!Of(c.tab) = {c}
\* In a tab that nothing has crossed a request carries the token there is, and
\* only the application waits for data or a profile.
CallCurrent(c) ==
  c.tab \notin crossed => /\ c.kind \in {"me", "init", "profile"} => c.tok = token
                          /\ c.kind \in {"init", "profile"} => tab[c.tab].page = "app"

SessionSound == /\ \A t \in Tabs : TabSound(t)
                /\ \A c \in calls : CallSound(c) /\ CallCurrent(c)

\* The data that is shown is that of the user, or is asked for.
DataFollows ==
  \A t \in Tabs : (tab[t].page = "app" /\ t \notin crossed /\ outages = 0 /\ token \notin revoked)
                    => tab[t].data = tab[t].user \/ S!Waiting(t, "init")

SessionInv == SessionType /\ SessionSound /\ S!ActsAsShown /\ DataFollows

USE SessionAssumed DEF TokenVals, Pages, Somebody, Kinds, S!NoToken, S!Blank, S!New, S!Of, S!Step

LEMMA SessionLoad == ASSUME SessionInv, NEW t \in Tabs, S!Load(t) PROVE SessionInv'
<1>1. SessionType'
  BY DEF SessionInv, SessionType, SessionSound, TabSound, CallSound, S!Load
<1>2. \A r \in Tabs : TabSound(r)'
  BY DEF SessionInv, SessionType, SessionSound, TabSound, CallSound, S!Load
<1>3. \A d \in calls' : CallSound(d)' /\ CallCurrent(d)'
  BY DEF SessionInv, SessionType, SessionSound, TabSound, CallSound, CallCurrent, S!Load
<1>4. S!ActsAsShown'
  BY DEF SessionInv, SessionType, SessionSound, TabSound, CallSound, CallCurrent, S!ActsAsShown,
     S!Load
<1>5. DataFollows'
  BY DEF SessionInv, SessionType, SessionSound, TabSound, CallSound, CallCurrent, S!ActsAsShown,
     DataFollows, S!Waiting, S!Load
<1> QED
  BY <1>1, <1>2, <1>3, <1>4, <1>5 DEF SessionInv, SessionSound

LEMMA SessionOAuthReturn ==
  ASSUME SessionInv, NEW t \in Tabs, NEW u \in Users, S!OAuthReturn(t, u)
  PROVE  SessionInv'
<1>1. SessionType'
  BY DEF SessionInv, SessionType, SessionSound, TabSound, CallSound, S!OAuthReturn
<1>2. \A r \in Tabs : TabSound(r)'
  BY DEF SessionInv, SessionType, SessionSound, TabSound, CallSound, S!OAuthReturn
<1>3. \A d \in calls' : CallSound(d)' /\ CallCurrent(d)'
  BY DEF SessionInv, SessionType, SessionSound, TabSound, CallSound, CallCurrent, S!OAuthReturn
<1>4. S!ActsAsShown'
  BY DEF SessionInv, SessionType, SessionSound, TabSound, CallSound, CallCurrent, S!ActsAsShown,
     S!OAuthReturn
<1>5. DataFollows'
  BY DEF SessionInv, SessionType, SessionSound, TabSound, CallSound, CallCurrent, S!ActsAsShown,
     DataFollows, S!Waiting, S!OAuthReturn
<1> QED
  BY <1>1, <1>2, <1>3, <1>4, <1>5 DEF SessionInv, SessionSound

LEMMA SessionMeAnswered == ASSUME SessionInv, NEW c \in calls, S!MeAnswered(c) PROVE SessionInv'
<1>1. SessionType'
  <2>1. /\ c.tab \in Tabs /\ c.tok.user \in Users /\ c.kind = "me" /\ UNCHANGED <<revoked, steps, outages>>
        /\ S!New(c.tab, "init", token) \in [tab : Tabs, kind : Kinds, tok : TokenVals, n : Nat]
    BY DEF SessionInv, SessionType, SessionSound, CallSound, S!MeAnswered
  <2>2. CASE c.tok \notin revoked
    BY <2>1, <2>2 DEF SessionInv, SessionType, S!MeAnswered, S!Enter, S!Keep
  <2>3. CASE c.tok \in revoked
    <3>1. /\ tab' = [tab EXCEPT ![c.tab].page = "login"] /\ calls' = calls \ {c} /\ token' = S!NoToken
          /\ crossed' \subseteq crossed \cup Tabs
      BY <2>1, <2>3 DEF S!MeAnswered, S!Write
    <3> QED
      BY <2>1, <3>1 DEF SessionInv, SessionType
  <2> QED
    BY <2>2, <2>3
<1>2. \A r \in Tabs : TabSound(r)'
  BY DEF SessionInv, SessionType, SessionSound, TabSound, CallSound, S!MeAnswered, S!Enter,
     S!Write, S!Keep
<1>3. \A d \in calls' : CallSound(d)' /\ CallCurrent(d)'
  BY DEF SessionInv, SessionType, SessionSound, TabSound, CallSound, CallCurrent, S!MeAnswered,
     S!Enter, S!Write, S!Keep
<1>4. S!ActsAsShown'
  BY DEF SessionInv, SessionType, SessionSound, TabSound, CallSound, CallCurrent, S!ActsAsShown,
     S!MeAnswered, S!Enter, S!Write, S!Keep
<1>5. DataFollows'
  BY DEF SessionInv, SessionType, SessionSound, TabSound, CallSound, CallCurrent, S!ActsAsShown,
     DataFollows, S!Waiting, S!MeAnswered, S!Enter, S!Write, S!Keep
<1> QED
  BY <1>1, <1>2, <1>3, <1>4, <1>5 DEF SessionInv, SessionSound

LEMMA SessionSubmitLogin ==
  ASSUME SessionInv, NEW t \in Tabs, NEW u \in Users, S!SubmitLogin(t, u)
  PROVE  SessionInv'
<1>1. SessionType'
  BY DEF SessionInv, SessionType, SessionSound, TabSound, CallSound, S!SubmitLogin, S!Keep
<1>2. \A r \in Tabs : TabSound(r)'
  BY DEF SessionInv, SessionType, SessionSound, TabSound, CallSound, S!SubmitLogin, S!Keep
<1>3. \A d \in calls' : CallSound(d)' /\ CallCurrent(d)'
  BY DEF SessionInv, SessionType, SessionSound, TabSound, CallSound, CallCurrent, S!SubmitLogin,
     S!Keep
<1>4. S!ActsAsShown'
  BY DEF SessionInv, SessionType, SessionSound, TabSound, CallSound, CallCurrent, S!ActsAsShown,
     S!SubmitLogin, S!Keep
<1>5. DataFollows'
  BY DEF SessionInv, SessionType, SessionSound, TabSound, CallSound, CallCurrent, S!ActsAsShown,
     DataFollows, S!Waiting, S!SubmitLogin, S!Keep
<1> QED
  BY <1>1, <1>2, <1>3, <1>4, <1>5 DEF SessionInv, SessionSound

LEMMA SessionSubmitCode == ASSUME SessionInv, NEW t \in Tabs, S!SubmitCode(t) PROVE SessionInv'
<1>1. SessionType'
  BY DEF SessionInv, SessionType, SessionSound, TabSound, CallSound, S!SubmitCode, S!Keep
<1>2. \A r \in Tabs : TabSound(r)'
  BY DEF SessionInv, SessionType, SessionSound, TabSound, CallSound, S!SubmitCode, S!Keep
<1>3. \A d \in calls' : CallSound(d)' /\ CallCurrent(d)'
  BY DEF SessionInv, SessionType, SessionSound, TabSound, CallSound, CallCurrent, S!SubmitCode,
     S!Keep
<1>4. S!ActsAsShown'
  BY DEF SessionInv, SessionType, SessionSound, TabSound, CallSound, CallCurrent, S!ActsAsShown,
     S!SubmitCode, S!Keep
<1>5. DataFollows'
  BY DEF SessionInv, SessionType, SessionSound, TabSound, CallSound, CallCurrent, S!ActsAsShown,
     DataFollows, S!Waiting, S!SubmitCode, S!Keep
<1> QED
  BY <1>1, <1>2, <1>3, <1>4, <1>5 DEF SessionInv, SessionSound

LEMMA SessionBack == ASSUME SessionInv, NEW t \in Tabs, S!Back(t) PROVE SessionInv'
<1>1. SessionType'
  BY DEF SessionInv, SessionType, SessionSound, TabSound, CallSound, S!Back, S!Keep
<1>2. \A r \in Tabs : TabSound(r)'
  BY DEF SessionInv, SessionType, SessionSound, TabSound, CallSound, S!Back, S!Keep
<1>3. \A d \in calls' : CallSound(d)' /\ CallCurrent(d)'
  BY DEF SessionInv, SessionType, SessionSound, TabSound, CallSound, CallCurrent, S!Back, S!Keep
<1>4. S!ActsAsShown'
  BY DEF SessionInv, SessionType, SessionSound, TabSound, CallSound, CallCurrent, S!ActsAsShown,
     S!Back, S!Keep
<1>5. DataFollows'
  BY DEF SessionInv, SessionType, SessionSound, TabSound, CallSound, CallCurrent, S!ActsAsShown,
     DataFollows, S!Waiting, S!Back, S!Keep
<1> QED
  BY <1>1, <1>2, <1>3, <1>4, <1>5 DEF SessionInv, SessionSound

LEMMA SessionLogInAnswered ==
  ASSUME SessionInv, NEW c \in calls, S!LogInAnswered(c)
  PROVE  SessionInv'
<1>1. SessionType'
  BY DEF SessionInv, SessionType, SessionSound, TabSound, CallSound, S!LogInAnswered, S!Enter,
     S!Write, S!Keep
<1>2. \A r \in Tabs : TabSound(r)'
  BY DEF SessionInv, SessionType, SessionSound, TabSound, CallSound, S!LogInAnswered, S!Enter,
     S!Write, S!Keep
<1>3. \A d \in calls' : CallSound(d)' /\ CallCurrent(d)'
  BY DEF SessionInv, SessionType, SessionSound, TabSound, CallSound, CallCurrent, S!LogInAnswered,
     S!Enter, S!Write, S!Keep
<1>4. S!ActsAsShown'
  BY DEF SessionInv, SessionType, SessionSound, TabSound, CallSound, CallCurrent, S!ActsAsShown,
     S!LogInAnswered, S!Enter, S!Write, S!Keep
<1>5. DataFollows'
  <2>1. CASE c.kind # "twofa" /\ c.tok.user \in TwoFactor
    BY <2>1 DEF SessionInv, SessionType, SessionSound, TabSound, CallSound, CallCurrent,
       S!ActsAsShown, DataFollows, S!Waiting, S!LogInAnswered, S!Enter, S!Write, S!Keep
  <2>2. CASE ~(c.kind # "twofa" /\ c.tok.user \in TwoFactor)
    <3> SUFFICES ASSUME NEW t \in Tabs, tab'[t].page = "app", t \notin crossed', outages' = 0, token' \notin revoked'
                 PROVE (tab[t].data = tab[t].user \/ S!Waiting(t, "init"))'
      BY DEF DataFollows
    <3>1. CASE t = c.tab
      <4> DEFINE asks == S!New(c.tab, "init", [user |-> c.tok.user, n |-> steps])
      <4>1. asks \in calls' /\ asks.tab = c.tab /\ asks.kind = "init"
        BY <2>2 DEF S!LogInAnswered
      <4> QED
        BY <3>1, <4>1 DEF S!Waiting
    <3>2. CASE t # c.tab
      <4>1. token' = token /\ t \notin crossed
        BY <2>2, <3>2 DEF S!LogInAnswered, S!Write
      <4>2. tab'[t] = tab[t]
        BY <2>2, <3>2 DEF S!LogInAnswered, S!Enter, SessionInv, SessionType
      <4>3. S!Waiting(t, "init") => S!Waiting(t, "init")'
        BY <2>2, <3>2 DEF S!Waiting, S!LogInAnswered
      <4> QED
        BY <2>2, <4>1, <4>2, <4>3 DEF S!LogInAnswered, SessionInv, DataFollows
    <3> QED
      BY <3>1, <3>2
  <2> QED
    BY <2>1, <2>2
<1> QED
  BY <1>1, <1>2, <1>3, <1>4, <1>5 DEF SessionInv, SessionSound

LEMMA SessionRefused == ASSUME SessionInv, NEW c \in calls, S!Refused(c) PROVE SessionInv'
<1>1. SessionType'
  BY DEF SessionInv, SessionType, SessionSound, TabSound, CallSound, S!Refused, S!Keep
<1>2. \A r \in Tabs : TabSound(r)'
  BY DEF SessionInv, SessionType, SessionSound, TabSound, CallSound, S!Refused, S!Keep
<1>3. \A d \in calls' : CallSound(d)' /\ CallCurrent(d)'
  BY DEF SessionInv, SessionType, SessionSound, TabSound, CallSound, CallCurrent, S!Refused,
     S!Keep
<1>4. S!ActsAsShown'
  BY DEF SessionInv, SessionType, SessionSound, TabSound, CallSound, CallCurrent, S!ActsAsShown,
     S!Refused, S!Keep
<1>5. DataFollows'
  BY DEF SessionInv, SessionType, SessionSound, TabSound, CallSound, CallCurrent, S!ActsAsShown,
     DataFollows, S!Waiting, S!Refused, S!Keep
<1> QED
  BY <1>1, <1>2, <1>3, <1>4, <1>5 DEF SessionInv, SessionSound

LEMMA SessionInitAnswered ==
  ASSUME SessionInv, NEW c \in calls, S!InitAnswered(c)
  PROVE  SessionInv'
<1>1. SessionType'
  BY DEF SessionInv, SessionType, SessionSound, TabSound, CallSound, S!InitAnswered, S!Keep
<1>2. \A r \in Tabs : TabSound(r)'
  BY DEF SessionInv, SessionType, SessionSound, TabSound, CallSound, S!InitAnswered, S!Keep
<1>3. \A d \in calls' : CallSound(d)' /\ CallCurrent(d)'
  BY DEF SessionInv, SessionType, SessionSound, TabSound, CallSound, CallCurrent, S!InitAnswered,
     S!Keep
<1>4. S!ActsAsShown'
  BY DEF SessionInv, SessionType, SessionSound, TabSound, CallSound, CallCurrent, S!ActsAsShown,
     S!InitAnswered, S!Keep
<1>5. DataFollows'
  BY DEF SessionInv, SessionType, SessionSound, TabSound, CallSound, CallCurrent, S!ActsAsShown,
     DataFollows, S!Waiting, S!InitAnswered, S!Keep
<1> QED
  BY <1>1, <1>2, <1>3, <1>4, <1>5 DEF SessionInv, SessionSound

LEMMA SessionLogout == ASSUME SessionInv, NEW t \in Tabs, S!Logout(t) PROVE SessionInv'
<1>1. SessionType'
  BY DEF SessionInv, SessionType, SessionSound, TabSound, CallSound, S!Logout, S!Write
<1>2. \A r \in Tabs : TabSound(r)'
  BY DEF SessionInv, SessionType, SessionSound, TabSound, CallSound, S!Logout, S!Write
<1>3. \A d \in calls' : CallSound(d)' /\ CallCurrent(d)'
  BY DEF SessionInv, SessionType, SessionSound, TabSound, CallSound, CallCurrent, S!Logout,
     S!Write
<1>4. S!ActsAsShown'
  BY DEF SessionInv, SessionType, SessionSound, TabSound, CallSound, CallCurrent, S!ActsAsShown,
     S!Logout, S!Write
<1>5. DataFollows'
  BY DEF SessionInv, SessionType, SessionSound, TabSound, CallSound, CallCurrent, S!ActsAsShown,
     DataFollows, S!Waiting, S!Logout, S!Write
<1> QED
  BY <1>1, <1>2, <1>3, <1>4, <1>5 DEF SessionInv, SessionSound

LEMMA SessionSaveProfile == ASSUME SessionInv, NEW t \in Tabs, S!SaveProfile(t) PROVE SessionInv'
<1>1. SessionType'
  BY DEF SessionInv, SessionType, SessionSound, TabSound, CallSound, S!SaveProfile, S!Keep
<1>2. \A r \in Tabs : TabSound(r)'
  BY DEF SessionInv, SessionType, SessionSound, TabSound, CallSound, S!SaveProfile, S!Keep
<1>3. \A d \in calls' : CallSound(d)' /\ CallCurrent(d)'
  BY DEF SessionInv, SessionType, SessionSound, TabSound, CallSound, CallCurrent, S!SaveProfile,
     S!Keep
<1>4. S!ActsAsShown'
  BY DEF SessionInv, SessionType, SessionSound, TabSound, CallSound, CallCurrent, S!ActsAsShown,
     S!SaveProfile, S!Keep
<1>5. DataFollows'
  BY DEF SessionInv, SessionType, SessionSound, TabSound, CallSound, CallCurrent, S!ActsAsShown,
     DataFollows, S!Waiting, S!SaveProfile, S!Keep
<1> QED
  BY <1>1, <1>2, <1>3, <1>4, <1>5 DEF SessionInv, SessionSound

LEMMA SessionProfileAnswered ==
  ASSUME SessionInv, NEW c \in calls, S!ProfileAnswered(c)
  PROVE  SessionInv'
<1>1. SessionType'
  BY DEF SessionInv, SessionType, SessionSound, TabSound, CallSound, S!ProfileAnswered, S!Keep
<1>2. \A r \in Tabs : TabSound(r)'
  BY DEF SessionInv, SessionType, SessionSound, TabSound, CallSound, S!ProfileAnswered, S!Keep
<1>3. \A d \in calls' : CallSound(d)' /\ CallCurrent(d)'
  BY DEF SessionInv, SessionType, SessionSound, TabSound, CallSound, CallCurrent,
     S!ProfileAnswered, S!Keep
<1>4. S!ActsAsShown'
  BY DEF SessionInv, SessionType, SessionSound, TabSound, CallSound, CallCurrent, S!ActsAsShown,
     S!ProfileAnswered, S!Keep
<1>5. DataFollows'
  BY DEF SessionInv, SessionType, SessionSound, TabSound, CallSound, CallCurrent, S!ActsAsShown,
     DataFollows, S!Waiting, S!ProfileAnswered, S!Keep
<1> QED
  BY <1>1, <1>2, <1>3, <1>4, <1>5 DEF SessionInv, SessionSound

LEMMA SessionRevoke == ASSUME SessionInv, S!Revoke PROVE SessionInv'
<1>1. SessionType'
  BY DEF SessionInv, SessionType, SessionSound, TabSound, CallSound, S!Revoke, S!Keep
<1>2. \A r \in Tabs : TabSound(r)'
  BY DEF SessionInv, SessionType, SessionSound, TabSound, CallSound, S!Revoke, S!Keep
<1>3. \A d \in calls' : CallSound(d)' /\ CallCurrent(d)'
  BY DEF SessionInv, SessionType, SessionSound, TabSound, CallSound, CallCurrent, S!Revoke, S!Keep
<1>4. S!ActsAsShown'
  BY DEF SessionInv, SessionType, SessionSound, TabSound, CallSound, CallCurrent, S!ActsAsShown,
     S!Revoke, S!Keep
<1>5. DataFollows'
  BY DEF SessionInv, SessionType, SessionSound, TabSound, CallSound, CallCurrent, S!ActsAsShown,
     DataFollows, S!Waiting, S!Revoke, S!Keep
<1> QED
  BY <1>1, <1>2, <1>3, <1>4, <1>5 DEF SessionInv, SessionSound

LEMMA SessionNoAnswer == ASSUME SessionInv, NEW c \in calls, S!NoAnswer(c) PROVE SessionInv'
<1>1. SessionType'
  BY DEF SessionInv, SessionType, SessionSound, TabSound, CallSound, S!NoAnswer, S!Keep
<1>2. \A r \in Tabs : TabSound(r)'
  BY DEF SessionInv, SessionType, SessionSound, TabSound, CallSound, S!NoAnswer, S!Keep
<1>3. \A d \in calls' : CallSound(d)' /\ CallCurrent(d)'
  BY DEF SessionInv, SessionType, SessionSound, TabSound, CallSound, CallCurrent, S!NoAnswer,
     S!Keep
<1>4. S!ActsAsShown'
  BY DEF SessionInv, SessionType, SessionSound, TabSound, CallSound, CallCurrent, S!ActsAsShown,
     S!NoAnswer, S!Keep
<1>5. DataFollows'
  BY DEF SessionInv, SessionType, SessionSound, TabSound, CallSound, CallCurrent, S!ActsAsShown,
     DataFollows, S!Waiting, S!NoAnswer, S!Keep
<1> QED
  BY <1>1, <1>2, <1>3, <1>4, <1>5 DEF SessionInv, SessionSound

LEMMA SessionStays == ASSUME SessionInv, UNCHANGED S!sessionVars PROVE SessionInv'
<1>1. SessionType'
  BY DEF SessionInv, SessionType, SessionSound, TabSound, CallSound, S!sessionVars
<1>2. \A r \in Tabs : TabSound(r)'
  BY DEF SessionInv, SessionType, SessionSound, TabSound, CallSound, S!sessionVars
<1>3. \A d \in calls' : CallSound(d)' /\ CallCurrent(d)'
  BY DEF SessionInv, SessionType, SessionSound, TabSound, CallSound, CallCurrent, S!sessionVars
<1>4. S!ActsAsShown'
  BY DEF SessionInv, SessionType, SessionSound, TabSound, CallSound, CallCurrent, S!ActsAsShown,
     S!sessionVars
<1>5. DataFollows'
  BY DEF SessionInv, SessionType, SessionSound, TabSound, CallSound, CallCurrent, S!ActsAsShown,
     DataFollows, S!Waiting, S!sessionVars
<1> QED
  BY <1>1, <1>2, <1>3, <1>4, <1>5 DEF SessionInv, SessionSound

LEMMA SessionStep == SessionInv /\ S!Next => SessionInv'
  BY SessionLoad, SessionOAuthReturn, SessionMeAnswered, SessionSubmitLogin, SessionSubmitCode,
     SessionBack, SessionLogInAnswered, SessionRefused, SessionInitAnswered, SessionLogout,
     SessionSaveProfile, SessionProfileAnswered, SessionRevoke, SessionNoAnswer
  DEF S!Next, S!Answers

LEMMA SessionStart == S!Init => SessionInv
  BY DEF S!Init, SessionInv, SessionType, SessionSound, TabSound, S!ActsAsShown, DataFollows

\* A tab acts as the user it shows, and shows that user's data, however many tabs
\* share the one token and whatever comes late (frontend/app.jsx, api.js).
THEOREM OwnSession == ClientSpec => []SessionOwn
<1>1. ClientInit => (part = "session" => SessionInv)
  BY SessionStart DEF ClientInit
<1>2. (part = "session" => SessionInv) /\ [ClientNext]_cells => (part = "session" => SessionInv)'
  <2> SUFFICES ASSUME part = "session" => SessionInv, [ClientNext]_cells, part' = "session"
               PROVE SessionInv'
    OBVIOUS
  <2>1. CASE S!Next /\ part = "session"
    BY <2>1, SessionStep
  <2>2. CASE UNCHANGED cells
    <3>1. UNCHANGED S!sessionVars
      BY <2>2 DEF cells, S!sessionVars, token, revoked, tab, calls, crossed, steps, outages
    <3> QED
      BY <2>2, <3>1, SessionStays DEF cells
  <2> QED
    BY <2>1, <2>2 DEF ClientNext, Kept6, Kept7, Kept9, Kept11, Kept13, Kept14, Kept15
<1>3. (part = "session" => SessionInv) => SessionOwn
  <2>1. SessionInv => S!TypeOK
    BY DEF SessionInv, SessionType, SessionSound, TabSound, S!TypeOK
  <2>2. SessionInv => S!ShowsOwnData
    BY DEF SessionInv, DataFollows, S!ShowsOwnData
  <2> QED
    BY <2>1, <2>2 DEF SessionInv, SessionOwn
<1> QED
  BY <1>1, <1>2, <1>3, PTL DEF ClientSpec

HIDE SessionAssumed DEF TokenVals, Pages, Somebody, Kinds, S!NoToken, S!Blank, S!New, S!Of, S!Step

-----------------------------------------------------------------------------
(* The shell (RouteShell).                                                  *)

ShellPlaces == [name : R!Views \cup Strange, id : R!Ids]
ShellLoads == [key : R!Views, rest : Seq(R!Scripts), active : BOOLEAN]
ShellType ==
  /\ admin \in BOOLEAN /\ refused \in BOOLEAN /\ events \in Nat
  /\ view \in ShellPlaces /\ hash \in ShellPlaces
  /\ route \in [key : R!Views, status : {"loading", "ready", "error"}]
  /\ loads \subseteq ShellLoads /\ fetching \subseteq R!Scripts /\ loaded \subseteq R!Scripts

\* The page the shell is at is the one chosen; the one load that is not over is
\* for it, and a page that loads has it.
ShellRoute ==
  /\ route.key = R!Key(view)
  /\ \A l, k \in loads : l.active /\ k.active => l = k
  /\ \A l \in loads : l.active => l.key = R!Key(view)
  /\ route.status = "loading" => \E l \in loads : l.active

\* What a load has left out is in the page already: what it still waits for and
\* what is there make the whole.
ShellCover ==
  /\ \A l \in loads : R!ToSet(Needs[l.key]) \subseteq loaded \cup R!ToSet(l.rest)
  /\ route.status = "ready" => R!ToSet(Needs[route.key]) \subseteq loaded

\* A script in the page is not fetched again.
ShellOnce == /\ fetching \cap loaded = {}
             /\ runs = [s \in R!Scripts |-> IF s \in loaded THEN 1 ELSE 0]

ShellAddress == events = 0 => hash = R!Address(view)

ShellInv == ShellType /\ ShellRoute /\ ShellCover /\ ShellOnce /\ ShellAddress /\ R!AdminsOnly

LEMMA ShellTail ==
  ASSUME NEW r \in Seq(R!Scripts), r # <<>>
  PROVE  Head(r) \in R!Scripts /\ R!ToSet(r) \subseteq {Head(r)} \cup R!ToSet(Tail(r))
<1>1. /\ Head(r) = r[1] /\ Len(r) \in Nat \ {0} /\ Tail(r) \in Seq(R!Scripts) /\ Len(Tail(r)) = Len(r) - 1
      /\ \A i \in 1..(Len(r) - 1) : Tail(r)[i] = r[i + 1]
  OBVIOUS
<1>2. ASSUME NEW i \in 1..Len(r) PROVE r[i] = Head(r) \/ \E j \in 1..Len(Tail(r)) : r[i] = Tail(r)[j]
  <2>1. CASE i = 1
    BY <1>1, <2>1
  <2>2. CASE i # 1
    <3>1. i - 1 \in 1..(Len(r) - 1) /\ (i - 1) + 1 = i
      BY <1>1, <2>2
    <3>2. Tail(r)[i - 1] = r[i]
      BY <1>1, <3>1
    <3> QED
      BY <1>1, <3>1, <3>2
  <2> QED
    BY <2>1, <2>2
<1>3. DOMAIN r = 1..Len(r) /\ DOMAIN Tail(r) = 1..Len(Tail(r)) /\ Head(r) \in R!Scripts
  BY <1>1
<1> QED
  BY <1>2, <1>3 DEF R!ToSet

\* Views have pages, with keys and addresses of their own.
LEMMA ShellPlaced ==
  ASSUME NEW v \in ShellPlaces
  PROVE  /\ R!Key(v) \in R!Views /\ R!Address(v) \in ShellPlaces
         /\ R!At("overview") \in ShellPlaces /\ v.name \in R!Views \cup Strange
<1>1. "overview" \in R!Views /\ "none" \in R!Ids
  BY ShellAssumed DEF R!Views, R!Ids
<1> QED
  BY <1>1 DEF ShellPlaces, R!Key, R!Address, R!At

LEMMA ShellNeeds ==
  ASSUME NEW v \in R!Views
  PROVE  /\ R!Load(v) \in ShellLoads /\ R!Load(v).key = v /\ R!Load(v).active /\ R!Load(v).rest = Needs[v]
  BY ShellAssumed DEF R!Load, R!Views, ShellLoads

\* The effect for a new key ends the loads there are, and asks for its own.
LEMMA ShellStarts ==
  ASSUME ShellType, ShellCover, NEW v \in R!Views, R!Starts(v), R!Key(view)' = v, UNCHANGED loaded
  PROVE  /\ route' \in [key : R!Views, status : {"loading", "ready", "error"}]
         /\ loads' \subseteq ShellLoads /\ ShellRoute' /\ ShellCover'
<1> DEFINE a == R!Load(v)
<1>1. /\ a \in ShellLoads /\ a.key = v /\ a.active /\ a.rest = Needs[v]
      /\ route' = [key |-> v, status |-> "loading"] /\ loads' = R!Stopped \cup {a}
  BY ShellNeeds DEF R!Starts
<1> HIDE DEF a
<1>2. \A l \in loads : [l EXCEPT !.active = FALSE] \in ShellLoads
  BY DEF ShellType, ShellLoads
<1>3. \A k \in R!Stopped : k \in ShellLoads /\ ~k.active /\ \E l \in loads : k.key = l.key /\ k.rest = l.rest
  <2> SUFFICES ASSUME NEW l \in loads
               PROVE  LET k == [l EXCEPT !.active = FALSE]
                      IN  k \in ShellLoads /\ ~k.active /\ k.key = l.key /\ k.rest = l.rest
    BY DEF R!Stopped
  <2> QED
    BY <1>2 DEF ShellType, ShellLoads
<1>4. \A k \in loads' : k.active => k = a
  BY <1>1, <1>3
<1>5. ShellRoute'
  BY <1>1, <1>4 DEF ShellRoute
<1>6. ShellCover'
  BY <1>1, <1>3 DEF ShellCover
<1> QED
  BY <1>1, <1>3, <1>5, <1>6

\* A view is shown: the page with its key stays, or a load for it starts.
LEMMA ShellMoved ==
  ASSUME ShellInv, NEW v \in ShellPlaces, view' = v, UNCHANGED <<fetching, loaded, runs>>,
         IF R!Key(v) = R!Key(view) THEN UNCHANGED <<route, loads>> ELSE R!Starts(R!Key(v))
  PROVE  /\ route' \in [key : R!Views, status : {"loading", "ready", "error"}]
         /\ loads' \subseteq ShellLoads /\ ShellRoute' /\ ShellCover' /\ ShellOnce'
<1>1. R!Key(view)' = R!Key(v)
  BY DEF R!Key
<1>2. ShellOnce'
  BY DEF ShellInv, ShellOnce
<1>3. CASE R!Key(v) = R!Key(view)
  BY <1>1, <1>2, <1>3 DEF ShellInv, ShellType, ShellRoute, ShellCover
<1>4. CASE R!Key(v) # R!Key(view)
  BY <1>1, <1>2, <1>4, ShellStarts, ShellPlaced DEF ShellInv
<1> QED
  BY <1>3, <1>4

LEMMA ShellShow ==
  ASSUME ShellInv, NEW v \in ShellPlaces, R!Show(v), UNCHANGED <<admin, fetching, loaded, runs, refused>>,
         v.name = "admin" => admin
  PROVE  ShellInv'
<1>1. /\ view' = v /\ hash' = R!Address(v) /\ events' = IF R!Address(v) = hash THEN events ELSE events + 1
      /\ IF R!Key(v) = R!Key(view) THEN UNCHANGED <<route, loads>> ELSE R!Starts(R!Key(v))
  BY DEF R!Show
<1>2. /\ route' \in [key : R!Views, status : {"loading", "ready", "error"}]
      /\ loads' \subseteq ShellLoads /\ ShellRoute' /\ ShellCover' /\ ShellOnce'
  BY <1>1, ShellMoved
<1>3. ShellType'
  BY <1>1, <1>2, ShellPlaced DEF ShellInv, ShellType
<1>4. ShellAddress'
  BY <1>1 DEF ShellAddress, R!Address, R!At
<1>5. R!AdminsOnly'
  BY <1>1 DEF R!AdminsOnly
<1> QED
  BY <1>2, <1>3, <1>4, <1>5 DEF ShellInv

USE ShellAssumed

LEMMA ShellStays == ASSUME ShellInv, UNCHANGED R!shellVars PROVE ShellInv'
<1>1. ShellType'
  BY DEF ShellInv, ShellType, R!shellVars
<1>2. ShellRoute'
  BY DEF ShellInv, ShellType, ShellRoute, R!Key, R!shellVars
<1>3. ShellCover'
  BY DEF ShellInv, ShellType, ShellCover, R!shellVars
<1>4. ShellOnce'
  BY DEF ShellInv, ShellType, ShellOnce, R!shellVars
<1>5. ShellAddress'
  BY DEF ShellInv, ShellType, ShellAddress, R!Address, R!At, R!shellVars
<1>6. R!AdminsOnly'
  BY DEF ShellInv, ShellType, R!AdminsOnly, R!shellVars
<1> QED
  BY <1>1, <1>2, <1>3, <1>4, <1>5, <1>6 DEF ShellInv

LEMMA ShellNav == ASSUME ShellInv, NEW v \in R!Views, R!Nav(v) PROVE ShellInv'
<1>1. CASE v = "admin" /\ ~admin
  BY <1>1, ShellStays DEF R!Nav, R!shellVars, ShellInv, ShellType, ShellRoute, ShellCover,
     ShellOnce, ShellAddress, R!AdminsOnly, R!Key, R!Address, R!At
<1>2. CASE ~(v = "admin" /\ ~admin)
  <2>1. R!At(v) \in ShellPlaces /\ (R!At(v).name = "admin" => admin)
    BY <1>2 DEF R!At, ShellPlaces, R!Ids
  <2> QED
    BY <1>2, <2>1, ShellShow DEF R!Nav
<1> QED
  BY <1>1, <1>2

LEMMA ShellOpen == ASSUME ShellInv, NEW v \in R!Detail, R!Open(v) PROVE ShellInv'
<1>1. [name |-> v, id |-> "id"] \in ShellPlaces /\ v # "admin"
  BY DEF R!Detail, ShellPlaces, R!Ids
<1> QED
  BY <1>1, ShellShow DEF R!Open

LEMMA ShellBrowse ==
  ASSUME ShellInv, NEW a \in ShellPlaces, R!Browse(R!Address(a))
  PROVE  ShellInv'
<1>1. ShellType'
  <2>1. R!Address(a) \in ShellPlaces
    BY ShellPlaced
  <2> QED
    BY <2>1 DEF ShellInv, ShellType, R!Browse
<1>2. ShellRoute'
  BY DEF ShellInv, ShellType, ShellRoute, R!Key, R!Browse
<1>3. ShellCover'
  BY DEF ShellInv, ShellType, ShellCover, R!Browse
<1>4. ShellOnce'
  BY DEF ShellInv, ShellType, ShellOnce, R!Browse
<1>5. ShellAddress'
  BY DEF ShellInv, ShellType, ShellAddress, R!Address, R!At, R!Browse
<1>6. R!AdminsOnly'
  BY DEF ShellInv, ShellType, R!AdminsOnly, R!Browse
<1> QED
  BY <1>1, <1>2, <1>3, <1>4, <1>5, <1>6 DEF ShellInv

LEMMA ShellHashChanged == ASSUME ShellInv, R!HashChanged PROVE ShellInv'
<1> DEFINE v == IF hash.name = "admin" /\ ~admin THEN R!At("overview") ELSE hash
<1>1. v \in ShellPlaces /\ R!Address(v) \in ShellPlaces /\ (v.name = "admin" => admin)
  BY ShellPlaced DEF ShellInv, ShellType, R!At
<1>2. /\ view' = v /\ hash' = R!Address(v) /\ events > 0
      /\ events' = IF R!Address(v) = hash THEN events - 1 ELSE events
      /\ IF R!Key(v) = R!Key(view) THEN UNCHANGED <<route, loads>> ELSE R!Starts(R!Key(v))
      /\ UNCHANGED <<admin, fetching, loaded, runs, refused>>
  BY DEF R!HashChanged
<1> HIDE DEF v
<1>3. /\ route' \in [key : R!Views, status : {"loading", "ready", "error"}]
      /\ loads' \subseteq ShellLoads /\ ShellRoute' /\ ShellCover' /\ ShellOnce'
  BY <1>1, <1>2, ShellMoved
<1>4. events' \in Nat
  BY <1>2 DEF ShellInv, ShellType
<1>5. ShellType'
  BY <1>1, <1>2, <1>3, <1>4 DEF ShellInv, ShellType
<1>6. ShellAddress'
  BY <1>2 DEF ShellAddress, R!Address, R!At
<1>7. R!AdminsOnly'
  BY <1>1, <1>2 DEF R!AdminsOnly
<1> QED
  BY <1>3, <1>5, <1>6, <1>7 DEF ShellInv

LEMMA ShellRetry == ASSUME ShellInv, R!Retry PROVE ShellInv'
<1>1. /\ R!Starts(R!Key(view)) /\ R!Key(view) \in R!Views /\ R!Key(view)' = R!Key(view)
      /\ UNCHANGED <<admin, view, hash, events, fetching, loaded, runs, refused>>
  BY ShellPlaced DEF R!Retry, R!Key, ShellInv, ShellType
<1>2. /\ route' \in [key : R!Views, status : {"loading", "ready", "error"}]
      /\ loads' \subseteq ShellLoads /\ ShellRoute' /\ ShellCover'
  BY <1>1, ShellStarts DEF ShellInv
<1>3. ShellType'
  BY <1>1, <1>2 DEF ShellInv, ShellType
<1>4. ShellOnce' /\ ShellAddress' /\ R!AdminsOnly'
  BY <1>1 DEF ShellInv, ShellOnce, ShellAddress, R!AdminsOnly, R!Address, R!At
<1> QED
  BY <1>2, <1>3, <1>4 DEF ShellInv

LEMMA ShellRoleChanged == ASSUME ShellInv, R!RoleChanged PROVE ShellInv'
<1>1. ShellType'
  BY DEF ShellInv, ShellType, R!RoleChanged
<1>2. ShellRoute'
  BY DEF ShellInv, ShellType, ShellRoute, R!Key, R!RoleChanged
<1>3. ShellCover'
  BY DEF ShellInv, ShellType, ShellCover, R!RoleChanged
<1>4. ShellOnce'
  BY DEF ShellInv, ShellType, ShellOnce, R!RoleChanged
<1>5. ShellAddress'
  BY DEF ShellInv, ShellType, ShellAddress, R!Address, R!At, R!RoleChanged
<1>6. R!AdminsOnly'
  BY DEF ShellInv, ShellType, R!AdminsOnly, R!RoleChanged
<1> QED
  BY <1>1, <1>2, <1>3, <1>4, <1>5, <1>6 DEF ShellInv

LEMMA ShellInsert == ASSUME ShellInv, NEW l \in loads, R!Insert(l) PROVE ShellInv'
<1>1. ShellType'
  <2>1. Head(l.rest) \in R!Scripts
    BY ShellTail DEF ShellInv, ShellType, ShellLoads, R!Insert
  <2> QED
    BY <2>1 DEF ShellInv, ShellType, R!Insert
<1>2. ShellRoute'
  BY DEF ShellInv, ShellType, ShellRoute, R!Key, R!Insert
<1>3. ShellCover'
  BY DEF ShellInv, ShellType, ShellCover, R!Insert
<1>4. ShellOnce'
  BY DEF ShellInv, ShellType, ShellOnce, R!Insert
<1>5. ShellAddress'
  BY DEF ShellInv, ShellType, ShellAddress, R!Address, R!At, R!Insert
<1>6. R!AdminsOnly'
  BY DEF ShellInv, ShellType, R!AdminsOnly, R!Insert
<1> QED
  BY <1>1, <1>2, <1>3, <1>4, <1>5, <1>6 DEF ShellInv

LEMMA ShellPass == ASSUME ShellInv, NEW l \in loads, R!Pass(l) PROVE ShellInv'
<1> DEFINE t == [l EXCEPT !.rest = Tail(l.rest)]
<1>1. /\ l.rest # <<>> /\ Head(l.rest) \in loaded /\ loads' = (loads \ {l}) \cup {t}
      /\ UNCHANGED <<admin, view, hash, events, route, fetching, loaded, runs, refused>>
  BY DEF R!Pass
<1>2. /\ t \in ShellLoads /\ t.key = l.key /\ t.active = l.active /\ t.rest = Tail(l.rest)
      /\ l.rest \in Seq(R!Scripts)
  <2>1. l \in ShellLoads /\ l.rest \in Seq(R!Scripts)
    BY DEF ShellInv, ShellType, ShellLoads
  <2>2. Tail(l.rest) \in Seq(R!Scripts)
    BY <1>1, <2>1
  <2> QED
    BY <2>1, <2>2 DEF ShellLoads
<1> HIDE DEF t
<1>3. R!ToSet(l.rest) \subseteq {Head(l.rest)} \cup R!ToSet(Tail(l.rest))
  BY <1>1, <1>2, ShellTail
<1>4. ShellType'
  BY <1>1, <1>2 DEF ShellInv, ShellType
<1>5. ShellRoute'
  BY <1>1, <1>2 DEF ShellInv, ShellRoute, R!Key
<1>6. ShellCover'
  <2>1. R!ToSet(Needs[t.key]) \subseteq loaded \cup R!ToSet(t.rest)
    BY <1>1, <1>2, <1>3 DEF ShellInv, ShellCover
  <2> QED
    BY <1>1, <2>1 DEF ShellInv, ShellCover
<1>7. ShellOnce' /\ ShellAddress' /\ R!AdminsOnly'
  BY <1>1 DEF ShellInv, ShellOnce, ShellAddress, R!AdminsOnly, R!Address, R!At
<1> QED
  BY <1>4, <1>5, <1>6, <1>7 DEF ShellInv

LEMMA ShellReady == ASSUME ShellInv, NEW l \in loads, R!Ready(l) PROVE ShellInv'
<1>1. ShellType'
  <2>1. l.key \in R!Views
    BY DEF ShellInv, ShellType, ShellLoads
  <2> QED
    BY <2>1 DEF ShellInv, ShellType, R!Ready
<1>2. ShellRoute'
  BY DEF ShellInv, ShellType, ShellRoute, R!Key, R!Ready
<1>3. ShellCover'
  <2>1. R!ToSet(l.rest) = {}
    BY DEF R!Ready, R!ToSet
  <2>2. R!ToSet(Needs[l.key]) \subseteq loaded
    BY <2>1 DEF ShellInv, ShellCover
  <2> QED
    BY <2>2 DEF ShellInv, ShellCover, R!Ready
<1>4. ShellOnce'
  BY DEF ShellInv, ShellType, ShellOnce, R!Ready
<1>5. ShellAddress'
  BY DEF ShellInv, ShellType, ShellAddress, R!Address, R!At, R!Ready
<1>6. R!AdminsOnly'
  BY DEF ShellInv, ShellType, R!AdminsOnly, R!Ready
<1> QED
  BY <1>1, <1>2, <1>3, <1>4, <1>5, <1>6 DEF ShellInv

LEMMA ShellScriptRan == ASSUME ShellInv, NEW s \in R!Scripts, R!ScriptRan(s) PROVE ShellInv'
<1>1. ShellType'
  BY DEF ShellInv, ShellType, R!ScriptRan
<1>2. ShellRoute'
  BY DEF ShellInv, ShellType, ShellRoute, R!Key, R!ScriptRan
<1>3. ShellCover'
  BY DEF ShellInv, ShellType, ShellCover, R!ScriptRan
<1>4. ShellOnce'
  BY DEF ShellInv, ShellType, ShellOnce, R!ScriptRan
<1>5. ShellAddress'
  BY DEF ShellInv, ShellType, ShellAddress, R!Address, R!At, R!ScriptRan
<1>6. R!AdminsOnly'
  BY DEF ShellInv, ShellType, R!AdminsOnly, R!ScriptRan
<1> QED
  BY <1>1, <1>2, <1>3, <1>4, <1>5, <1>6 DEF ShellInv

LEMMA ShellScriptFailed == ASSUME ShellInv, NEW s \in R!Scripts, R!ScriptFailed(s) PROVE ShellInv'
<1>1. ShellType'
  <2>1. R!Key(view) \in R!Views
    BY ShellPlaced DEF ShellInv, ShellType
  <2> QED
    BY <2>1 DEF ShellInv, ShellType, R!ScriptFailed
<1>2. ShellRoute'
  <2>1. R!Key(view)' = R!Key(view) /\ loads' = loads \ R!Waiting(s)
    BY DEF R!ScriptFailed, R!Key
  <2>2. CASE \E l \in R!Waiting(s) : l.active
    BY <2>1, <2>2 DEF ShellInv, ShellRoute, R!ScriptFailed
  <2>3. CASE \A l \in R!Waiting(s) : ~l.active
    BY <2>1, <2>3 DEF ShellInv, ShellRoute, R!ScriptFailed
  <2> QED
    BY <2>2, <2>3
<1>3. ShellCover'
  BY DEF ShellInv, ShellType, ShellCover, R!ScriptFailed
<1>4. ShellOnce'
  BY DEF ShellInv, ShellType, ShellOnce, R!ScriptFailed
<1>5. ShellAddress'
  BY DEF ShellInv, ShellType, ShellAddress, R!Address, R!At, R!ScriptFailed
<1>6. R!AdminsOnly'
  BY DEF ShellInv, ShellType, R!AdminsOnly, R!ScriptFailed
<1> QED
  BY <1>1, <1>2, <1>3, <1>4, <1>5, <1>6 DEF ShellInv

LEMMA ShellStep == ShellInv /\ R!Next => ShellInv'
  BY ShellNav, ShellOpen, ShellBrowse, ShellHashChanged, ShellRetry, ShellRoleChanged,
     ShellInsert, ShellPass, ShellReady,
     ShellScriptRan, ShellScriptFailed
  DEF R!Next, R!Loader, ShellPlaces

LEMMA ShellStart == R!Init => ShellInv
<1> SUFFICES ASSUME R!Init PROVE ShellInv
  OBVIOUS
<1>1. view \in ShellPlaces /\ (view.name = "admin" => admin)
  <2>1. view \in {R!At(v) : v \in R!Views \cup Strange} \cup [name : R!Detail, id : {"id"}]
    BY DEF R!Init
  <2> QED
    BY <2>1 DEF R!Init, ShellPlaces, R!At, R!Detail, R!Ids
<1> DEFINE a == R!Load(R!Key(view))
<1>2. /\ hash = R!Address(view) /\ events \in 0..1 /\ route = [key |-> R!Key(view), status |-> "loading"]
      /\ loads = {a} /\ fetching = {} /\ loaded = {} /\ runs = [s \in R!Scripts |-> 0]
      /\ admin \in BOOLEAN /\ refused = FALSE
  BY DEF R!Init
<1>3. a \in ShellLoads /\ a.key = R!Key(view) /\ a.active /\ a.rest = Needs[a.key] /\ R!Key(view) \in R!Views
  BY <1>1, ShellPlaced, ShellNeeds
<1> HIDE DEF a
<1>4. ShellType
  <2>1. hash \in ShellPlaces
    BY <1>1, <1>2, ShellPlaced
  <2>3. events \in Nat
    BY <1>2
  <2>4. refused \in BOOLEAN
    BY <1>2
  <2>5. loads \subseteq ShellLoads
    BY <1>2, <1>3
  <2>2. route \in [key : R!Views, status : {"loading", "ready", "error"}]
    BY <1>2, <1>3
  <2> QED
    BY <1>1, <1>2, <2>1, <2>2, <2>3, <2>4, <2>5 DEF ShellType
<1>5. ShellRoute /\ ShellCover
  BY <1>2, <1>3 DEF ShellRoute, ShellCover
<1>6. ShellOnce /\ ShellAddress /\ R!AdminsOnly
  BY <1>1, <1>2 DEF ShellOnce, ShellAddress, R!AdminsOnly
<1> QED
  BY <1>4, <1>5, <1>6 DEF ShellInv

\* A page is drawn once its scripts have run, what is shown is what was chosen
\* last, with its address, and no address leads to the administration without the
\* role, for any routes and any order of clicks and scripts (frontend/app.jsx,
\* route-loader.js).
THEOREM ShellIsRight == ClientSpec => []ShellShows
<1>1. ClientInit => (part = "shell" => ShellInv)
  BY ShellStart DEF ClientInit
<1>2. (part = "shell" => ShellInv) /\ [ClientNext]_cells => (part = "shell" => ShellInv)'
  <2> SUFFICES ASSUME part = "shell" => ShellInv, [ClientNext]_cells, part' = "shell"
               PROVE ShellInv'
    OBVIOUS
  <2>1. CASE R!Next /\ part = "shell"
    BY <2>1, ShellStep
  <2>2. CASE UNCHANGED cells
    <3>1. UNCHANGED R!shellVars
      BY <2>2 DEF cells, R!shellVars, admin, view, hash, events, route, loads, fetching, loaded,
         runs, refused, moves, errors, roles
    <3> QED
      BY <2>2, <3>1, ShellStays DEF cells
  <2> QED
    BY <2>1, <2>2 DEF ClientNext, Kept6, Kept7, Kept9, Kept11, Kept13, Kept14, Kept15
<1>3. (part = "shell" => ShellInv) => ShellShows
<2>1. ShellInv => R!TypeOK
  <3> SUFFICES ASSUME ShellInv PROVE R!Cardinality({l \in loads : l.active}) <= 1
    BY DEF ShellInv, ShellType, ShellPlaces, ShellLoads, R!TypeOK
  <3> DEFINE now == {l \in loads : l.active}
  <3>1. now = {} \/ \E a \in now : now = {a}
    BY DEF ShellInv, ShellRoute
  <3>2. Cardinality(now) \in {0, 1}
    BY <3>1, FS_EmptySet, FS_Singleton
  <3>3. R!Cardinality(now) = Cardinality(now)
    BY Zenon DEF R!Cardinality, Cardinality
  <3> QED
    BY <3>2, <3>3
<2>2. ShellInv => R!DrawnWhenLoaded
  <3> SUFFICES ASSUME ShellInv PROVE R!DrawnWhenLoaded
    OBVIOUS
  <3>1. R!Presented => R!ToSet(Needs[R!Key(view)]) \subseteq loaded
    BY DEF ShellInv, ShellCover, R!Presented
  <3>2. \A s \in R!Scripts : runs[s] <= 1
    BY DEF ShellInv, ShellOnce
  <3> QED
    BY <3>1, <3>2 DEF R!DrawnWhenLoaded
<2>3. ShellInv => R!RestsWhereItShould
  <3> SUFFICES ASSUME ShellInv PROVE R!RestsWhereItShould
    OBVIOUS
  <3>1. {l \in loads : l.active} = {} => route.key = R!Key(view) /\ route.status # "loading"
    BY DEF ShellInv, ShellRoute
  <3> QED
    BY <3>1 DEF ShellInv, ShellAddress, R!RestsWhereItShould
<2> QED
  BY <2>1, <2>2, <2>3 DEF ShellInv, ShellShows
<1> QED
  BY <1>1, <1>2, <1>3, PTL DEF ClientSpec

HIDE ShellAssumed

-----------------------------------------------------------------------------
(* The bell (Bell).                                                         *)

Entries == [id : Nat, read : BOOLEAN]
Socks == [st : {"off", "asking", "open"}, q : Seq(Entries)]
BellLoads == [n : Nat, got : Seq(Entries), st : {"asked", "ok"}]
BellType ==
  /\ notes \in Seq(BOOLEAN) /\ bell \in Seq(Entries) /\ Len(bell) <= Cap
  /\ loads \subseteq BellLoads /\ sock \in Socks /\ posts \subseteq [n : Nat, ids : SUBSET Nat]
  /\ crossed \in BOOLEAN /\ losses \in Nat /\ reloads \in Nat /\ readings \in Nat

\* All that is shown, loaded or sent is of notifications there are.
AllKnown(ls, ns) == \A k \in 1..Len(ls) : ls[k].id \in 1..Len(ns)
BellKnown ==
  /\ AllKnown(bell, notes) /\ AllKnown(sock.q, notes) /\ (sock.st # "open" => sock.q = <<>>)
  /\ \A l \in loads : Len(l.got) <= Cap /\ AllKnown(l.got, notes)

\* While nothing crossed, one load is under way, and nothing else ...
Straight == losses = 0 /\ ~crossed
LoadAlone ==
  Straight => \A l \in loads : loads = {l} /\ posts = {} /\ sock.q = <<>> /\ (l.st = "ok" => l.got = B!Latest)

\* ... or messages that hold what the bell does not have yet, or requests that
\* hold the marks the server does not have yet.
Marked(ps, i) == \E p \in ps : p.ids = {} \/ i \in p.ids
SentOn(ns, q) == \A j \in 1..Len(q) : q[j] = [id |-> Len(ns) - Len(q) + j, read |-> FALSE] /\ ~ns[Len(ns) - Len(q) + j]
ShownOf(ns, b, d, ps) ==
  /\ Len(b) = IF d < Cap THEN d ELSE Cap
  /\ \A k \in 1..Len(b) : b[k] = [id |-> d + 1 - k, read |-> ns[d + 1 - k] \/ Marked(ps, d + 1 - k)]
BellFollows ==
  (Straight /\ loads = {}) => /\ posts = {} \/ sock.q = <<>>
                              /\ Len(notes) - Len(sock.q) \in Nat /\ SentOn(notes, sock.q)
                              /\ ShownOf(notes, bell, Len(notes) - Len(sock.q), posts)

BellInv == BellType /\ BellKnown /\ LoadAlone /\ BellFollows

-----------------------------------------------------------------------------
(* Lists: what a message and a mark make of them.                            *)

LEMMA BellAppended ==
  ASSUME NEW E, NEW s \in Seq(E), NEW e \in E
  PROVE  /\ Append(s, e) \in Seq(E) /\ Len(Append(s, e)) = Len(s) + 1 /\ Append(s, e)[Len(s) + 1] = e
         /\ Len(s) \in Nat /\ \A i \in 1..Len(s) : Append(s, e)[i] = s[i]
  OBVIOUS

LEMMA BellTail ==
  ASSUME NEW E, NEW s \in Seq(E), s # <<>>
  PROVE  /\ Tail(s) \in Seq(E) /\ Head(s) \in E /\ Head(s) = s[1] /\ Len(s) \in Nat \ {0}
         /\ Len(Tail(s)) = Len(s) - 1 /\ \A i \in 1..(Len(s) - 1) : Tail(s)[i] = s[i + 1]
  OBVIOUS

LEMMA BellInFront ==
  ASSUME NEW E, NEW s \in Seq(E), NEW h \in E, NEW m \in 0..(Len(s) + 1)
  PROVE  /\ SubSeq(<<h>> \o s, 1, m) \in Seq(E) /\ Len(SubSeq(<<h>> \o s, 1, m)) = m
         /\ \A k \in 1..m : SubSeq(<<h>> \o s, 1, m)[k] = IF k = 1 THEN h ELSE s[k - 1]
<1>1. <<h>> \o s \in Seq(E) /\ Len(<<h>> \o s) = Len(s) + 1
  OBVIOUS
<1>2. \A k \in 1..(Len(s) + 1) : (<<h>> \o s)[k] = IF k = 1 THEN h ELSE s[k - 1]
  OBVIOUS
<1> QED
  BY <1>1, <1>2

LEMMA BellMapped ==
  ASSUME NEW E, NEW s \in Seq(E), NEW F, NEW t, DOMAIN t = DOMAIN s, t = [k \in DOMAIN s |-> t[k]], \A k \in 1..Len(s) : t[k] \in F
  PROVE  t \in Seq(F) /\ Len(t) = Len(s)
<1>1. DOMAIN s = 1..Len(s) /\ Len(s) \in Nat
  OBVIOUS
<1>2. t = [k \in 1..Len(s) |-> t[k]]
  BY <1>1
<1>3. t \in [1..Len(s) -> F]
  BY <1>2
<1> QED
  BY <1>1, <1>3

LEMMA BellSock ==
  ASSUME NEW s \in Socks, NEW x \in Seq(Entries)
  PROVE  /\ [s EXCEPT !.q = x] \in Socks /\ [s EXCEPT !.q = x].q = x /\ [s EXCEPT !.q = x].st = s.st
         /\ s.q \in Seq(Entries) /\ s.st \in {"off", "asking", "open"}
  BY DEF Socks

LEMMA BellEmpty == <<>> \in Seq(Entries) /\ Len(<<>>) = 0 /\ B!Asking \in Socks /\ B!NoSock \in Socks
<1>1. <<>> \in Seq(Entries) /\ Len(<<>>) = 0
  OBVIOUS
<1> QED
  BY <1>1 DEF B!Asking, B!NoSock, Socks

LEMMA BellLatest ==
  ASSUME notes \in Seq(BOOLEAN)
  PROVE  /\ B!Latest \in Seq(Entries) /\ Len(B!Latest) <= Cap /\ AllKnown(B!Latest, notes)
         /\ ShownOf(notes, B!Latest, Len(notes), {})
<1> DEFINE m == IF Len(notes) < Cap THEN Len(notes) ELSE Cap
<1>1. m \in Nat /\ Len(notes) \in Nat /\ m <= Len(notes) /\ m <= Cap
  BY BellAssumed
<1>2. B!Latest = [k \in 1..m |-> [id |-> Len(notes) + 1 - k, read |-> notes[Len(notes) + 1 - k]]]
  BY DEF B!Latest, B!Entry
<1> HIDE DEF m
<1>3. \A k \in 1..m : Len(notes) + 1 - k \in 1..Len(notes)
  BY <1>1
<1>4. \A k \in 1..m : [id |-> Len(notes) + 1 - k, read |-> notes[Len(notes) + 1 - k]] \in Entries
  BY <1>1, <1>3 DEF Entries
<1>5. B!Latest \in [1..m -> Entries]
  BY <1>2, <1>4
<1>6. B!Latest \in Seq(Entries) /\ Len(B!Latest) = m
  BY <1>1, <1>5
<1>7. \A k \in 1..m : B!Latest[k] = [id |-> Len(notes) + 1 - k, read |-> notes[Len(notes) + 1 - k]]
  BY <1>2
<1>8. AllKnown(B!Latest, notes)
  BY <1>3, <1>6, <1>7 DEF AllKnown
<1>9. ShownOf(notes, B!Latest, Len(notes), {})
  <2>1. ASSUME NEW k \in 1..m
        PROVE  B!Latest[k] = [id |-> Len(notes) + 1 - k, read |-> notes[Len(notes) + 1 - k] \/ Marked({}, Len(notes) + 1 - k)]
    <3>1. notes[Len(notes) + 1 - k] \in BOOLEAN /\ ~Marked({}, Len(notes) + 1 - k)
      BY <1>3 DEF Marked
    <3> QED
      BY <1>7, <3>1
  <2> QED
    BY <1>6, <2>1 DEF ShownOf, m
<1> QED
  BY <1>1, <1>6, <1>8, <1>9

LEMMA BellSameLatest == UNCHANGED notes => B!Latest' = B!Latest
  BY DEF B!Latest, B!Entry

LEMMA BellStillKnown ==
  ASSUME NEW ls, NEW ns, NEW ms, Len(ns) \in Nat, Len(ms) \in Nat, Len(ns) <= Len(ms), AllKnown(ls, ns)
  PROVE  AllKnown(ls, ms)
  BY DEF AllKnown

-----------------------------------------------------------------------------
(* What is shown follows what is stored: a notification is made, its message *)
(* arrives; a notification is marked, and the mark is stored.                *)

LEMMA ShownNotified ==
  ASSUME NEW ns \in Seq(BOOLEAN), NEW q \in Seq(Entries), NEW b, NEW ps, Len(b) \in Nat,
         Len(ns) - Len(q) \in Nat, SentOn(ns, q), ShownOf(ns, b, Len(ns) - Len(q), ps)
  PROVE  LET ms == Append(ns, FALSE)
             r  == Append(q, [id |-> Len(ns) + 1, read |-> FALSE])
         IN  Len(ms) - Len(r) = Len(ns) - Len(q) /\ SentOn(ms, r) /\ ShownOf(ms, b, Len(ns) - Len(q), ps)
<1> DEFINE e  == [id |-> Len(ns) + 1, read |-> FALSE]
           ms == Append(ns, FALSE)
           r  == Append(q, e)
           d  == Len(ns) - Len(q)
<1>1. e \in Entries /\ FALSE \in BOOLEAN
  BY DEF Entries
<1> HIDE DEF e
<1>2. Len(r) = Len(q) + 1 /\ r[Len(q) + 1] = e /\ Len(q) \in Nat /\ \A i \in 1..Len(q) : r[i] = q[i]
  BY <1>1, BellAppended
<1>3. Len(ms) = Len(ns) + 1 /\ ms[Len(ns) + 1] = FALSE /\ Len(ns) \in Nat /\ \A i \in 1..Len(ns) : ms[i] = ns[i]
  BY <1>1, BellAppended
<1> HIDE DEF ms, r
<1>4. Len(ms) - Len(r) = d
  BY <1>2, <1>3
<1>5. ASSUME NEW j \in 1..Len(r) PROVE r[j] = [id |-> d + j, read |-> FALSE] /\ ~ms[d + j]
  <2>1. CASE j \in 1..Len(q)
    <3>1. d + j \in 1..Len(ns)
      BY <1>2, <1>3, <2>1
    <3>2. q[j] = [id |-> d + j, read |-> FALSE] /\ ~ns[d + j]
      BY <2>1 DEF SentOn
    <3> QED
      BY <1>2, <1>3, <2>1, <3>1, <3>2
  <2>2. CASE j = Len(q) + 1
    <3>1. d + j = Len(ns) + 1
      BY <1>2, <1>3, <2>2
    <3> QED
      BY <1>2, <1>3, <2>2, <3>1 DEF e
  <2> QED
    BY <1>2, <2>1, <2>2
<1>6. SentOn(ms, r)
  BY <1>4, <1>5 DEF SentOn
<1>7. ASSUME NEW k \in 1..Len(b) PROVE ms[d + 1 - k] = ns[d + 1 - k]
  <2>1. Len(b) <= d
    BY BellAssumed DEF ShownOf
  <2>2. d + 1 - k \in 1..Len(ns)
    BY <1>2, <1>3, <2>1
  <2> QED
    BY <1>3, <2>2
<1>8. ShownOf(ms, b, d, ps)
  BY <1>7 DEF ShownOf
<1> QED
  BY <1>4, <1>6, <1>8 DEF ms, r, e

LEMMA ShownArrived ==
  ASSUME NEW ns \in Seq(BOOLEAN), NEW q \in Seq(Entries), NEW b \in Seq(Entries), q # <<>>,
         Len(ns) - Len(q) \in Nat, SentOn(ns, q), ShownOf(ns, b, Len(ns) - Len(q), {})
  PROVE  /\ Len(ns) - Len(Tail(q)) = Len(ns) - Len(q) + 1 /\ SentOn(ns, Tail(q))
         /\ ShownOf(ns, SubSeq(<<Head(q)>> \o b, 1, IF Len(b) < Cap THEN Len(b) + 1 ELSE Cap), Len(ns) - Len(q) + 1, {})
<1> DEFINE d == Len(ns) - Len(q)
           m == IF Len(b) < Cap THEN Len(b) + 1 ELSE Cap
           c == SubSeq(<<Head(q)>> \o b, 1, m)
<1>1. /\ Tail(q) \in Seq(Entries) /\ Head(q) \in Entries /\ Head(q) = q[1] /\ Len(q) \in Nat \ {0} /\ Len(ns) \in Nat
      /\ Len(Tail(q)) = Len(q) - 1 /\ \A i \in 1..(Len(q) - 1) : Tail(q)[i] = q[i + 1]
  BY BellTail
<1>2. Len(ns) - Len(Tail(q)) = d + 1
  BY <1>1
<1>3. SentOn(ns, Tail(q))
  <2> SUFFICES ASSUME NEW j \in 1..(Len(q) - 1)
               PROVE  Tail(q)[j] = [id |-> (d + 1) + j, read |-> FALSE] /\ ~ns[(d + 1) + j]
    BY <1>1, <1>2 DEF SentOn
  <2>1. q[j + 1] = [id |-> d + (j + 1), read |-> FALSE] /\ ~ns[d + (j + 1)]
    <3>1. j + 1 \in 1..Len(q)
      BY <1>1
    <3> QED
      BY <3>1 DEF SentOn
  <2>2. d + (j + 1) = (d + 1) + j
    BY <1>1
  <2> QED
    BY <1>1, <2>1, <2>2
<1>4. Head(q) = [id |-> d + 1, read |-> FALSE] /\ ~ns[d + 1]
  BY <1>1 DEF SentOn
<1>5. Len(b) \in Nat /\ Len(b) = (IF d < Cap THEN d ELSE Cap) /\ m \in 0..(Len(b) + 1) /\ Cap \in Nat
  BY BellAssumed DEF ShownOf
<1>6. m = IF d + 1 < Cap THEN d + 1 ELSE Cap
  BY <1>5
<1>7. Len(c) = m /\ \A k \in 1..m : c[k] = IF k = 1 THEN Head(q) ELSE b[k - 1]
  BY <1>1, <1>5, BellInFront
<1>8. \A i : ~Marked({}, i)
  BY DEF Marked
<1> HIDE DEF c, m
<1>9. ASSUME NEW k \in 1..m
      PROVE  c[k] = [id |-> (d + 1) + 1 - k, read |-> ns[(d + 1) + 1 - k] \/ Marked({}, (d + 1) + 1 - k)]
  <2>1. CASE k = 1
    <3>1. (d + 1) + 1 - k = d + 1
      BY <1>1, <2>1
    <3>2. (ns[d + 1] \/ Marked({}, d + 1)) = FALSE
      BY <1>4, <1>8
    <3> QED
      BY <1>4, <1>7, <2>1, <3>1, <3>2
  <2>2. CASE k # 1
    <3>1. k - 1 \in 1..Len(b) /\ (d + 1) + 1 - k = d + 1 - (k - 1)
      BY <1>1, <1>5, <1>6, <2>2
    <3>2. b[k - 1] = [id |-> d + 1 - (k - 1), read |-> ns[d + 1 - (k - 1)] \/ Marked({}, d + 1 - (k - 1))]
      BY <3>1 DEF ShownOf
    <3> QED
      BY <1>7, <2>2, <3>1, <3>2
  <2> QED
    BY <2>1, <2>2
<1>10. ShownOf(ns, c, d + 1, {})
  BY <1>6, <1>7, <1>9 DEF ShownOf
<1> QED
  BY <1>2, <1>3, <1>10 DEF c, m

MarkedList(b, ids) == [k \in DOMAIN b |-> IF ids = {} \/ b[k].id \in ids THEN [b[k] EXCEPT !.read = TRUE] ELSE b[k]]
StoredList(ns, ids) == [i \in DOMAIN ns |-> ns[i] \/ ids = {} \/ i \in ids]

LEMMA BellMarkedList ==
  ASSUME NEW b \in Seq(Entries), NEW ids, NEW c, c = MarkedList(b, ids)
  PROVE  /\ c \in Seq(Entries) /\ Len(c) = Len(b) /\ \A k \in 1..Len(b) : c[k] \in Entries /\ c[k].id = b[k].id
         /\ \A k \in 1..Len(b) : c[k] = IF ids = {} \/ b[k].id \in ids THEN [b[k] EXCEPT !.read = TRUE] ELSE b[k]
<1>1. Len(b) \in Nat /\ DOMAIN b = 1..Len(b) /\ DOMAIN c = DOMAIN b
  BY DEF MarkedList
<1>2. \A k \in 1..Len(b) : c[k] = IF ids = {} \/ b[k].id \in ids THEN [b[k] EXCEPT !.read = TRUE] ELSE b[k]
  BY <1>1 DEF MarkedList
<1>3. ASSUME NEW k \in 1..Len(b) PROVE c[k] \in Entries /\ c[k].id = b[k].id
  <2>1. b[k] \in Entries
    BY <1>1
  <2>2. [b[k] EXCEPT !.read = TRUE] \in Entries /\ [b[k] EXCEPT !.read = TRUE].id = b[k].id
    BY <2>1 DEF Entries
  <2> QED
    BY <1>2, <2>1, <2>2
<1>4. c \in Seq(Entries) /\ Len(c) = Len(b)
  BY <1>1, <1>3, BellMapped DEF MarkedList
<1> QED
  BY <1>2, <1>3, <1>4

LEMMA ShownMarked ==
  ASSUME NEW ns, NEW b \in Seq(Entries), NEW d \in Nat, NEW ps, NEW p, ShownOf(ns, b, d, ps), NEW c,
         c = MarkedList(b, p.ids)
  PROVE  ShownOf(ns, c, d, ps \cup {p})
<1>1. Len(b) \in Nat /\ DOMAIN b = 1..Len(b)
  OBVIOUS
<1>2. /\ Len(c) = Len(b) /\ \A k \in 1..Len(b) : c[k] \in Entries /\ c[k].id = b[k].id
      /\ \A k \in 1..Len(b) : c[k] = IF p.ids = {} \/ b[k].id \in p.ids THEN [b[k] EXCEPT !.read = TRUE] ELSE b[k]
  BY BellMarkedList
<1>5. \A i : Marked(ps \cup {p}, i) = (Marked(ps, i) \/ p.ids = {} \/ i \in p.ids)
  BY DEF Marked
<1>6. ASSUME NEW k \in 1..Len(b)
      PROVE  c[k] = [id |-> d + 1 - k, read |-> ns[d + 1 - k] \/ Marked(ps \cup {p}, d + 1 - k)]
  <2>1. b[k] = [id |-> d + 1 - k, read |-> ns[d + 1 - k] \/ Marked(ps, d + 1 - k)]
    BY DEF ShownOf
  <2>2. CASE p.ids = {} \/ d + 1 - k \in p.ids
    <3>1. Marked(ps \cup {p}, d + 1 - k)
      BY <1>5, <2>2
    <3>2. b[k].id = d + 1 - k
      BY <2>1
    <3>3. c[k] = [b[k] EXCEPT !.read = TRUE]
      BY <1>2, <2>2, <3>2
    <3>4. c[k] = [id |-> d + 1 - k, read |-> TRUE]
      <4>1. b[k] \in Entries
        BY <1>1
      <4>2. c[k] \in Entries /\ c[k].id = d + 1 - k /\ c[k].read = TRUE
        BY <3>2, <3>3, <4>1 DEF Entries
      <4> QED
        BY <4>2 DEF Entries
    <3> QED
      BY <3>1, <3>4
  <2>3. CASE ~(p.ids = {} \/ d + 1 - k \in p.ids)
    <3>1. Marked(ps \cup {p}, d + 1 - k) = Marked(ps, d + 1 - k)
      BY <2>3 DEF Marked
    <3>2. b[k].id = d + 1 - k
      BY <2>1
    <3>3. ~(p.ids = {} \/ b[k].id \in p.ids)
      BY <2>3, <3>2
    <3>4. c[k] = b[k]
      BY <1>2, <3>3
    <3> QED
      BY <2>1, <3>1, <3>4
  <2> QED
    BY <2>2, <2>3
<1> QED
  BY <1>2, <1>6 DEF ShownOf

LEMMA BellStoredList ==
  ASSUME NEW ns \in Seq(BOOLEAN), NEW ids, NEW ms, ms = StoredList(ns, ids)
  PROVE  /\ ms \in Seq(BOOLEAN) /\ Len(ms) = Len(ns)
         /\ \A i \in 1..Len(ns) : ms[i] = (ns[i] \/ ids = {} \/ i \in ids)
<1>1. Len(ns) \in Nat /\ DOMAIN ns = 1..Len(ns) /\ DOMAIN ms = DOMAIN ns
  BY DEF StoredList
<1>2. \A i \in 1..Len(ns) : ms[i] = (ns[i] \/ ids = {} \/ i \in ids)
  BY <1>1 DEF StoredList
<1>3. ASSUME NEW i \in 1..Len(ns) PROVE ms[i] \in BOOLEAN
  <2>1. CASE ns[i] \/ ids = {} \/ i \in ids
    <3>1. ms[i] = TRUE
      BY <1>2, <2>1
    <3> QED
      BY <3>1
  <2>2. CASE ~(ns[i] \/ ids = {} \/ i \in ids)
    <3>1. ms[i] = FALSE
      BY <1>2, <2>2
    <3> QED
      BY <3>1
  <2> QED
    BY <2>1, <2>2
<1>4. ms \in Seq(BOOLEAN) /\ Len(ms) = Len(ns)
  BY <1>1, <1>3, BellMapped DEF StoredList
<1> QED
  BY <1>2, <1>4

LEMMA ShownStored ==
  ASSUME NEW ns \in Seq(BOOLEAN), NEW b, NEW ps, NEW p \in ps, ShownOf(ns, b, Len(ns), ps), Len(b) \in Nat, NEW ms,
         ms = StoredList(ns, p.ids)
  PROVE  ShownOf(ms, b, Len(ns), ps \ {p})
<1>1. Len(ns) \in Nat
  OBVIOUS
<1>2. \A i \in 1..Len(ns) : ms[i] = (ns[i] \/ p.ids = {} \/ i \in p.ids)
  BY BellStoredList
<1>5. \A i : Marked(ps, i) = (Marked(ps \ {p}, i) \/ p.ids = {} \/ i \in p.ids)
  BY DEF Marked
<1>6. ASSUME NEW k \in 1..Len(b)
      PROVE  b[k] = [id |-> Len(ns) + 1 - k, read |-> ms[Len(ns) + 1 - k] \/ Marked(ps \ {p}, Len(ns) + 1 - k)]
  <2>1. Len(ns) + 1 - k \in 1..Len(ns)
    BY <1>1, BellAssumed DEF ShownOf
  <2>2. b[k] = [id |-> Len(ns) + 1 - k, read |-> ns[Len(ns) + 1 - k] \/ Marked(ps, Len(ns) + 1 - k)]
    BY DEF ShownOf
  <2>3. (ns[Len(ns) + 1 - k] \/ Marked(ps, Len(ns) + 1 - k))
          = (ms[Len(ns) + 1 - k] \/ Marked(ps \ {p}, Len(ns) + 1 - k))
    BY <1>2, <1>5, <2>1
  <2> QED
    BY <2>2, <2>3
<1> QED
  BY <1>6 DEF ShownOf

-----------------------------------------------------------------------------
(* The steps of the bell.                                                    *)

USE BellAssumed

LEMMA BellNotify == ASSUME BellInv, B!Notify PROVE BellInv'
<1> DEFINE e == [id |-> Len(notes) + 1, read |-> FALSE]
<1>1. /\ notes' = Append(notes, FALSE) /\ UNCHANGED <<bell, loads, posts, losses, reloads, readings>>
      /\ crossed' = (crossed \/ loads # {} \/ posts # {} \/ sock.st # "open")
      /\ sock' = IF sock.st = "open" THEN [sock EXCEPT !.q = Append(sock.q, e)] ELSE sock
  BY DEF B!Notify
<1>2. notes \in Seq(BOOLEAN) /\ Len(notes) \in Nat /\ sock \in Socks /\ sock.q \in Seq(Entries) /\ e \in Entries
  BY DEF BellInv, BellType, Socks, Entries
<1>3. notes' \in Seq(BOOLEAN) /\ Len(notes') = Len(notes) + 1
  BY <1>1, <1>2
<1>4. /\ Append(sock.q, e) \in Seq(Entries) /\ Len(Append(sock.q, e)) = Len(sock.q) + 1 /\ Len(sock.q) \in Nat
      /\ Append(sock.q, e)[Len(sock.q) + 1] = e /\ \A i \in 1..Len(sock.q) : Append(sock.q, e)[i] = sock.q[i]
  BY <1>2, BellAppended
<1>5. sock' \in Socks /\ sock'.st = sock.st /\ sock'.q = IF sock.st = "open" THEN Append(sock.q, e) ELSE sock.q
  <2>1. CASE sock.st = "open"
    <3>1. sock' = [sock EXCEPT !.q = Append(sock.q, e)]
      BY <1>1, <2>1
    <3> HIDE DEF e
    <3>2. sock' \in Socks /\ sock'.st = sock.st /\ sock'.q = Append(sock.q, e)
      BY <1>2, <1>4, <3>1, BellSock
    <3> QED
      BY <2>1, <3>2
  <2>2. CASE sock.st # "open"
    <3>1. sock' = sock
      BY <1>1, <2>2
    <3> QED
      BY <1>2, <2>2, <3>1
  <2> QED
    BY <2>1, <2>2
<1>6. e.id = Len(notes) + 1
  OBVIOUS
<1> HIDE DEF e
<1>7. BellType'
  BY <1>1, <1>3, <1>5 DEF BellInv, BellType
<1>8. BellKnown'
  <2>1. AllKnown(bell, notes') /\ AllKnown(sock.q, notes') /\ \A l \in loads : AllKnown(l.got, notes')
    BY <1>2, <1>3, BellStillKnown DEF BellInv, BellKnown
  <2>2. AllKnown(Append(sock.q, e), notes')
    <3> SUFFICES ASSUME NEW k \in 1..(Len(sock.q) + 1) PROVE Append(sock.q, e)[k].id \in 1..Len(notes')
      BY <1>4 DEF AllKnown
    <3>1. CASE k \in 1..Len(sock.q)
      BY <1>4, <2>1, <3>1 DEF AllKnown
    <3>2. CASE k = Len(sock.q) + 1
      BY <1>2, <1>3, <1>4, <1>6, <3>2
    <3> QED
      BY <1>4, <3>1, <3>2
  <2> QED
    BY <1>1, <1>5, <2>1, <2>2 DEF BellInv, BellKnown
<1>9. LoadAlone'
  BY <1>1 DEF BellInv, BellType, LoadAlone, Straight
<1>10. BellFollows'
  <2> SUFFICES ASSUME Straight', loads = {} PROVE BellFollows'
    BY <1>1 DEF BellFollows
  <2>1. Straight /\ posts = {} /\ sock.st = "open"
    BY <1>1 DEF Straight, BellInv, BellType
  <2>2. Len(notes) - Len(sock.q) \in Nat /\ SentOn(notes, sock.q) /\ ShownOf(notes, bell, Len(notes) - Len(sock.q), posts)
    BY <2>1 DEF BellInv, BellFollows
  <2>3. Len(bell) \in Nat
    BY DEF BellInv, BellType
  <2>4. /\ Len(notes') - Len(sock'.q) = Len(notes) - Len(sock.q) /\ SentOn(notes', sock'.q)
        /\ ShownOf(notes', bell, Len(notes) - Len(sock.q), posts)
    BY <1>1, <1>2, <1>5, <2>1, <2>2, <2>3, ShownNotified DEF e
  <2> QED
    BY <1>1, <2>1, <2>2, <2>4 DEF BellFollows
<1> QED
  BY <1>7, <1>8, <1>9, <1>10 DEF BellInv

LEMMA BellLoadServed == ASSUME BellInv, NEW l \in loads, B!LoadServed(l) PROVE BellInv'
<1> DEFINE m == [l EXCEPT !.st = "ok", !.got = B!Latest]
<1>1. loads' = (loads \ {l}) \cup {m} /\ UNCHANGED <<notes, bell, sock, posts, crossed, losses, reloads, readings>>
  BY DEF B!LoadServed
<1>2. notes \in Seq(BOOLEAN) /\ l \in BellLoads
  BY DEF BellInv, BellType
<1>3. B!Latest \in Seq(Entries) /\ Len(B!Latest) <= Cap /\ AllKnown(B!Latest, notes)
  BY <1>2, BellLatest
<1>4. m \in BellLoads /\ m.got = B!Latest
  BY <1>2, <1>3 DEF BellLoads
<1> HIDE DEF m
<1>5. BellType'
  BY <1>1, <1>4 DEF BellInv, BellType
<1>6. BellKnown'
  BY <1>1, <1>3, <1>4 DEF BellInv, BellKnown
<1>7. LoadAlone'
  <2>1. B!Latest' = B!Latest
    BY <1>1, BellSameLatest
  <2>2. Straight => loads = {l} /\ posts = {} /\ sock.q = <<>>
    BY DEF BellInv, LoadAlone
  <2>3. Straight => loads' = {m}
    BY <1>1, <2>2
  <2> QED
    BY <1>1, <1>4, <2>1, <2>2, <2>3 DEF LoadAlone, Straight
<1>8. BellFollows'
  BY <1>1 DEF BellFollows
<1> QED
  BY <1>5, <1>6, <1>7, <1>8 DEF BellInv

LEMMA BellLoadAnswered == ASSUME BellInv, NEW l \in loads, B!LoadAnswered(l) PROVE BellInv'
<1>1. /\ loads' = loads \ {l} /\ bell' = l.got /\ l.st = "ok"
      /\ UNCHANGED <<notes, sock, posts, crossed, losses, reloads, readings>>
  BY DEF B!LoadAnswered
<1>2. notes \in Seq(BOOLEAN) /\ Len(notes) \in Nat /\ l.got \in Seq(Entries) /\ Len(l.got) <= Cap /\ AllKnown(l.got, notes)
  BY DEF BellInv, BellType, BellKnown, BellLoads
<1>3. BellType' /\ BellKnown'
  BY <1>1, <1>2 DEF BellInv, BellType, BellKnown
<1>4. LoadAlone'
  BY <1>1, BellSameLatest DEF BellInv, LoadAlone, Straight
<1>5. BellFollows'
  <2> SUFFICES ASSUME Straight PROVE BellFollows'
    BY <1>1 DEF BellFollows, Straight
  <2>1. posts = {} /\ sock.q = <<>> /\ l.got = B!Latest
    BY <1>1 DEF BellInv, LoadAlone
  <2>2. ShownOf(notes, l.got, Len(notes), {})
    BY <1>2, <2>1, BellLatest
  <2>3. Len(notes) - Len(sock.q) = Len(notes) /\ SentOn(notes, sock.q)
    BY <1>2, <2>1 DEF SentOn
  <2> QED
    BY <1>1, <1>2, <2>1, <2>2, <2>3 DEF BellFollows
<1> QED
  BY <1>3, <1>4, <1>5 DEF BellInv

LEMMA BellLoadFailed == ASSUME BellInv, NEW l \in loads, B!LoadFailed(l) PROVE BellInv'
<1>1. BellType'
  BY DEF BellInv, BellType, B!LoadFailed
<1>2. BellKnown'
  BY DEF BellInv, BellType, BellKnown, AllKnown, B!LoadFailed
<1>3. LoadAlone'
  BY DEF BellInv, BellType, LoadAlone, Straight, B!LoadFailed
<1>4. BellFollows'
  BY DEF BellInv, BellType, LoadAlone, BellFollows, Straight, B!LoadFailed
<1> QED
  BY <1>1, <1>2, <1>3, <1>4 DEF BellInv

LEMMA BellSockOpen == ASSUME BellInv, B!SockOpen PROVE BellInv'
<1>1. BellType'
  BY DEF BellInv, BellType, B!SockOpen, Socks
<1>2. BellKnown'
  BY DEF BellInv, BellType, BellKnown, AllKnown, B!SockOpen
<1>3. LoadAlone'
  <2>1. UNCHANGED <<notes, loads, posts, crossed, losses>> /\ sock'.q = sock.q
    BY DEF B!SockOpen, BellInv, BellType, Socks
  <2> QED
    BY <2>1, BellSameLatest DEF BellInv, LoadAlone, Straight
<1>4. BellFollows'
  BY DEF BellInv, BellType, LoadAlone, BellFollows, Straight, B!SockOpen
<1> QED
  BY <1>1, <1>2, <1>3, <1>4 DEF BellInv

LEMMA BellSockLost == ASSUME BellInv, B!SockLost PROVE BellInv'
<1>1. BellType'
  BY BellEmpty DEF BellInv, BellType, B!SockLost
<1>2. BellKnown'
  BY DEF BellInv, BellType, BellKnown, AllKnown, B!SockLost, B!NoSock
<1>3. LoadAlone'
  BY DEF BellInv, BellType, LoadAlone, Straight, B!SockLost, B!NoSock
<1>4. BellFollows'
  BY DEF BellInv, BellType, LoadAlone, BellFollows, Straight, B!SockLost, B!NoSock
<1> QED
  BY <1>1, <1>2, <1>3, <1>4 DEF BellInv

LEMMA BellMessage == ASSUME BellInv, B!Message PROVE BellInv'
<1> DEFINE m == IF Len(bell) < Cap THEN Len(bell) + 1 ELSE Cap
           c == SubSeq(<<Head(sock.q)>> \o bell, 1, m)
<1>1. /\ sock.q # <<>> /\ bell' = c /\ sock' = [sock EXCEPT !.q = Tail(sock.q)]
      /\ UNCHANGED <<notes, loads, posts, crossed, losses, reloads, readings>>
  BY DEF B!Message
<1>2. notes \in Seq(BOOLEAN) /\ sock \in Socks /\ sock.q \in Seq(Entries) /\ bell \in Seq(Entries) /\ Len(bell) \in Nat /\ Len(bell) <= Cap
  BY DEF BellInv, BellType, Socks
<1>3. /\ Tail(sock.q) \in Seq(Entries) /\ Head(sock.q) \in Entries /\ Head(sock.q) = sock.q[1] /\ Len(sock.q) \in Nat \ {0}
      /\ Len(Tail(sock.q)) = Len(sock.q) - 1 /\ \A i \in 1..(Len(sock.q) - 1) : Tail(sock.q)[i] = sock.q[i + 1]
  BY <1>1, <1>2, BellTail
<1>4. m \in 0..(Len(bell) + 1) /\ m <= Cap
  BY <1>2
<1>5. c \in Seq(Entries) /\ Len(c) = m /\ \A k \in 1..m : c[k] = IF k = 1 THEN Head(sock.q) ELSE bell[k - 1]
  BY <1>2, <1>3, <1>4, BellInFront
<1>6. sock' \in Socks /\ sock'.st = sock.st /\ sock'.q = Tail(sock.q)
  BY <1>1, <1>2, <1>3, BellSock
<1> HIDE DEF c, m
<1>7. BellType'
  BY <1>1, <1>4, <1>5, <1>6 DEF BellInv, BellType
<1>8. BellKnown'
  <2>1. \A i \in 1..Len(sock.q) : sock.q[i].id \in 1..Len(notes)
    BY DEF BellInv, BellKnown, AllKnown
  <2>2. AllKnown(Tail(sock.q), notes)
    BY <1>3, <2>1 DEF AllKnown
  <2>3. AllKnown(c, notes)
    <3> SUFFICES ASSUME NEW k \in 1..m PROVE c[k].id \in 1..Len(notes)
      BY <1>5 DEF AllKnown
    <3>1. CASE k = 1
      BY <1>3, <1>5, <2>1, <3>1
    <3>2. CASE k # 1
      <4>1. k - 1 \in 1..Len(bell)
        BY <1>2, <1>4, <3>2
      <4>2. c[k] = bell[k - 1]
        BY <1>5, <3>2
      <4> QED
        BY <4>1, <4>2 DEF BellInv, BellKnown, AllKnown
    <3> QED
      BY <3>1, <3>2
  <2>4. sock.st = "open"
    BY <1>1 DEF BellInv, BellKnown
  <2> QED
    BY <1>1, <1>6, <2>2, <2>3, <2>4 DEF BellInv, BellKnown
<1>9. LoadAlone'
  BY <1>1 DEF BellInv, LoadAlone, Straight
<1>10. BellFollows'
  <2> SUFFICES ASSUME Straight, loads = {} PROVE BellFollows'
    BY <1>1 DEF BellFollows, Straight
  <2>1. /\ posts = {} /\ Len(notes) - Len(sock.q) \in Nat /\ SentOn(notes, sock.q)
        /\ ShownOf(notes, bell, Len(notes) - Len(sock.q), {})
    BY <1>1 DEF BellInv, BellFollows
  <2>2. /\ Len(notes) - Len(Tail(sock.q)) = Len(notes) - Len(sock.q) + 1 /\ SentOn(notes, Tail(sock.q))
        /\ ShownOf(notes, c, Len(notes) - Len(sock.q) + 1, {})
    BY <1>1, <1>2, <2>1, ShownArrived DEF c, m
  <2> DEFINE d == Len(notes) - Len(sock.q)
  <2>3. Len(notes') - Len(sock'.q) = d + 1
    <3>1. Len(notes') = Len(notes) /\ Len(sock'.q) = Len(Tail(sock.q))
      BY <1>1, <1>6
    <3> QED
      BY <2>2, <3>1
  <2>4. d + 1 \in Nat
    <3>1. d \in Nat
      BY <2>1
    <3> HIDE DEF d
    <3> QED
      BY <3>1
  <2> QED
    BY <1>1, <1>6, <2>1, <2>2, <2>3, <2>4 DEF BellFollows
<1> QED
  BY <1>7, <1>8, <1>9, <1>10 DEF BellInv

LEMMA BellUserChanged == ASSUME BellInv, B!UserChanged PROVE BellInv'
<1> DEFINE l == [n |-> reloads + 1, got |-> <<>>, st |-> "asked"]
<1>1. /\ reloads' = reloads + 1 /\ loads' = loads \cup {l} /\ sock' = B!Asking
      /\ crossed' = (crossed \/ ~B!Calm) /\ UNCHANGED <<notes, bell, posts, losses, readings>>
  BY DEF B!UserChanged
<1>2. l \in BellLoads /\ l.got = <<>> /\ l.st = "asked"
  BY BellEmpty DEF BellInv, BellType, BellLoads
<1>3. sock' \in Socks /\ sock'.q = <<>>
  BY <1>1, BellEmpty DEF B!Asking
<1> HIDE DEF l
<1>4. BellType'
  BY <1>1, <1>2, <1>3 DEF BellInv, BellType
<1>5. AllKnown(<<>>, notes) /\ Len(<<>>) <= Cap
  BY BellEmpty DEF AllKnown
<1>6. BellKnown'
  BY <1>1, <1>2, <1>3, <1>5 DEF BellInv, BellKnown
<1>7. LoadAlone'
  <2> SUFFICES ASSUME Straight' PROVE \A x \in loads' : loads' = {x} /\ posts' = {} /\ sock'.q = <<>> /\ x.st # "ok"
    BY DEF LoadAlone
  <2>1. loads = {} /\ posts = {}
    BY <1>1 DEF Straight, B!Calm
  <2> QED
    BY <1>1, <1>2, <1>3, <2>1
<1>8. BellFollows'
  BY <1>1 DEF BellFollows
<1> QED
  BY <1>4, <1>6, <1>7, <1>8 DEF BellInv

LEMMA BellMark == ASSUME BellInv, NEW ids \in SUBSET Nat, B!Mark(ids) PROVE BellInv'
<1> DEFINE p == [n |-> readings + 1, ids |-> ids]
<1>1. /\ bell' = MarkedList(bell, p.ids)
      /\ posts' = posts \cup {p} /\ readings' = readings + 1
      /\ crossed' = (crossed \/ loads # {} \/ sock.q # <<>>)
      /\ UNCHANGED <<notes, loads, sock, losses, reloads>>
  BY DEF B!Mark, MarkedList
<1>2. p \in [n : Nat, ids : SUBSET Nat]
  BY DEF BellInv, BellType
<1> HIDE DEF p
<1>3. bell \in Seq(Entries) /\ notes \in Seq(BOOLEAN) /\ Len(bell) \in Nat /\ Len(notes) \in Nat /\ DOMAIN bell = 1..Len(bell)
  BY DEF BellInv, BellType
<1>4. /\ bell' \in Seq(Entries) /\ Len(bell') = Len(bell) /\ \A k \in 1..Len(bell) : bell'[k].id = bell[k].id
  BY <1>1, <1>3, BellMarkedList
<1>5. BellType'
  BY <1>1, <1>2, <1>4 DEF BellInv, BellType
<1>6. BellKnown'
  BY <1>1, <1>4 DEF BellInv, BellKnown, AllKnown
<1>7. LoadAlone'
  BY <1>1 DEF BellInv, BellType, LoadAlone, Straight
<1>8. BellFollows'
  <2> SUFFICES ASSUME Straight', loads = {} PROVE BellFollows'
    BY <1>1 DEF BellFollows
  <2>1. Straight /\ sock.q = <<>>
    BY <1>1 DEF Straight, BellInv, BellType
  <2>2. /\ Len(notes) - Len(sock.q) \in Nat /\ SentOn(notes, sock.q)
        /\ ShownOf(notes, bell, Len(notes) - Len(sock.q), posts)
    BY <2>1 DEF BellInv, BellFollows
  <2>3. ShownOf(notes, bell', Len(notes) - Len(sock.q), posts \cup {p})
    BY <1>1, <1>3, <2>2, ShownMarked
  <2> QED
    BY <1>1, <2>1, <2>2, <2>3 DEF BellFollows
<1> QED
  BY <1>5, <1>6, <1>7, <1>8 DEF BellInv

LEMMA BellMarkStored == ASSUME BellInv, NEW p \in posts, B!MarkStored(p) PROVE BellInv'
<1>1. /\ posts' = posts \ {p} /\ notes' = StoredList(notes, p.ids)
      /\ UNCHANGED <<bell, loads, sock, crossed, losses, reloads, readings>>
  BY DEF B!MarkStored, StoredList
<1>2. bell \in Seq(Entries) /\ notes \in Seq(BOOLEAN) /\ Len(bell) \in Nat /\ Len(notes) \in Nat
  BY DEF BellInv, BellType
<1>3. notes' \in Seq(BOOLEAN) /\ Len(notes') = Len(notes)
  BY <1>1, <1>2, BellStoredList
<1>4. BellType'
  BY <1>1, <1>3 DEF BellInv, BellType
<1>5. BellKnown'
  BY <1>1, <1>3 DEF BellInv, BellKnown, AllKnown
<1>6. LoadAlone'
  BY <1>1 DEF BellInv, LoadAlone, Straight
<1>7. BellFollows'
  <2> SUFFICES ASSUME Straight, loads = {} PROVE BellFollows'
    BY <1>1 DEF BellFollows, Straight
  <2>1. /\ sock.q = <<>> /\ Len(notes) - Len(sock.q) \in Nat
        /\ ShownOf(notes, bell, Len(notes) - Len(sock.q), posts)
    BY DEF BellInv, BellFollows
  <2>2. Len(sock.q) = 0 /\ Len(notes) - Len(sock.q) = Len(notes)
    BY <1>2, <2>1
  <2>3. ShownOf(notes', bell, Len(notes), posts \ {p})
    BY <1>1, <1>2, <2>1, <2>2, ShownStored
  <2> QED
    BY <1>1, <1>3, <2>1, <2>2, <2>3 DEF BellFollows, SentOn
<1> QED
  BY <1>4, <1>5, <1>6, <1>7 DEF BellInv

LEMMA BellMarkLost == ASSUME BellInv, NEW p \in posts, B!MarkLost(p) PROVE BellInv'
<1>1. BellType'
  BY DEF BellInv, BellType, B!MarkLost
<1>2. BellKnown'
  BY DEF BellInv, BellType, BellKnown, AllKnown, B!MarkLost
<1>3. LoadAlone'
  BY DEF BellInv, LoadAlone, Straight, B!MarkLost, BellType
<1>4. BellFollows'
  BY DEF BellInv, BellType, LoadAlone, BellFollows, Straight, B!MarkLost
<1> QED
  BY <1>1, <1>2, <1>3, <1>4 DEF BellInv

LEMMA BellStays == ASSUME BellInv, UNCHANGED B!bellVars PROVE BellInv'
<1>1. BellType'
  BY DEF BellInv, BellType, B!bellVars
<1>2. BellKnown'
  BY DEF BellInv, BellType, BellKnown, AllKnown, B!bellVars
<1>3. LoadAlone'
  BY BellSameLatest DEF BellInv, LoadAlone, Straight, B!bellVars
<1>4. BellFollows'
  BY DEF BellInv, BellType, LoadAlone, BellFollows, Straight, B!bellVars
<1> QED
  BY <1>1, <1>2, <1>3, <1>4 DEF BellInv

LEMMA BellStep == BellInv /\ B!Next => BellInv'
<1> SUFFICES ASSUME BellInv, B!Next PROVE BellInv'
  OBVIOUS
<1>1. CASE B!MarkAllRead
  BY <1>1, BellMark DEF B!MarkAllRead
<1>2. CASE \E k \in 1..Cap : B!Click(k)
  <2>1. PICK k \in 1..Cap : k \in DOMAIN bell /\ B!Mark({bell[k].id})
    BY <1>2 DEF B!Click
  <2>2. bell[k].id \in Nat
    <3>1. bell[k] \in Entries
      BY <2>1 DEF BellInv, BellType
    <3> QED
      BY <3>1 DEF Entries
  <2> QED
    BY <2>1, <2>2, BellMark
<1> QED
  BY <1>1, <1>2, BellNotify, BellLoadServed, BellLoadAnswered, BellLoadFailed, BellSockOpen,
     BellSockLost,
     BellMessage, BellUserChanged, BellMarkStored, BellMarkLost DEF B!Next

LEMMA BellStart == B!Init => BellInv
<1> SUFFICES ASSUME B!Init PROVE BellInv
  OBVIOUS
<1>1. notes \in Seq(BOOLEAN)
  <2>1. <<>> \in Seq(BOOLEAN) /\ <<FALSE, TRUE>> \in Seq(BOOLEAN)
    OBVIOUS
  <2>2. notes = <<>> \/ notes = <<FALSE, TRUE>>
    BY DEF B!Init
  <2> QED
    BY <2>1, <2>2
<1>2. bell = <<>> /\ bell \in Seq(Entries) /\ Len(bell) = 0 /\ Len(bell) <= Cap
  BY BellEmpty, BellAssumed DEF B!Init
<1>3. sock \in Socks /\ sock.q = <<>> /\ Len(sock.q) = 0
  BY BellEmpty DEF B!Init, B!Asking
<1> DEFINE l0 == [n |-> 0, got |-> <<>>, st |-> "asked"]
<1>4. loads = {l0} /\ l0 \in BellLoads /\ l0.st = "asked" /\ l0.got = <<>>
  BY BellEmpty DEF B!Init, BellLoads
<1>5. posts = {} /\ crossed \in BOOLEAN /\ losses = 0 /\ reloads = 0 /\ readings = 0
  BY DEF B!Init
<1> HIDE DEF l0
<1>6. BellType
  BY <1>1, <1>2, <1>3, <1>4, <1>5 DEF BellType
<1>7. BellKnown
  BY <1>2, <1>3, <1>4, BellEmpty DEF BellKnown, AllKnown
<1>8. LoadAlone /\ BellFollows
  BY <1>3, <1>4, <1>5 DEF LoadAlone, BellFollows
<1> QED
  BY <1>6, <1>7, <1>8 DEF BellInv

\* The bell has the notifications the server has, each with the mark it has there,
\* once nothing is under way, for any number of notifications, loads and marks
\* (frontend/components/notification-bell.jsx).
THEOREM BellIsRight == ClientSpec => []BellTells
<1>1. ClientInit => (part = "bell" => BellInv)
  BY BellStart DEF ClientInit
<1>2. (part = "bell" => BellInv) /\ [ClientNext]_cells => (part = "bell" => BellInv)'
  <2> SUFFICES ASSUME part = "bell" => BellInv, [ClientNext]_cells, part' = "bell"
               PROVE BellInv'
    OBVIOUS
  <2>1. CASE B!Next /\ part = "bell"
    BY <2>1, BellStep
  <2>2. CASE UNCHANGED cells
    <3>1. UNCHANGED B!bellVars
      BY <2>2 DEF cells, B!bellVars, notes, bell, loads, sock, posts, crossed, losses, reloads,
         readings
    <3> QED
      BY <2>2, <3>1, BellStays DEF cells
  <2> QED
    BY <2>1, <2>2 DEF ClientNext, Kept6, Kept7, Kept9, Kept11, Kept13, Kept14, Kept15
<1>3. (part = "bell" => BellInv) => BellTells
<2>1. BellInv => B!TypeOK
  <3> SUFFICES ASSUME BellInv PROVE B!TypeOK
    OBVIOUS
  <3>1. DOMAIN notes = 1..Len(notes) /\ DOMAIN bell = 1..Len(bell)
    BY DEF BellInv, BellType
  <3> QED
    BY <3>1 DEF BellInv, BellType, BellKnown, AllKnown, Socks, B!TypeOK
<2>2. BellInv => B!BellAgrees
  <3> SUFFICES ASSUME BellInv, B!Calm, Straight PROVE bell = B!Latest
    BY DEF B!BellAgrees, Straight
  <3>1. notes \in Seq(BOOLEAN) /\ bell \in Seq(Entries)
    BY DEF BellInv, BellType
  <3>2. Len(notes) - Len(sock.q) = Len(notes) /\ Len(notes) \in Nat
    BY <3>1 DEF B!Calm
  <3>3. ShownOf(notes, bell, Len(notes), {})
    BY <3>2 DEF BellInv, BellFollows, B!Calm
  <3>4. B!Latest \in Seq(Entries) /\ ShownOf(notes, B!Latest, Len(notes), {})
    BY <3>1, BellLatest
  <3>5. Len(bell) = Len(B!Latest) /\ \A k \in 1..Len(bell) : bell[k] = B!Latest[k]
    BY <3>3, <3>4 DEF ShownOf
  <3> QED
    BY <3>1, <3>4, <3>5
<2> QED
  BY <2>1, <2>2 DEF BellTells
<1> QED
  BY <1>1, <1>2, <1>3, PTL DEF ClientSpec

HIDE BellAssumed

-----------------------------------------------------------------------------
(* Lists and their forms (Panel).                                           *)

PanelRecs  == [key : Keys, val : 0..MaxChanges] \cup {P!Absent}
PanelReads == [n : Nat, key : Keys, served : BOOLEAN, got : [Rows -> PanelRecs]]
PanelAsks  == [id : 1..MaxChanges, what : {"create", "update", "patch", "remove"}, of : {0} \cup Rows,
               form : 0..MaxForms, key : Keys, stage : {"sent", "ok", "refused"}]
PanelForms == [of : {-1, 0} \cup Rows, n : 0..MaxForms]
PanelSpent == [{"reads", "forms", "changes", "faults"} -> Nat]
PanelType ==
  /\ panel \in Panels /\ rows \in [Rows -> PanelRecs] /\ shown \in [Rows -> PanelRecs] /\ key \in Keys
  /\ reading \in BOOLEAN /\ broken \in BOOLEAN /\ saving \in BOOLEAN /\ raced \in BOOLEAN /\ gone \in BOOLEAN
  /\ reads \subseteq PanelReads /\ changes \subseteq PanelAsks /\ form \in PanelForms
  /\ made \in [1..MaxForms -> Nat] /\ spent \in PanelSpent /\ spent["changes"] <= MaxChanges

\* Forms, reads and changes have numbers of their own.
PanelNumbers ==
  /\ form.n = spent["forms"] /\ (form.of # -1 => form.n # 0)
  /\ \A r \in reads : r.n <= spent["reads"] /\ \A q \in reads : q.n = r.n => q = r
  /\ \A c \in changes : c.id <= spent["changes"] /\ c.form <= form.n /\ \A d \in changes : d.id = c.id => d = c

\* What a change is of, and that the panel has such changes.
PanelAsked ==
  /\ form.of \in Rows => "old" \in panel.form.opens
  /\ \A c \in changes :
       /\ (c.form # 0) = (c.what \in {"create", "update"})
       /\ c.what = "create" => c.stage # "refused" /\ c.of = IF c.stage = "sent" THEN 0 ELSE Len(Old) + c.id
       /\ c.what # "create" => c.of \in Rows
       /\ c.what = "update" => "old" \in panel.form.opens
       /\ c.what = "patch" => panel.list.patches # "none"
       /\ c.what = "remove" => panel.list.removes # "none"

\* A form under way keeps its button disabled; where the button is the page's,
\* it does so for every form.  A form that may be submitted has created nothing
\* but what a fault hid, and one that edits has created nothing.
PanelOnce ==
  panel.form.guarded =>
    /\ \A c, d \in changes : c.form # 0 /\ (c.form = d.form \/ (d.form # 0 /\ panel.form.kind = "page")) => c = d
    /\ \A c \in changes : c.form # 0 /\ (panel.form.kind = "page" \/ (c.form = form.n /\ form.of # -1)) => saving
    /\ \A n \in 1..MaxForms : made[n] <= 1 + spent["faults"] /\ (n > form.n => made[n] = 0)
    /\ \A c \in changes : c.what = "create" /\ c.stage = "sent" => made[c.form] <= spent["faults"]
    /\ \A c \in changes : c.what = "update" => made[c.form] = 0
    /\ form.of # -1 /\ ~saving => made[form.n] <= spent["faults"]
    /\ form.of \in Rows => made[form.n] = 0 /\ \A c \in changes : c.what = "create" => c.form # form.n
    /\ \A c \in changes : c.form \notin {0, form.n} /\ panel.form.kind = "page" => made[form.n] = 0

\* The row a creation is to have is known to nobody before.
Born(i) == i > Len(Old) => /\ i - Len(Old) <= spent["changes"]
                           /\ \A c \in changes : c.what = "create" /\ c.stage = "sent" => i # Len(Old) + c.id
PanelBorn ==
  \A i \in Rows : \/ rows[i] # P!Absent \/ shown[i] # P!Absent \/ form.of = i
                  \/ \E r \in reads : r.got[i] # P!Absent
                  \/ \E c \in changes : c.of = i
                  => Born(i)

\* A row is shown as it is stored, and is shown if it is one of the filter.
Agrees(i) == /\ shown[i] # P!Absent => shown[i] = rows[i]
             /\ rows[i].key = key /\ ~gone => shown[i] = rows[i]

\* What a change that is stored leaves to be done when it is answered.
Half(c) ==
  CASE c.what = "create" -> rows[c.of] = [key |-> c.key, val |-> c.id] /\ shown[c.of] = P!Absent
    [] c.what = "remove" -> rows[c.of] = P!Absent
    [] OTHER -> /\ rows[c.of] # P!Absent /\ rows[c.of].val = c.id
                /\ shown[c.of] # P!Absent => shown[c.of].key = rows[c.of].key
                /\ rows[c.of].key = key /\ ~gone => shown[c.of] # P!Absent

Unraced == ~raced /\ spent["faults"] = 0

\* As long as nothing raced, reads do not meet changes, the read that is heeded
\* is for the filter chosen and brings what is stored.
PanelAlone ==
  Unraced =>
    /\ reads = {} \/ changes = {}
    /\ \A r \in reads : /\ ~panel.list.cancels => r.n = spent["reads"]
                        /\ r.n = spent["reads"] => r.key = key
                        /\ r.served => r.got = P!Of(rows, r.key)
    /\ \A c, d \in changes : c.of = d.of /\ c.of # 0 => c = d

\* ... and without such a read every row agrees but those of changes that are to
\* be answered.
PanelFollows ==
  Unraced =>
    /\ (\A r \in reads : r.n # spent["reads"]) =>
         \A i \in Rows : (\A c \in changes : c.stage = "ok" => c.of # i) => Agrees(i)
    /\ \A c \in changes : c.stage = "ok" => Half(c)

PanelInv == PanelType /\ PanelNumbers /\ PanelAsked /\ PanelOnce /\ PanelBorn /\ PanelAlone /\ PanelFollows

-----------------------------------------------------------------------------
(* Records, rows and numbers.                                                *)

LEMMA PanelRowsAre ==
  /\ Len(Old) \in Nat /\ Rows \subseteq Nat \ {0} /\ P!Cardinality(DOMAIN Old) = Len(Old)
  /\ \A m \in 1..MaxChanges : Len(Old) + m \in Rows /\ Len(Old) + m > Len(Old)
  /\ MaxForms \in Nat /\ MaxChanges \in Nat
<1>1. Len(Old) \in Nat /\ DOMAIN Old = 1..Len(Old)
  BY PanelAssumed
<1>2. Cardinality(1..Len(Old)) = Len(Old)
  <2>1. Cardinality(1..Len(Old)) = IF 1 > Len(Old) THEN 0 ELSE Len(Old) - 1 + 1
    BY <1>1, FS_Interval
  <2> QED
    BY <1>1, <2>1
<1>3. P!Cardinality(DOMAIN Old) = Cardinality(DOMAIN Old)
  BY Zenon DEF P!Cardinality, Cardinality
<1>4. P!Cardinality(DOMAIN Old) = Len(Old)
  BY <1>1, <1>2, <1>3
<1>5. MaxForms \in Nat /\ MaxChanges \in Nat /\ Rows = 1..(Len(Old) + MaxChanges)
  BY PanelAssumed
<1>6. \A m \in 1..MaxChanges : Len(Old) + m \in Rows /\ Len(Old) + m > Len(Old)
  BY <1>1, <1>5
<1>7. Rows \subseteq Nat \ {0}
  BY <1>1, <1>5
<1> QED
  BY <1>1, <1>4, <1>5, <1>6, <1>7

LEMMA PanelRecsAre ==
  /\ P!Absent \in PanelRecs /\ P!Absent.key \notin Keys /\ P!NotYet \in [Rows -> PanelRecs]
  /\ \A i \in Rows : P!NotYet[i] = P!Absent
  /\ \A k \in Keys, v \in 0..MaxChanges :
       [key |-> k, val |-> v] \in PanelRecs /\ [key |-> k, val |-> v] # P!Absent
  /\ \A x \in PanelRecs : x.val \in 0..MaxChanges /\ (x # P!Absent => x.key \in Keys /\ x = [key |-> x.key, val |-> x.val])
<1>1. P!Absent \in PanelRecs /\ P!Absent.key \notin Keys
  BY PanelAssumed DEF P!Absent, PanelRecs
<1>2. P!NotYet \in [Rows -> PanelRecs] /\ \A i \in Rows : P!NotYet[i] = P!Absent
  BY <1>1 DEF P!NotYet
<1>3. ASSUME NEW k \in Keys, NEW v \in 0..MaxChanges
      PROVE  [key |-> k, val |-> v] \in PanelRecs /\ [key |-> k, val |-> v] # P!Absent
  BY <1>1 DEF PanelRecs
<1>4. ASSUME NEW x \in PanelRecs
      PROVE  x.val \in 0..MaxChanges /\ (x # P!Absent => x.key \in Keys /\ x = [key |-> x.key, val |-> x.val])
  <2>1. P!Absent.val \in 0..MaxChanges
    BY PanelAssumed DEF P!Absent
  <2> QED
    BY <2>1 DEF PanelRecs
<1> QED
  BY <1>1, <1>2, <1>3, <1>4

LEMMA PanelOf ==
  ASSUME NEW f \in [Rows -> PanelRecs], NEW k \in Keys
  PROVE  /\ P!Of(f, k) \in [Rows -> PanelRecs]
         /\ \A i \in Rows : P!Of(f, k)[i] = IF f[i].key = k THEN f[i] ELSE P!Absent
  BY PanelRecsAre DEF P!Of

\* What the type says of the parts of the state.
LEMMA PanelKinds ==
  ASSUME PanelType
  PROVE  /\ \A r \in reads : r.n \in Nat /\ r.key \in Keys /\ r.served \in BOOLEAN /\ r.got \in [Rows -> PanelRecs]
         /\ \A c \in changes : /\ c.id \in 1..MaxChanges /\ c.what \in {"create", "update", "patch", "remove"}
                               /\ c.of \in {0} \cup Rows /\ c.form \in 0..MaxForms /\ c.key \in Keys
                               /\ c.stage \in {"sent", "ok", "refused"}
         /\ form.of \in {-1, 0} \cup Rows /\ form.n \in 0..MaxForms
         /\ spent["reads"] \in Nat /\ spent["forms"] \in Nat /\ spent["changes"] \in Nat /\ spent["faults"] \in Nat
  BY DEF PanelType, PanelReads, PanelAsks, PanelForms, PanelSpent

LEMMA PanelRules ==
  ASSUME PanelType
  PROVE  /\ panel.list.cancels \in BOOLEAN /\ panel.list.patches \in {"none", "add", "always"}
         /\ panel.list.removes \in {"none", "drop", "reload", "always"}
         /\ panel.form.ok \in {"add", "reload", "leave"} /\ (panel.form.ok = "leave" => "old" \notin panel.form.opens)
  BY PanelAssumed DEF PanelType, ListRules, FormRules

LEMMA PanelPaid ==
  ASSUME PanelType, NEW b \in {"reads", "forms", "changes", "faults"}, P!Pay(b)
  PROVE  /\ spent' \in PanelSpent /\ spent'[b] = spent[b] + 1
         /\ \A x \in {"reads", "forms", "changes", "faults"} \ {b} : spent'[x] = spent[x]
  BY DEF P!Pay, PanelType, PanelSpent

-----------------------------------------------------------------------------
(* What the actions have in common: a read starts, a change is asked for, and *)
(* a row that has been known stays so.                                        *)

LEMMA PanelStillBorn ==
  ASSUME PanelType, PanelNumbers, spent'["changes"] \in Nat, spent["changes"] <= spent'["changes"],
         \A c \in changes' : c.what = "create" /\ c.stage = "sent" => c \in changes \/ c.id = spent["changes"] + 1
  PROVE  \A i \in Rows : Born(i) => Born(i)'
<1> SUFFICES ASSUME NEW i \in Rows, Born(i), i > Len(Old)
             PROVE  /\ i - Len(Old) <= spent'["changes"]
                    /\ \A c \in changes' : c.what = "create" /\ c.stage = "sent" => i # Len(Old) + c.id
  BY DEF Born
<1>1. i \in Nat /\ Len(Old) \in Nat /\ spent["changes"] \in Nat
  BY PanelRowsAre, PanelKinds
<1>2. i - Len(Old) <= spent["changes"] /\ \A c \in changes : c.what = "create" /\ c.stage = "sent" => i # Len(Old) + c.id
  BY DEF Born
<1> QED
  BY <1>1, <1>2

LEMMA PanelReadStarts ==
  ASSUME PanelInv, NEW k \in Keys, changes' \subseteq changes, key' = k, UNCHANGED <<panel, rows>>,
         reads' = reads \cup {[n |-> spent["reads"] + 1, key |-> k, served |-> FALSE, got |-> P!NotYet]},
         raced' = (raced \/ changes' # {} \/ (reads # {} /\ ~panel.list.cancels)),
         spent'["reads"] = spent["reads"] + 1, spent'["faults"] \in Nat, spent["faults"] <= spent'["faults"]
  PROVE  /\ reads' \subseteq PanelReads /\ raced' \in BOOLEAN
         /\ \A r \in reads' : r.n <= spent'["reads"] /\ \A q \in reads' : q.n = r.n => q = r
         /\ \A r \in reads' : r \in reads \/ \A i \in Rows : r.got[i] = P!Absent
         /\ PanelAlone' /\ PanelFollows'
<1> DEFINE a == [n |-> spent["reads"] + 1, key |-> k, served |-> FALSE, got |-> P!NotYet]
<1>1. /\ a \in PanelReads /\ a.n = spent["reads"] + 1 /\ a.key = k /\ a.served = FALSE
      /\ a.got = P!NotYet /\ spent["reads"] \in Nat
  BY PanelKinds, PanelRecsAre DEF PanelInv, PanelReads
<1>2. reads' = reads \cup {a}
  OBVIOUS
<1> HIDE DEF a
<1>3. \A r \in reads : r.n \in Nat /\ r.n <= spent["reads"] /\ \A q \in reads : q.n = r.n => q = r
  BY PanelKinds DEF PanelInv, PanelNumbers
<1>4. \A r \in reads' : r.n <= spent'["reads"] /\ \A q \in reads' : q.n = r.n => q = r
  BY <1>1, <1>2, <1>3
<1>5. Unraced' => Unraced /\ changes' = {} /\ (reads = {} \/ panel.list.cancels)
  <2> SUFFICES ASSUME Unraced' PROVE Unraced /\ changes' = {} /\ (reads = {} \/ panel.list.cancels)
    OBVIOUS
  <2>1. ~raced' /\ spent'["faults"] = 0
    BY DEF Unraced
  <2>2. ~raced /\ changes' = {} /\ (reads = {} \/ panel.list.cancels)
    BY <2>1, Zenon
  <2>3. spent["faults"] = 0
    BY <2>1, PanelKinds DEF PanelInv
  <2> QED
    BY <2>2, <2>3 DEF Unraced
<1>6. PanelAlone'
  <2> SUFFICES ASSUME Unraced' PROVE (/\ reads = {} \/ changes = {}
    /\ \A r \in reads : /\ ~panel.list.cancels => r.n = spent["reads"]
                        /\ r.n = spent["reads"] => r.key = key
                        /\ r.served => r.got = P!Of(rows, r.key)
    /\ \A c, d \in changes : c.of = d.of /\ c.of # 0 => c = d)'
    BY DEF PanelAlone
  <2>1. ASSUME NEW r \in reads'
        PROVE  /\ ~panel.list.cancels => r.n = spent'["reads"]
               /\ r.n = spent'["reads"] => r.key = key'
               /\ r.served => r.got = P!Of(rows, r.key)
    <3>1. CASE r = a
      BY <1>1, <3>1
    <3>2. CASE r \in reads
      BY <1>1, <1>3, <1>5, <3>2 DEF PanelInv, PanelAlone
    <3> QED
      BY <1>2, <3>1, <3>2
  <2> QED
    BY <1>5, <2>1 DEF P!Of
<1>7. PanelFollows'
  <2>1. a \in reads' /\ a.n = spent'["reads"]
    BY <1>1, <1>2
  <2>2. Unraced' => changes' = {}
    BY <1>5
  <2> QED
    BY <2>1, <2>2 DEF PanelFollows
<1>8. reads' \subseteq PanelReads /\ \A r \in reads' : r \in reads \/ \A i \in Rows : r.got[i] = P!Absent
  BY <1>1, <1>2, PanelRecsAre DEF PanelInv, PanelType
<1>9. raced' \in BOOLEAN
  OBVIOUS
<1> QED
  BY <1>4, <1>6, <1>7, <1>8, <1>9

LEMMA PanelAsks1 ==
  ASSUME PanelInv, NEW what \in {"create", "update", "patch", "remove"}, NEW of \in {0} \cup Rows, NEW n \in 0..form.n,
         P!Ask(what, of, n), UNCHANGED <<panel, rows, key, shown, reads, form, gone>>,
         (what = "create") = (of = 0), of \in Rows => Born(of), (n # 0) = (what \in {"create", "update"}),
         what = "update" => "old" \in panel.form.opens, what = "patch" => panel.list.patches # "none",
         what = "remove" => panel.list.removes # "none"
  PROVE  /\ changes' \subseteq PanelAsks /\ spent' \in PanelSpent /\ spent'["changes"] <= MaxChanges /\ raced' \in BOOLEAN
         /\ PanelNumbers' /\ PanelAsked' /\ PanelBorn' /\ PanelAlone' /\ PanelFollows'
         /\ spent'["faults"] = spent["faults"]
         /\ \E a : changes' = changes \cup {a} /\ a.form = n /\ a.what = what /\ a.stage = "sent"
<1> DEFINE a == [id |-> spent["changes"] + 1, what |-> what, of |-> of, form |-> n, key |-> key, stage |-> "sent"]
<1>1. /\ changes' = changes \cup {a} /\ spent["changes"] < MaxChanges /\ P!Pay("changes")
      /\ raced' = (raced \/ reads # {} \/ \E c \in changes : of # 0 /\ c.of = of)
  <2>1. changes' = changes \cup {a} /\ spent["changes"] < MaxChanges /\ P!Pay("changes")
    BY DEF P!Ask, P!Within
  <2>2. raced' = (raced \/ reads # {} \/ \E c \in changes : of # 0 /\ c.of = of)
    BY Zenon DEF P!Ask, P!New
  <2> QED
    BY <2>1, <2>2
<1>2. /\ spent' \in PanelSpent /\ spent'["changes"] = spent["changes"] + 1 /\ spent'["reads"] = spent["reads"]
      /\ spent'["forms"] = spent["forms"] /\ spent'["faults"] = spent["faults"]
  BY <1>1, PanelPaid DEF PanelInv
<1>3. spent["changes"] \in Nat /\ MaxChanges \in Nat /\ form.n \in 0..MaxForms /\ MaxForms \in Nat
  BY PanelKinds, PanelRowsAre DEF PanelInv
<1>4. /\ a.id = spent["changes"] + 1 /\ a.what = what /\ a.of = of /\ a.form = n /\ a.stage = "sent"
      /\ a \in PanelAsks
  <2>1. a.id \in 1..MaxChanges /\ n \in 0..MaxForms /\ key \in Keys
    BY <1>1, <1>3 DEF PanelInv, PanelType
  <2> QED
    BY <2>1 DEF PanelAsks
<1> HIDE DEF a
<1>5. changes' \subseteq PanelAsks /\ spent'["changes"] <= MaxChanges /\ raced' \in BOOLEAN
  BY <1>1, <1>2, <1>3, <1>4 DEF PanelInv, PanelType
<1>6. PanelNumbers'
  <2>1. \A c \in changes : c.id \in Nat /\ c.id <= spent["changes"] /\ c.form <= form.n /\ \A d \in changes : d.id = c.id => d = c
    BY PanelKinds DEF PanelInv, PanelNumbers
  <2>2. \A c \in changes' : c.id <= spent'["changes"] /\ c.form <= form'.n /\ \A d \in changes' : d.id = c.id => d = c
    BY <1>1, <1>2, <1>3, <1>4, <2>1
  <2> QED
    BY <1>2, <2>2 DEF PanelInv, PanelNumbers
<1>7. PanelAsked'
  BY <1>1, <1>4, PanelRowsAre DEF PanelInv, PanelAsked
<1>8. PanelBorn'
  <2>1. \A i \in Rows : Born(i) => Born(i)'
    BY <1>1, <1>2, <1>3, <1>4, PanelStillBorn DEF PanelInv
  <2> SUFFICES ASSUME NEW i \in Rows,
                      \/ rows'[i] # P!Absent \/ shown'[i] # P!Absent \/ form'.of = i
                      \/ \E r \in reads' : r.got[i] # P!Absent
                      \/ \E c \in changes' : c.of = i
               PROVE  Born(i)'
    BY DEF PanelBorn
  <2>2. Born(i)
    BY <1>1, <1>4 DEF PanelInv, PanelBorn
  <2> QED
    BY <2>1, <2>2
<1>9. Unraced' => Unraced /\ reads = {} /\ \A c \in changes : of # 0 => c.of # of
  BY <1>1, <1>2 DEF Unraced
<1>10. PanelAlone'
  BY <1>1, <1>4, <1>9 DEF PanelInv, PanelAlone
<1>11. PanelFollows'
  <2> SUFFICES ASSUME Unraced'
               PROVE  /\ \A i \in Rows : (\A c \in changes' : c.stage = "ok" => c.of # i) => Agrees(i)'
                      /\ \A c \in changes' : c.stage = "ok" => Half(c)'
    BY DEF PanelFollows
  <2>1. \A c : (c \in changes' /\ c.stage = "ok") = (c \in changes /\ c.stage = "ok")
    BY <1>1, <1>4
  <2>2. /\ \A i \in Rows : (\A c \in changes : c.stage = "ok" => c.of # i) => Agrees(i)
        /\ \A c \in changes : c.stage = "ok" => Half(c)
    BY <1>9 DEF PanelInv, PanelFollows
  <2>3. \A i \in Rows : Agrees(i) => Agrees(i)'
    BY DEF Agrees
  <2>4. \A c : Half(c)' = Half(c)
    BY DEF Half
  <2> QED
    BY <2>1, <2>2, <2>3, <2>4
<1> QED
  BY <1>1, <1>2, <1>4, <1>5, <1>6, <1>7, <1>8, <1>10, <1>11

\* What is asked and what is shown stay as they are.
LEMMA PanelQuiet ==
  ASSUME PanelInv, UNCHANGED <<panel, rows, key, shown, reads, changes, raced, gone>>, spent'["reads"] = spent["reads"],
         spent'["changes"] = spent["changes"], spent'["faults"] = spent["faults"],
         form'.of \in Rows => form'.of = form.of \/ shown[form'.of] # P!Absent
  PROVE  PanelBorn' /\ PanelAlone' /\ PanelFollows'
<1>1. \A i : Agrees(i)' = Agrees(i)
  BY DEF Agrees
<1>2. \A c : Half(c)' = Half(c)
  BY DEF Half
<1>3. \A i : Born(i)' = Born(i)
  BY DEF Born
<1>4. Unraced' = Unraced
  BY DEF Unraced
<1>5. PanelBorn'
  BY <1>3 DEF PanelInv, PanelBorn
<1>6. PanelAlone'
  BY <1>4 DEF PanelInv, PanelAlone, P!Of
<1>7. PanelFollows'
  BY <1>1, <1>2, <1>4 DEF PanelInv, PanelFollows
<1> QED
  BY <1>5, <1>6, <1>7

\* The changes stay, and with them what is known of forms and rows.
LEMMA PanelOnceStays ==
  ASSUME PanelInv, UNCHANGED <<panel, changes, form, saving, made>>, spent'["faults"] \in Nat,
         spent["faults"] <= spent'["faults"]
  PROVE  PanelOnce'
<1> SUFFICES ASSUME panel.form.guarded PROVE PanelOnce'
  BY DEF PanelOnce
<1>1. spent["faults"] \in Nat /\ form.n \in 0..MaxForms /\ made \in [1..MaxForms -> Nat] /\ MaxForms \in Nat
      /\ \A c \in changes : c.form \in 0..MaxForms
  BY PanelKinds, PanelRowsAre DEF PanelInv, PanelType
<1>2. \A n \in 1..MaxForms : made[n] \in Nat
  BY <1>1
<1>3. \A n \in 1..MaxForms : made'[n] <= 1 + spent'["faults"] /\ (n > form'.n => made'[n] = 0)
  <2> SUFFICES ASSUME NEW n \in 1..MaxForms
               PROVE  made'[n] <= 1 + spent'["faults"] /\ (n > form'.n => made'[n] = 0)
    OBVIOUS
  <2>1. made[n] <= 1 + spent["faults"] /\ (n > form.n => made[n] = 0)
    BY DEF PanelInv, PanelOnce
  <2>2. made'[n] = made[n] /\ form'.n = form.n
    OBVIOUS
  <2> QED
    BY <1>1, <1>2, <2>1, <2>2
<1>4. \A c \in changes : c.what = "create" /\ c.stage = "sent" => made'[c.form] <= spent'["faults"]
  <2> SUFFICES ASSUME NEW c \in changes, c.what = "create", c.stage = "sent" PROVE made'[c.form] <= spent'["faults"]
    OBVIOUS
  <2>1. c.form \in 1..MaxForms
    BY <1>1 DEF PanelInv, PanelAsked
  <2>2. made[c.form] \in Nat /\ made[c.form] <= spent["faults"]
    BY <1>2, <2>1 DEF PanelInv, PanelOnce
  <2> QED
    BY <1>1, <2>2
<1>5. form'.of # -1 /\ ~saving' => made'[form'.n] <= spent'["faults"]
  <2> SUFFICES ASSUME form.of # -1, ~saving PROVE made[form.n] <= spent'["faults"]
    OBVIOUS
  <2>1. form.n \in 1..MaxForms
    BY <1>1 DEF PanelInv, PanelNumbers
  <2>2. made[form.n] \in Nat /\ made[form.n] <= spent["faults"]
    BY <1>2, <2>1 DEF PanelInv, PanelOnce
  <2> QED
    BY <1>1, <2>2
<1> QED
  BY <1>3, <1>4, <1>5 DEF PanelInv, PanelOnce

LEMMA PanelReads1 ==
  ASSUME PanelInv, NEW k \in Keys, key' = k, P!Read(k, changes), reading' \in BOOLEAN,
         UNCHANGED <<panel, rows, shown, broken, form, saving, changes, made, gone>>
  PROVE  PanelInv'
<1>1. /\ reads' = reads \cup {[n |-> spent["reads"] + 1, key |-> k, served |-> FALSE, got |-> P!NotYet]}
      /\ P!Pay("reads")
  BY DEF P!Read
<1>2. raced' = (raced \/ changes' # {} \/ (reads # {} /\ ~panel.list.cancels))
  BY Zenon DEF P!Read
<1>3. /\ spent' \in PanelSpent /\ spent'["reads"] = spent["reads"] + 1 /\ spent'["faults"] = spent["faults"]
      /\ spent'["forms"] = spent["forms"] /\ spent'["changes"] = spent["changes"] /\ spent["faults"] \in Nat
  BY <1>1, PanelPaid, PanelKinds DEF PanelInv
<1>4. /\ reads' \subseteq PanelReads /\ raced' \in BOOLEAN
      /\ \A r \in reads' : r.n <= spent'["reads"] /\ \A q \in reads' : q.n = r.n => q = r
      /\ \A r \in reads' : r \in reads \/ \A i \in Rows : r.got[i] = P!Absent
      /\ PanelAlone' /\ PanelFollows'
  BY <1>1, <1>2, <1>3, PanelReadStarts
<1>5. PanelType'
  BY <1>3, <1>4 DEF PanelInv, PanelType
<1>6. PanelNumbers' /\ PanelAsked'
  BY <1>3, <1>4 DEF PanelInv, PanelNumbers, PanelAsked
<1>7. PanelOnce'
  BY <1>3, PanelOnceStays
<1>8. PanelBorn'
  BY <1>3, <1>4 DEF PanelInv, PanelBorn, Born
<1> QED
  BY <1>4, <1>5, <1>6, <1>7, <1>8 DEF PanelInv

-----------------------------------------------------------------------------
(* A change is stored, or refused.                                           *)

LEMMA PanelStored ==
  ASSUME PanelInv, NEW c \in changes, c.stage = "sent",
         NEW d \in PanelAsks, d.id = c.id, d.what = c.what, d.form = c.form, d.key = c.key, d.stage \in {"ok", "refused"},
         c.what = "create" => d.stage = "ok" /\ d.of = Len(Old) + c.id, c.what # "create" => d.of = c.of,
         NEW now \in PanelRecs, rows' = IF d.stage = "ok" THEN [rows EXCEPT ![d.of] = now] ELSE rows,
         d.stage = "ok" /\ c.what = "create" => now = [key |-> c.key, val |-> c.id],
         d.stage = "ok" /\ c.what = "remove" => now = P!Absent,
         d.stage = "ok" /\ c.what \in {"update", "patch"} =>
           rows[c.of] # P!Absent /\ now = [key |-> rows[c.of].key, val |-> c.id],
         changes' = (changes \ {c}) \cup {d},
         made' = IF c.what = "create" THEN [made EXCEPT ![c.form] = @ + 1] ELSE made,
         UNCHANGED <<panel, key, shown, reading, broken, reads, form, saving, raced, gone, spent>>
  PROVE  PanelInv'
<1>1. /\ c.id \in 1..MaxChanges /\ c.form \in 0..MaxForms /\ c.key \in Keys /\ c.id <= spent["changes"]
      /\ c.what \in {"create", "update", "patch", "remove"} /\ d.of \in Rows /\ 0 \notin Rows
      /\ spent["changes"] \in Nat /\ spent["faults"] \in Nat /\ Len(Old) \in Nat /\ Rows \subseteq Nat
      /\ c.what = "create" => c.form \in 1..MaxForms
  <2>1. /\ c.id \in 1..MaxChanges /\ c.form \in 0..MaxForms /\ c.key \in Keys /\ c.id <= spent["changes"]
        /\ c.what \in {"create", "update", "patch", "remove"} /\ spent["changes"] \in Nat /\ spent["faults"] \in Nat
    BY PanelKinds DEF PanelInv, PanelNumbers
  <2>2. Len(Old) \in Nat /\ Rows \subseteq Nat /\ 0 \notin Rows /\ Len(Old) + c.id \in Rows
    BY <2>1, PanelRowsAre
  <2>3. (c.form # 0) = (c.what \in {"create", "update"}) /\ (c.what # "create" => c.of \in Rows)
    BY DEF PanelInv, PanelAsked
  <2>4. d.of \in Rows
    BY <2>2, <2>3
  <2>5. c.what = "create" => c.form \in 1..MaxForms
    BY <2>1, <2>3
  <2> QED
    BY <2>1, <2>2, <2>4, <2>5
<1>2. /\ made \in [1..MaxForms -> Nat] /\ made' \in [1..MaxForms -> Nat]
      /\ \A n \in 1..MaxForms : made'[n] = IF c.what = "create" /\ n = c.form THEN made[n] + 1 ELSE made[n]
  BY <1>1 DEF PanelInv, PanelType
<1>3. rows \in [Rows -> PanelRecs] /\ rows' \in [Rows -> PanelRecs]
      /\ \A i \in Rows : rows'[i] = IF d.stage = "ok" /\ i = d.of THEN now ELSE rows[i]
  BY <1>1 DEF PanelInv, PanelType
<1>4. PanelType'
  BY <1>2, <1>3 DEF PanelInv, PanelType
<1>5. PanelNumbers'
  BY DEF PanelInv, PanelNumbers
<1>6. PanelAsked'
  BY <1>1 DEF PanelInv, PanelAsked
<1>7. PanelOnce'
  <2> SUFFICES ASSUME panel.form.guarded PROVE PanelOnce'
    BY DEF PanelOnce
  <2>1. /\ \A x, y \in changes : x.form # 0 /\ (x.form = y.form \/ (y.form # 0 /\ panel.form.kind = "page")) => x = y
        /\ \A x \in changes : x.form # 0 /\ (panel.form.kind = "page" \/ (x.form = form.n /\ form.of # -1)) => saving
    BY DEF PanelInv, PanelOnce
  <2>2. /\ \A x, y \in changes' : x.form # 0 /\ (x.form = y.form \/ (y.form # 0 /\ panel.form.kind = "page")) => x = y
        /\ \A x \in changes' : x.form # 0 /\ (panel.form.kind = "page" \/ (x.form = form.n /\ form.of # -1)) => saving
    BY <2>1
  <2>3. \A n \in 1..MaxForms : made[n] <= 1 + spent["faults"] /\ (n > form.n => made[n] = 0)
    BY DEF PanelInv, PanelOnce
  <2>4. c.what = "create" => made[c.form] <= spent["faults"] /\ c.form <= form.n
    BY DEF PanelInv, PanelOnce, PanelNumbers
  <2>5. \A n \in 1..MaxForms : made'[n] <= 1 + spent["faults"] /\ (n > form.n => made'[n] = 0)
    <3>1. form.n \in 0..MaxForms /\ MaxForms \in Nat
      BY PanelKinds, PanelRowsAre DEF PanelInv
    <3>2. ASSUME NEW n \in 1..MaxForms, c.what = "create", n = c.form
          PROVE  made'[n] <= 1 + spent["faults"] /\ n <= form.n
      <4>1. made'[n] = made[n] + 1 /\ made[n] <= spent["faults"] /\ made[n] \in Nat
        BY <1>2, <2>4, <3>2
      <4> QED
        BY <1>1, <2>4, <3>2, <4>1
    <3>3. ASSUME NEW n \in 1..MaxForms, ~(c.what = "create" /\ n = c.form)
          PROVE  made'[n] <= 1 + spent["faults"] /\ (n > form.n => made'[n] = 0)
      BY <1>2, <2>3, <3>3
    <3> QED
      BY <3>1, <3>2, <3>3
  <2>6. \A x \in changes' : x.form \in 0..MaxForms /\ (x.form # 0) = (x.what \in {"create", "update"})
    BY <1>1, <1>4, <1>6, PanelKinds DEF PanelInv, PanelAsked
  <2>7. \A x \in changes' : x.what = "create" /\ x.stage = "sent" => made'[x.form] <= spent["faults"]
    <3> SUFFICES ASSUME NEW x \in changes', x.what = "create", x.stage = "sent" PROVE made'[x.form] <= spent["faults"]
      OBVIOUS
    <3>1. x \in changes /\ x # c /\ x.form # 0 /\ x.form \in 1..MaxForms
      BY <2>6
    <3>2. x.form # c.form
      BY <2>1, <3>1
    <3> QED
      BY <1>2, <3>1, <3>2 DEF PanelInv, PanelOnce
  <2>8. \A x \in changes' : x.what = "update" => made'[x.form] = 0
    <3> SUFFICES ASSUME NEW x \in changes', x.what = "update" PROVE made'[x.form] = 0
      OBVIOUS
    <3>1. x.form \in 1..MaxForms
      BY <2>6
    <3>2. made[x.form] = 0
      BY DEF PanelInv, PanelOnce
    <3>3. c.what = "create" => x.form # c.form
      BY <2>1, <2>6, <3>1
    <3> QED
      BY <1>2, <3>1, <3>2, <3>3
  <2>9. form.of # -1 => form.n \in 1..MaxForms
    BY PanelKinds, PanelRowsAre DEF PanelInv, PanelNumbers
  <2>10. form.of # -1 /\ ~saving => made'[form.n] <= spent["faults"]
    <3> SUFFICES ASSUME form.of # -1, ~saving PROVE made'[form.n] <= spent["faults"]
      OBVIOUS
    <3>1. c.what = "create" => c.form # form.n
      BY <1>1, <2>1
    <3> QED
      BY <1>2, <2>9, <3>1 DEF PanelInv, PanelOnce
  <2>11. form.of \in Rows => made'[form.n] = 0 /\ \A x \in changes' : x.what = "create" => x.form # form.n
    <3> SUFFICES ASSUME form.of \in Rows
                 PROVE  made'[form.n] = 0 /\ \A x \in changes' : x.what = "create" => x.form # form.n
      OBVIOUS
    <3>1. made[form.n] = 0 /\ \A x \in changes : x.what = "create" => x.form # form.n
      BY DEF PanelInv, PanelOnce
    <3>2. form.n \in 1..MaxForms
      BY <2>9, PanelRowsAre
    <3> QED
      BY <1>2, <3>1, <3>2
  <2>12. \A x \in changes' : x.form \notin {0, form.n} /\ panel.form.kind = "page" => made'[form.n] = 0
    <3> SUFFICES ASSUME NEW x \in changes', x.form \notin {0, form.n}, panel.form.kind = "page" PROVE made'[form.n] = 0
      OBVIOUS
    <3>0. PICK y \in changes : y.form = x.form
      OBVIOUS
    <3>1. c.what = "create" => c.form # form.n
      <4>1. c.what = "create" => c.form # 0
        BY <1>1
      <4> QED
        BY <2>1, <3>0, <4>1
    <3>2. made[form.n] = 0
      BY <3>0 DEF PanelInv, PanelOnce
    <3>3. form.n \in 1..MaxForms
      <4>1. x.form \in 0..MaxForms /\ x.form <= form.n /\ form.n \in 0..MaxForms
        BY <1>5, <2>6, PanelKinds DEF PanelInv, PanelNumbers
      <4> QED
        BY <4>1
    <3> QED
      BY <1>2, <3>1, <3>2, <3>3
  <2> QED
    BY <2>2, <2>5, <2>7, <2>8, <2>10, <2>11, <2>12 DEF PanelOnce
<1>8. c.what = "create" => ~Born(d.of)
  BY <1>1 DEF Born
<1>9. \A i \in Rows : Born(i) => Born(i)'
  BY <1>1, PanelStillBorn DEF PanelInv
<1>10. Born(d.of)'
  <2>1. CASE c.what # "create"
    BY <1>1, <1>9, <2>1 DEF PanelInv, PanelBorn
  <2>2. CASE c.what = "create"
    <3>1. d.of - Len(Old) = c.id
      BY <1>1, <2>2
    <3>2. \A x \in changes' : x.stage = "sent" => x.id # c.id /\ x.id \in Nat
      BY <1>1, PanelKinds DEF PanelInv, PanelNumbers
    <3> QED
      BY <1>1, <2>2, <3>1, <3>2 DEF Born
  <2> QED
    BY <2>1, <2>2
<1>11. PanelBorn'
  BY <1>3, <1>9, <1>10 DEF PanelInv, PanelBorn
<1>12. Unraced' = Unraced
  BY DEF Unraced
<1>13. Unraced => reads = {} /\ \A x \in changes \ {c} : x.of # d.of
  BY <1>1, <1>8 DEF PanelInv, PanelAlone, PanelBorn
<1>14. PanelAlone'
  BY <1>12, <1>13 DEF PanelInv, PanelAlone
<1>15. PanelFollows'
  <2> SUFFICES ASSUME Unraced
               PROVE  /\ \A i \in Rows : (\A x \in changes' : x.stage = "ok" => x.of # i) => Agrees(i)'
                      /\ \A x \in changes' : x.stage = "ok" => Half(x)'
    BY <1>12 DEF PanelFollows
  <2>1. /\ reads = {} /\ \A x \in changes \ {c} : x.of # d.of
        /\ \A i \in Rows : (\A x \in changes : x.stage = "ok" => x.of # i) => Agrees(i)
        /\ \A x \in changes : x.stage = "ok" => Half(x)
    BY <1>13 DEF PanelInv, PanelFollows
  <2>2. ASSUME NEW i \in Rows, \A x \in changes' : x.stage = "ok" => x.of # i PROVE Agrees(i)'
    <3>1. Agrees(i) /\ rows'[i] = rows[i]
      BY <1>3, <2>1, <2>2
    <3> QED
      BY <3>1 DEF Agrees
  <2>3. ASSUME NEW x \in changes \ {c}, x.stage = "ok" PROVE Half(x)'
    <3>1. x.of \in Rows /\ x.of # d.of /\ Half(x)
      <4>1. /\ x.what = "create" => x.of = IF x.stage = "sent" THEN 0 ELSE Len(Old) + x.id
            /\ x.what # "create" => x.of \in Rows
        BY DEF PanelInv, PanelAsked
      <4>2. Len(Old) + x.id \in Rows
        BY PanelKinds, PanelRowsAre DEF PanelInv
      <4> QED
        BY <2>1, <2>3, <4>1, <4>2
    <3>2. rows'[x.of] = rows[x.of]
      BY <1>3, <3>1
    <3> QED
      BY <3>1, <3>2 DEF Half
  <2>4. ASSUME d.stage = "ok" PROVE Half(d)'
    <3>1. rows'[d.of] = now
      BY <1>1, <1>3, <2>4
    <3>2. CASE c.what = "create"
      <4>1. shown[d.of] = P!Absent
        BY <1>1, <1>8, <3>2 DEF PanelInv, PanelBorn
      <4> QED
        BY <2>4, <3>1, <3>2, <4>1 DEF Half
    <3>3. CASE c.what = "remove"
      BY <2>4, <3>1, <3>3 DEF Half
    <3>4. CASE c.what \in {"update", "patch"}
      <4>1. d.of = c.of /\ Agrees(c.of) /\ rows[c.of] # P!Absent /\ now = [key |-> rows[c.of].key, val |-> c.id]
        BY <1>1, <2>1, <2>4, <3>4
      <4>2. rows[c.of].key \in Keys
        BY <1>1, <1>3, <4>1, PanelRecsAre
      <4>3. now # P!Absent /\ now.val = c.id /\ now.key = rows[c.of].key
        BY <1>1, <4>1, <4>2, PanelRecsAre
      <4> QED
        BY <3>1, <3>4, <4>1, <4>3 DEF Half, Agrees
    <3> QED
      BY <1>1, <3>2, <3>3, <3>4
  <2> QED
    BY <2>2, <2>3, <2>4
<1> QED
  BY <1>4, <1>5, <1>6, <1>7, <1>11, <1>14, <1>15 DEF PanelInv

-----------------------------------------------------------------------------
(* A change ends: it is answered, or its answer is lost.                     *)

LEMMA PanelOnceEnds ==
  ASSUME PanelInv, NEW c \in changes, changes' = changes \ {c}, UNCHANGED <<panel, made>>, form'.n = form.n,
         form'.of \in {form.of, -1}, spent'["faults"] \in Nat, spent["faults"] <= spent'["faults"],
         saving /\ ~saving' => c.form # 0 /\ (panel.form.kind = "page" \/ c.form = form.n \/ form'.of = -1),
         form'.of # -1 /\ ~saving' => ~saving \/ spent'["faults"] = spent["faults"] + 1 \/ c.stage = "refused"
  PROVE  PanelOnce'
<1> SUFFICES ASSUME panel.form.guarded PROVE PanelOnce'
  BY DEF PanelOnce
<1>1. /\ spent["faults"] \in Nat /\ form.n \in 0..MaxForms /\ MaxForms \in Nat
      /\ \A n \in 1..MaxForms : made[n] \in Nat
      /\ \A x \in changes : x.form \in 0..MaxForms /\ (x.form # 0) = (x.what \in {"create", "update"})
  BY PanelKinds, PanelRowsAre DEF PanelInv, PanelType, PanelAsked
<1>2. /\ \A x, y \in changes : x.form # 0 /\ (x.form = y.form \/ (y.form # 0 /\ panel.form.kind = "page")) => x = y
      /\ \A x \in changes : x.form # 0 /\ (panel.form.kind = "page" \/ (x.form = form.n /\ form.of # -1)) => saving
  BY DEF PanelInv, PanelOnce
<1>3. /\ \A n \in 1..MaxForms : made[n] <= 1 + spent["faults"] /\ (n > form.n => made[n] = 0)
      /\ \A x \in changes : x.what = "create" /\ x.stage = "sent" => made[x.form] <= spent["faults"]
      /\ \A x \in changes : x.what = "update" => made[x.form] = 0
      /\ form.of # -1 /\ ~saving => made[form.n] <= spent["faults"]
      /\ form.of \in Rows => made[form.n] = 0 /\ \A x \in changes : x.what = "create" => x.form # form.n
      /\ \A x \in changes : x.form \notin {0, form.n} /\ panel.form.kind = "page" => made[form.n] = 0
  BY DEF PanelInv, PanelOnce
<1>4. form.of # -1 => form.n \in 1..MaxForms
  BY <1>1 DEF PanelInv, PanelNumbers
<1>5. ASSUME NEW x \in changes', x.form # 0, panel.form.kind = "page" \/ (x.form = form'.n /\ form'.of # -1)
      PROVE  saving'
  <2>1. saving /\ x \in changes /\ x # c
    BY <1>2, <1>5
  <2> SUFFICES ASSUME ~saving' PROVE FALSE
    OBVIOUS
  <2>2. c.form # 0 /\ (panel.form.kind = "page" \/ c.form = form.n \/ form'.of = -1)
    BY <2>1
  <2> QED
    BY <1>2, <1>5, <2>1, <2>2
<1>6. ASSUME form'.of # -1, ~saving' PROVE made'[form'.n] <= spent'["faults"]
  <2>1. form.of # -1 /\ form.n \in 1..MaxForms /\ made[form.n] \in Nat /\ made[form.n] <= 1 + spent["faults"]
    BY <1>1, <1>3, <1>4, <1>6
  <2>2. CASE ~saving \/ spent'["faults"] = spent["faults"] + 1
    BY <1>1, <1>3, <1>6, <2>1, <2>2
  <2>3. CASE saving /\ c.stage = "refused"
    <3>1. c.form # 0 /\ (panel.form.kind = "page" \/ c.form = form.n)
      BY <1>6, <2>3
    <3>2. c.what = "update"
      BY <1>1, <2>3, <3>1 DEF PanelInv, PanelAsked
    <3>3. made[form.n] = 0
      BY <1>3, <3>1, <3>2
    <3> QED
      BY <2>1, <3>3
  <2> QED
    BY <1>6, <2>2, <2>3
<1>7. /\ \A n \in 1..MaxForms : made'[n] <= 1 + spent'["faults"] /\ (n > form'.n => made'[n] = 0)
      /\ \A x \in changes' : x.what = "create" /\ x.stage = "sent" => made'[x.form] <= spent'["faults"]
  <2>1. \A n \in 1..MaxForms : made'[n] <= 1 + spent'["faults"] /\ (n > form'.n => made'[n] = 0)
    BY <1>1, <1>3
  <2>2. ASSUME NEW x \in changes', x.what = "create", x.stage = "sent" PROVE made'[x.form] <= spent'["faults"]
    <3>1. x.form \in 1..MaxForms /\ made[x.form] \in Nat /\ made[x.form] <= spent["faults"]
      BY <1>1, <1>3, <2>2
    <3> QED
      BY <1>1, <3>1
  <2> QED
    BY <2>1, <2>2
<1>8. /\ \A x \in changes' : x.what = "update" => made'[x.form] = 0
      /\ form'.of \in Rows => made'[form'.n] = 0 /\ \A x \in changes' : x.what = "create" => x.form # form'.n
      /\ \A x \in changes' : x.form \notin {0, form'.n} /\ panel'.form.kind = "page" => made'[form'.n] = 0
  <2>1. -1 \notin Rows
    BY PanelRowsAre
  <2> QED
    BY <1>3, <2>1
<1>9. \A x, y \in changes' : x.form # 0 /\ (x.form = y.form \/ (y.form # 0 /\ panel'.form.kind = "page")) => x = y
  BY <1>2
<1> QED
  BY <1>5, <1>6, <1>7, <1>8, <1>9 DEF PanelOnce

\* Without a new read: the rows but that of the change stay as they are shown.
LEMMA PanelEnds ==
  ASSUME PanelInv, NEW c \in changes, changes' = changes \ {c}, UNCHANGED <<panel, rows, key, reads>>,
         spent'["reads"] = spent["reads"], Unraced' => Unraced,
         \A i \in Rows : i # c.of \/ c.stage # "ok" => shown'[i] = shown[i], gone => gone',
         Unraced' /\ c.stage = "ok" => Agrees(c.of)'
  PROVE  PanelAlone' /\ PanelFollows'
<1>1. Unraced' =>
        /\ reads = {} /\ \A x, y \in changes : x.of = y.of /\ x.of # 0 => x = y
        /\ \A i \in Rows : (\A x \in changes : x.stage = "ok" => x.of # i) => Agrees(i)
        /\ \A x \in changes : x.stage = "ok" => Half(x) /\ x.of \in Rows /\ x.of # 0
  <2> SUFFICES ASSUME Unraced' PROVE
        /\ reads = {} /\ \A x, y \in changes : x.of = y.of /\ x.of # 0 => x = y
        /\ \A i \in Rows : (\A x \in changes : x.stage = "ok" => x.of # i) => Agrees(i)
        /\ \A x \in changes : x.stage = "ok" => Half(x) /\ x.of \in Rows /\ x.of # 0
    OBVIOUS
  <2>1. Unraced /\ reads = {}
    BY DEF PanelInv, PanelAlone
  <2>2. \A x \in changes : x.stage = "ok" => x.of \in Rows /\ x.of # 0
    BY PanelKinds, PanelRowsAre DEF PanelInv, PanelAsked
  <2> QED
    BY <2>1, <2>2 DEF PanelInv, PanelAlone, PanelFollows
<1>2. PanelAlone'
  BY <1>1 DEF PanelAlone
<1>3. PanelFollows'
  <2> SUFFICES ASSUME Unraced'
               PROVE  /\ \A i \in Rows : (\A x \in changes' : x.stage = "ok" => x.of # i) => Agrees(i)'
                      /\ \A x \in changes' : x.stage = "ok" => Half(x)'
    BY DEF PanelFollows
  <2>1. ASSUME NEW i \in Rows, \A x \in changes' : x.stage = "ok" => x.of # i PROVE Agrees(i)'
    <3>1. CASE c.stage = "ok" /\ i = c.of
      BY <3>1
    <3>2. CASE c.stage # "ok" \/ i # c.of
      <4>1. Agrees(i) /\ shown'[i] = shown[i]
        BY <1>1, <2>1, <3>2
      <4> QED
        BY <4>1 DEF Agrees
    <3> QED
      BY <3>1, <3>2
  <2>2. ASSUME NEW x \in changes', x.stage = "ok" PROVE Half(x)'
    <3>1. Half(x) /\ x.of \in Rows /\ x.of # c.of
      BY <1>1, <2>2
    <3>2. shown'[x.of] = shown[x.of]
      BY <3>1
    <3> QED
      BY <3>1, <3>2 DEF Half
  <2> QED
    BY <2>1, <2>2
<1> QED
  BY <1>2, <1>3

USE DEF P!Closed, P!New

LEMMA PanelStays == ASSUME PanelInv, UNCHANGED P!panelVars PROVE PanelInv'
<1>1. PanelType' /\ PanelNumbers' /\ PanelAsked'
  BY DEF PanelInv, PanelType, PanelNumbers, PanelAsked, P!panelVars
<1>2. PanelOnce'
  BY DEF PanelInv, PanelOnce, P!panelVars
<1>3. PanelBorn' /\ PanelAlone' /\ PanelFollows'
  BY PanelQuiet DEF P!panelVars
<1> QED
  BY <1>1, <1>2, <1>3 DEF PanelInv

LEMMA PanelPick == ASSUME PanelInv, NEW k \in Keys, P!Pick(k) PROVE PanelInv'
  BY PanelReads1 DEF P!Pick

LEMMA PanelPoll == ASSUME PanelInv, P!Poll PROVE PanelInv'
<1>1. /\ P!Read(key, changes) /\ reading \in BOOLEAN
      /\ UNCHANGED <<panel, rows, key, shown, reading, broken, form, saving, changes, made, gone>>
  BY DEF P!Poll, PanelInv, PanelType
<1>2. PICK k \in Keys : k = key
  BY DEF PanelInv, PanelType
<1>3. P!Read(k, changes) /\ key' = k /\ reading' \in BOOLEAN
      /\ UNCHANGED <<panel, rows, shown, broken, form, saving, changes, made, gone>>
  BY <1>1, <1>2
<1> QED
  BY <1>3, PanelReads1

LEMMA PanelReadServed == ASSUME PanelInv, NEW r \in reads, P!ReadServed(r) PROVE PanelInv'
<1> DEFINE a == [r EXCEPT !.served = TRUE, !.got = P!Of(rows, r.key)]
<1>1. /\ ~r.served /\ reads' = (reads \ {r}) \cup {a}
      /\ UNCHANGED <<panel, rows, key, shown, reading, broken, form, saving, changes, made, raced, gone, spent>>
  BY DEF P!ReadServed
<1>2. a \in PanelReads /\ a.n = r.n /\ a.key = r.key /\ a.got = P!Of(rows, r.key)
  <2>1. r \in PanelReads /\ r.key \in Keys /\ rows \in [Rows -> PanelRecs]
    BY DEF PanelInv, PanelType, PanelReads
  <2>2. P!Of(rows, r.key) \in [Rows -> PanelRecs]
    BY <2>1, PanelRecsAre DEF P!Of
  <2> QED
    BY <2>1, <2>2 DEF PanelReads
<1> HIDE DEF a
<1>3. \A i \in Rows : a.got[i] # P!Absent => rows[i] # P!Absent
  BY <1>2, PanelOf, PanelKinds DEF PanelInv, PanelType
<1>4. PanelType'
  BY <1>1, <1>2 DEF PanelInv, PanelType
<1>5. PanelNumbers' /\ PanelAsked'
  BY <1>1, <1>2 DEF PanelInv, PanelNumbers, PanelAsked
<1>6. PanelOnce'
  BY <1>1, PanelOnceStays, PanelKinds DEF PanelInv
<1>7. PanelBorn'
  BY <1>1, <1>3 DEF PanelInv, PanelBorn, Born
<1>8. PanelAlone'
  <2> SUFFICES ASSUME Unraced
               PROVE  /\ reads' = {} \/ changes = {}
                      /\ \A q \in reads' : /\ ~panel.list.cancels => q.n = spent["reads"]
                                           /\ q.n = spent["reads"] => q.key = key
                                           /\ q.served => q.got = P!Of(rows, q.key)
                      /\ \A c, d \in changes : c.of = d.of /\ c.of # 0 => c = d
    BY <1>1 DEF PanelAlone, Unraced, P!Of
  <2> QED
    BY <1>1, <1>2 DEF PanelInv, PanelAlone
<1>9. PanelFollows'
  <2> SUFFICES ASSUME Unraced
               PROVE  /\ (\A q \in reads' : q.n # spent["reads"]) =>
                           \A i \in Rows : (\A c \in changes : c.stage = "ok" => c.of # i) => Agrees(i)
                      /\ \A c \in changes : c.stage = "ok" => Half(c)
    BY <1>1 DEF PanelFollows, Unraced, Agrees, Half
  <2>1. (\A q \in reads' : q.n # spent["reads"]) => \A q \in reads : q.n # spent["reads"]
    BY <1>1, <1>2
  <2> QED
    BY <2>1 DEF PanelInv, PanelFollows
<1> QED
  BY <1>4, <1>5, <1>6, <1>7, <1>8, <1>9 DEF PanelInv

LEMMA PanelReadAnswered == ASSUME PanelInv, NEW r \in reads, P!ReadAnswered(r) PROVE PanelInv'
<1>1. /\ r.served /\ ~gone /\ reads' = reads \ {r}
      /\ UNCHANGED <<panel, rows, key, form, saving, changes, made, raced, gone, spent>>
      /\ shown' = IF P!Heeded(r) THEN r.got ELSE shown
      /\ reading' \in BOOLEAN /\ broken' \in BOOLEAN
  BY DEF P!ReadAnswered, PanelInv, PanelType
<1>2. r.got \in [Rows -> PanelRecs] /\ r.key \in Keys
  BY PanelKinds DEF PanelInv
<1>3. PanelType'
  BY <1>1, <1>2 DEF PanelInv, PanelType
<1>4. PanelNumbers' /\ PanelAsked'
  BY <1>1 DEF PanelInv, PanelNumbers, PanelAsked
<1>5. PanelOnce'
  BY <1>1, PanelOnceStays, PanelKinds DEF PanelInv
<1>6. PanelBorn'
  BY <1>1 DEF PanelInv, PanelBorn, Born
<1>7. PanelAlone'
  BY <1>1 DEF PanelInv, PanelAlone, Unraced, P!Of
<1>8. PanelFollows'
  <2> SUFFICES ASSUME Unraced, \A q \in reads \ {r} : q.n # spent["reads"], NEW i \in Rows
               PROVE  Agrees(i)'
    <3>1. Unraced => changes = {}
      BY DEF PanelInv, PanelAlone
    <3> QED
      BY <1>1, <3>1 DEF PanelFollows, Unraced
  <2>1. changes = {} /\ (r.n = spent["reads"] => r.key = key) /\ r.got = P!Of(rows, r.key)
        /\ (~panel.list.cancels => r.n = spent["reads"])
    BY <1>1 DEF PanelInv, PanelAlone
  <2>2. CASE r.n = spent["reads"]
    <3>1. P!Heeded(r)
      BY <2>2 DEF P!Heeded, P!Newest
    <3>2. shown' = P!Of(rows, key)
      BY <1>1, <2>1, <2>2, <3>1
    <3>3. shown'[i] = IF rows[i].key = key THEN rows[i] ELSE P!Absent
      BY <3>2, PanelOf DEF PanelInv, PanelType
    <3> QED
      BY <1>1, <3>3 DEF Agrees
  <2>3. CASE r.n # spent["reads"]
    <3>1. ~P!Heeded(r)
      BY <2>1, <2>3 DEF P!Heeded, P!Newest
    <3>2. shown' = shown /\ \A q \in reads : q.n # spent["reads"]
      BY <1>1, <2>3, <3>1
    <3>3. Agrees(i)
      BY <2>1, <3>2 DEF PanelInv, PanelFollows
    <3> QED
      BY <1>1, <3>2, <3>3 DEF Agrees
  <2> QED
    BY <2>2, <2>3
<1> QED
  BY <1>3, <1>4, <1>5, <1>6, <1>7, <1>8 DEF PanelInv

LEMMA PanelReadFailed == ASSUME PanelInv, NEW r \in reads, P!ReadFailed(r) PROVE PanelInv'
<1>1. /\ reads' = reads \ {r} /\ P!Pay("faults") /\ UNCHANGED <<panel, rows, key, form, saving, changes, made, raced, gone>>
      /\ shown' = shown \/ shown' = P!NotYet
  BY DEF P!ReadFailed
<1>2. reading' \in BOOLEAN /\ broken' \in BOOLEAN
  <2>1. CASE P!Heeded(r)
    <3>1. reading' = FALSE /\ broken' = (panel.list.onError \in {"replace", "latch"})
      BY <2>1, Zenon DEF P!ReadFailed
    <3>2. (panel.list.onError \in {"replace", "latch"}) \in BOOLEAN
      OBVIOUS
    <3> QED
      BY <3>1, <3>2
  <2>2. CASE ~P!Heeded(r)
    BY <2>2 DEF P!ReadFailed, PanelInv, PanelType
  <2> QED
    BY <2>1, <2>2
<1>3. /\ spent' \in PanelSpent /\ spent'["faults"] = spent["faults"] + 1 /\ spent["faults"] \in Nat
      /\ spent'["reads"] = spent["reads"] /\ spent'["forms"] = spent["forms"] /\ spent'["changes"] = spent["changes"]
  BY <1>1, PanelPaid, PanelKinds DEF PanelInv
<1>4. PanelType'
  BY <1>1, <1>2, <1>3, PanelRecsAre DEF PanelInv, PanelType
<1>5. PanelNumbers' /\ PanelAsked'
  BY <1>1, <1>3 DEF PanelInv, PanelNumbers, PanelAsked
<1>6. PanelOnce'
  BY <1>1, <1>3, PanelOnceStays
<1>7. PanelBorn'
  BY <1>1, <1>3, PanelRecsAre DEF PanelInv, PanelBorn, Born
<1>8. PanelAlone' /\ PanelFollows'
  BY <1>3 DEF PanelAlone, PanelFollows, Unraced
<1> QED
  BY <1>4, <1>5, <1>6, <1>7, <1>8 DEF PanelInv

LEMMA PanelOpen == ASSUME PanelInv, NEW of \in {P!New} \cup Rows, P!Open(of) PROVE PanelInv'
<1>1. /\ P!Pay("forms") /\ spent["forms"] < MaxForms /\ form' = [of |-> of, n |-> spent["forms"] + 1]
      /\ of \in Rows => "old" \in panel.form.opens /\ shown[of] # P!Absent
      /\ UNCHANGED <<panel, rows, key, shown, reading, broken, reads, changes, made, raced, gone>>
  BY PanelRowsAre DEF P!Open, P!Within
<1>2. saving' \in BOOLEAN /\ (saving' = TRUE => panel.form.kind = "page" /\ saving)
      /\ (panel.form.kind = "page" /\ saving => saving' = TRUE)
  <2>1. saving' = (panel.form.kind = "page" /\ saving)
    BY DEF P!Open
  <2>2. CASE panel.form.kind = "page" /\ saving
    BY <2>1, <2>2
  <2>3. CASE ~(panel.form.kind = "page" /\ saving)
    BY <2>1, <2>3
  <2> QED
    BY <2>2, <2>3
<1>3. /\ spent' \in PanelSpent /\ spent'["forms"] = spent["forms"] + 1 /\ spent'["reads"] = spent["reads"]
      /\ spent'["changes"] = spent["changes"] /\ spent'["faults"] = spent["faults"] /\ spent["faults"] \in Nat
  BY <1>1, PanelPaid, PanelKinds DEF PanelInv
<1>4. /\ form'.of = of /\ form'.n = form.n + 1 /\ form.n \in Nat /\ form'.n \in 1..MaxForms /\ form' \in PanelForms
  BY <1>1, PanelKinds, PanelRowsAre DEF PanelInv, PanelNumbers, PanelForms
<1>5. PanelType'
  BY <1>1, <1>2, <1>3, <1>4 DEF PanelInv, PanelType
<1>6. \A c \in changes : c.form \in Nat /\ c.form <= form.n
  BY PanelKinds DEF PanelInv, PanelNumbers
<1>7. PanelNumbers'
  BY <1>1, <1>3, <1>4, <1>6 DEF PanelInv, PanelNumbers
<1>8. PanelAsked'
  BY <1>1, <1>4 DEF PanelInv, PanelAsked
<1>9. PanelOnce'
  <2> SUFFICES ASSUME panel.form.guarded PROVE PanelOnce'
    BY <1>1 DEF PanelOnce
  <2>1. made[form'.n] = 0 /\ \A c \in changes : c.form # form'.n
    BY <1>4, <1>6 DEF PanelInv, PanelOnce
  <2>2. \A c \in changes : c.form # 0 /\ (panel.form.kind = "page" \/ (c.form = form'.n /\ form'.of # -1)) => saving' = TRUE
    BY <1>2, <2>1 DEF PanelInv, PanelOnce
  <2>3. \A n \in 1..MaxForms : made[n] <= 1 + spent["faults"] /\ (n > form'.n => made[n] = 0)
    BY <1>4 DEF PanelInv, PanelOnce
  <2> QED
    BY <1>1, <1>3, <2>1, <2>2, <2>3 DEF PanelInv, PanelOnce
<1>10. PanelBorn' /\ PanelAlone' /\ PanelFollows'
  BY <1>1, <1>3, <1>4, PanelQuiet
<1> QED
  BY <1>5, <1>7, <1>8, <1>9, <1>10 DEF PanelInv

LEMMA PanelDismiss == ASSUME PanelInv, P!Dismiss PROVE PanelInv'
<1>1. /\ form' = [form EXCEPT !.of = -1]
      /\ UNCHANGED <<panel, rows, key, shown, reading, broken, reads, changes, made, raced, gone, spent>>
  BY DEF P!Dismiss
<1>2. saving' \in BOOLEAN /\ (panel.form.kind = "page" /\ saving => saving' = TRUE)
  <2>1. saving' = (panel.form.kind = "page" /\ saving)
    BY DEF P!Dismiss
  <2>2. CASE panel.form.kind = "page" /\ saving
    BY <2>1, <2>2
  <2>3. CASE ~(panel.form.kind = "page" /\ saving)
    BY <2>1, <2>3
  <2> QED
    BY <2>2, <2>3
<1>3. form'.of = -1 /\ form'.n = form.n /\ form' \in PanelForms /\ -1 \notin Rows
  BY <1>1, PanelRowsAre DEF PanelInv, PanelType, PanelForms
<1>4. PanelType'
  BY <1>1, <1>2, <1>3 DEF PanelInv, PanelType
<1>5. PanelNumbers' /\ PanelAsked'
  BY <1>1, <1>3 DEF PanelInv, PanelNumbers, PanelAsked
<1>6. PanelOnce'
  <2> SUFFICES ASSUME panel.form.guarded PROVE PanelOnce'
    BY <1>1 DEF PanelOnce
  <2>1. \A c \in changes : c.form # 0 /\ panel.form.kind = "page" => saving' = TRUE
    BY <1>2 DEF PanelInv, PanelOnce
  <2> QED
    BY <1>1, <1>3, <2>1 DEF PanelInv, PanelOnce
<1>7. PanelBorn' /\ PanelAlone' /\ PanelFollows'
  BY <1>1, <1>3, PanelQuiet
<1> QED
  BY <1>4, <1>5, <1>6, <1>7 DEF PanelInv

LEMMA PanelSubmit == ASSUME PanelInv, P!Submit PROVE PanelInv'
<1>1. PICK what, of, n : of = form.of /\ n = form.n /\ what = IF form.of = 0 THEN "create" ELSE "update"
  OBVIOUS
<1>2. /\ form.of # -1 /\ (saving => ~panel.form.guarded) /\ saving' = TRUE /\ P!Ask(what, of, n)
      /\ UNCHANGED <<panel, rows, key, shown, reading, broken, reads, form, made, gone>>
  <2>1. /\ form.of # -1 /\ (saving => ~panel.form.guarded) /\ saving' = TRUE
        /\ UNCHANGED <<panel, rows, key, shown, reading, broken, reads, form, made, gone>>
    BY DEF P!Submit
  <2>2. P!Ask(what, of, n)
    BY <1>1 DEF P!Submit, P!Ask
  <2> QED
    BY <2>1, <2>2
<1>3. /\ of \in {0} \cup Rows /\ n \in 0..form.n /\ n \in 1..MaxForms /\ n # 0 /\ 0 \notin Rows
      /\ what \in {"create", "update"} /\ (what = "create") = (of = 0)
      /\ of \in Rows => Born(of) /\ "old" \in panel.form.opens
  <2>1. of \in {0} \cup Rows /\ n \in 1..MaxForms /\ 0 \notin Rows
    BY <1>1, <1>2, PanelKinds, PanelRowsAre DEF PanelInv, PanelNumbers
  <2>2. of \in Rows => Born(of) /\ "old" \in panel.form.opens
    BY <1>1 DEF PanelInv, PanelAsked, PanelBorn
  <2>3. what \in {"create", "update"} /\ (what = "create") = (of = 0)
    BY <1>1
  <2> QED
    BY <1>1, <2>1, <2>2, <2>3
<1>4. /\ changes' \subseteq PanelAsks /\ spent' \in PanelSpent /\ spent'["changes"] <= MaxChanges /\ raced' \in BOOLEAN
      /\ PanelNumbers' /\ PanelAsked' /\ PanelBorn' /\ PanelAlone' /\ PanelFollows'
      /\ spent'["faults"] = spent["faults"]
      /\ \E a : changes' = changes \cup {a} /\ a.form = n /\ a.what = what /\ a.stage = "sent"
  <2>1. /\ what \in {"create", "update", "patch", "remove"} /\ (n # 0) = (what \in {"create", "update"})
        /\ what # "patch" /\ what # "remove" /\ (what = "update" => of \in Rows)
    BY <1>3
  <2>2. what = "update" => "old" \in panel.form.opens
    BY <1>3, <2>1
  <2> QED
    BY <1>2, <1>3, <2>1, <2>2, PanelAsks1
<1>5. PICK a : changes' = changes \cup {a} /\ a.form = n /\ a.what = what /\ a.stage = "sent"
  BY <1>4
<1>6. PanelType'
  BY <1>2, <1>4 DEF PanelInv, PanelType
<1>7. PanelOnce'
  <2> SUFFICES ASSUME panel.form.guarded PROVE PanelOnce'
    BY <1>2 DEF PanelOnce
  <2>1. ~saving /\ made[form.n] <= spent["faults"]
    BY <1>2 DEF PanelInv, PanelOnce
  <2>2. \A c \in changes : c.form # form.n /\ (panel.form.kind = "page" => c.form = 0)
    BY <1>1, <1>2, <1>3, <2>1 DEF PanelInv, PanelOnce
  <2>3. \A c, d \in changes' : c.form # 0 /\ (c.form = d.form \/ (d.form # 0 /\ panel.form.kind = "page")) => c = d
    BY <1>1, <1>5, <2>2 DEF PanelInv, PanelOnce
  <2>4. what = "update" => made[form.n] = 0
    BY <1>1, <1>3 DEF PanelInv, PanelOnce
  <2>5. \A c \in changes' : /\ c.what = "create" /\ c.stage = "sent" => made[c.form] <= spent["faults"]
                            /\ c.what = "update" => made[c.form] = 0
                            /\ c.form \notin {0, form.n} /\ panel.form.kind = "page" => made[form.n] = 0
    BY <1>1, <1>5, <2>1, <2>4 DEF PanelInv, PanelOnce
  <2>6. form.of \in Rows => made[form.n] = 0 /\ \A c \in changes' : c.what = "create" => c.form # form.n
    BY <1>1, <1>3, <1>5 DEF PanelInv, PanelOnce
  <2>7. \A m \in 1..MaxForms : made[m] <= 1 + spent["faults"] /\ (m > form.n => made[m] = 0)
    BY DEF PanelInv, PanelOnce
  <2> QED
    BY <1>2, <1>4, <2>3, <2>5, <2>6, <2>7 DEF PanelOnce
<1> QED
  BY <1>4, <1>6, <1>7 DEF PanelInv

LEMMA PanelPatch == ASSUME PanelInv, NEW i \in Rows, P!Patch(i) PROVE PanelInv'
<1>1. /\ panel.list.patches # "none" /\ shown[i] # P!Absent /\ P!Ask("patch", i, 0)
      /\ UNCHANGED <<panel, rows, key, shown, reading, broken, reads, form, saving, made, gone>>
  BY DEF P!Patch
<1>2. i # 0 /\ 0 \in 0..form.n /\ i \in {0} \cup Rows /\ Born(i)
  BY <1>1, PanelKinds, PanelRowsAre DEF PanelInv, PanelBorn
<1>3. /\ changes' \subseteq PanelAsks /\ spent' \in PanelSpent /\ spent'["changes"] <= MaxChanges /\ raced' \in BOOLEAN
      /\ PanelNumbers' /\ PanelAsked' /\ PanelBorn' /\ PanelAlone' /\ PanelFollows'
      /\ spent'["faults"] = spent["faults"]
      /\ \E a : changes' = changes \cup {a} /\ a.form = 0 /\ a.what = "patch" /\ a.stage = "sent"
  BY <1>1, <1>2, PanelAsks1
<1>4. PanelType'
  BY <1>1, <1>3 DEF PanelInv, PanelType
<1>5. PanelOnce'
  <2>1. PICK a : changes' = changes \cup {a} /\ a.form = 0 /\ a.what = "patch" /\ a.stage = "sent"
    BY <1>3
  <2> QED
    BY <1>1, <1>3, <2>1 DEF PanelInv, PanelOnce
<1> QED
  BY <1>3, <1>4, <1>5 DEF PanelInv

LEMMA PanelRemove == ASSUME PanelInv, NEW i \in Rows, P!Remove(i) PROVE PanelInv'
<1>1. /\ panel.list.removes # "none" /\ shown[i] # P!Absent /\ P!Ask("remove", i, 0)
      /\ UNCHANGED <<panel, rows, key, shown, reading, broken, reads, form, saving, made, gone>>
  BY DEF P!Remove
<1>2. i # 0 /\ 0 \in 0..form.n /\ i \in {0} \cup Rows /\ Born(i)
  BY <1>1, PanelKinds, PanelRowsAre DEF PanelInv, PanelBorn
<1>3. /\ changes' \subseteq PanelAsks /\ spent' \in PanelSpent /\ spent'["changes"] <= MaxChanges /\ raced' \in BOOLEAN
      /\ PanelNumbers' /\ PanelAsked' /\ PanelBorn' /\ PanelAlone' /\ PanelFollows'
      /\ spent'["faults"] = spent["faults"]
      /\ \E a : changes' = changes \cup {a} /\ a.form = 0 /\ a.what = "remove" /\ a.stage = "sent"
  BY <1>1, <1>2, PanelAsks1
<1>4. PanelType'
  BY <1>1, <1>3 DEF PanelInv, PanelType
<1>5. PanelOnce'
  <2>1. PICK a : changes' = changes \cup {a} /\ a.form = 0 /\ a.what = "remove" /\ a.stage = "sent"
    BY <1>3
  <2> QED
    BY <1>1, <1>3, <2>1 DEF PanelInv, PanelOnce
<1> QED
  BY <1>3, <1>4, <1>5 DEF PanelInv

LEMMA PanelChangeStored == ASSUME PanelInv, NEW c \in changes, P!ChangeStored(c) PROVE PanelInv'
<1>1. /\ c \in PanelAsks /\ c.stage = "sent" /\ c.of \in {0} \cup Rows /\ c.id \in 1..MaxChanges
      /\ c.what \in {"create", "update", "patch", "remove"} /\ c.form \in 0..MaxForms /\ c.key \in Keys
      /\ Len(Old) + c.id \in Rows /\ P!Cardinality(DOMAIN Old) = Len(Old)
      /\ UNCHANGED <<panel, key, shown, reading, broken, reads, form, saving, raced, gone, spent>>
  <2>1. c \in PanelAsks /\ c.stage = "sent"
        /\ UNCHANGED <<panel, key, shown, reading, broken, reads, form, saving, raced, gone, spent>>
    BY DEF P!ChangeStored, PanelInv, PanelType
  <2>2. c.of \in {0} \cup Rows /\ c.id \in 1..MaxChanges /\ c.form \in 0..MaxForms /\ c.key \in Keys
        /\ c.what \in {"create", "update", "patch", "remove"}
    BY PanelKinds DEF PanelInv
  <2>3. Len(Old) + c.id \in Rows /\ P!Cardinality(DOMAIN Old) = Len(Old)
    BY <2>2, PanelRowsAre
  <2> QED
    BY <2>1, <2>2, <2>3
<1>2. c.what # "create" => c.of \in Rows /\ rows[c.of] \in PanelRecs
  BY DEF PanelInv, PanelAsked, PanelType
<1>3. CASE c.what = "create"
  <2>1. /\ rows' = [rows EXCEPT ![Len(Old) + c.id] = [key |-> c.key, val |-> c.id]]
        /\ changes' = (changes \ {c}) \cup {[c EXCEPT !.stage = "ok", !.of = Len(Old) + c.id]}
        /\ made' = [made EXCEPT ![c.form] = @ + 1]
    BY <1>1, <1>3 DEF P!ChangeStored, P!Stored
  <2>2. PICK d : d = [c EXCEPT !.stage = "ok", !.of = Len(Old) + c.id]
    OBVIOUS
  <2>3. PICK now : now = [key |-> c.key, val |-> c.id]
    OBVIOUS
  <2>4. /\ d \in PanelAsks /\ d.id = c.id /\ d.what = c.what /\ d.form = c.form /\ d.key = c.key /\ d.stage = "ok"
        /\ d.of = Len(Old) + c.id
    BY <1>1, <2>2 DEF PanelAsks
  <2>5. now \in PanelRecs
    BY <1>1, <2>3, PanelRecsAre
  <2>6. rows' = [rows EXCEPT ![d.of] = now] /\ changes' = (changes \ {c}) \cup {d}
    BY <2>1, <2>2, <2>3, <2>4
  <2>7. /\ rows' = IF d.stage = "ok" THEN [rows EXCEPT ![d.of] = now] ELSE rows
        /\ made' = IF c.what = "create" THEN [made EXCEPT ![c.form] = @ + 1] ELSE made
        /\ c.what \notin {"update", "patch", "remove"} /\ d.stage \in {"ok", "refused"}
    BY <1>3, <2>1, <2>4, <2>6
  <2>8. /\ c.stage = "sent"
        /\ UNCHANGED <<panel, key, shown, reading, broken, reads, form, saving, raced, gone, spent>>
    BY <1>1
  <2> QED
    BY <1>3, <2>3, <2>4, <2>5, <2>6, <2>7, <2>8, PanelStored
<1>4. CASE c.what # "create" /\ rows[c.of] = P!Absent
  <2>1. changes' = (changes \ {c}) \cup {[c EXCEPT !.stage = "refused"]} /\ UNCHANGED <<rows, made>>
    BY <1>4 DEF P!ChangeStored
  <2>2. PICK d : d = [c EXCEPT !.stage = "refused"]
    OBVIOUS
  <2>3. /\ d \in PanelAsks /\ d.id = c.id /\ d.what = c.what /\ d.form = c.form /\ d.key = c.key /\ d.stage = "refused"
        /\ d.of = c.of
    BY <1>1, <2>2 DEF PanelAsks
  <2>4. P!Absent \in PanelRecs
    BY PanelRecsAre
  <2> QED
    BY <1>1, <1>4, <2>1, <2>2, <2>3, <2>4, PanelStored
<1>5. CASE c.what # "create" /\ rows[c.of] # P!Absent
  <2>1. PICK now : now = IF c.what = "remove" THEN P!Absent ELSE [rows[c.of] EXCEPT !.val = c.id]
    OBVIOUS
  <2>2. /\ rows' = [rows EXCEPT ![c.of] = now] /\ made' = made
        /\ changes' = (changes \ {c}) \cup {[c EXCEPT !.stage = "ok", !.of = c.of]}
    <3>1. CASE c.what = "remove"
      BY <1>5, <2>1, <3>1 DEF P!ChangeStored, P!Stored
    <3>2. CASE c.what # "remove"
      BY <1>5, <2>1, <3>2 DEF P!ChangeStored, P!Stored
    <3> QED
      BY <3>1, <3>2
  <2>3. PICK d : d = [c EXCEPT !.stage = "ok", !.of = c.of]
    OBVIOUS
  <2>4. /\ d \in PanelAsks /\ d.id = c.id /\ d.what = c.what /\ d.form = c.form /\ d.key = c.key /\ d.stage = "ok"
        /\ d.of = c.of
    BY <1>1, <2>3 DEF PanelAsks
  <2>5. now \in PanelRecs /\ (c.what # "remove" => now = [key |-> rows[c.of].key, val |-> c.id])
    <3>1. CASE c.what = "remove"
      BY <2>1, <3>1, PanelRecsAre
    <3>2. CASE c.what # "remove"
      <4>1. rows[c.of].key \in Keys /\ c.id \in 0..MaxChanges
            /\ rows[c.of] = [key |-> rows[c.of].key, val |-> rows[c.of].val]
        BY <1>1, <1>2, <1>5, PanelRecsAre
      <4>2. now = [key |-> rows[c.of].key, val |-> c.id]
        BY <2>1, <3>2, <4>1
      <4> QED
        BY <4>1, <4>2, PanelRecsAre
    <3> QED
      BY <3>1, <3>2
  <2>6. rows' = [rows EXCEPT ![d.of] = now] /\ changes' = (changes \ {c}) \cup {d}
    BY <2>2, <2>3, <2>4
  <2>7. c.what = "remove" => now = P!Absent
    BY <2>1
  <2>8. CASE c.what = "remove"
    <3>1. /\ rows' = IF d.stage = "ok" THEN [rows EXCEPT ![d.of] = now] ELSE rows
          /\ made' = IF c.what = "create" THEN [made EXCEPT ![c.form] = @ + 1] ELSE made
          /\ c.what \notin {"create", "update", "patch"} /\ d.stage \in {"ok", "refused"}
      BY <2>2, <2>4, <2>6, <2>8
    <3>2. /\ c.stage = "sent"
          /\ UNCHANGED <<panel, key, shown, reading, broken, reads, form, saving, raced, gone, spent>>
      BY <1>1
    <3> QED
      BY <2>4, <2>5, <2>6, <2>7, <2>8, <3>1, <3>2, PanelStored
  <2>9. CASE c.what # "remove"
    <3>1. c.what \in {"update", "patch"} /\ now = [key |-> rows[c.of].key, val |-> c.id]
      BY <1>1, <1>5, <2>5, <2>9
    <3>2. /\ rows' = IF d.stage = "ok" THEN [rows EXCEPT ![d.of] = now] ELSE rows
          /\ made' = IF c.what = "create" THEN [made EXCEPT ![c.form] = @ + 1] ELSE made
          /\ c.what \notin {"create", "remove"} /\ d.stage \in {"ok", "refused"}
      BY <2>2, <2>4, <2>6, <3>1
    <3>3. /\ c.stage = "sent" /\ rows[c.of] # P!Absent
          /\ UNCHANGED <<panel, key, shown, reading, broken, reads, form, saving, raced, gone, spent>>
      BY <1>1, <1>5
    <3> QED
      BY <2>4, <2>5, <2>6, <3>1, <3>2, <3>3, PanelStored
  <2> QED
    BY <2>8, <2>9
<1> QED
  BY <1>3, <1>4, <1>5

LEMMA PanelChangeAnswered ==
  ASSUME PanelInv, NEW c \in changes, P!ChangeAnswered(c)
  PROVE  PanelInv'
<1>1. /\ c.stage = "ok" /\ ~gone /\ changes' = changes \ {c} /\ UNCHANGED <<panel, rows, key, broken, made>>
      /\ form' = IF c.form # 0 THEN [form EXCEPT !.of = -1] ELSE form
  BY DEF P!ChangeAnswered, P!IsForm
<1>2. (saving' = (saving /\ c.form = 0)) /\ saving' \in BOOLEAN
  <2>1. saving' = (saving /\ ~(c.form # 0))
    BY Zenon DEF P!ChangeAnswered, P!IsForm
  <2> QED
    BY <2>1
<1>3. /\ c.of \in Rows /\ c.of # 0 /\ Born(c.of) /\ c.key \in Keys /\ c.id \in 0..MaxChanges
      /\ c.what \in {"create", "update", "patch", "remove"} /\ spent["faults"] \in Nat /\ 0 \notin Rows /\ -1 \notin Rows
  <2>1. /\ c.key \in Keys /\ c.id \in 1..MaxChanges /\ c.what \in {"create", "update", "patch", "remove"}
        /\ spent["faults"] \in Nat
    BY PanelKinds DEF PanelInv
  <2>2. Len(Old) + c.id \in Rows /\ 0 \notin Rows /\ -1 \notin Rows /\ MaxChanges \in Nat
    <3>1. Rows \subseteq Nat \ {0} /\ MaxChanges \in Nat /\ Len(Old) + c.id \in Rows
      BY <2>1, PanelRowsAre
    <3>2. 0 \notin Nat \ {0} /\ -1 \notin Nat \ {0}
      OBVIOUS
    <3> QED
      BY <3>1, <3>2
  <2>3. c.of \in Rows
    <3>1. /\ c.what = "create" => c.of = IF c.stage = "sent" THEN 0 ELSE Len(Old) + c.id
          /\ c.what # "create" => c.of \in Rows
      BY DEF PanelInv, PanelAsked
    <3> QED
      BY <1>1, <2>2, <3>1
  <2>4. Born(c.of)
    BY <2>3 DEF PanelInv, PanelBorn
  <2> QED
    BY <2>1, <2>2, <2>3, <2>4
<1>4. /\ form' \in PanelForms /\ form'.n = form.n /\ form'.of \in {form.of, -1} /\ (c.form # 0 => form'.of = -1)
  BY <1>1 DEF PanelInv, PanelType, PanelForms
<1>5. /\ c.what \in {"create", "update"} => P!Listing(c) = panel.form.ok
      /\ c.what = "patch" => P!Listing(c) = panel.list.patches
      /\ c.what = "remove" => P!Listing(c) = panel.list.removes
  BY DEF P!Listing
<1>6. /\ P!Listing(c) \in {"add", "drop", "reload", "always", "leave"}
      /\ P!Listing(c) = "add" => c.what # "remove"
      /\ P!Listing(c) = "drop" => c.what = "remove"
      /\ P!Listing(c) = "leave" => c.what = "create"
  <2>1. /\ panel.list.patches \in {"none", "add", "always"} /\ panel.list.removes \in {"none", "drop", "reload", "always"}
        /\ panel.form.ok \in {"add", "reload", "leave"} /\ (panel.form.ok = "leave" => "old" \notin panel.form.opens)
    BY PanelRules DEF PanelInv
  <2>2. /\ c.what = "update" => "old" \in panel.form.opens
        /\ c.what = "patch" => panel.list.patches # "none"
        /\ c.what = "remove" => panel.list.removes # "none"
    BY DEF PanelInv, PanelAsked
  <2> QED
    BY <1>3, <1>5, <2>1, <2>2
<1>7. PanelAsked'
  BY <1>1, <1>3, <1>4 DEF PanelInv, PanelAsked
<1>10. /\ saving /\ ~saving' => c.form # 0 /\ (panel.form.kind = "page" \/ c.form = form.n \/ form'.of = -1)
      /\ form'.of # -1 /\ ~saving' => ~saving \/ spent'["faults"] = spent["faults"] + 1 \/ c.stage = "refused"
  <2>1. /\ saving /\ ~saving' => c.form # 0
        /\ c.form = 0 /\ ~saving' => ~saving
    BY <1>2, Zenon
  <2> QED
    BY <1>4, <2>1
<1>8. CASE P!Listing(c) \in {"reload", "always"}
  <2>1. P!Read(key, changes \ {c}) /\ reading' = TRUE /\ UNCHANGED <<shown, gone>>
    BY <1>8 DEF P!ChangeAnswered
  <2>2. /\ reads' = reads \cup {[n |-> spent["reads"] + 1, key |-> key, served |-> FALSE, got |-> P!NotYet]}
        /\ P!Pay("reads")
    BY <2>1 DEF P!Read
  <2>3. raced' = (raced \/ changes' # {} \/ (reads # {} /\ ~panel.list.cancels))
    <3>1. raced' = (raced \/ changes \ {c} # {} \/ (reads # {} /\ ~panel.list.cancels))
      BY <2>1, Zenon DEF P!Read
    <3> QED
      BY <1>1, <3>1, Zenon
  <2>4. /\ spent' \in PanelSpent /\ spent'["reads"] = spent["reads"] + 1 /\ spent'["forms"] = spent["forms"]
        /\ spent'["changes"] = spent["changes"] /\ spent'["faults"] = spent["faults"]
    BY <2>2, PanelPaid DEF PanelInv
  <2>5. PICK k \in Keys : k = key
    BY DEF PanelInv, PanelType
  <2>6. /\ reads' \subseteq PanelReads /\ raced' \in BOOLEAN
        /\ \A r \in reads' : r.n <= spent'["reads"] /\ \A q \in reads' : q.n = r.n => q = r
        /\ \A r \in reads' : r \in reads \/ \A i \in Rows : r.got[i] = P!Absent
        /\ PanelAlone' /\ PanelFollows'
    BY <1>1, <1>3, <2>2, <2>3, <2>4, <2>5, PanelReadStarts
  <2>7. PanelType'
    BY <1>1, <1>2, <1>4, <2>1, <2>4, <2>6 DEF PanelInv, PanelType
  <2>8. PanelNumbers'
    BY <1>1, <1>4, <2>4, <2>6 DEF PanelInv, PanelNumbers
  <2>9. PanelOnce'
    <3>1. spent'["faults"] \in Nat /\ spent["faults"] <= spent'["faults"]
      BY <1>3, <2>4
    <3> QED
      BY <1>1, <1>2, <1>4, <1>10, <3>1, PanelOnceEnds
  <2>10. PanelBorn'
    <3>1. \A i \in Rows : Born(i) => Born(i)'
      BY <1>1, <2>4, PanelStillBorn, PanelKinds DEF PanelInv
    <3> QED
      BY <1>1, <1>3, <1>4, <2>1, <2>6, <3>1 DEF PanelInv, PanelBorn
  <2> QED
    BY <1>7, <2>6, <2>7, <2>8, <2>9, <2>10 DEF PanelInv
<1>9. CASE P!Listing(c) \in {"add", "drop", "leave"}
  <2>1. UNCHANGED <<reading, reads, raced, spent>>
    BY <1>9 DEF P!ChangeAnswered
  <2>2. /\ shown' \in [Rows -> PanelRecs] /\ gone' \in BOOLEAN
        /\ \A i \in Rows : i # c.of => shown'[i] = shown[i]
        /\ Unraced => Agrees(c.of)'
    <3>1. shown \in [Rows -> PanelRecs] /\ rows[c.of] \in PanelRecs /\ shown[c.of] \in PanelRecs /\ (Unraced => Half(c))
      BY <1>1, <1>3 DEF PanelInv, PanelType, PanelFollows
    <3>2. CASE P!Listing(c) = "add" /\ c.what = "create"
      <4>1. shown' = [shown EXCEPT ![c.of] = [key |-> c.key, val |-> c.id]] /\ gone' = gone
        BY <3>2 DEF P!ChangeAnswered
      <4>2. [key |-> c.key, val |-> c.id] \in PanelRecs
        BY <1>3, PanelRecsAre
      <4>3. Unraced => rows[c.of] = [key |-> c.key, val |-> c.id]
        BY <3>1, <3>2 DEF Half
      <4> QED
        BY <1>1, <1>3, <3>1, <4>1, <4>2, <4>3 DEF Agrees, PanelInv, PanelType
    <3>3. CASE P!Listing(c) = "add" /\ c.what # "create" /\ shown[c.of] = P!Absent
      <4>1. shown' = shown /\ gone' = gone
        BY <3>3 DEF P!ChangeAnswered
      <4>2. Unraced => (rows[c.of].key = key /\ ~gone => shown[c.of] # P!Absent)
        BY <1>3, <1>6, <3>1, <3>3 DEF Half
      <4> QED
        BY <1>1, <3>1, <3>3, <4>1, <4>2 DEF Agrees, PanelInv, PanelType
    <3>4. CASE P!Listing(c) = "add" /\ c.what # "create" /\ shown[c.of] # P!Absent
      <4>1. shown' = [shown EXCEPT ![c.of] = [key |-> shown[c.of].key, val |-> c.id]] /\ gone' = gone
        BY <3>4 DEF P!ChangeAnswered
      <4>2. shown[c.of].key \in Keys /\ [key |-> shown[c.of].key, val |-> c.id] \in PanelRecs
        BY <1>3, <3>1, <3>4, PanelRecsAre
      <4>3. Unraced => rows[c.of] = [key |-> shown[c.of].key, val |-> c.id]
        <5> SUFFICES ASSUME Unraced PROVE rows[c.of] = [key |-> shown[c.of].key, val |-> c.id]
          OBVIOUS
        <5>1. rows[c.of] # P!Absent /\ rows[c.of].val = c.id /\ shown[c.of].key = rows[c.of].key
          BY <1>3, <1>6, <3>1, <3>4 DEF Half
        <5>2. rows[c.of] = [key |-> rows[c.of].key, val |-> rows[c.of].val]
          BY <3>1, <5>1, PanelRecsAre
        <5> QED
          BY <5>1, <5>2
      <4>4. \A i \in Rows : i # c.of => shown'[i] = shown[i]
        BY <4>1
      <4>5. shown'[c.of] = [key |-> shown[c.of].key, val |-> c.id] /\ shown' \in [Rows -> PanelRecs]
        BY <1>3, <3>1, <4>1, <4>2
      <4>6. Unraced => shown'[c.of] = rows'[c.of]
        BY <1>1, <4>3, <4>5
      <4> QED
        BY <4>1, <4>4, <4>5, <4>6 DEF Agrees, PanelInv, PanelType
    <3>5. CASE P!Listing(c) = "drop"
      <4>1. shown' = [shown EXCEPT ![c.of] = P!Absent] /\ gone' = gone /\ c.what = "remove"
        BY <1>6, <3>5 DEF P!ChangeAnswered
      <4>2. P!Absent \in PanelRecs /\ (Unraced => rows[c.of] = P!Absent)
        BY <3>1, <4>1, PanelRecsAre DEF Half
      <4> QED
        BY <1>1, <1>3, <3>1, <4>1, <4>2 DEF Agrees, PanelInv, PanelType
    <3>6. CASE P!Listing(c) = "leave"
      <4>1. shown' = shown /\ gone' = TRUE /\ c.what = "create"
        BY <1>6, <3>6 DEF P!ChangeAnswered
      <4>2. Unraced => shown[c.of] = P!Absent
        BY <3>1, <4>1 DEF Half
      <4> QED
        BY <3>1, <4>1, <4>2 DEF Agrees
    <3> QED
      BY <1>9, <3>2, <3>3, <3>4, <3>5, <3>6
  <2>3. Unraced' = Unraced
    BY <2>1 DEF Unraced
  <2>4. PanelAlone' /\ PanelFollows'
    BY <1>1, <2>1, <2>2, <2>3, PanelEnds
  <2>5. PanelType'
    BY <1>1, <1>2, <1>4, <2>1, <2>2 DEF PanelInv, PanelType
  <2>6. PanelNumbers'
    BY <1>1, <1>4, <2>1 DEF PanelInv, PanelNumbers
  <2>7. PanelOnce'
    <3>1. spent'["faults"] \in Nat /\ spent["faults"] <= spent'["faults"]
      BY <1>3, <2>1
    <3> QED
      BY <1>1, <1>2, <1>4, <1>10, <3>1, PanelOnceEnds
  <2>8. PanelBorn'
    <3>1. \A i \in Rows : Born(i) => Born(i)'
      BY <1>1, <2>1, PanelStillBorn, PanelKinds DEF PanelInv
    <3> QED
      BY <1>1, <1>3, <1>4, <2>1, <2>2, <3>1 DEF PanelInv, PanelBorn
  <2> QED
    BY <1>7, <2>4, <2>5, <2>6, <2>7, <2>8 DEF PanelInv
<1> QED
  BY <1>6, <1>8, <1>9

LEMMA PanelChangeFailed == ASSUME PanelInv, NEW c \in changes, P!ChangeFailed(c) PROVE PanelInv'
<1>1. /\ changes' = changes \ {c} /\ ~gone /\ UNCHANGED <<panel, rows, key, shown, broken, form, made, gone>>
      /\ c.stage = "refused" \/ spent["faults"] < MaxFaults
  BY DEF P!ChangeFailed
<1>2. (saving' = (saving /\ ~(c.form # 0 /\ (panel.form.kind = "page" \/ c.form = form.n)))) /\ saving' \in BOOLEAN
  <2>1. saving' = (saving /\ ~(c.form # 0 /\ (panel.form.kind = "page" \/ c.form = form.n)))
    BY Zenon DEF P!ChangeFailed, P!IsForm
  <2> QED
    BY <2>1
<1>3. PICK cost : cost = IF c.stage = "refused" THEN 0 ELSE 1
  OBVIOUS
<1>4. /\ spent \in PanelSpent /\ spent["faults"] \in Nat /\ spent["reads"] \in Nat /\ cost \in {0, 1}
      /\ (cost = 0) = (c.stage = "refused")
  BY <1>3, PanelKinds DEF PanelInv, PanelType
<1>5. CASE P!Listing(c) = "always"
  <2>1. /\ reads' = reads \cup {[n |-> spent["reads"] + 1, key |-> key, served |-> FALSE, got |-> P!NotYet]}
        /\ reading' = TRUE /\ spent' = [spent EXCEPT !["faults"] = @ + cost, !["reads"] = @ + 1]
    BY <1>3, <1>5 DEF P!ChangeFailed
  <2>2. raced' = (raced \/ changes' # {} \/ (reads # {} /\ ~panel.list.cancels))
    <3>1. raced' = (raced \/ changes # {c} \/ (reads # {} /\ ~panel.list.cancels))
      BY <1>5, Zenon DEF P!ChangeFailed
    <3>2. (changes # {c}) = (changes' # {})
      BY <1>1
    <3> QED
      BY <3>1, <3>2, Zenon
  <2>3. /\ spent' \in PanelSpent /\ spent'["reads"] = spent["reads"] + 1 /\ spent'["forms"] = spent["forms"]
        /\ spent'["changes"] = spent["changes"] /\ spent'["faults"] = spent["faults"] + cost
    BY <1>4, <2>1 DEF PanelSpent
  <2>4. spent'["faults"] \in Nat /\ spent["faults"] <= spent'["faults"]
    BY <1>4, <2>3
  <2>5. PICK k \in Keys : k = key
    BY DEF PanelInv, PanelType
  <2>6. /\ reads' \subseteq PanelReads /\ raced' \in BOOLEAN
        /\ \A r \in reads' : r.n <= spent'["reads"] /\ \A q \in reads' : q.n = r.n => q = r
        /\ \A r \in reads' : r \in reads \/ \A i \in Rows : r.got[i] = P!Absent
        /\ PanelAlone' /\ PanelFollows'
    BY <1>1, <2>1, <2>2, <2>3, <2>4, <2>5, PanelReadStarts
  <2>7. PanelType'
    BY <1>1, <1>2, <2>1, <2>3, <2>6 DEF PanelInv, PanelType
  <2>8. PanelNumbers' /\ PanelAsked'
    BY <1>1, <2>3, <2>6 DEF PanelInv, PanelNumbers, PanelAsked
  <2>9. PanelOnce'
    <3>1. form'.of # -1 /\ ~saving' => ~saving \/ spent'["faults"] = spent["faults"] + 1 \/ c.stage = "refused"
      BY <1>4, <2>3
    <3> QED
      BY <1>1, <1>2, <2>4, <3>1, PanelOnceEnds
  <2>10. PanelBorn'
    <3>1. \A i \in Rows : Born(i) => Born(i)'
      BY <1>1, <2>3, PanelStillBorn, PanelKinds DEF PanelInv
    <3> QED
      BY <1>1, <2>6, <3>1 DEF PanelInv, PanelBorn
  <2> QED
    BY <2>6, <2>7, <2>8, <2>9, <2>10 DEF PanelInv
<1>6. CASE P!Listing(c) # "always"
  <2>1. UNCHANGED <<reads, reading, raced>> /\ spent' = [spent EXCEPT !["faults"] = @ + cost]
    BY <1>3, <1>6 DEF P!ChangeFailed
  <2>2. /\ spent' \in PanelSpent /\ spent'["reads"] = spent["reads"] /\ spent'["forms"] = spent["forms"]
        /\ spent'["changes"] = spent["changes"] /\ spent'["faults"] = spent["faults"] + cost
        /\ spent'["faults"] \in Nat /\ spent["faults"] <= spent'["faults"]
    <3>1. /\ spent' \in PanelSpent /\ spent'["reads"] = spent["reads"] /\ spent'["forms"] = spent["forms"]
          /\ spent'["changes"] = spent["changes"] /\ spent'["faults"] = spent["faults"] + cost
      BY <1>4, <2>1 DEF PanelSpent
    <3> QED
      BY <1>4, <3>1
  <2>3. Unraced' => Unraced /\ c.stage # "ok"
    <3>1. Unraced' => ~raced /\ spent'["faults"] = 0
      BY <2>1 DEF Unraced
    <3>2. spent'["faults"] = 0 => spent["faults"] = 0 /\ cost = 0
      BY <1>4, <2>2
    <3> QED
      BY <1>4, <3>1, <3>2 DEF Unraced
  <2>4. PanelAlone' /\ PanelFollows'
    BY <1>1, <2>1, <2>2, <2>3, PanelEnds
  <2>5. PanelType'
    BY <1>1, <1>2, <2>1, <2>2 DEF PanelInv, PanelType
  <2>6. PanelNumbers' /\ PanelAsked'
    BY <1>1, <2>1, <2>2 DEF PanelInv, PanelNumbers, PanelAsked
  <2>7. PanelOnce'
    <3>1. form'.of # -1 /\ ~saving' => ~saving \/ spent'["faults"] = spent["faults"] + 1 \/ c.stage = "refused"
      BY <1>4, <2>2
    <3> QED
      BY <1>1, <1>2, <2>2, <3>1, PanelOnceEnds
  <2>8. PanelBorn'
    <3>1. \A i \in Rows : Born(i) => Born(i)'
      BY <1>1, <2>2, PanelStillBorn, PanelKinds DEF PanelInv
    <3> QED
      BY <1>1, <2>1, <3>1 DEF PanelInv, PanelBorn
  <2> QED
    BY <2>4, <2>5, <2>6, <2>7, <2>8 DEF PanelInv
<1> QED
  BY <1>5, <1>6

LEMMA PanelStep == PanelInv /\ P!Next => PanelInv'
  BY PanelPick, PanelPoll, PanelReadServed, PanelReadAnswered, PanelReadFailed, PanelOpen,
     PanelDismiss,
     PanelSubmit, PanelPatch, PanelRemove, PanelChangeStored, PanelChangeAnswered, PanelChangeFailed
  DEF P!Next, P!User, P!Answers, P!Faults

LEMMA PanelStart == P!Init => PanelInv
<1> SUFFICES ASSUME P!Init PROVE PanelInv
  OBVIOUS
<1> DEFINE a == [n |-> 0, key |-> Home, served |-> FALSE, got |-> P!NotYet]
<1>1. /\ panel \in Panels /\ key = Home /\ shown = P!NotYet /\ reading = TRUE /\ broken = FALSE /\ reads = {a}
      /\ form = [of |-> -1, n |-> 0] /\ saving = FALSE /\ changes = {} /\ made = [n \in 1..MaxForms |-> 0]
      /\ raced = FALSE /\ gone = FALSE /\ spent = [b \in {"reads", "forms", "changes", "faults"} |-> 0]
      /\ rows = [i \in Rows |-> IF i \in DOMAIN Old THEN [key |-> Old[i], val |-> 0] ELSE P!Absent]
  BY DEF P!Init
<1>2. a.n = 0 /\ a.key = Home /\ a.served = FALSE /\ a.got = P!NotYet /\ a \in PanelReads
  BY PanelAssumed, PanelRecsAre DEF PanelReads
<1> HIDE DEF a
<1>3. spent \in PanelSpent /\ spent["reads"] = 0 /\ spent["forms"] = 0 /\ spent["changes"] = 0 /\ spent["faults"] = 0
  BY <1>1 DEF PanelSpent
<1>4. rows \in [Rows -> PanelRecs] /\ \A i \in Rows : rows[i] # P!Absent => i <= Len(Old)
  <2>1. \A i \in DOMAIN Old : [key |-> Old[i], val |-> 0] \in PanelRecs /\ i <= Len(Old)
    <3>1. Old \in Seq(Keys) /\ MaxChanges \in Nat
      BY PanelAssumed
    <3> QED
      BY <3>1, PanelRecsAre
  <2> QED
    BY <1>1, <2>1, PanelRecsAre
<1>5. PanelType
  <2>1. form \in PanelForms /\ made \in [1..MaxForms -> Nat] /\ 0 <= MaxChanges /\ Home \in Keys
    BY <1>1, PanelAssumed, PanelRowsAre DEF PanelForms
  <2>2. shown \in [Rows -> PanelRecs] /\ reads \subseteq PanelReads
    BY <1>1, <1>2, PanelRecsAre
  <2> QED
    BY <1>1, <1>3, <1>4, <2>1, <2>2 DEF PanelType
<1>6. PanelNumbers
  BY <1>1, <1>2, <1>3 DEF PanelNumbers
<1>7. PanelAsked
  BY <1>1, PanelRowsAre DEF PanelAsked
<1>8. PanelOnce
  BY <1>1, <1>3, PanelRowsAre DEF PanelOnce
<1>9. PanelBorn
  <2> SUFFICES ASSUME NEW i \in Rows, rows[i] # P!Absent PROVE Born(i)
    BY <1>1, <1>2, PanelRecsAre, PanelRowsAre DEF PanelBorn
  <2>1. i <= Len(Old) /\ i \in Nat /\ Len(Old) \in Nat
    BY <1>4, PanelRowsAre
  <2> QED
    BY <2>1 DEF Born
<1>10. PanelAlone
  BY <1>1, <1>2, <1>3 DEF PanelAlone
<1>11. PanelFollows
  BY <1>1, <1>2, <1>3 DEF PanelFollows
<1> QED
  BY <1>5, <1>6, <1>7, <1>8, <1>9, <1>10, <1>11 DEF PanelInv

\* A form creates one record, and a list that no race crossed shows what the
\* server has, for every panel with the rules of the catalogue, any records and
\* any filters (the list pages of frontend/views).
THEOREM PanelsAreKept == ClientSpec => []PanelKeeps
<1>1. ClientInit => (part = "panel" => PanelInv)
  BY PanelStart DEF ClientInit
<1>2. (part = "panel" => PanelInv) /\ [ClientNext]_cells => (part = "panel" => PanelInv)'
  <2> SUFFICES ASSUME part = "panel" => PanelInv, [ClientNext]_cells, part' = "panel"
               PROVE PanelInv'
    OBVIOUS
  <2>1. CASE P!Next /\ part = "panel"
    BY <2>1, PanelStep
  <2>2. CASE UNCHANGED cells
    <3>1. UNCHANGED P!panelVars
      BY <2>2 DEF cells, P!panelVars, panel, rows, key, shown, reading, broken, reads, form,
         saving, changes, made, raced, gone, spent
    <3> QED
      BY <2>2, <3>1, PanelStays DEF cells
  <2> QED
    BY <2>1, <2>2 DEF ClientNext, Kept6, Kept7, Kept9, Kept11, Kept13, Kept14, Kept15
<1>3. (part = "panel" => PanelInv) => PanelKeeps
<2> SUFFICES ASSUME PanelInv PROVE P!TypeOK /\ P!OncePerForm /\ P!ListAgrees
  BY DEF PanelKeeps
<2>1. P!TypeOK
  <3>1. key \in Keys /\ {reading, broken, saving, raced, gone} \subseteq BOOLEAN
    BY DEF PanelInv, PanelType
  <3>2. ASSUME NEW i \in Rows
        PROVE  /\ rows[i] = P!Absent \/ rows[i].key \in Keys
               /\ shown[i] = P!Absent \/ shown[i].key \in Keys
               /\ rows[i].val \in 0..MaxChanges /\ shown[i].val \in 0..MaxChanges
    <4>1. rows[i] \in PanelRecs /\ shown[i] \in PanelRecs
      BY DEF PanelInv, PanelType
    <4> QED
      BY <4>1, PanelRecsAre
  <3>3. /\ form.of \in {-1, 0} \cup Rows /\ form.n \in 0..MaxForms
        /\ \A c \in changes : c.stage \in {"sent", "ok", "refused"} /\ c.form \in 0..MaxForms
    BY PanelKinds DEF PanelInv
  <3>4. \A q, r \in reads : q.n = r.n => q = r
    BY DEF PanelInv, PanelNumbers
  <3> QED
    BY <3>1, <3>2, <3>3, <3>4 DEF P!TypeOK
<2>2. P!OncePerForm
  BY DEF PanelInv, PanelOnce, P!OncePerForm
<2>3. P!ListAgrees
  <3> SUFFICES ASSUME ~raced, spent["faults"] = 0, reads = {}, changes = {}, NEW i \in Rows PROVE Agrees(i)
    BY DEF P!ListAgrees, Agrees
  <3>1. Unraced
    BY DEF Unraced
  <3> QED
    BY <3>1 DEF PanelInv, PanelFollows
<2> QED
  BY <2>1, <2>2, <2>3
<1> QED
  BY <1>1, <1>2, <1>3, PTL DEF ClientSpec

HIDE DEF P!Closed, P!New

-----------------------------------------------------------------------------
(* Secrets shown once (ShownOnce).                                          *)

OnceOps == {"enroll", "regen", "disable", "create"}
OnceSteps == {"setup", "form", "sending", "codes"}
OnceType ==
  /\ place \in {"security", "tokens"}
  /\ dialog \in [op : OnceOps, step : OnceSteps] \cup {O!NoDialog}
  /\ asked \in [{"asked", "broken"} -> Nat] /\ asked["asked"] <= MaxAsked
  /\ requests \subseteq [n : 1..asked["asked"], op : OnceOps, st : {"sent", "ok", "refused"}]
  /\ valid \subseteq 1..asked["asked"] /\ reveal \in 0..asked["asked"]
  /\ missed \subseteq 1..asked["asked"] /\ late \in BOOLEAN
  /\ status \in {"unknown", "on", "off", "error"} /\ counting \subseteq {"asked", "on", "off"}

\* The page for tokens knows no codes, and has no status to read.
OnTokens ==
  place = "tokens" => /\ status = "unknown" /\ counting = {}
                      /\ dialog # O!NoDialog => dialog.op = "create" /\ dialog.step # "codes"
                      /\ \A r \in requests : r.op = "create"

\* The page for codes: one set is good, and the dialog that waits waits for the
\* only request that nobody has given up.
OnSecurity ==
  place = "security" => /\ reveal = 0 /\ \A m, n \in valid : m = n
                        /\ dialog.op # "create" /\ \A r \in requests : r.op # "create"
                        /\ \A r \in requests : r.n \notin missed => dialog.step = "sending"
                        /\ \A r, s \in requests : r.n \notin missed /\ s.n \notin missed => r = s

\* What the page knows of the status if nothing came late: no request is left
\* behind, and a read that has been served says what is the case.
StatusFollows ==
  (place = "security" /\ ~late /\ asked["broken"] = 0) =>
    /\ status # "error"
    /\ \A r \in requests : dialog.step = "sending" /\ r.n \notin missed
    /\ dialog = O!NoDialog => /\ "on" \in counting => O!On
                              /\ "off" \in counting => ~O!On
                              /\ counting = {} => (status = "on") = O!On

OnceInv == OnceType /\ OnTokens /\ OnSecurity /\ O!SecretsAreSeen /\ StatusFollows

\* What a dialog that is taken away takes with it.
LEMMA OnceCut ==
  OnceInv => /\ O!Cut \subseteq 1..asked["asked"] /\ \A r \in requests : r.n \in O!Cut
             /\ dialog.step = "codes" => valid \subseteq O!Cut
  BY DEF OnceInv, OnceType, O!Cut

USE OnceAssumed DEF OnceOps, OnceSteps, O!NoDialog

LEMMA OnceCountServed == ASSUME OnceInv, O!CountServed PROVE OnceInv'
<1>1. OnceType'
  BY DEF OnceInv, OnceType, O!CountServed, O!On
<1>2. OnTokens'
  BY DEF OnceInv, OnceType, OnTokens, O!CountServed, O!On
<1>3. OnSecurity'
  BY DEF OnceInv, OnceType, OnSecurity, OnTokens, O!CountServed, O!On
<1>4. O!SecretsAreSeen'
  BY DEF OnceInv, OnceType, OnSecurity, OnTokens, O!SecretsAreSeen, O!CountServed, O!On
<1>5. StatusFollows'
  BY DEF OnceInv, OnceType, OnSecurity, OnTokens, StatusFollows, O!On, O!CountServed, O!On
<1> QED
  BY <1>1, <1>2, <1>3, <1>4, <1>5 DEF OnceInv

LEMMA OnceCountAnswered ==
  ASSUME OnceInv, NEW s \in {"on", "off"}, O!CountAnswered(s)
  PROVE  OnceInv'
<1>1. OnceType'
  BY DEF OnceInv, OnceType, O!CountAnswered
<1>2. OnTokens'
  BY DEF OnceInv, OnceType, OnTokens, O!CountAnswered
<1>3. OnSecurity'
  BY DEF OnceInv, OnceType, OnSecurity, OnTokens, O!CountAnswered
<1>4. O!SecretsAreSeen'
  BY DEF OnceInv, OnceType, OnSecurity, OnTokens, O!SecretsAreSeen, O!CountAnswered
<1>5. StatusFollows'
  BY DEF OnceInv, OnceType, OnSecurity, OnTokens, StatusFollows, O!On, O!CountAnswered
<1> QED
  BY <1>1, <1>2, <1>3, <1>4, <1>5 DEF OnceInv

LEMMA OnceCountFailed == ASSUME OnceInv, NEW s \in counting, O!CountFailed(s) PROVE OnceInv'
<1>1. OnceType'
  <2>1. asked' \in [{"asked", "broken"} -> Nat] /\ asked'["asked"] = asked["asked"]
    BY DEF OnceInv, OnceType, O!CountFailed
  <2> QED
    BY <2>1, OnceCut DEF OnceInv, OnceType, O!CountFailed
<1>2. OnTokens'
  BY DEF OnceInv, OnceType, OnTokens, O!CountFailed, O!Cut
<1>3. OnSecurity'
  BY DEF OnceInv, OnceType, OnSecurity, OnTokens, O!CountFailed, O!Cut
<1>4. O!SecretsAreSeen'
  BY DEF OnceInv, OnceType, OnSecurity, OnTokens, O!SecretsAreSeen, O!CountFailed, O!Cut
<1>5. StatusFollows'
  BY DEF OnceInv, OnceType, OnSecurity, OnTokens, StatusFollows, O!On, O!CountFailed, O!Cut
<1> QED
  BY <1>1, <1>2, <1>3, <1>4, <1>5 DEF OnceInv

LEMMA OnceOpen == ASSUME OnceInv, NEW op \in OnceOps, O!Open(op) PROVE OnceInv'
<1>1. OnceType'
  BY DEF OnceInv, OnceType, O!Open, O!Offered
<1>2. OnTokens'
  BY DEF OnceInv, OnceType, OnTokens, O!Open, O!Offered
<1>3. OnSecurity'
  BY DEF OnceInv, OnceType, OnSecurity, OnTokens, O!Open, O!Offered
<1>4. O!SecretsAreSeen'
  BY DEF OnceInv, OnceType, OnSecurity, OnTokens, O!SecretsAreSeen, O!Open, O!Offered
<1>5. StatusFollows'
  BY DEF OnceInv, OnceType, OnSecurity, OnTokens, StatusFollows, O!On, O!Open, O!Offered
<1> QED
  BY <1>1, <1>2, <1>3, <1>4, <1>5 DEF OnceInv

LEMMA OnceNext2 == ASSUME OnceInv, O!Next2 PROVE OnceInv'
<1>1. OnceType'
  BY DEF OnceInv, OnceType, O!Next2
<1>2. OnTokens'
  BY DEF OnceInv, OnceType, OnTokens, O!Next2
<1>3. OnSecurity'
  BY DEF OnceInv, OnceType, OnSecurity, OnTokens, O!Next2
<1>4. O!SecretsAreSeen'
  BY DEF OnceInv, OnceType, OnSecurity, OnTokens, O!SecretsAreSeen, O!Next2
<1>5. StatusFollows'
  BY DEF OnceInv, OnceType, OnSecurity, OnTokens, StatusFollows, O!On, O!Next2
<1> QED
  BY <1>1, <1>2, <1>3, <1>4, <1>5 DEF OnceInv

LEMMA OnceSubmit == ASSUME OnceInv, O!Submit PROVE OnceInv'
<1>1. OnceType'
  BY DEF OnceInv, OnceType, O!Submit
<1>2. OnTokens'
  BY DEF OnceInv, OnceType, OnTokens, O!Submit
<1>3. OnSecurity'
  BY DEF OnceInv, OnceType, OnSecurity, OnTokens, O!Submit
<1>4. O!SecretsAreSeen'
  BY DEF OnceInv, OnceType, OnSecurity, OnTokens, O!SecretsAreSeen, O!Submit
<1>5. StatusFollows'
  BY DEF OnceInv, OnceType, OnSecurity, OnTokens, StatusFollows, O!On, O!Submit
<1> QED
  BY <1>1, <1>2, <1>3, <1>4, <1>5 DEF OnceInv

LEMMA OnceCancel == ASSUME OnceInv, O!Cancel PROVE OnceInv'
<1>1. OnceType'
  BY DEF OnceInv, OnceType, O!Cancel, O!Closed
<1>2. OnTokens'
  BY DEF OnceInv, OnceType, OnTokens, O!Cancel, O!Closed
<1>3. OnSecurity'
  BY DEF OnceInv, OnceType, OnSecurity, OnTokens, O!Cancel, O!Closed
<1>4. O!SecretsAreSeen'
  BY DEF OnceInv, OnceType, OnSecurity, OnTokens, O!SecretsAreSeen, O!Cancel, O!Closed
<1>5. StatusFollows'
  BY DEF OnceInv, OnceType, OnSecurity, OnTokens, StatusFollows, O!On, O!Cancel, O!Closed
<1> QED
  BY <1>1, <1>2, <1>3, <1>4, <1>5 DEF OnceInv

LEMMA OnceServed == ASSUME OnceInv, NEW r \in requests, O!Served(r) PROVE OnceInv'
<1>1. OnceType'
  BY DEF OnceInv, OnceType, O!Served, O!On
<1>2. OnTokens'
  BY DEF OnceInv, OnceType, OnTokens, O!Served, O!On
<1>3. OnSecurity'
  BY DEF OnceInv, OnceType, OnSecurity, OnTokens, O!Served, O!On
<1>4. O!SecretsAreSeen'
  <2> DEFINE good == r.op = "create" \/ (r.op = "enroll" /\ ~O!On) \/ (r.op \in {"regen", "disable"} /\ O!On)
  <2>1. \A s \in requests : \E q \in requests' : q.n = s.n
    <3>1. \A s \in requests : s # r => s \in requests'
      BY DEF O!Served
    <3>2. \E q \in requests' : q.n = r.n
      <4> DEFINE answered == [r EXCEPT !.st = IF good THEN "ok" ELSE "refused"]
      <4>1. answered \in requests'
        BY DEF O!Served
      <4>2. answered.n = r.n
        BY DEF OnceInv, OnceType
      <4> QED
        BY <4>1, <4>2
    <3> QED
      BY <3>1, <3>2
  <2>2. valid' \subseteq valid \cup {r.n}
    BY DEF OnceInv, OnceType, O!Served
  <2> QED
    BY <2>1, <2>2 DEF OnceInv, O!SecretsAreSeen, O!Served
<1>5. StatusFollows'
  BY DEF OnceInv, OnceType, OnSecurity, OnTokens, StatusFollows, O!On, O!Served, O!On
<1> QED
  BY <1>1, <1>2, <1>3, <1>4, <1>5 DEF OnceInv

LEMMA OnceAnswered == ASSUME OnceInv, NEW r \in requests, O!Answered(r) PROVE OnceInv'
<1>a. CASE r.op \in {"enroll", "regen"}
  <2>1. /\ requests' = requests \ {r} /\ UNCHANGED <<place, valid, status, counting, reveal, kept, missed, late, asked>>
        /\ dialog' = IF dialog.step = "sending" /\ r.n \notin missed THEN [dialog EXCEPT !.step = "codes"] ELSE dialog
    BY <1>a DEF O!Answered, O!Mine
  <2>2. OnceType'
    BY <1>a, <2>1, OnceCut DEF OnceInv, OnceType
  <2>3. OnTokens'
    BY <1>a, <2>1, OnceCut DEF OnceInv, OnceType, OnTokens
  <2>4. OnSecurity'
    BY <1>a, <2>1, OnceCut DEF OnceInv, OnceType, OnTokens, OnSecurity
  <2>5. O!SecretsAreSeen'
    BY <1>a, <2>1, OnceCut DEF OnceInv, OnceType, OnTokens, OnSecurity, O!SecretsAreSeen
  <2>6. StatusFollows'
    BY <1>a, <2>1, OnceCut DEF OnceInv, OnceType, OnTokens, OnSecurity, StatusFollows, O!On
  <2> QED
    BY <2>2, <2>3, <2>4, <2>5, <2>6 DEF OnceInv
<1>b. CASE r.op = "disable"
  <2>1. /\ requests' = requests \ {r} /\ UNCHANGED <<place, valid, status, reveal, kept, asked>>
        /\ dialog' = O!NoDialog /\ counting' = counting \cup {"asked"} /\ missed' = missed \cup O!Cut
        /\ late' = (late \/ requests # {r} \/ counting # {})
    BY <1>b DEF O!Answered
  <2>2. OnceType'
    BY <1>b, <2>1, OnceCut DEF OnceInv, OnceType
  <2>3. OnTokens'
    BY <1>b, <2>1, OnceCut DEF OnceInv, OnceType, OnTokens
  <2>4. OnSecurity'
    BY <1>b, <2>1, OnceCut DEF OnceInv, OnceType, OnTokens, OnSecurity
  <2>5. O!SecretsAreSeen'
    BY <1>b, <2>1, OnceCut DEF OnceInv, OnceType, OnTokens, OnSecurity, O!SecretsAreSeen
  <2>6. StatusFollows'
    BY <1>b, <2>1, OnceCut DEF OnceInv, OnceType, OnTokens, OnSecurity, StatusFollows, O!On
  <2> QED
    BY <2>2, <2>3, <2>4, <2>5, <2>6 DEF OnceInv
<1>c. CASE r.op = "create"
  <2>1. /\ requests' = requests \ {r} /\ UNCHANGED <<place, valid, status, counting, kept, late, asked>>
        /\ dialog' = O!NoDialog /\ reveal' = r.n /\ missed' = missed \cup ({reveal} \ {0})
    BY <1>c DEF O!Answered
  <2>2. OnceType'
    BY <1>c, <2>1, OnceCut DEF OnceInv, OnceType
  <2>3. OnTokens'
    BY <1>c, <2>1, OnceCut DEF OnceInv, OnceType, OnTokens
  <2>4. OnSecurity'
    BY <1>c, <2>1, OnceCut DEF OnceInv, OnceType, OnTokens, OnSecurity
  <2>5. O!SecretsAreSeen'
    BY <1>c, <2>1, OnceCut DEF OnceInv, OnceType, OnTokens, OnSecurity, O!SecretsAreSeen
  <2>6. StatusFollows'
    BY <1>c, <2>1, OnceCut DEF OnceInv, OnceType, OnTokens, OnSecurity, StatusFollows, O!On
  <2> QED
    BY <2>2, <2>3, <2>4, <2>5, <2>6 DEF OnceInv
<1> QED
  BY <1>a, <1>b, <1>c DEF OnceInv, OnceType

LEMMA OnceFailed == ASSUME OnceInv, NEW r \in requests, O!Failed(r) PROVE OnceInv'
<1>1. OnceType'
  BY DEF OnceInv, OnceType, O!Failed, O!Mine
<1>2. OnTokens'
  BY DEF OnceInv, OnceType, OnTokens, O!Failed, O!Mine
<1>3. OnSecurity'
  BY DEF OnceInv, OnceType, OnSecurity, OnTokens, O!Failed, O!Mine
<1>4. O!SecretsAreSeen'
  BY DEF OnceInv, OnceType, OnSecurity, OnTokens, O!SecretsAreSeen, O!Failed, O!Mine
<1>5. StatusFollows'
  BY DEF OnceInv, OnceType, OnSecurity, OnTokens, StatusFollows, O!On, O!Failed, O!Mine
<1> QED
  BY <1>1, <1>2, <1>3, <1>4, <1>5 DEF OnceInv

LEMMA OnceDone == ASSUME OnceInv, O!Done PROVE OnceInv'
<1>1. OnceType'
  BY DEF OnceInv, OnceType, O!Done, O!Closed
<1>2. OnTokens'
  BY DEF OnceInv, OnceType, OnTokens, O!Done, O!Closed
<1>3. OnSecurity'
  BY DEF OnceInv, OnceType, OnSecurity, OnTokens, O!Done, O!Closed
<1>4. O!SecretsAreSeen'
  BY DEF OnceInv, OnceType, OnSecurity, OnTokens, O!SecretsAreSeen, O!Done, O!Closed
<1>5. StatusFollows'
  BY DEF OnceInv, OnceType, OnSecurity, OnTokens, StatusFollows, O!On, O!Done, O!Closed
<1> QED
  BY <1>1, <1>2, <1>3, <1>4, <1>5 DEF OnceInv

LEMMA OnceDoneToken == ASSUME OnceInv, O!DoneToken PROVE OnceInv'
<1>1. OnceType'
  BY DEF OnceInv, OnceType, O!DoneToken
<1>2. OnTokens'
  BY DEF OnceInv, OnceType, OnTokens, O!DoneToken
<1>3. OnSecurity'
  BY DEF OnceInv, OnceType, OnSecurity, OnTokens, O!DoneToken
<1>4. O!SecretsAreSeen'
  BY DEF OnceInv, OnceType, OnSecurity, OnTokens, O!SecretsAreSeen, O!DoneToken
<1>5. StatusFollows'
  BY DEF OnceInv, OnceType, OnSecurity, OnTokens, StatusFollows, O!On, O!DoneToken
<1> QED
  BY <1>1, <1>2, <1>3, <1>4, <1>5 DEF OnceInv

LEMMA OnceStays == ASSUME OnceInv, UNCHANGED O!onceVars PROVE OnceInv'
<1>1. OnceType'
  BY DEF OnceInv, OnceType, O!onceVars
<1>2. OnTokens'
  BY DEF OnceInv, OnceType, OnTokens, O!onceVars
<1>3. OnSecurity'
  BY DEF OnceInv, OnceType, OnSecurity, OnTokens, O!onceVars
<1>4. O!SecretsAreSeen'
  BY DEF OnceInv, OnceType, OnSecurity, OnTokens, O!SecretsAreSeen, O!onceVars
<1>5. StatusFollows'
  BY DEF OnceInv, OnceType, OnSecurity, OnTokens, StatusFollows, O!On, O!onceVars
<1> QED
  BY <1>1, <1>2, <1>3, <1>4, <1>5 DEF OnceInv

LEMMA OnceStep == OnceInv /\ O!Next => OnceInv'
  BY OnceCountServed, OnceCountAnswered, OnceCountFailed, OnceOpen, OnceNext2, OnceSubmit,
     OnceCancel,
     OnceServed, OnceAnswered, OnceFailed, OnceDone, OnceDoneToken
  DEF O!Next, O!Answers

LEMMA OnceStart == O!Init => OnceInv
<1> SUFFICES ASSUME O!Init PROVE OnceInv
  OBVIOUS
<1>1. OnceType
  <2>1. asked \in [{"asked", "broken"} -> Nat] /\ asked["asked"] = 0
    BY DEF O!Init
  <2>2. /\ place \in {"security", "tokens"} /\ dialog = O!NoDialog /\ requests = {} /\ valid = {} /\ reveal = 0
        /\ missed = {} /\ late = FALSE /\ status = "unknown" /\ counting \subseteq {"asked", "on", "off"}
    BY DEF O!Init
  <2>3. requests \subseteq [n : 1..asked["asked"], op : OnceOps, st : {"sent", "ok", "refused"}]
    BY <2>2
  <2>4. valid \subseteq 1..asked["asked"] /\ reveal \in 0..asked["asked"] /\ missed \subseteq 1..asked["asked"]
    BY <2>1, <2>2
  <2>5. dialog \in [op : OnceOps, step : OnceSteps] \cup {O!NoDialog}
    BY <2>2
  <2>6. asked["asked"] <= MaxAsked
    BY <2>1
  <2>7. late \in BOOLEAN
    BY <2>2
  <2> QED
    BY <2>1, <2>2, <2>3, <2>4, <2>5, <2>6, <2>7 DEF OnceType
<1>2. OnTokens /\ OnSecurity /\ O!SecretsAreSeen
  BY DEF O!Init, OnTokens, OnSecurity, O!SecretsAreSeen
<1>3. StatusFollows
  BY DEF O!Init, StatusFollows, O!On
<1> QED
  BY <1>1, <1>2, <1>3 DEF OnceInv

\* A set of recovery codes or a token that is good has been seen, or is on its way to
\* someone who still looks, for any number of requests (view-settings.jsx,
\* view-config.jsx).
THEOREM SecretsAreSeen == ClientSpec => []SecretsSeen
<1>1. ClientInit => (part = "once" => OnceInv)
  BY OnceStart DEF ClientInit
<1>2. (part = "once" => OnceInv) /\ [ClientNext]_cells => (part = "once" => OnceInv)'
  <2> SUFFICES ASSUME part = "once" => OnceInv, [ClientNext]_cells, part' = "once"
               PROVE OnceInv'
    OBVIOUS
  <2>1. CASE O!Next /\ part = "once"
    BY <2>1, OnceStep
  <2>2. CASE UNCHANGED cells
    <3>1. UNCHANGED O!onceVars
      BY <2>2 DEF cells, O!onceVars, place, dialog, requests, valid, status, counting, reveal,
         kept, missed, late, asked
    <3> QED
      BY <2>2, <3>1, OnceStays DEF cells
  <2> QED
    BY <2>1, <2>2 DEF ClientNext, Kept6, Kept7, Kept9, Kept11, Kept13, Kept14, Kept15
<1>3. (part = "once" => OnceInv) => SecretsSeen
  <2>1. OnceInv => O!TypeOK
    <3> SUFFICES ASSUME OnceInv PROVE O!TypeOK
      OBVIOUS
    <3>1. place = "security" => O!Cardinality(valid) <= 1
      <4> SUFFICES ASSUME place = "security" PROVE O!Cardinality(valid) <= 1
        OBVIOUS
      <4>1. O!Cardinality(valid) = Cardinality(valid)
        BY Zenon DEF O!Cardinality, Cardinality
      <4>2. \A m, n \in valid : m = n
        BY DEF OnceInv, OnSecurity
      <4>3. valid = {} \/ \E m : valid = {m}
        BY <4>2
      <4> QED
        <5>1. CASE valid = {}
          BY <4>1, <5>1, FS_EmptySet
        <5>2. CASE \E m : valid = {m}
          <6>1. PICK m : valid = {m}
            BY <5>2
          <6>2. Cardinality({m}) = 1
            BY FS_Singleton
          <6> QED
            BY <4>1, <6>1, <6>2
        <5> QED
          BY <4>3, <5>1, <5>2
    <3> QED
      BY <3>1 DEF OnceInv, OnceType, OnSecurity, O!TypeOK
  <2>2. OnceInv => O!StatusIsTrue
    BY DEF OnceInv, OnceType, StatusFollows, O!StatusIsTrue
  <2> QED
    BY <2>1, <2>2 DEF OnceInv, SecretsSeen
<1> QED
  BY <1>1, <1>2, <1>3, PTL DEF ClientSpec

HIDE OnceAssumed DEF OnceOps, OnceSteps, O!NoDialog

-----------------------------------------------------------------------------
(* The import page (ImportWizard).                                          *)

Anything == Files \cup {"none"}
Formatted == Formats \cup {"none"}
Mappings == [of : Anything, n : Nat]
WizardType ==
  /\ file \in Anything /\ detected \in Formatted /\ format \in Formatted
  /\ mapping \in Mappings /\ choices \in Nat /\ failed \in Nat
  /\ preview \in [file : Anything, format : Formatted, mapping : Mappings]
  /\ previewing \in BOOLEAN /\ importing \in BOOLEAN /\ result \in BOOLEAN /\ stale \in BOOLEAN
  /\ calls \subseteq [n : Nat, kind : {"detect", "preview", "import"}, st : {"sent", "ok"},
                      from : [file : Files, format : Formatted, mapping : Mappings]]
  /\ tests \subseteq [file : Files, format : Formatted, mapping : Mappings]

\* A request under way is about the file on the page; a look at the format is
\* the first there is of a file, and it is under way alone.
WizardCall(c) ==
  /\ c.from.file = file /\ c.from.mapping.of \in {"none", file}
  /\ c.kind = "preview" => c.from = I!Chosen
  /\ c.kind = "detect" => /\ calls = {c}
                          /\ detected = "none" /\ format = "none" /\ preview = I!NoPreview

WizardFollows == ~stale => /\ \A c \in calls : WizardCall(c)
                           /\ file = "none" => detected = "none" /\ format = "none"

WizardInv == WizardType /\ WizardFollows /\ I!MappingFitsFile /\ I!PreviewIsOfThis

USE WizardAssumed DEF Anything, Formatted, Mappings, I!NoMapping, I!NoPreview

LEMMA WizardhandleFile == ASSUME WizardInv, NEW f \in Files, I!handleFile(f) PROVE WizardInv'
<1>1. WizardType'
  BY DEF WizardInv, WizardType, I!handleFile, I!Choose
<1>2. WizardFollows'
  <2> SUFFICES ASSUME ~stale' PROVE (\A c \in calls : WizardCall(c))' /\ (file = "none" => detected = "none" /\ format = "none")'
    BY DEF WizardFollows
  <2>1. calls = {} /\ ~stale /\ detected = "none" /\ format = "none" /\ file' # "none"
    BY DEF WizardInv, WizardType, WizardFollows, I!handleFile, I!Choose
  <2>2. \A c \in calls' : /\ c.from.file = f /\ c.from.mapping.of = "none" /\ c.kind = "detect"
    BY <2>1 DEF I!handleFile
  <2> QED
    BY <2>1, <2>2 DEF WizardCall, I!handleFile
<1>3. I!MappingFitsFile'
  BY DEF WizardInv, WizardType, WizardFollows, WizardCall, I!MappingFitsFile, I!handleFile,
     I!Choose
<1>4. I!PreviewIsOfThis'
  BY DEF WizardInv, WizardType, WizardFollows, WizardCall, I!PreviewIsOfThis, I!Chosen,
     I!effectiveFmt, I!handleFile, I!Choose
<1> QED
  BY <1>1, <1>2, <1>3, <1>4 DEF WizardInv

LEMMA Wizardreset == ASSUME WizardInv, I!reset PROVE WizardInv'
<1>1. WizardType'
  BY DEF WizardInv, WizardType, I!reset
<1>2. WizardFollows'
  BY DEF WizardInv, WizardType, WizardFollows, WizardCall, I!Chosen, I!effectiveFmt, I!reset
<1>3. I!MappingFitsFile'
  BY DEF WizardInv, WizardType, WizardFollows, WizardCall, I!MappingFitsFile, I!reset
<1>4. I!PreviewIsOfThis'
  BY DEF WizardInv, WizardType, WizardFollows, WizardCall, I!PreviewIsOfThis, I!Chosen,
     I!effectiveFmt, I!reset
<1> QED
  BY <1>1, <1>2, <1>3, <1>4 DEF WizardInv

LEMMA WizardChooseFormat ==
  ASSUME WizardInv, NEW x \in Formats, I!ChooseFormat(x)
  PROVE  WizardInv'
<1>1. WizardType'
  BY DEF WizardInv, WizardType, I!ChooseFormat, I!Choose
<1>2. WizardFollows'
  BY DEF WizardInv, WizardType, WizardFollows, WizardCall, I!Chosen, I!effectiveFmt,
     I!ChooseFormat, I!Choose
<1>3. I!MappingFitsFile'
  BY DEF WizardInv, WizardType, WizardFollows, WizardCall, I!MappingFitsFile, I!ChooseFormat,
     I!Choose
<1>4. I!PreviewIsOfThis'
  BY DEF WizardInv, WizardType, WizardFollows, WizardCall, I!PreviewIsOfThis, I!Chosen,
     I!effectiveFmt, I!ChooseFormat, I!Choose
<1> QED
  BY <1>1, <1>2, <1>3, <1>4 DEF WizardInv

LEMMA WizardChangeMapping == ASSUME WizardInv, I!ChangeMapping PROVE WizardInv'
<1>1. WizardType'
  BY DEF WizardInv, WizardType, I!ChangeMapping, I!Choose
<1>2. WizardFollows'
  BY DEF WizardInv, WizardType, WizardFollows, WizardCall, I!Chosen, I!effectiveFmt,
     I!ChangeMapping, I!Choose
<1>3. I!MappingFitsFile'
  BY DEF WizardInv, WizardType, WizardFollows, WizardCall, I!MappingFitsFile, I!ChangeMapping,
     I!Choose
<1>4. I!PreviewIsOfThis'
  BY DEF WizardInv, WizardType, WizardFollows, WizardCall, I!PreviewIsOfThis, I!Chosen,
     I!effectiveFmt, I!ChangeMapping, I!Choose
<1> QED
  BY <1>1, <1>2, <1>3, <1>4 DEF WizardInv

LEMMA WizardhandlePreview == ASSUME WizardInv, I!handlePreview PROVE WizardInv'
<1>1. WizardType'
  BY DEF WizardInv, WizardType, I!handlePreview, I!Call, I!Chosen, I!effectiveFmt
<1>2. WizardFollows'
  <2> SUFFICES ASSUME ~stale' PROVE (\A c \in calls : WizardCall(c))' /\ (file = "none" => detected = "none" /\ format = "none")'
    BY DEF WizardFollows
  <2>1. \A c \in calls : WizardCall(c) /\ c.kind # "detect"
    BY DEF WizardInv, WizardType, WizardFollows, WizardCall, I!Chosen, I!effectiveFmt,
       I!handlePreview
  <2>2. \A c \in calls : WizardCall(c)'
    BY <2>1 DEF WizardInv, WizardType, WizardFollows, WizardCall, I!Chosen, I!effectiveFmt,
       I!handlePreview
  <2>3. \A c \in calls' \ calls : WizardCall(c)'
    BY <2>1 DEF WizardInv, WizardType, WizardFollows, WizardCall, I!Chosen, I!effectiveFmt,
       I!MappingFitsFile, I!handlePreview, I!Call
  <2> QED
    BY <2>2, <2>3 DEF I!handlePreview
<1>3. I!MappingFitsFile'
  BY DEF WizardInv, WizardType, WizardFollows, WizardCall, I!MappingFitsFile, I!handlePreview,
     I!Call, I!Chosen, I!effectiveFmt
<1>4. I!PreviewIsOfThis'
  BY DEF WizardInv, WizardType, WizardFollows, WizardCall, I!PreviewIsOfThis, I!Chosen,
     I!effectiveFmt, I!handlePreview, I!Call, I!Chosen, I!effectiveFmt
<1> QED
  BY <1>1, <1>2, <1>3, <1>4 DEF WizardInv

LEMMA WizardhandleImport == ASSUME WizardInv, I!handleImport PROVE WizardInv'
<1>1. WizardType'
  BY DEF WizardInv, WizardType, I!handleImport, I!Call, I!Chosen, I!effectiveFmt
<1>2. WizardFollows'
  <2> SUFFICES ASSUME ~stale' PROVE (\A c \in calls : WizardCall(c))' /\ (file = "none" => detected = "none" /\ format = "none")'
    BY DEF WizardFollows
  <2>1. \A c \in calls : WizardCall(c) /\ c.kind # "detect"
    BY DEF WizardInv, WizardType, WizardFollows, WizardCall, I!Chosen, I!effectiveFmt,
       I!handleImport
  <2>2. \A c \in calls : WizardCall(c)'
    BY <2>1 DEF WizardInv, WizardType, WizardFollows, WizardCall, I!Chosen, I!effectiveFmt,
       I!handleImport
  <2>3. \A c \in calls' \ calls : WizardCall(c)'
    BY <2>1 DEF WizardInv, WizardType, WizardFollows, WizardCall, I!Chosen, I!effectiveFmt,
       I!MappingFitsFile, I!handleImport, I!Call
  <2> QED
    BY <2>2, <2>3 DEF I!handleImport
<1>3. I!MappingFitsFile'
  BY DEF WizardInv, WizardType, WizardFollows, WizardCall, I!MappingFitsFile, I!handleImport,
     I!Call, I!Chosen, I!effectiveFmt
<1>4. I!PreviewIsOfThis'
  BY DEF WizardInv, WizardType, WizardFollows, WizardCall, I!PreviewIsOfThis, I!Chosen,
     I!effectiveFmt, I!handleImport, I!Call, I!Chosen, I!effectiveFmt
<1> QED
  BY <1>1, <1>2, <1>3, <1>4 DEF WizardInv

LEMMA WizardServed == ASSUME WizardInv, NEW c \in calls, I!Served(c) PROVE WizardInv'
<1>1. WizardType'
  BY DEF WizardInv, WizardType, I!Served
<1>2. WizardFollows'
  BY DEF WizardInv, WizardType, WizardFollows, WizardCall, I!Chosen, I!effectiveFmt, I!Served
<1>3. I!MappingFitsFile'
  BY DEF WizardInv, WizardType, WizardFollows, WizardCall, I!MappingFitsFile, I!Served
<1>4. I!PreviewIsOfThis'
  BY DEF WizardInv, WizardType, WizardFollows, WizardCall, I!PreviewIsOfThis, I!Chosen,
     I!effectiveFmt, I!Served
<1> QED
  BY <1>1, <1>2, <1>3, <1>4 DEF WizardInv

LEMMA WizardAnswered == ASSUME WizardInv, NEW c \in calls, I!Answered(c) PROVE WizardInv'
<1>0. calls' = calls \ {c} /\ UNCHANGED <<file, tests, stale, choices, failed>>
  BY DEF I!Answered
<1>a. CASE c.kind = "detect"
  <2>1. /\ detected' = Guess[c.from.file] /\ format' = "none"
        /\ mapping' = IF Guess[c.from.file] \in Tabular THEN [of |-> c.from.file, n |-> 0] ELSE mapping
        /\ UNCHANGED <<preview, previewing, importing, result>>
    BY <1>a DEF I!Answered
  <2>2. WizardType'
    BY <1>0, <1>a, <2>1 DEF WizardInv, WizardType
  <2>3. WizardFollows'
    BY <1>0, <1>a, <2>1 DEF WizardInv, WizardType, WizardFollows, WizardCall, I!Chosen,
       I!effectiveFmt
  <2>4. I!MappingFitsFile'
    BY <1>0, <1>a, <2>1 DEF WizardInv, WizardType, WizardFollows, WizardCall, I!MappingFitsFile
  <2>5. I!PreviewIsOfThis'
    BY <1>0, <1>a, <2>1 DEF WizardInv, WizardType, WizardFollows, WizardCall, I!PreviewIsOfThis,
       I!Chosen, I!effectiveFmt
  <2> QED
    BY <2>2, <2>3, <2>4, <2>5 DEF WizardInv
<1>b. CASE c.kind = "preview"
  <2>1. preview' = c.from /\ previewing' = FALSE /\ UNCHANGED <<detected, format, mapping, importing, result>>
    BY <1>b DEF I!Answered
  <2>2. WizardType'
    BY <1>0, <1>b, <2>1 DEF WizardInv, WizardType
  <2>3. WizardFollows'
    BY <1>0, <1>b, <2>1 DEF WizardInv, WizardType, WizardFollows, WizardCall, I!Chosen,
       I!effectiveFmt
  <2>4. I!MappingFitsFile'
    BY <1>0, <1>b, <2>1 DEF WizardInv, WizardType, WizardFollows, WizardCall, I!MappingFitsFile
  <2>5. I!PreviewIsOfThis'
    BY <1>0, <1>b, <2>1 DEF WizardInv, WizardType, WizardFollows, WizardCall, I!PreviewIsOfThis,
       I!Chosen, I!effectiveFmt
  <2> QED
    BY <2>2, <2>3, <2>4, <2>5 DEF WizardInv
<1>c. CASE c.kind = "import"
  <2>1. result' = TRUE /\ importing' = FALSE /\ UNCHANGED <<detected, format, mapping, preview, previewing>>
    BY <1>c DEF I!Answered
  <2>2. WizardType'
    BY <1>0, <1>c, <2>1 DEF WizardInv, WizardType
  <2>3. WizardFollows'
    BY <1>0, <1>c, <2>1 DEF WizardInv, WizardType, WizardFollows, WizardCall, I!Chosen,
       I!effectiveFmt
  <2>4. I!MappingFitsFile'
    BY <1>0, <1>c, <2>1 DEF WizardInv, WizardType, WizardFollows, WizardCall, I!MappingFitsFile
  <2>5. I!PreviewIsOfThis'
    BY <1>0, <1>c, <2>1 DEF WizardInv, WizardType, WizardFollows, WizardCall, I!PreviewIsOfThis,
       I!Chosen, I!effectiveFmt
  <2> QED
    BY <2>2, <2>3, <2>4, <2>5 DEF WizardInv
<1> QED
  BY <1>a, <1>b, <1>c DEF WizardInv, WizardType

LEMMA WizardFails == ASSUME WizardInv, NEW c \in calls, I!Fails(c) PROVE WizardInv'
<1>1. WizardType'
  BY DEF WizardInv, WizardType, I!Fails
<1>2. WizardFollows'
  BY DEF WizardInv, WizardType, WizardFollows, WizardCall, I!Chosen, I!effectiveFmt, I!Fails
<1>3. I!MappingFitsFile'
  BY DEF WizardInv, WizardType, WizardFollows, WizardCall, I!MappingFitsFile, I!Fails
<1>4. I!PreviewIsOfThis'
  BY DEF WizardInv, WizardType, WizardFollows, WizardCall, I!PreviewIsOfThis, I!Chosen,
     I!effectiveFmt, I!Fails
<1> QED
  BY <1>1, <1>2, <1>3, <1>4 DEF WizardInv

LEMMA WizardStays == ASSUME WizardInv, UNCHANGED I!wizardVars PROVE WizardInv'
<1>1. WizardType'
  BY DEF WizardInv, WizardType, I!wizardVars
<1>2. WizardFollows'
  BY DEF WizardInv, WizardType, WizardFollows, WizardCall, I!Chosen, I!effectiveFmt, I!wizardVars
<1>3. I!MappingFitsFile'
  BY DEF WizardInv, WizardType, WizardFollows, WizardCall, I!MappingFitsFile, I!wizardVars
<1>4. I!PreviewIsOfThis'
  BY DEF WizardInv, WizardType, WizardFollows, WizardCall, I!PreviewIsOfThis, I!Chosen,
     I!effectiveFmt, I!wizardVars
<1> QED
  BY <1>1, <1>2, <1>3, <1>4 DEF WizardInv

LEMMA WizardStep == WizardInv /\ I!Next => WizardInv'
  BY WizardhandleFile, Wizardreset, WizardChooseFormat, WizardChangeMapping, WizardhandlePreview,
     WizardhandleImport, WizardServed, WizardAnswered, WizardFails
  DEF I!Next, I!Answers

LEMMA WizardStart == I!Init => WizardInv
<1> SUFFICES ASSUME I!Init PROVE WizardInv
  OBVIOUS
<1>1. WizardType
  BY DEF I!Init, WizardType
<1>2. WizardFollows /\ I!MappingFitsFile /\ I!PreviewIsOfThis
  BY DEF I!Init, WizardFollows, I!MappingFitsFile, I!PreviewIsOfThis
<1> QED
  BY <1>1, <1>2 DEF WizardInv

\* Format, mapping and preview are those of the file that is imported, for any files
\* and formats (frontend/views/view-import.jsx).
THEOREM FittingWizard == ClientSpec => []WizardFits
<1>1. ClientInit => (part = "import" => WizardInv)
  BY WizardStart DEF ClientInit
<1>2. (part = "import" => WizardInv) /\ [ClientNext]_cells => (part = "import" => WizardInv)'
  <2> SUFFICES ASSUME part = "import" => WizardInv, [ClientNext]_cells, part' = "import"
               PROVE WizardInv'
    OBVIOUS
  <2>1. CASE I!Next /\ part = "import"
    BY <2>1, WizardStep
  <2>2. CASE UNCHANGED cells
    <3>1. UNCHANGED I!wizardVars
      BY <2>2 DEF cells, I!wizardVars, file, detected, format, mapping, preview, previewing,
         importing, result, calls, tests, stale, choices, failed
    <3> QED
      BY <2>2, <3>1, WizardStays DEF cells
  <2> QED
    BY <2>1, <2>2 DEF ClientNext, Kept6, Kept7, Kept9, Kept11, Kept13, Kept14, Kept15
<1>3. (part = "import" => WizardInv) => WizardFits
  BY DEF WizardInv, WizardType, WizardFits, I!TypeOK, I!effectiveFmt
<1> QED
  BY <1>1, <1>2, <1>3, PTL DEF ClientSpec

HIDE WizardAssumed DEF Anything, Formatted, Mappings, I!NoMapping, I!NoPreview

-----------------------------------------------------------------------------
(* Editors of stored data (Drafts).                                         *)

Contents == SUBSET (Edits \cup {"orig"})
DraftType ==
  /\ draft \in [rule : D!AllDrafts, now : Contents, base : Contents, dirty : BOOLEAN]
  /\ stored \in Contents /\ load \in [st : {"asked", "read", "done", "failed"}, got : Contents]
  /\ saves \subseteq [n : Nat, val : Contents, before : Contents, st : {"sent", "ok"}]
  /\ busy \in BOOLEAN /\ blind \in BOOLEAN /\ met \in BOOLEAN
  /\ typed \in [Edits -> {"no", "idle", "loading", "saving"}] /\ tally \in [{"saves", "drops"} -> Nat]

UnderRead == load.st \in {"asked", "read"}

\* An edit made when nothing was under way is also in every save that is.
TypedIsSent ==
  /\ UnderRead => \A e \in Edits : typed[e] \in {"no", "loading"}
  /\ draft.rule.merges => \A e \in Edits : typed[e] = "idle" => \A s \in saves : e \in s.val

\* As long as every save came from a page that had read the value, what was
\* stored at first is in all that is shown, sent and read.
OriginIsSent ==
  (draft.rule.merges /\ ~blind) => /\ load.st = "done" => "orig" \in draft.now
                                   /\ load.st = "read" => "orig" \in load.got
                                   /\ \A s \in saves : "orig" \in s.val

\* A save that met nothing is the only one, and the page knows what becomes of it.
AloneUnderWay ==
  ~met => /\ UnderRead => saves = {}
          /\ load.st = "read" => load.got = stored
          /\ \A s, t \in saves : s = t

Undisturbed == load.st = "done" /\ ~met /\ (tally["drops"] > 0 => draft.rule.checks /\ ~draft.rule.once)

PageFollows ==
  Undisturbed => /\ saves = {} => /\ ~draft.dirty => draft.now = stored
                                  /\ draft.rule.resets => draft.base = stored
                 /\ \A s \in saves : /\ s.st = "ok" => stored = s.val
                                     /\ ~draft.rule.adopts /\ ~draft.dirty => draft.now = s.val

DraftInv == DraftType /\ D!NothingTypedIsLost /\ TypedIsSent /\ D!OldContentKept /\ OriginIsSent /\ AloneUnderWay /\ PageFollows

\* What the pages have in common, and where they differ.
LEMMA DraftRules ==
  \A r \in D!AllDrafts :
    /\ {r.merges, r.once, r.flag, r.guarded, r.adopts, r.checks, r.resets, r.clears} \subseteq BOOLEAN
    /\ r.merges => ~r.once /\ ~r.resets /\ r.checks
    /\ r.resets => r.adopts /\ ~r.checks
    /\ r.once => r.adopts /\ ~r.merges /\ ~r.resets
<1> SUFFICES ASSUME NEW r \in D!AllDrafts
             PROVE /\ {r.merges, r.once, r.flag, r.guarded, r.adopts, r.checks, r.resets, r.clears} \subseteq BOOLEAN
                   /\ r.merges => ~r.once /\ ~r.resets /\ r.checks
                   /\ r.resets => r.adopts /\ ~r.checks
                   /\ r.once => r.adopts /\ ~r.merges /\ ~r.resets
  OBVIOUS
<1>1. CASE r = D!DefinitionTab
  BY <1>1 DEF D!Plain, D!DefinitionTab
<1>2. CASE r = D!TestCustomFieldsCard
  BY <1>2 DEF D!Plain, D!TestCustomFieldsCard
<1>3. CASE r = D!TestTitle
  BY <1>3 DEF D!Plain, D!TestTitle
<1>4. CASE r = D!StatusSelect
  BY <1>4 DEF D!Plain, D!StatusSelect
<1>5. CASE r = D!ProfileTab
  BY <1>5 DEF D!Plain, D!ProfileTab
<1>6. CASE r = D!NotificationsTab
  BY <1>6 DEF D!Plain, D!NotificationsTab
<1> QED
  BY <1>1, <1>2, <1>3, <1>4, <1>5, <1>6 DEF D!AllDrafts

LEMMA DraftUse ==
  ASSUME DraftType, NEW b \in {"saves", "drops"}, D!Use(b)
  PROVE  tally' \in [{"saves", "drops"} -> Nat] /\ tally'["drops"] >= tally["drops"]
         /\ (b = "drops" => tally'["drops"] > 0) /\ (b = "saves" => tally'["drops"] = tally["drops"])
  BY DEF DraftType, D!Use

\* What sending a save does.
LEMMA DraftSent ==
  ASSUME DraftInv, NEW v \in Contents, NEW before \in Contents, D!Sent(v, before)
  PROVE  /\ tally' \in [{"saves", "drops"} -> Nat] /\ tally'["drops"] = tally["drops"]
         /\ saves' \subseteq [n : Nat, val : Contents, before : Contents, st : {"sent", "ok"}]
         /\ \A s \in saves' : s \in saves \/ (s.val = v /\ s.st = "sent")
         /\ blind' \in BOOLEAN /\ met' \in BOOLEAN /\ saves' # {}
         /\ (blind \/ load.st # "done") => blind'
         /\ (met \/ saves # {} \/ UnderRead) => met'
         /\ saves = {} => \A s, t \in saves' : s = t
<1>1. tally' \in [{"saves", "drops"} -> Nat] /\ tally'["drops"] = tally["drops"] /\ tally["saves"] \in Nat
  BY DraftUse DEF D!Sent, DraftInv, DraftType
<1> DEFINE s0 == [n |-> tally["saves"] + 1, val |-> v, before |-> before, st |-> "sent"]
<1>2. saves' = saves \cup {s0}
  BY DEF D!Sent
<1>3. s0 \in [n : Nat, val : Contents, before : Contents, st : {"sent", "ok"}] /\ s0.val = v /\ s0.st = "sent"
  BY <1>1
<1>4. blind' = (blind \/ load.st # "done") /\ met' = (met \/ saves # {} \/ UnderRead)
  BY DEF D!Sent, UnderRead
<1> HIDE DEF s0
<1> QED
  BY <1>1, <1>2, <1>3, <1>4 DEF DraftInv, DraftType

USE DraftRules DEF Contents

LEMMA DraftReadServed == ASSUME DraftInv, D!ReadServed PROVE DraftInv'
<1>1. DraftType'
  BY DEF DraftInv, DraftType, D!ReadServed
<1>2. D!NothingTypedIsLost'
  BY DEF DraftInv, DraftType, D!NothingTypedIsLost, TypedIsSent, UnderRead, D!Rule, D!ReadServed
<1>3. TypedIsSent'
  BY DEF DraftInv, DraftType, D!NothingTypedIsLost, TypedIsSent, UnderRead, D!Rule, D!ReadServed
<1>4. D!OldContentKept'
  BY DEF DraftInv, DraftType, D!OldContentKept, OriginIsSent, D!Rule, D!ReadServed
<1>5. OriginIsSent'
  BY DEF DraftInv, DraftType, D!OldContentKept, OriginIsSent, D!Rule, D!ReadServed
<1>6. AloneUnderWay'
  BY DEF DraftInv, DraftType, AloneUnderWay, UnderRead, D!ReadServed
<1>7. PageFollows'
  BY DEF DraftInv, DraftType, AloneUnderWay, PageFollows, UnderRead, Undisturbed, D!Rule,
     D!ReadServed
<1> QED
  BY <1>1, <1>2, <1>3, <1>4, <1>5, <1>6, <1>7 DEF DraftInv

LEMMA DraftReadAnswered == ASSUME DraftInv, D!ReadAnswered PROVE DraftInv'
<1>1. DraftType'
  BY DEF DraftInv, DraftType, D!ReadAnswered
<1>2. D!NothingTypedIsLost'
  BY DEF DraftInv, DraftType, D!NothingTypedIsLost, TypedIsSent, UnderRead, D!Rule, D!ReadAnswered
<1>3. TypedIsSent'
  BY DEF DraftInv, DraftType, D!NothingTypedIsLost, TypedIsSent, UnderRead, D!Rule, D!ReadAnswered
<1>4. D!OldContentKept'
  BY DEF DraftInv, DraftType, D!OldContentKept, OriginIsSent, D!Rule, D!ReadAnswered
<1>5. OriginIsSent'
  BY DEF DraftInv, DraftType, D!OldContentKept, OriginIsSent, D!Rule, D!ReadAnswered
<1>6. AloneUnderWay'
  BY DEF DraftInv, DraftType, AloneUnderWay, UnderRead, D!ReadAnswered
<1>7. PageFollows'
  BY DEF DraftInv, DraftType, AloneUnderWay, PageFollows, UnderRead, Undisturbed, D!Rule,
     D!ReadAnswered
<1> QED
  BY <1>1, <1>2, <1>3, <1>4, <1>5, <1>6, <1>7 DEF DraftInv

LEMMA DraftReadFailed == ASSUME DraftInv, D!ReadFailed PROVE DraftInv'
<1>1. DraftType'
  BY DraftUse DEF DraftInv, DraftType, D!ReadFailed, D!Rule
<1>2. D!NothingTypedIsLost'
  BY DEF DraftInv, DraftType, D!NothingTypedIsLost, TypedIsSent, UnderRead, D!Rule, D!ReadFailed,
     D!Room, D!Use, D!Rule
<1>3. TypedIsSent'
  BY DEF DraftInv, DraftType, D!NothingTypedIsLost, TypedIsSent, UnderRead, D!Rule, D!ReadFailed,
     D!Room, D!Use, D!Rule
<1>4. D!OldContentKept'
  BY DEF DraftInv, DraftType, D!OldContentKept, OriginIsSent, D!Rule, D!ReadFailed, D!Room, D!Use,
     D!Rule
<1>5. OriginIsSent'
  BY DEF DraftInv, DraftType, D!OldContentKept, OriginIsSent, D!Rule, D!ReadFailed, D!Room, D!Use,
     D!Rule
<1>6. AloneUnderWay'
  BY DEF DraftInv, DraftType, AloneUnderWay, UnderRead, D!ReadFailed, D!Room, D!Use, D!Rule
<1>7. PageFollows'
  BY DEF DraftInv, DraftType, AloneUnderWay, PageFollows, UnderRead, Undisturbed, D!Rule,
     D!ReadFailed, D!Room, D!Use, D!Rule
<1> QED
  BY <1>1, <1>2, <1>3, <1>4, <1>5, <1>6, <1>7 DEF DraftInv

LEMMA DraftEdit == ASSUME DraftInv, NEW e \in Edits, D!Edit(e) PROVE DraftInv'
<1>0. /\ typed[e] = "no" /\ UNCHANGED <<stored, load, busy>>
      /\ typed' = [typed EXCEPT ![e] = IF UnderRead THEN "loading" ELSE IF saves # {} THEN "saving" ELSE "idle"]
      /\ draft' = [draft EXCEPT !.now = D!Changed(e), !.dirty = ~draft.rule.once]
  BY DEF D!Edit, UnderRead, D!Rule
<1>1. /\ D!Changed(e) \in Contents /\ e \in D!Changed(e) /\ (draft.rule.merges => draft.now \subseteq D!Changed(e))
      /\ {e} \in Contents /\ draft.now \in Contents
  BY DEF D!Changed, DraftInv, DraftType, D!Rule
<1>2. /\ draft' \in [rule : D!AllDrafts, now : Contents, base : Contents, dirty : BOOLEAN]
      /\ draft'.now = D!Changed(e) /\ draft'.dirty = ~draft.rule.once /\ draft'.rule = draft.rule /\ draft'.base = draft.base
  <2>1. (~draft.rule.once) \in BOOLEAN
    BY DEF DraftInv, DraftType
  <2> QED
    BY <1>0, <1>1, <2>1 DEF DraftInv, DraftType
<1>3. typed' \in [Edits -> {"no", "idle", "loading", "saving"}]
  BY <1>0 DEF DraftInv, DraftType
<1>4. CASE draft.rule.once
  <2>1. D!Sent({e}, draft.now) /\ ~draft.rule.merges /\ ~draft.rule.resets /\ draft.rule.adopts
    <3>1. D!Sent({e}, draft.now)
      BY <1>4 DEF D!Edit, D!Rule
    <3>2. draft.rule \in D!AllDrafts
      BY DEF DraftInv, DraftType
    <3> QED
      BY <1>4, <3>1, <3>2
  <2>2. DraftType'
    <3>1. /\ tally' \in [{"saves", "drops"} -> Nat] /\ blind' \in BOOLEAN /\ met' \in BOOLEAN
          /\ saves' \subseteq [n : Nat, val : Contents, before : Contents, st : {"sent", "ok"}]
      BY <1>1, <2>1, DraftSent
    <3> QED
      BY <1>0, <1>2, <1>3, <3>1 DEF DraftInv, DraftType
  <2>3. D!NothingTypedIsLost' /\ D!OldContentKept' /\ OriginIsSent'
    BY <1>2, <2>1 DEF D!NothingTypedIsLost, D!OldContentKept, OriginIsSent, D!Rule
  <2>4. TypedIsSent'
    BY <1>0, <1>2, <2>1 DEF DraftInv, DraftType, TypedIsSent, UnderRead
  <2>5. AloneUnderWay'
    BY <1>0, <1>1, <2>1, DraftSent DEF DraftInv, AloneUnderWay, UnderRead
  <2>6. PageFollows'
    <3>1. saves' # {} /\ draft'.rule.adopts
      BY <1>1, <1>2, <2>1, DraftSent
    <3>2. Undisturbed' => \A s \in saves' : s.st = "sent"
      BY <1>1, <2>1, DraftSent DEF Undisturbed, DraftInv, DraftType
    <3> QED
      BY <3>1, <3>2 DEF PageFollows
  <2> QED
    BY <2>2, <2>3, <2>4, <2>5, <2>6 DEF DraftInv
<1>5. CASE ~draft.rule.once
  <2>1. UNCHANGED <<saves, blind, met, tally>>
    BY <1>5 DEF D!Edit, D!Rule
  <2>2. DraftType'
    BY <1>0, <1>2, <1>3, <2>1 DEF DraftInv, DraftType
  <2>3. D!NothingTypedIsLost' /\ TypedIsSent'
    BY <1>0, <1>1, <1>2, <2>1 DEF DraftInv, DraftType, D!NothingTypedIsLost, TypedIsSent,
       UnderRead, D!Rule
  <2>4. D!OldContentKept' /\ OriginIsSent'
    BY <1>0, <1>1, <1>2, <2>1 DEF DraftInv, DraftType, D!OldContentKept, OriginIsSent, D!Rule
  <2>5. AloneUnderWay'
    BY <1>0, <2>1 DEF DraftInv, AloneUnderWay, UnderRead
  <2>6. PageFollows'
    BY <1>0, <1>2, <1>5, <2>1 DEF DraftInv, PageFollows, Undisturbed
  <2> QED
    BY <2>2, <2>3, <2>4, <2>5, <2>6 DEF DraftInv
<1> QED
  BY <1>4, <1>5

LEMMA DraftCancel == ASSUME DraftInv, D!Cancel PROVE DraftInv'
<1>1. DraftType'
  BY DEF DraftInv, DraftType, D!Cancel, D!Rule
<1>2. D!NothingTypedIsLost'
  BY DEF DraftInv, DraftType, D!NothingTypedIsLost, TypedIsSent, UnderRead, D!Rule, D!Cancel,
     D!Rule
<1>3. TypedIsSent'
  BY DEF DraftInv, DraftType, D!NothingTypedIsLost, TypedIsSent, UnderRead, D!Rule, D!Cancel,
     D!Rule
<1>4. D!OldContentKept'
  BY DEF DraftInv, DraftType, D!OldContentKept, OriginIsSent, D!Rule, D!Cancel, D!Rule
<1>5. OriginIsSent'
  BY DEF DraftInv, DraftType, D!OldContentKept, OriginIsSent, D!Rule, D!Cancel, D!Rule
<1>6. AloneUnderWay'
  BY DEF DraftInv, DraftType, AloneUnderWay, UnderRead, D!Cancel, D!Rule
<1>7. PageFollows'
  BY DEF DraftInv, DraftType, AloneUnderWay, PageFollows, UnderRead, Undisturbed, D!Rule,
     D!Cancel, D!Rule
<1> QED
  BY <1>1, <1>2, <1>3, <1>4, <1>5, <1>6, <1>7 DEF DraftInv

LEMMA DraftSave == ASSUME DraftInv, D!Save PROVE DraftInv'
<1>1. DraftType'
  BY DraftSent DEF DraftInv, DraftType, D!Save, D!Rule
<1>2. D!NothingTypedIsLost'
  BY DEF DraftInv, DraftType, D!NothingTypedIsLost, TypedIsSent, UnderRead, D!Rule, D!Save,
     D!Sent, D!Room, D!Use, D!Rule
<1>3. TypedIsSent'
  BY DEF DraftInv, DraftType, D!NothingTypedIsLost, TypedIsSent, UnderRead, D!Rule, D!Save,
     D!Sent, D!Room, D!Use, D!Rule
<1>4. D!OldContentKept'
  BY DEF DraftInv, DraftType, D!OldContentKept, OriginIsSent, D!Rule, D!Save, D!Sent, D!Room,
     D!Use, D!Rule
<1>5. OriginIsSent'
  BY DEF DraftInv, DraftType, D!OldContentKept, OriginIsSent, D!Rule, D!Save, D!Sent, D!Room,
     D!Use, D!Rule
<1>6. AloneUnderWay'
  BY DraftSent DEF DraftInv, DraftType, AloneUnderWay, UnderRead, D!Save, D!Rule
<1>7. PageFollows'
  <2>1. draft.now \in Contents /\ D!Sent(draft.now, draft.now)
    BY DEF D!Save, DraftInv, DraftType
  <2>2. Undisturbed' => saves = {} /\ \A s \in saves' : s.val = draft.now /\ s.st = "sent"
    BY <2>1, DraftSent DEF DraftInv, DraftType, D!Save, Undisturbed
  <2>3. saves' # {} /\ draft'.now = draft.now
    BY <2>1, DraftSent DEF D!Save, DraftInv, DraftType
  <2> QED
    BY <2>2, <2>3 DEF PageFollows
<1> QED
  BY <1>1, <1>2, <1>3, <1>4, <1>5, <1>6, <1>7 DEF DraftInv

LEMMA DraftSaveStored == ASSUME DraftInv, NEW s \in saves, D!SaveStored(s) PROVE DraftInv'
<1>1. DraftType'
  BY DEF DraftInv, DraftType, D!SaveStored
<1>2. D!NothingTypedIsLost'
  BY DEF DraftInv, DraftType, D!NothingTypedIsLost, TypedIsSent, UnderRead, D!Rule, D!SaveStored
<1>3. TypedIsSent'
  BY DEF DraftInv, DraftType, D!NothingTypedIsLost, TypedIsSent, UnderRead, D!Rule, D!SaveStored
<1>4. D!OldContentKept'
  BY DEF DraftInv, DraftType, D!OldContentKept, OriginIsSent, D!Rule, D!SaveStored
<1>5. OriginIsSent'
  BY DEF DraftInv, DraftType, D!OldContentKept, OriginIsSent, D!Rule, D!SaveStored
<1>6. AloneUnderWay'
  BY DEF DraftInv, DraftType, AloneUnderWay, UnderRead, D!SaveStored
<1>7. PageFollows'
  <2> SUFFICES ASSUME Undisturbed PROVE PageFollows'
    BY DEF PageFollows, Undisturbed, D!SaveStored
  <2> DEFINE t0 == [s EXCEPT !.st = "ok"]
  <2>1. saves' = (saves \ {s}) \cup {t0} /\ stored' = s.val /\ t0.val = s.val
    BY DEF D!SaveStored, DraftInv, DraftType
  <2>2. saves = {s}
    BY DEF Undisturbed, DraftInv, AloneUnderWay
  <2>3. saves' = {t0}
    BY <2>1, <2>2
  <2>4. ~draft.rule.adopts /\ ~draft.dirty => draft.now = s.val
    BY DEF DraftInv, PageFollows
  <2> HIDE DEF t0
  <2> QED
    BY <2>1, <2>3, <2>4 DEF PageFollows, D!SaveStored
<1> QED
  BY <1>1, <1>2, <1>3, <1>4, <1>5, <1>6, <1>7 DEF DraftInv

LEMMA DraftSaveAnswered == ASSUME DraftInv, NEW s \in saves, D!SaveAnswered(s) PROVE DraftInv'
<1>1. DraftType'
  BY DEF DraftInv, DraftType, D!SaveAnswered, D!Adopted, D!Rule
<1>2. D!NothingTypedIsLost'
  BY DEF DraftInv, DraftType, D!NothingTypedIsLost, TypedIsSent, UnderRead, D!Rule,
     D!SaveAnswered, D!Adopted, D!Rule
<1>3. TypedIsSent'
  BY DEF DraftInv, DraftType, D!NothingTypedIsLost, TypedIsSent, UnderRead, D!Rule,
     D!SaveAnswered, D!Adopted, D!Rule
<1>4. D!OldContentKept'
  BY DEF DraftInv, DraftType, D!OldContentKept, OriginIsSent, D!Rule, D!SaveAnswered, D!Adopted,
     D!Rule
<1>5. OriginIsSent'
  BY DEF DraftInv, DraftType, D!OldContentKept, OriginIsSent, D!Rule, D!SaveAnswered, D!Adopted,
     D!Rule
<1>6. AloneUnderWay'
  BY DEF DraftInv, DraftType, AloneUnderWay, UnderRead, D!SaveAnswered, D!Adopted, D!Rule
<1>7. PageFollows'
  BY DEF DraftInv, DraftType, AloneUnderWay, PageFollows, UnderRead, Undisturbed, D!Rule,
     D!SaveAnswered, D!Adopted, D!Rule
<1> QED
  BY <1>1, <1>2, <1>3, <1>4, <1>5, <1>6, <1>7 DEF DraftInv

LEMMA DraftSaveRefused == ASSUME DraftInv, NEW s \in saves, D!SaveRefused(s) PROVE DraftInv'
<1>1. DraftType'
  BY DraftUse DEF DraftInv, DraftType, D!SaveRefused, D!Adopted, D!Rule
<1>2. D!NothingTypedIsLost'
  BY DEF DraftInv, DraftType, D!NothingTypedIsLost, TypedIsSent, UnderRead, D!Rule, D!SaveRefused,
     D!Adopted, D!Room, D!Use, D!Rule
<1>3. TypedIsSent'
  BY DEF DraftInv, DraftType, D!NothingTypedIsLost, TypedIsSent, UnderRead, D!Rule, D!SaveRefused,
     D!Adopted, D!Room, D!Use, D!Rule
<1>4. D!OldContentKept'
  BY DEF DraftInv, DraftType, D!OldContentKept, OriginIsSent, D!Rule, D!SaveRefused, D!Adopted,
     D!Room, D!Use, D!Rule
<1>5. OriginIsSent'
  BY DEF DraftInv, DraftType, D!OldContentKept, OriginIsSent, D!Rule, D!SaveRefused, D!Adopted,
     D!Room, D!Use, D!Rule
<1>6. AloneUnderWay'
  BY DEF DraftInv, DraftType, AloneUnderWay, UnderRead, D!SaveRefused, D!Adopted, D!Room, D!Use,
     D!Rule
<1>7. PageFollows'
  BY DEF DraftInv, DraftType, AloneUnderWay, PageFollows, UnderRead, Undisturbed, D!Rule,
     D!SaveRefused, D!Adopted, D!Room, D!Use, D!Rule
<1> QED
  BY <1>1, <1>2, <1>3, <1>4, <1>5, <1>6, <1>7 DEF DraftInv

LEMMA DraftSaveLost == ASSUME DraftInv, NEW s \in saves, D!SaveLost(s) PROVE DraftInv'
<1>1. DraftType'
  BY DraftUse DEF DraftInv, DraftType, D!SaveLost, D!Rule
<1>2. D!NothingTypedIsLost'
  BY DEF DraftInv, DraftType, D!NothingTypedIsLost, TypedIsSent, UnderRead, D!Rule, D!SaveLost,
     D!Room, D!Use, D!Rule
<1>3. TypedIsSent'
  BY DEF DraftInv, DraftType, D!NothingTypedIsLost, TypedIsSent, UnderRead, D!Rule, D!SaveLost,
     D!Room, D!Use, D!Rule
<1>4. D!OldContentKept'
  BY DEF DraftInv, DraftType, D!OldContentKept, OriginIsSent, D!Rule, D!SaveLost, D!Room, D!Use,
     D!Rule
<1>5. OriginIsSent'
  BY DEF DraftInv, DraftType, D!OldContentKept, OriginIsSent, D!Rule, D!SaveLost, D!Room, D!Use,
     D!Rule
<1>6. AloneUnderWay'
  BY DEF DraftInv, DraftType, AloneUnderWay, UnderRead, D!SaveLost, D!Room, D!Use, D!Rule
<1>7. PageFollows'
  BY DEF DraftInv, DraftType, AloneUnderWay, PageFollows, UnderRead, Undisturbed, D!Rule,
     D!SaveLost, D!Room, D!Use, D!Rule
<1> QED
  BY <1>1, <1>2, <1>3, <1>4, <1>5, <1>6, <1>7 DEF DraftInv

LEMMA DraftStays == ASSUME DraftInv, UNCHANGED D!draftVars PROVE DraftInv'
<1>1. DraftType'
  BY DEF DraftInv, DraftType, D!draftVars
<1>2. D!NothingTypedIsLost'
  BY DEF DraftInv, DraftType, D!NothingTypedIsLost, TypedIsSent, UnderRead, D!Rule, D!draftVars
<1>3. TypedIsSent'
  BY DEF DraftInv, DraftType, D!NothingTypedIsLost, TypedIsSent, UnderRead, D!Rule, D!draftVars
<1>4. D!OldContentKept'
  BY DEF DraftInv, DraftType, D!OldContentKept, OriginIsSent, D!Rule, D!draftVars
<1>5. OriginIsSent'
  BY DEF DraftInv, DraftType, D!OldContentKept, OriginIsSent, D!Rule, D!draftVars
<1>6. AloneUnderWay'
  BY DEF DraftInv, DraftType, AloneUnderWay, UnderRead, D!draftVars
<1>7. PageFollows'
  BY DEF DraftInv, DraftType, AloneUnderWay, PageFollows, UnderRead, Undisturbed, D!Rule,
     D!draftVars
<1> QED
  BY <1>1, <1>2, <1>3, <1>4, <1>5, <1>6, <1>7 DEF DraftInv

LEMMA DraftStep == DraftInv /\ D!Next => DraftInv'
  BY DraftReadServed, DraftReadAnswered, DraftReadFailed, DraftEdit, DraftCancel, DraftSave,
     DraftSaveStored, DraftSaveAnswered, DraftSaveRefused, DraftSaveLost
  DEF D!Next, D!Answers, D!User, D!Faults

LEMMA DraftStart == D!Init => DraftInv
<1> SUFFICES ASSUME D!Init PROVE DraftInv
  OBVIOUS
<1>1. DraftType
  <2>1. PICK r \in D!AllDrafts :
          /\ draft = [rule |-> r, now |-> IF r.reads THEN {} ELSE {"orig"},
                      base |-> IF r.reads THEN {} ELSE {"orig"}, dirty |-> FALSE]
          /\ load = [st |-> IF r.reads THEN "asked" ELSE "done", got |-> {}]
    BY DEF D!Init
  <2>2. draft \in [rule : D!AllDrafts, now : Contents, base : Contents, dirty : BOOLEAN]
        /\ load \in [st : {"asked", "read", "done", "failed"}, got : Contents]
    BY <2>1
  <2>3. stored \in Contents /\ saves = {} /\ typed \in [Edits -> {"no", "idle", "loading", "saving"}]
        /\ tally \in [{"saves", "drops"} -> Nat]
    BY DEF D!Init
  <2>4. busy \in BOOLEAN /\ blind \in BOOLEAN /\ met \in BOOLEAN
    BY DEF D!Init
  <2> QED
    BY <2>2, <2>3, <2>4 DEF DraftType
<1>2. D!NothingTypedIsLost /\ TypedIsSent /\ D!OldContentKept /\ OriginIsSent
  BY DEF D!Init, D!NothingTypedIsLost, TypedIsSent, D!OldContentKept, OriginIsSent
<1>3. AloneUnderWay /\ PageFollows
  BY DEF D!Init, AloneUnderWay, PageFollows, Undisturbed
<1> QED
  BY <1>1, <1>2, <1>3 DEF DraftInv

\* What was typed is in the page or in a save, and what is stored is not overwritten
\* unread, for any edits in any order (the editors of frontend/views).
THEOREM DraftsAreKept == ClientSpec => []DraftKeeps
<1>1. ClientInit => (part = "draft" => DraftInv)
  BY DraftStart DEF ClientInit
<1>2. (part = "draft" => DraftInv) /\ [ClientNext]_cells => (part = "draft" => DraftInv)'
  <2> SUFFICES ASSUME part = "draft" => DraftInv, [ClientNext]_cells, part' = "draft"
               PROVE DraftInv'
    OBVIOUS
  <2>1. CASE D!Next /\ part = "draft"
    BY <2>1, DraftStep
  <2>2. CASE UNCHANGED cells
    <3>1. UNCHANGED D!draftVars
      BY <2>2 DEF cells, D!draftVars, draft, stored, load, saves, busy, typed, blind, met, tally
    <3> QED
      BY <2>2, <3>1, DraftStays DEF cells
  <2> QED
    BY <2>1, <2>2 DEF ClientNext, Kept6, Kept7, Kept9, Kept11, Kept13, Kept14, Kept15
<1>3. (part = "draft" => DraftInv) => DraftKeeps
<2>1. DraftInv => D!TypeOK
  BY DEF DraftInv, DraftType, D!TypeOK
<2>2. DraftInv => D!CleanShowsStored
  BY DEF DraftInv, DraftType, PageFollows, Undisturbed, D!CleanShowsStored, D!Rule
<2> QED
  BY <2>1, <2>2 DEF DraftInv, DraftKeeps
<1> QED
  BY <1>1, <1>2, <1>3, PTL DEF ClientSpec

HIDE DEF Contents

-----------------------------------------------------------------------------
(* Drafts of the AI (AIDrafts).                                             *)

Jobs == [st : {"test", "steps"}, of : A!Asks, todo : SUBSET Drafts, done : SUBSET Drafts, arrived : BOOLEAN]
AIType ==
  /\ ai \in {"assistant", "box"} /\ bound \in [{"asks", "errors"} -> Nat] /\ bound["asks"] <= MaxAsks
  /\ asking \in {0, bound["asks"]} /\ result \in 0..bound["asks"] /\ picks \subseteq Drafts
  /\ job = A!Idle \/ (job \in Jobs /\ job.todo # {} /\ job.todo \cap job.done = {})
  /\ count \in 0..Cardinality(Drafts) /\ tests \in [A!Asks \X Drafts -> Nat]
  /\ steps \subseteq A!Asks \X Drafts /\ told \subseteq A!Asks \X Drafts /\ again \in BOOLEAN

\* What is shown, and what is asked for, is never older than what is stored.
AIOrder ==
  /\ asking # 0 => result = 0
  /\ job # A!Idle => /\ job.of <= bound["asks"] /\ (result = 0 \/ result >= job.of)
                     /\ asking = 0 \/ asking > job.of
                     /\ job.st = "steps" => ai = "assistant"

Whole(p) == tests[p] > 0 /\ (ai = "assistant" /\ p[2] \in Stepped => p \in steps)
\* What the loop has behind it is stored.
AIStored ==
  /\ A!ReportIsTrue
  /\ job # A!Idle => /\ \A d \in job.done : Whole(<<job.of, d>>)
                     /\ job.arrived \/ job.st = "steps" => tests[A!Current] > 0
                     /\ job.arrived /\ job.st = "steps" => A!Current \in steps

\* A draft of which there is a test is one of an answer that is over, or one the
\* loop has behind it, and what it came from is not offered.
AIUsed(p) ==
  /\ p[1] <= bound["asks"] /\ p[1] # asking /\ (result = 0 \/ p[1] <= result)
  /\ job # A!Idle => p[1] <= job.of
  /\ IF job # A!Idle /\ job.of = p[1]
     THEN p[2] \in job.done \/ (p = A!Current /\ (job.arrived \/ job.st = "steps"))
     ELSE ~(result = p[1] /\ (ai = "box" => count = 0))

AIOnce == ~again => \A p \in A!Asks \X Drafts : tests[p] <= 1 /\ (tests[p] > 0 => AIUsed(p))

AIInv == AIType /\ AIOrder /\ AIStored /\ AIOnce
LEMMA LeastIn == ASSUME NEW T, T \subseteq Nat, T # {} PROVE A!Least(T) \in T
<1> DEFINE below == OpToRel(<, Nat)
<1>1. IsWellFoundedOn(below, Nat)
  BY NatLessThanWellFounded
<1>2. \A x, y \in Nat : y < x => <<y, x>> \in below
  BY DEF OpToRel
<1> HIDE DEF below
<1>3. PICK x \in T : \A y \in T : <<y, x>> \notin below
  BY <1>1, WFMin
<1>4. \A y \in T : x <= y
  <2> SUFFICES ASSUME NEW y \in T PROVE x <= y
    OBVIOUS
  <2>1. x \in Nat /\ y \in Nat
    OBVIOUS
  <2>2. ~(y < x)
    BY <1>2, <1>3, <2>1
  <2> QED
    BY <2>1, <2>2
<1> QED
  BY <1>4 DEF A!Least

LEMMA AIFinite ==
  /\ Cardinality(Drafts) \in Nat
  /\ \A T : T \subseteq Drafts => A!Cardinality(T) \in 0..Cardinality(Drafts) /\ (T # {} => A!Cardinality(T) # 0)
<1>1. \A T : A!Cardinality(T) = Cardinality(T)
  BY Zenon DEF A!Cardinality, Cardinality
<1>2. ASSUME NEW T, T \subseteq Drafts
      PROVE Cardinality(T) \in 0..Cardinality(Drafts) /\ (T # {} => Cardinality(T) # 0)
  <2>1. IsFiniteSet(T) /\ Cardinality(T) <= Cardinality(Drafts)
    BY <1>2, FS_Subset, AIAssumed
  <2>2. Cardinality(T) \in Nat /\ Cardinality(Drafts) \in Nat
    BY <2>1, FS_CardinalityType, AIAssumed
  <2> QED
    BY <2>1, <2>2, FS_EmptySet
<1>3. Cardinality(Drafts) \in Nat
  BY FS_CardinalityType, AIAssumed
<1> QED
  BY <1>1, <1>2, <1>3

LEMMA AIIdle == A!Idle \notin Jobs
  BY DEF A!Idle, Jobs

\* The draft the loop is at.
LEMMA AICurrent ==
  ASSUME AIType, job # A!Idle
  PROVE  /\ A!Least(job.todo) \in job.todo /\ A!Least(job.todo) \in Drafts /\ job \in Jobs /\ job.of \in A!Asks
         /\ A!Current \in A!Asks \X Drafts /\ A!Current = <<job.of, A!Least(job.todo)>>
<1>1. job \in Jobs /\ job.todo # {} /\ job.todo \subseteq Nat /\ job.todo \subseteq Drafts /\ job.of \in A!Asks
  BY AIAssumed DEF AIType, Jobs
<1>2. A!Least(job.todo) \in job.todo
  BY <1>1, LeastIn
<1> QED
  BY <1>1, <1>2 DEF A!Current

USE AIAssumed, AIIdle DEF Jobs, A!Asks

LEMMA AIAsk == ASSUME AIInv, A!Ask PROVE AIInv'
<1>1. AIType'
  <2>1. bound' \in [{"asks", "errors"} -> Nat] /\ bound'["asks"] = bound["asks"] + 1 /\ bound'["asks"] <= MaxAsks
    BY DEF AIInv, AIType, A!Ask, A!Spend, A!May
  <2> QED
    BY <2>1, AIFinite DEF AIInv, AIType, A!Ask
<1>2. AIOrder'
  BY DEF AIInv, AIType, AIOrder, A!Ask, A!Spend, A!May
<1>3. AIStored'
  BY DEF AIInv, AIType, AIOrder, AIStored, Whole, A!ReportIsTrue, A!Current, A!Ask, A!Spend, A!May
<1>4. AIOnce'
  BY DEF AIInv, AIType, AIOrder, AIOnce, AIUsed, A!Current, A!Ask, A!Spend, A!May
<1> QED
  BY <1>1, <1>2, <1>3, <1>4 DEF AIInv

LEMMA AIAnswered == ASSUME AIInv, A!Answered PROVE AIInv'
<1>1. AIType'
  BY DEF AIInv, AIType, AIOrder, A!Answered
<1>2. AIOrder'
  BY DEF AIInv, AIType, AIOrder, A!Answered
<1>3. AIStored'
  BY DEF AIInv, AIType, AIOrder, AIStored, Whole, A!ReportIsTrue, A!Current, A!Answered
<1>4. AIOnce'
  BY DEF AIInv, AIType, AIOrder, AIOnce, AIUsed, A!Current, A!Answered
<1> QED
  BY <1>1, <1>2, <1>3, <1>4 DEF AIInv

LEMMA AIAskFailed == ASSUME AIInv, A!AskFailed PROVE AIInv'
<1>1. AIType'
  BY DEF AIInv, AIType, AIOrder, A!AskFailed, A!Spend, A!May
<1>2. AIOrder'
  BY DEF AIInv, AIType, AIOrder, A!AskFailed, A!Spend, A!May
<1>3. AIStored'
  BY DEF AIInv, AIType, AIOrder, AIStored, Whole, A!ReportIsTrue, A!Current, A!AskFailed, A!Spend,
     A!May
<1>4. AIOnce'
  BY DEF AIInv, AIType, AIOrder, AIOnce, AIUsed, A!Current, A!AskFailed, A!Spend, A!May
<1> QED
  BY <1>1, <1>2, <1>3, <1>4 DEF AIInv

LEMMA AIToggle == ASSUME AIInv, NEW d \in Drafts, A!Toggle(d) PROVE AIInv'
<1>1. AIType'
  BY DEF AIInv, AIType, AIOrder, A!Toggle
<1>2. AIOrder'
  BY DEF AIInv, AIType, AIOrder, A!Toggle
<1>3. AIStored'
  BY DEF AIInv, AIType, AIOrder, AIStored, Whole, A!ReportIsTrue, A!Current, A!Toggle
<1>4. AIOnce'
  BY DEF AIInv, AIType, AIOrder, AIOnce, AIUsed, A!Current, A!Toggle
<1> QED
  BY <1>1, <1>2, <1>3, <1>4 DEF AIInv

LEMMA AIDiscard == ASSUME AIInv, A!Discard PROVE AIInv'
<1>1. AIType'
  BY AIFinite DEF AIInv, AIType, AIOrder, A!Discard
<1>2. AIOrder'
  BY DEF AIInv, AIType, AIOrder, A!Discard
<1>3. AIStored'
  BY DEF AIInv, AIType, AIOrder, AIStored, Whole, A!ReportIsTrue, A!Current, A!Discard
<1>4. AIOnce'
  BY DEF AIInv, AIType, AIOrder, AIOnce, AIUsed, A!Current, A!Discard
<1> QED
  BY <1>1, <1>2, <1>3, <1>4 DEF AIInv

LEMMA AISaveSelected == ASSUME AIInv, A!SaveSelected PROVE AIInv'
<1>1. AIType'
  BY DEF AIInv, AIType, AIOrder, A!SaveSelected
<1>2. AIOrder'
  BY DEF AIInv, AIType, AIOrder, A!SaveSelected
<1>3. AIStored'
  BY DEF AIInv, AIType, AIOrder, AIStored, Whole, A!ReportIsTrue, A!Current, A!SaveSelected
<1>4. AIOnce'
  BY DEF AIInv, AIType, AIOrder, AIOnce, AIUsed, A!Current, A!SaveSelected
<1> QED
  BY <1>1, <1>2, <1>3, <1>4 DEF AIInv

LEMMA AIArrives == ASSUME AIInv, A!Arrives PROVE AIInv'
<1>1. /\ job \in Jobs /\ job' = [job EXCEPT !.arrived = TRUE] /\ ~job.arrived
      /\ UNCHANGED <<ai, asking, result, picks, count, told, again, bound>>
  BY DEF A!Arrives, AIInv, AIType
<1>2. /\ job' \in Jobs /\ job'.of = job.of /\ job'.todo = job.todo /\ job'.done = job.done /\ job'.st = job.st
      /\ job'.arrived /\ job # A!Idle /\ job' # A!Idle /\ job.todo # {} /\ job.todo \cap job.done = {}
  BY <1>1 DEF AIInv, AIType
<1>3. /\ A!Current \in A!Asks \X Drafts /\ A!Current' = A!Current
      /\ A!Current[1] = job.of /\ A!Current[2] \in job.todo /\ A!Current[2] \notin job.done
  BY <1>2, AICurrent DEF AIInv, A!Current
<1>4. \/ job.st = "test" /\ tests' = [tests EXCEPT ![A!Current] = @ + 1] /\ steps' = steps
      \/ job.st = "steps" /\ steps' = steps \cup {A!Current} /\ tests' = tests
  BY <1>2 DEF A!Arrives
<1>5. /\ tests' \in [A!Asks \X Drafts -> Nat] /\ steps' \subseteq A!Asks \X Drafts /\ steps \subseteq steps'
      /\ \A p \in A!Asks \X Drafts : tests[p] \in Nat /\ tests'[p] >= tests[p]
  BY <1>3, <1>4 DEF AIInv, AIType
<1>6. AIType'
  BY <1>1, <1>2, <1>5 DEF AIInv, AIType
<1>7. AIOrder'
  BY <1>1, <1>2 DEF AIInv, AIType, AIOrder
<1>8. AIStored'
  <2>1. \A p \in A!Asks \X Drafts : Whole(p) => Whole(p)'
    BY <1>1, <1>5 DEF Whole
  <2>2. A!ReportIsTrue'
    BY <1>1, <2>1 DEF AIInv, AIType, AIStored, A!ReportIsTrue, Whole
  <2>3. \A d \in job.done : <<job.of, d>> \in A!Asks \X Drafts
    BY <1>1
  <2>4. \A d \in job'.done : Whole(<<job.of, d>>)'
    BY <1>2, <2>1, <2>3 DEF AIInv, AIStored
  <2>5. tests'[A!Current] > 0
    BY <1>2, <1>3, <1>4 DEF AIInv, AIType, AIStored
  <2>6. job.st = "steps" => A!Current \in steps'
    BY <1>4
  <2> QED
    BY <1>2, <1>3, <2>2, <2>4, <2>5, <2>6 DEF AIStored
<1>9. AIOnce'
  <2> SUFFICES ASSUME ~again, NEW p \in A!Asks \X Drafts, tests'[p] > 0
               PROVE tests'[p] <= 1 /\ AIUsed(p)'
    BY <1>1, <1>5 DEF AIOnce, AIInv, AIType
  <2>1. CASE tests[p] > 0
    <3>1. AIUsed(p) /\ tests[p] <= 1
      BY <2>1 DEF AIInv, AIOnce
    <3>2. AIUsed(p)'
      BY <1>1, <1>2, <1>3, <3>1 DEF AIUsed
    <3>3. tests'[p] = tests[p]
      <4>1. CASE job.st = "test"
        <5>1. p # A!Current
          BY <1>1, <1>2, <1>3, <3>1, <4>1 DEF AIUsed
        <5> QED
          BY <1>4, <5>1, <4>1 DEF AIInv, AIType
      <4>2. CASE job.st = "steps"
        BY <1>4, <4>2
      <4> QED
        BY <1>1, <4>1, <4>2
    <3> QED
      BY <3>1, <3>2, <3>3
  <2>2. CASE ~(tests[p] > 0)
    <3>1. p = A!Current /\ tests[p] = 0 /\ tests'[p] = 1
      BY <1>4, <1>5, <2>2 DEF AIInv, AIType
    <3>2. AIUsed(p)'
      BY <1>1, <1>2, <1>3, <3>1 DEF AIUsed, AIInv, AIType, AIOrder
    <3> QED
      BY <3>1, <3>2
  <2> QED
    BY <2>1, <2>2
<1> QED
  BY <1>6, <1>7, <1>8, <1>9 DEF AIInv

LEMMA AIProceeds == ASSUME AIInv, A!Proceeds PROVE AIInv'
<1> DEFINE d == A!Least(job.todo)
           rest == job.todo \ {d}
<1>1. /\ job \in Jobs /\ job # A!Idle /\ job.arrived /\ job.todo # {} /\ job.todo \cap job.done = {}
      /\ d \in job.todo /\ d \in Drafts /\ A!Current = <<job.of, d>> /\ A!Current \in A!Asks \X Drafts
  BY AICurrent DEF A!Proceeds, AIInv, AIType
<1>2. UNCHANGED <<ai, asking, tests, steps, again, bound>>
  BY DEF A!Proceeds
<1>3. CASE job.st = "test" /\ ai = "assistant" /\ d \in Stepped
  <2>1. job' = [job EXCEPT !.st = "steps", !.arrived = FALSE] /\ UNCHANGED <<result, picks, count, told>>
    BY <1>3 DEF A!Proceeds
  <2>2. /\ job' \in Jobs /\ job' # A!Idle /\ job'.of = job.of /\ job'.todo = job.todo /\ job'.done = job.done
        /\ job'.st = "steps" /\ ~job'.arrived /\ A!Current' = A!Current
    BY <1>1, <2>1 DEF A!Current
  <2>3. AIType'
    BY <1>1, <1>2, <2>1, <2>2 DEF AIInv, AIType
  <2>4. AIOrder'
    BY <1>1, <1>2, <1>3, <2>1, <2>2 DEF AIInv, AIType, AIOrder
  <2>5. AIStored'
    BY <1>1, <1>2, <2>1, <2>2 DEF AIInv, AIStored, A!ReportIsTrue, Whole
  <2>6. AIOnce'
    BY <1>1, <1>2, <2>1, <2>2 DEF AIInv, AIOnce, AIUsed
  <2> QED
    BY <2>3, <2>4, <2>5, <2>6 DEF AIInv
<1>4. ~(job.st = "test" /\ ai = "assistant" /\ d \in Stepped) => Whole(<<job.of, d>>)
  BY <1>1 DEF AIInv, AIStored, Whole
<1>5. CASE ~(job.st = "test" /\ ai = "assistant" /\ d \in Stepped) /\ rest # {}
  <2>1. /\ job' = [job EXCEPT !.st = "test", !.arrived = FALSE, !.todo = rest, !.done = @ \cup {d}]
        /\ UNCHANGED <<result, picks, count, told>>
    BY <1>5 DEF A!Proceeds
  <2>2. /\ job' \in Jobs /\ job' # A!Idle /\ job'.of = job.of /\ job'.todo = rest /\ job'.done = job.done \cup {d}
        /\ job'.st = "test" /\ ~job'.arrived
    <3>1. rest \in SUBSET Drafts /\ job.done \cup {d} \in SUBSET Drafts
      BY <1>1
    <3> HIDE DEF rest, d
    <3>2. job' \in Jobs
      BY <1>1, <2>1, <3>1
    <3>3. /\ job'.of = job.of /\ job'.todo = rest /\ job'.done = job.done \cup {d}
          /\ job'.st = "test" /\ job'.arrived = FALSE
      BY <1>1, <2>1
    <3> QED
      BY <3>2, <3>3
  <2>3. AIType'
    BY <1>1, <1>2, <1>5, <2>1, <2>2 DEF AIInv, AIType
  <2>4. AIOrder'
    BY <1>1, <1>2, <2>1, <2>2 DEF AIInv, AIType, AIOrder
  <2>5. AIStored'
    BY <1>1, <1>2, <1>4, <1>5, <2>1, <2>2 DEF AIInv, AIStored, A!ReportIsTrue, Whole
  <2>6. AIOnce'
    <3> SUFFICES ASSUME ~again, NEW p \in A!Asks \X Drafts, tests[p] > 0
                 PROVE tests[p] <= 1 /\ AIUsed(p)'
      BY <1>2, <2>1 DEF AIOnce, AIInv
    <3>1. AIUsed(p) /\ tests[p] <= 1
      BY DEF AIInv, AIOnce
    <3>2. p[1] = job.of => p[2] \in job'.done
      BY <1>1, <2>2, <3>1 DEF AIUsed
    <3> QED
      BY <1>1, <1>2, <2>1, <2>2, <3>1, <3>2 DEF AIUsed
  <2> QED
    BY <2>3, <2>4, <2>5, <2>6 DEF AIInv
<1>6. CASE ~(job.st = "test" /\ ai = "assistant" /\ d \in Stepped) /\ rest = {}
  <2> DEFINE all == job.done \cup {d}
  <2>1. /\ job' = A!Idle /\ told' = told \cup {<<job.of, e>> : e \in all}
        /\ IF ai = "assistant" THEN result' = 0 /\ picks' = {} /\ UNCHANGED count
           ELSE count' = A!Cardinality(all) /\ UNCHANGED <<result, picks>>
    BY <1>6 DEF A!Proceeds, A!Finished
  <2>2. A!Cardinality(all) \in 0..Cardinality(Drafts) /\ A!Cardinality(all) # 0 /\ all \subseteq Drafts
    BY <1>1, AIFinite
  <2> HIDE DEF d, all
  <2>3. AIType'
    <3>1. told' \subseteq A!Asks \X Drafts
      BY <1>1, <2>1, <2>2 DEF AIInv, AIType
    <3>2. result' \in 0..bound["asks"] /\ picks' \subseteq Drafts /\ count' \in 0..Cardinality(Drafts)
      <4>1. CASE ai = "assistant"
        BY <2>1, <4>1 DEF AIInv, AIType
      <4>2. CASE ai # "assistant"
        BY <2>1, <2>2, <4>2 DEF AIInv, AIType
      <4> QED
        BY <4>1, <4>2
    <3> QED
      BY <1>2, <2>1, <3>1, <3>2 DEF AIInv, AIType
  <2>4. AIOrder'
    BY <1>1, <1>2, <2>1 DEF AIInv, AIType, AIOrder
  <2>5. AIStored'
    <3>1. \A p \in told' : p \in told \/ \E e \in all : p = <<job.of, e>>
      BY <2>1
    <3>2. \A e \in all : Whole(<<job.of, e>>)
      BY <1>1, <1>4, <1>6 DEF AIInv, AIStored, all
    <3>3. \A p \in told' : Whole(p)
      BY <3>1, <3>2 DEF AIInv, AIStored, A!ReportIsTrue, Whole
    <3> QED
      BY <1>2, <2>1, <3>3 DEF AIStored, A!ReportIsTrue, Whole
  <2>6. AIOnce'
    <3> SUFFICES ASSUME ~again, NEW p \in A!Asks \X Drafts, tests[p] > 0
                 PROVE tests[p] <= 1 /\ AIUsed(p)'
      BY <1>2, <2>1 DEF AIOnce, AIInv
    <3>1. AIUsed(p) /\ tests[p] <= 1
      BY DEF AIInv, AIOnce
    <3>2. p[1] # 0
      BY AIAssumed
    <3>3. ~(result' = p[1] /\ (ai' = "box" => count' = 0))
      BY <1>2, <2>1, <2>2, <3>2 DEF AIInv, AIType
    <3> QED
      BY <1>1, <1>2, <2>1, <3>1, <3>3 DEF AIUsed
  <2> QED
    BY <2>3, <2>4, <2>5, <2>6 DEF AIInv
<1> QED
  BY <1>3, <1>5, <1>6

LEMMA AIBreaks == ASSUME AIInv, A!Breaks PROVE AIInv'
<1>1. /\ job \in Jobs /\ job # A!Idle /\ job' = A!Idle /\ UNCHANGED <<ai, asking, result, picks, tests, steps>>
      /\ count' = IF ai = "box" THEN A!Cardinality(job.done) ELSE count
      /\ told' = IF ai = "box" THEN told \cup {<<job.of, d>> : d \in job.done} ELSE told
      /\ again' = (again \/ (IF ai = "assistant" THEN job.done # {} \/ job.st = "steps" \/ job.arrived
                         ELSE job.done = {} /\ job.arrived))
  BY DEF A!Breaks, AIInv, AIType
<1>2. bound' \in [{"asks", "errors"} -> Nat] /\ bound'["asks"] = bound["asks"]
  BY DEF A!Breaks, A!Spend, AIInv, AIType
<1>3. A!Cardinality(job.done) \in 0..Cardinality(Drafts) /\ (job.done # {} => A!Cardinality(job.done) # 0)
  BY <1>1, AIFinite
<1>4. AIType'
  BY <1>1, <1>2, <1>3 DEF AIInv, AIType
<1>5. AIOrder'
  BY <1>1, <1>2 DEF AIInv, AIType, AIOrder
<1>6. AIStored'
  <2>1. \A d \in told' : d \in told \/ \E e \in job.done : d = <<job.of, e>>
    BY <1>1
  <2>2. A!ReportIsTrue'
    BY <1>1, <2>1 DEF AIInv, AIStored, A!ReportIsTrue, Whole
  <2> QED
    BY <1>1, <2>2 DEF AIStored
<1>7. AIOnce'
  <2> SUFFICES ASSUME ~again', NEW p \in A!Asks \X Drafts, tests'[p] > 0
               PROVE tests'[p] <= 1 /\ AIUsed(p)'
    BY <1>1 DEF AIOnce, AIInv, AIType
  <2>1. ~again /\ AIUsed(p) /\ tests[p] <= 1
    BY <1>1 DEF AIInv, AIOnce
  <2>2. job.of \in Nat /\ p[1] \in Nat /\ result \in Nat
    BY <1>1, AIAssumed DEF AIInv, AIType
  <2>3. (result = 0 \/ p[1] <= result) /\ p[1] <= job.of /\ (result = 0 \/ job.of <= result) /\ p[1] # 0
    BY <1>1, <2>1, <2>2 DEF AIInv, AIUsed, AIOrder
  <2>4. ~(result' = p[1] /\ (ai' = "box" => count' = 0))
    <3>1. CASE result = p[1]
      <4>1. job.of = p[1]
        BY <2>2, <2>3, <3>1
      <4>2. p[2] \in job.done \/ job.arrived \/ job.st = "steps"
        BY <1>1, <2>1, <4>1 DEF AIUsed
      <4>3. ai = "box" => job.st # "steps"
        BY <1>1 DEF AIInv, AIType, AIOrder
      <4>4. ai = "box" /\ job.done # {}
        BY <1>1, <4>2, <4>3 DEF AIInv, AIType
      <4> QED
        BY <1>1, <1>3, <4>4
    <3>2. CASE result # p[1]
      BY <1>1, <3>2
    <3> QED
      BY <3>1, <3>2
  <2> QED
    BY <1>1, <1>2, <2>1, <2>4 DEF AIUsed
<1> QED
  BY <1>4, <1>5, <1>6, <1>7 DEF AIInv

LEMMA AIStays == ASSUME AIInv, UNCHANGED A!aiVars PROVE AIInv'
<1>1. AIType'
  BY DEF AIInv, AIType, AIOrder, A!aiVars
<1>2. AIOrder'
  BY DEF AIInv, AIType, AIOrder, A!aiVars
<1>3. AIStored'
  BY DEF AIInv, AIType, AIOrder, AIStored, Whole, A!ReportIsTrue, A!Current, A!aiVars
<1>4. AIOnce'
  BY DEF AIInv, AIType, AIOrder, AIOnce, AIUsed, A!Current, A!aiVars
<1> QED
  BY <1>1, <1>2, <1>3, <1>4 DEF AIInv

LEMMA AIStep == AIInv /\ A!Next => AIInv'
  BY AIAsk, AIAnswered, AIAskFailed, AIToggle, AIDiscard, AISaveSelected, AIArrives, AIProceeds,
     AIBreaks
  DEF A!Next

LEMMA AIStart == A!Init => AIInv
<1> SUFFICES ASSUME A!Init PROVE AIInv
  OBVIOUS
<1>1. AIType
  <2>1. bound \in [{"asks", "errors"} -> Nat] /\ bound["asks"] = 0 /\ bound["asks"] <= MaxAsks
    BY AIAssumed DEF A!Init
  <2>2. tests \in [A!Asks \X Drafts -> Nat]
    BY DEF A!Init
  <2>3. count = 0 /\ result = 0 /\ again = FALSE
    BY DEF A!Init
  <2>4. count \in 0..Cardinality(Drafts) /\ result \in 0..bound["asks"]
    BY AIFinite, <2>1, <2>3
  <2>5. again \in BOOLEAN
    BY <2>3
  <2> QED
    BY <2>1, <2>2, <2>4, <2>5 DEF A!Init, AIType
<1>2. AIOrder /\ AIStored /\ AIOnce
  BY DEF A!Init, AIOrder, AIStored, AIOnce, A!ReportIsTrue
<1> QED
  BY <1>1, <1>2 DEF AIInv

\* No draft becomes two tests, and what is reported as stored is stored, for any set
\* of drafts and any number of questions (view-config.jsx, view-overview.jsx).
THEOREM DraftsBecomeOne == ClientSpec => []DraftsStoredOnce
<1>1. ClientInit => (part = "ai" => AIInv)
  BY AIStart DEF ClientInit
<1>2. (part = "ai" => AIInv) /\ [ClientNext]_cells => (part = "ai" => AIInv)'
  <2> SUFFICES ASSUME part = "ai" => AIInv, [ClientNext]_cells, part' = "ai"
               PROVE AIInv'
    OBVIOUS
  <2>1. CASE A!Next /\ part = "ai"
    BY <2>1, AIStep
  <2>2. CASE UNCHANGED cells
    <3>1. UNCHANGED A!aiVars
      BY <2>2 DEF cells, A!aiVars, ai, asking, result, picks, job, count, tests, steps, told,
         again, bound
    <3> QED
      BY <2>2, <3>1, AIStays DEF cells
  <2> QED
    BY <2>1, <2>2 DEF ClientNext, Kept6, Kept7, Kept9, Kept11, Kept13, Kept14, Kept15
<1>3. (part = "ai" => AIInv) => DraftsStoredOnce
<2>1. \A T : A!Cardinality(T) = Cardinality(T)
  BY Zenon DEF A!Cardinality, Cardinality
<2>2. AIInv => A!TypeOK
  BY <2>1 DEF AIInv, AIType, A!TypeOK
<2>3. AIInv => A!NoDraftTwice
  BY DEF AIInv, AIType, AIOnce, A!NoDraftTwice
<2> QED
  BY <2>2, <2>3 DEF AIInv, AIStored, DraftsStoredOnce
<1> QED
  BY <1>1, <1>2, <1>3, PTL DEF ClientSpec

HIDE AIAssumed DEF Jobs, A!Asks
=============================================================================
