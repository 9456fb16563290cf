-------------------------------- MODULE Session --------------------------------
(* Who a browser shows and who it acts as (AuthRoot of frontend/app.jsx, the *)
(* log-in pages of view-login.jsx and the client api.js).  The token is in   *)
(* localStorage, which all tabs share and every request reads anew; the user *)
(* and the data shown are each tab's own, set by answers that may come late. *)
EXTENDS Integers, FiniteSets

CONSTANTS
  Tabs, Users,
  TwoFactor,              \* the users whose log-in takes a second step
  MaxSteps, MaxOutages    \* bounds: things users do; requests without an answer

VARIABLES
  token,     \* th_token: [user, n], or NoToken
  revoked,   \* the server: the tokens that are no longer accepted
  tab,       \* each tab: the page it shows, the user, whose TH_DATA it holds, and
             \* whose partial token or pending link it holds
  calls,     \* requests whose answers are to come
  crossed,   \* history: the tabs that logged in or out over a request that was under
             \* way, or whose token another tab has changed
  steps, outages    \* how much of the bounds is used up

sessionVars == <<token, revoked, tab, calls, crossed, steps, outages>>

NoToken == [user |-> "none", n |-> 0]
Blank(page) == [page |-> page, user |-> "none", data |-> "none", partial |-> "none"]

Init ==
  /\ token \in {NoToken} \cup {[user |-> u, n |-> 1] : u \in Users}
  /\ revoked \in {{}, {token} \ {NoToken}}
  /\ tab = [t \in Tabs |-> Blank("closed")]
  /\ calls = {} /\ crossed = {} /\ steps = 1 /\ outages = 0

Step == steps <= MaxSteps /\ steps' = steps + 1
\* a request, with the token it carries or the user it would log in
New(t, kind, tok) == [tab |-> t, kind |-> kind, tok |-> tok, n |-> steps]
Of(t) == {c \in calls : c.tab = t}
Waiting(t, kind) == \E c \in Of(t) : c.kind = kind

\* a tab sets or clears the token: from here on the others hold another one,
\* and it has crossed what it is itself still waiting for
Write(t, tok, others) ==
  /\ token' = tok
  /\ crossed' = crossed \cup (IF tok = token THEN {} ELSE Tabs \ {t}) \cup (IF others = {} THEN {} ELSE {t})

Keep == UNCHANGED <<token, crossed>>

-----------------------------------------------------------------------------
(* Opening the page (checkAuth).  What the tab was waiting for is forgotten. *)

\* getCurrentUser: without a token nobody is asked
Load(t) ==
  /\ Step
  /\ IF token = NoToken
     THEN tab' = [tab EXCEPT ![t] = Blank("login")] /\ calls' = (calls \ Of(t))
     ELSE /\ tab' = [tab EXCEPT ![t] = Blank("checking")]
          /\ calls' = (calls \ Of(t)) \cup {New(t, "me", token)}
  /\ crossed' = crossed \ {t}
  /\ UNCHANGED <<token, revoked, outages>>

\* back from the provider: with a token, for a second factor, or to link accounts
OAuthReturn(t, u) ==
  /\ Step
  /\ \/ /\ tab' = [tab EXCEPT ![t] = Blank("checking")]
        /\ token' = [user |-> u, n |-> steps]
        /\ crossed' = (crossed \cup Tabs) \ {t}
        /\ calls' = (calls \ Of(t)) \cup {New(t, "me", [user |-> u, n |-> steps])}
     \/ /\ \E p \in {"twofa", "confirm"} : tab' = [tab EXCEPT ![t] = [Blank(p) EXCEPT !.partial = u]]
        /\ calls' = (calls \ Of(t)) /\ crossed' = crossed \ {t} /\ UNCHANGED token
  /\ UNCHANGED <<revoked, outages>>

Enter(t, u) == [tab EXCEPT ![t].page = "app", ![t].user = u, ![t].partial = "none"]

\* The answer to GET /me: the user of the token that was sent, who is then
\* shown; refused, it clears the token there is by now.
MeAnswered(c) ==
  /\ c.kind = "me"
  /\ \/ /\ c.tok \notin revoked
        /\ tab' = Enter(c.tab, c.tok.user)
        /\ calls' = (calls \ {c}) \cup {New(c.tab, "init", token)}
        /\ Keep
     \/ /\ c.tok \in revoked
        /\ tab' = [tab EXCEPT ![c.tab].page = "login"]
        /\ calls' = calls \ {c}
        /\ Write(c.tab, NoToken, {})
  /\ UNCHANGED <<revoked, steps, outages>>

-----------------------------------------------------------------------------
(* Logging in.  A page can be left for another while it waits: nothing       *)
(* cancels its request.                                                      *)

SubmitLogin(t, u) ==
  /\ tab[t].page = "login" /\ ~Waiting(t, "login") /\ Step
  /\ calls' = calls \cup {New(t, "login", [user |-> u, n |-> 0])}
  /\ UNCHANGED <<revoked, tab, outages>> /\ Keep

SubmitCode(t) ==
  /\ tab[t].page \in {"twofa", "confirm"} /\ Step
  /\ ~\E c \in Of(t) : c.kind = tab[t].page /\ c.tok.user = tab[t].partial
  /\ calls' = calls \cup {New(t, tab[t].page, [user |-> tab[t].partial, n |-> 0])}
  /\ UNCHANGED <<revoked, tab, outages>> /\ Keep

\* Back, or Cancel
Back(t) ==
  /\ tab[t].page \in {"twofa", "confirm"}
  /\ tab' = [tab EXCEPT ![t].page = "login", ![t].partial = "none"]
  /\ UNCHANGED <<revoked, calls, steps, outages>> /\ Keep

\* Faulty: the data of whoever was logged in before stays
LogInOnly(c) ==
  /\ c.kind \in {"login", "confirm", "twofa"}
  /\ IF c.kind # "twofa" /\ c.tok.user \in TwoFactor
     THEN /\ tab' = IF tab[c.tab].page = "app" THEN tab
                    ELSE [tab EXCEPT ![c.tab].page = "twofa", ![c.tab].partial = c.tok.user]
          /\ Keep
     ELSE /\ tab' = Enter(c.tab, c.tok.user)
          /\ Write(c.tab, [user |-> c.tok.user, n |-> steps], Of(c.tab) \ {c})
  /\ calls' = calls \ {c}
  /\ UNCHANGED <<revoked, steps, outages>>

\* the token is stored and the user shown in one turn of the event loop
LogInAnswered(c) ==
  /\ c.kind \in {"login", "confirm", "twofa"}
  /\ IF c.kind # "twofa" /\ c.tok.user \in TwoFactor
     THEN /\ tab' = IF tab[c.tab].page = "app" THEN tab
                    ELSE [tab EXCEPT ![c.tab].page = "twofa", ![c.tab].partial = c.tok.user]
          /\ calls' = calls \ {c} /\ Keep
     ELSE /\ tab' = Enter(c.tab, c.tok.user)
          /\ Write(c.tab, [user |-> c.tok.user, n |-> steps], Of(c.tab) \ {c})
          /\ calls' = (calls \ {c}) \cup {New(c.tab, "init", [user |-> c.tok.user, n |-> steps])}
  /\ UNCHANGED <<revoked, steps, outages>>

\* wrong password or code, or a profile that is not accepted: the page stays
Refused(c) ==
  /\ c.kind \in {"login", "confirm", "twofa", "profile"}
  /\ calls' = calls \ {c}
  /\ UNCHANGED <<revoked, tab, steps, outages>> /\ Keep

-----------------------------------------------------------------------------
(* Being logged in.                                                          *)

\* TH_API.init: TH_DATA is what the token that was sent may see; refused, it
\* stays as it is
InitAnswered(c) ==
  /\ c.kind = "init"
  /\ tab' = IF c.tok \in revoked \cup {NoToken} THEN tab ELSE [tab EXCEPT ![c.tab].data = c.tok.user]
  /\ calls' = calls \ {c}
  /\ UNCHANGED <<revoked, steps, outages>> /\ Keep

\* the token is cleared at once, the server hears of it whenever it may
Logout(t) ==
  /\ tab[t].page = "app" /\ Step
  /\ Write(t, NoToken, Of(t))
  /\ tab' = [tab EXCEPT ![t].page = "login", ![t].user = "none"]
  /\ UNCHANGED <<revoked, calls, outages>>

SaveProfile(t) ==
  /\ tab[t].page = "app" /\ token # NoToken /\ ~Waiting(t, "profile") /\ Step
  /\ calls' = calls \cup {New(t, "profile", token)}
  /\ UNCHANGED <<revoked, tab, outages>> /\ Keep

\* setCurrentUser with the profile of whoever's token was sent, whatever the
\* tab shows by now
ProfileAnswered(c) ==
  /\ c.kind = "profile" /\ c.tok \notin revoked
  /\ tab' = [tab EXCEPT ![c.tab].user = c.tok.user, ![c.tab].page = "app"]
  /\ calls' = calls \ {c}
  /\ UNCHANGED <<revoked, steps, outages>> /\ Keep

\* a token expires, or its user is removed
Revoke ==
  /\ token # NoToken /\ token \notin revoked /\ Step
  /\ revoked' = revoked \cup {token}
  /\ UNCHANGED <<tab, calls, outages>> /\ Keep

\* No answer.  getCurrentUser throws, and "Loading..." stays; everything else
\* can be tried again.
NoAnswer(c) ==
  /\ outages < MaxOutages /\ outages' = outages + 1
  /\ calls' = calls \ {c}
  /\ UNCHANGED <<revoked, tab, steps>> /\ Keep

Answers == \E c \in calls : MeAnswered(c) \/ LogInAnswered(c) \/ InitAnswered(c) \/ ProfileAnswered(c)

Next == \/ \E t \in Tabs : Load(t) \/ SubmitCode(t) \/ Back(t) \/ Logout(t) \/ SaveProfile(t)
        \/ \E t \in Tabs, u \in Users : OAuthReturn(t, u) \/ SubmitLogin(t, u)
        \/ Answers \/ Revoke
        \/ \E c \in calls : Refused(c) \/ NoAnswer(c)

-----------------------------------------------------------------------------
TypeOK ==
  /\ token = NoToken \/ token.user \in Users
  /\ \A t \in Tabs : /\ tab[t].page \in {"closed", "checking", "login", "twofa", "confirm", "app"}
                     /\ {tab[t].user, tab[t].data, tab[t].partial} \subseteq Users \cup {"none"}
                     /\ (tab[t].page = "app") = (tab[t].user # "none")
  /\ crossed \subseteq Tabs

\* A tab acts as the user it shows: the requests it sends carry that user's
\* token - unless another tab has changed the token since, or the user logged
\* in or out over a request whose answer then brought somebody else back.
ActsAsShown ==
  \A t \in Tabs : (tab[t].page = "app" /\ t \notin crossed) => token.user = tab[t].user

\* The data a tab shows is that of the user it shows once it has arrived.
ShowsOwnData ==
  \A t \in Tabs : (tab[t].page = "app" /\ t \notin crossed /\ outages = 0 /\ ~Waiting(t, "init")
           /\ token \notin revoked) => tab[t].data = tab[t].user

\* "Loading..." ends, unless the answer to the first request is lost.
AtRest == outages > 0 \/ \A t \in Tabs : tab[t].page # "checking"
CheckEnds == []<>AtRest
=============================================================================
