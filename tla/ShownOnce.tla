------------------------------- MODULE ShownOnce -------------------------------
(* Secrets that the server shows once: the recovery codes of two-factor      *)
(* authentication (SecurityTab and its dialogs in view-settings.jsx) and API *)
(* tokens (CreateTokenModal and TokenRevealModal in view-config.jsx).  The   *)
(* server makes a secret when a dialog asks for it; the dialog shows it, and *)
(* the user closes it once the secret is copied.  But every dialog can be    *)
(* closed at any time, also while its request is under way.                  *)
EXTENDS Integers, FiniteSets

CONSTANTS MaxAsked, MaxBroken      \* bounds: requests; answers lost

VARIABLES
  place,     \* the page: "security" or "tokens"
  dialog,    \* the dialog that is open: [op, step], step one of setup, form, sending, codes
  requests,  \* the requests whose answers are to come
  valid,     \* the server's secrets that are good
  status,    \* what the page says: two-factor authentication is "on" or "off", or "unknown"
  counting,  \* the reads of the status that are under way
  reveal,    \* the token that is shown, or 0
  kept,      \* history: the secrets the user has copied
  missed,    \* history: the secrets that were asked for by a dialog closed too early,
             \* covered by another, or whose answer was lost
  late,      \* history: a dialog was closed, or a status read, while a request was under way
  asked      \* how much of each bound is used up

onceVars == <<place, dialog, requests, valid, status, counting, reveal, kept, missed, late, asked>>

NoDialog == [op |-> "none", step |-> "none"]
On == valid # {}

Init ==
  /\ place \in {"security", "tokens"} /\ dialog = NoDialog /\ requests = {} /\ valid = {}
  /\ status = "unknown" /\ counting = (IF place = "security" THEN {"asked"} ELSE {})
  /\ reveal = 0 /\ kept = {} /\ missed = {} /\ late = FALSE
  /\ asked = [b \in {"asked", "broken"} |-> 0]

-----------------------------------------------------------------------------
(* The status of two-factor authentication: read at mount and whenever a     *)
(* dialog closes; an error stays on the page for good, and takes the dialog  *)
(* that is open from it.                                                     *)

\* the secrets a dialog no longer shows when it is taken away
Cut == {r.n : r \in requests} \cup (IF dialog.step = "codes" THEN valid ELSE {})

CountServed ==
  /\ "asked" \in counting
  /\ counting' = (counting \ {"asked"}) \cup {IF On THEN "on" ELSE "off"}
  /\ UNCHANGED <<place, dialog, requests, valid, status, reveal, kept, missed, late, asked>>

CountAnswered(s) ==
  /\ s \in counting \cap {"on", "off"}
  /\ counting' = counting \ {s} /\ status' = (IF status = "error" THEN status ELSE s)
  /\ UNCHANGED <<place, dialog, requests, valid, reveal, kept, missed, late, asked>>

CountFailed(s) ==
  /\ s \in counting /\ asked["broken"] < MaxBroken
  /\ asked' = [asked EXCEPT !["broken"] = @ + 1]
  /\ counting' = counting \ {s} /\ status' = "error" /\ dialog' = NoDialog
  /\ missed' = missed \cup Cut
  /\ UNCHANGED <<place, requests, valid, reveal, kept, late>>

Closed ==
  /\ dialog' = NoDialog
  /\ counting' = IF place = "security" THEN counting \cup {"asked"} ELSE counting
  /\ late' = (late \/ requests # {} \/ counting # {})

-----------------------------------------------------------------------------
(* The dialogs.                                                              *)

Offered(op) == CASE op = "enroll" -> status = "off"
                 [] op \in {"regen", "disable"} -> status = "on"
                 [] op = "create" -> place = "tokens" /\ reveal = 0

Open(op) ==
  /\ dialog = NoDialog /\ Offered(op)
  /\ dialog' = [op |-> op, step |-> IF op = "enroll" THEN "setup" ELSE "form"]
  /\ UNCHANGED <<place, requests, valid, status, counting, reveal, kept, missed, late, asked>>

\* the secret for the authenticator has been fetched and scanned
Next2 ==
  /\ dialog.step = "setup"
  /\ dialog' = [dialog EXCEPT !.step = "form"]
  /\ UNCHANGED <<place, requests, valid, status, counting, reveal, kept, missed, late, asked>>

Submit ==
  /\ dialog.step = "form" /\ asked["asked"] < MaxAsked
  /\ asked' = [asked EXCEPT !["asked"] = @ + 1]
  /\ dialog' = [dialog EXCEPT !.step = "sending"]
  /\ requests' = requests \cup {[n |-> asked["asked"] + 1, op |-> dialog.op, st |-> "sent"]}
  /\ UNCHANGED <<place, valid, status, counting, reveal, kept, missed, late>>

\* Faulty: the codes can be clicked away like the steps before them
CancelAnyStep ==
  /\ dialog # NoDialog
  /\ missed' = IF dialog.step = "sending" THEN missed \cup {r.n : r \in requests} ELSE missed
  /\ Closed
  /\ UNCHANGED <<place, requests, valid, status, reveal, kept, asked>>

\* Cancel, and for the tokens Escape and a click beside the dialog
Cancel ==
  /\ dialog.step \in {"setup", "form", "sending"}
  /\ missed' = IF dialog.step = "sending" THEN missed \cup {r.n : r \in requests} ELSE missed
  /\ Closed
  /\ UNCHANGED <<place, requests, valid, status, reveal, kept, asked>>

\* the server makes codes in place of the old ones, a token beside the others
Served(r) ==
  /\ r.st = "sent"
  /\ LET good == r.op = "create" \/ (r.op = "enroll" /\ ~On) \/ (r.op \in {"regen", "disable"} /\ On)
     IN  /\ requests' = (requests \ {r}) \cup {[r EXCEPT !.st = IF good THEN "ok" ELSE "refused"]}
         /\ valid' = CASE ~good           -> valid
                       [] r.op = "disable" -> {}
                       [] r.op = "create"  -> valid \cup {r.n}
                       [] OTHER            -> {r.n}
  /\ UNCHANGED <<place, dialog, status, counting, reveal, kept, missed, late, asked>>

\* Is the dialog that asked still the one on the screen?  A dialog that was
\* closed lets its answer go, or, where the page closes it, the one open by now.
Mine(r) == dialog.step = "sending" /\ r.n \notin missed

Answered(r) ==
  /\ r.st = "ok"
  /\ requests' = requests \ {r}
  /\ CASE r.op \in {"enroll", "regen"} ->
            /\ dialog' = IF Mine(r) THEN [dialog EXCEPT !.step = "codes"] ELSE dialog
            /\ UNCHANGED <<counting, reveal, missed, late>>
       [] r.op = "disable" ->
            /\ dialog' = NoDialog /\ counting' = counting \cup {"asked"}
            /\ late' = (late \/ requests # {r} \/ counting # {})
            /\ missed' = missed \cup Cut
            /\ UNCHANGED reveal
       [] r.op = "create" ->
            /\ dialog' = NoDialog /\ reveal' = r.n
            /\ missed' = missed \cup ({reveal} \ {0})
            /\ UNCHANGED <<counting, late>>
  /\ UNCHANGED <<place, valid, status, kept, asked>>

Failed(r) ==
  /\ \/ r.st = "refused" /\ UNCHANGED asked
     \/ r.st # "refused" /\ asked["broken"] < MaxBroken /\ asked' = [asked EXCEPT !["broken"] = @ + 1]
  /\ requests' = requests \ {r}
  /\ dialog' = IF Mine(r) THEN [dialog EXCEPT !.step = "form"] ELSE dialog
  /\ missed' = missed \cup {r.n}
  /\ UNCHANGED <<place, valid, status, counting, reveal, kept, late>>

\* Finish (once "I have saved my codes" is ticked) or Done
Done ==
  /\ dialog.step = "codes" /\ kept' = kept \cup valid
  /\ Closed
  /\ UNCHANGED <<place, requests, valid, status, reveal, missed, asked>>

DoneToken ==
  /\ reveal # 0 /\ kept' = kept \cup {reveal} /\ reveal' = 0
  /\ UNCHANGED <<place, dialog, requests, valid, status, counting, missed, late, asked>>

Answers == \/ CountServed \/ (\E s \in {"on", "off"} : CountAnswered(s))
           \/ \E r \in requests : Served(r) \/ Answered(r) \/ (r.st = "refused" /\ Failed(r))

Next == \/ Answers
        \/ \E s \in counting : CountFailed(s)
        \/ \E op \in {"enroll", "regen", "disable", "create"} : Open(op)
        \/ Next2 \/ Submit \/ Cancel \/ Done \/ DoneToken
        \/ \E r \in requests : Failed(r)

-----------------------------------------------------------------------------
TypeOK ==
  /\ dialog.step \in {"none", "setup", "form", "sending", "codes"}
  /\ valid \subseteq 1..MaxAsked /\ reveal \in 0..MaxAsked
  /\ status \in {"unknown", "on", "off", "error"} /\ counting \subseteq {"asked", "on", "off"}
  /\ place = "security" => Cardinality(valid) <= 1 /\ reveal = 0

\* A secret that is good on the server is one the user has copied, has on the
\* screen, or is about to get - unless the dialog that asked for it was closed
\* while it was waiting, another token was shown over it, the answer was lost,
\* or the page took the dialog away (a status that cannot be read, a removal
\* answered late).  So a second-factor login never depends on codes nobody has seen for
\* any other reason.
SecretsAreSeen ==
  \A n \in valid : \/ n \in kept \/ n \in missed \/ reveal = n \/ dialog.step = "codes"
                   \/ \E r \in requests : r.n = n

\* Once all is answered the page says whether two-factor authentication is on,
\* if no dialog was closed over a request that was under way.
StatusIsTrue ==
  (place = "security" /\ requests = {} /\ counting = {} /\ dialog = NoDialog /\ ~late
    /\ asked["broken"] = 0) => (status = "on") = On

\* A dialog that waits for the server gets an answer.
AtRest == dialog.step # "sending"
DialogAnswers == []<>AtRest
=============================================================================
