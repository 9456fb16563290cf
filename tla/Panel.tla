-------------------------------- MODULE Panel --------------------------------
(* A panel of the web client: a list of records read from the server, the    *)
(* form that creates and edits them, and the controls on a row.  The client  *)
(* writes this out once per page; the pages differ in a few rules, which     *)
(* PanelCatalog reads off each of them.  Here are the steps all of them      *)
(* take, with the answers of the server coming at any time and in any order. *)
EXTENDS Integers, FiniteSets

CONSTANTS
  Panels,       \* the panels there are: [list |-> list rules, form |-> form rules]
  Keys, Home,   \* the filters of a list (or the record it belongs to), the first one
  Rows,         \* the identities of records: the old ones, then one for each change
  Old,          \* the records there are at first: Old[i] is the key of record i
  MaxReads, MaxForms, MaxChanges, MaxFaults   \* bounds

VARIABLES
  panel,    \* the panel that is open
  rows,     \* the server's records: [key, val], or Absent
  key,      \* the filter the user has chosen
  shown,    \* the records in the list
  reading,  \* "Loading..."
  broken,   \* an error is shown in place of the list
  reads,    \* the reads whose answers are to come
  form,     \* of: Closed, New or the record that is edited; n: which form it is
  saving,   \* the flag that disables the form's button
  changes,  \* creations, updates and removals whose answers are to come
  made,     \* history: how many records each form has created
  raced,    \* history: one of the races named in ListAgrees has happened
  gone,     \* the panel has been left for the record it created
  spent     \* how much of each bound is used up

panelVars == <<panel, rows, key, shown, reading, broken, reads, form, saving, changes,
               made, raced, gone, spent>>

Absent == [key |-> "none", val |-> 0]
NotYet == [i \in Rows |-> Absent]
New == 0
Closed == -1

Of(f, k) == [i \in Rows |-> IF f[i].key = k THEN f[i] ELSE Absent]

Within(b, n) == spent[b] < n
Pay(b) == spent' = [spent EXCEPT ![b] = @ + 1]

Init ==
  /\ panel \in Panels
  /\ rows = [i \in Rows |-> IF i \in DOMAIN Old THEN [key |-> Old[i], val |-> 0] ELSE Absent]
  /\ key = Home /\ shown = NotYet /\ reading = TRUE /\ broken = FALSE
  /\ reads = {[n |-> 0, key |-> Home, served |-> FALSE, got |-> NotYet]}
  /\ form = [of |-> Closed, n |-> 0] /\ saving = FALSE /\ changes = {}
  /\ made = [n \in 1..MaxForms |-> 0] /\ raced = FALSE /\ gone = FALSE
  /\ spent = [b \in {"reads", "forms", "changes", "faults"} |-> 0]

\* what cannot be reached now: the controls on a row, and the form
NoRows == gone \/ broken \/ (reading /\ panel.list.hides # "nothing")
NoForm == gone \/ broken \/ (reading /\ panel.list.hides = "all")

-----------------------------------------------------------------------------
(* Reading the list.                                                         *)

Read(k, others) ==
  /\ reads' = reads \cup {[n |-> spent["reads"] + 1, key |-> k, served |-> FALSE, got |-> NotYet]}
  /\ raced' = (raced \/ others # {} \/ (reads # {} /\ ~panel.list.cancels))
  /\ Pay("reads")

\* the user chooses another filter; the component stays mounted
Pick(k) ==
  /\ panel.list.keyed /\ ~gone /\ form.of = Closed
  /\ k # key /\ Within("reads", MaxReads)
  /\ key' = k /\ reading' = TRUE /\ Read(k, changes)
  /\ UNCHANGED <<panel, rows, shown, broken, form, saving, changes, made, gone>>

\* a page that asks again every five seconds, one read at a time
Poll ==
  /\ panel.list.polls /\ ~gone /\ reads = {} /\ Within("reads", MaxReads)
  /\ Read(key, changes)
  /\ UNCHANGED <<panel, rows, key, shown, reading, broken, form, saving, changes, made, gone>>

ReadServed(r) ==
  /\ ~r.served
  /\ reads' = (reads \ {r}) \cup {[r EXCEPT !.served = TRUE, !.got = Of(rows, r.key)]}
  /\ UNCHANGED <<panel, rows, key, shown, reading, broken, form, saving, changes, made, raced,
                 gone, spent>>

Newest(r) == r.n = spent["reads"]
Heeded(r) == ~panel.list.cancels \/ Newest(r)

ReadAnswered(r) ==
  /\ r.served /\ ~gone
  /\ reads' = reads \ {r}
  /\ IF Heeded(r)
     THEN /\ shown' = r.got /\ reading' = FALSE
          /\ broken' = (broken /\ panel.list.onError = "latch")
     ELSE UNCHANGED <<shown, reading, broken>>
  /\ UNCHANGED <<panel, rows, key, form, saving, changes, made, raced, gone, spent>>

ReadFailed(r) ==
  /\ ~gone /\ Within("faults", MaxFaults) /\ Pay("faults")
  /\ reads' = reads \ {r}
  /\ IF Heeded(r)
     THEN /\ reading' = FALSE
          /\ broken' = (panel.list.onError \in {"replace", "latch"})
          /\ shown' = IF panel.list.onError = "empty" THEN NotYet ELSE shown
     ELSE UNCHANGED <<shown, reading, broken>>
  /\ UNCHANGED <<panel, rows, key, form, saving, changes, made, raced, gone>>

-----------------------------------------------------------------------------
(* The form.                                                                 *)

\* Where the form is part of the page, another one may be opened over it.
Open(of) ==
  /\ ~NoForm /\ Within("forms", MaxForms)
  /\ form.of = Closed \/ (panel.form.kind = "page" /\ "old" \in panel.form.opens)
  /\ IF of = New THEN "new" \in panel.form.opens
     ELSE "old" \in panel.form.opens /\ ~NoRows /\ shown[of] # Absent
  /\ form' = [of |-> of, n |-> spent["forms"] + 1]
  /\ saving' = (panel.form.kind = "page" /\ saving)
  /\ Pay("forms")
  /\ UNCHANGED <<panel, rows, key, shown, reading, broken, reads, changes, made, raced, gone>>

\* Cancel, Escape or a click beside the dialog, also while it is saving
Dismiss ==
  /\ form.of # Closed /\ ~NoForm
  /\ form' = [form EXCEPT !.of = Closed]
  /\ saving' = (panel.form.kind = "page" /\ saving)
  /\ UNCHANGED <<panel, rows, key, shown, reading, broken, reads, changes, made, raced, gone, spent>>

\* asks the server for a change; raced if it meets a read or a change of the same record
Ask(what, of, n) ==
  /\ Within("changes", MaxChanges) /\ Pay("changes")
  /\ changes' = changes \cup {[id |-> spent["changes"] + 1, what |-> what, of |-> of, form |-> n,
                               key |-> key, stage |-> "sent"]}
  /\ raced' = (raced \/ reads # {} \/ \E c \in changes : of # New /\ c.of = of)

\* Faulty: the button stays enabled while it is saving
SubmitUnguarded ==
  /\ form.of # Closed /\ ~NoForm
  /\ saving' = TRUE
  /\ Ask(IF form.of = New THEN "create" ELSE "update", form.of, form.n)
  /\ UNCHANGED <<panel, rows, key, shown, reading, broken, reads, form, made, gone>>

Submit ==
  /\ form.of # Closed /\ ~NoForm
  /\ saving => ~panel.form.guarded
  /\ saving' = TRUE
  /\ Ask(IF form.of = New THEN "create" ELSE "update", form.of, form.n)
  /\ UNCHANGED <<panel, rows, key, shown, reading, broken, reads, form, made, gone>>

-----------------------------------------------------------------------------
(* The controls on a row.                                                    *)

\* a select that stores the value chosen
Patch(i) ==
  /\ panel.list.patches # "none" /\ ~NoRows /\ form.of = Closed /\ shown[i] # Absent
  /\ Ask("patch", i, 0)
  /\ UNCHANGED <<panel, rows, key, shown, reading, broken, reads, form, saving, made, gone>>

\* after a confirmation
Remove(i) ==
  /\ panel.list.removes # "none" /\ ~NoRows /\ form.of = Closed /\ shown[i] # Absent
  /\ Ask("remove", i, 0)
  /\ UNCHANGED <<panel, rows, key, shown, reading, broken, reads, form, saving, made, gone>>

-----------------------------------------------------------------------------
(* What becomes of a change.                                                 *)

Stored(c, i, now) ==
  /\ rows' = [rows EXCEPT ![i] = now]
  /\ changes' = (changes \ {c}) \cup {[c EXCEPT !.stage = "ok", !.of = i]}

ChangeStored(c) ==
  /\ c.stage = "sent"
  /\ CASE c.what = "create" ->
            /\ Stored(c, Cardinality(DOMAIN Old) + c.id, [key |-> c.key, val |-> c.id])
            /\ made' = [made EXCEPT ![c.form] = @ + 1]
       [] c.what # "create" /\ rows[c.of] = Absent ->
            /\ changes' = (changes \ {c}) \cup {[c EXCEPT !.stage = "refused"]}
            /\ UNCHANGED <<rows, made>>
       [] c.what = "remove" /\ rows[c.of] # Absent ->
            Stored(c, c.of, Absent) /\ UNCHANGED made
       [] OTHER ->
            Stored(c, c.of, [rows[c.of] EXCEPT !.val = c.id]) /\ UNCHANGED made
  /\ UNCHANGED <<panel, key, shown, reading, broken, reads, form, saving, raced, gone, spent>>

IsForm(c) == c.form # 0

\* The list after the change: with the record of the answer, without the record
\* removed, or read again.
Listing(c) ==
  CASE c.what = "create" -> panel.form.ok
    [] c.what = "update" -> panel.form.ok
    [] c.what = "patch"  -> panel.list.patches
    [] c.what = "remove" -> panel.list.removes

\* A form that was submitted is closed, whichever form is open by now: closing
\* is the page's, which does not ask what the answer belongs to.
ChangeAnswered(c) ==
  /\ c.stage = "ok" /\ ~gone
  /\ changes' = changes \ {c}
  /\ form' = IF IsForm(c) THEN [form EXCEPT !.of = Closed] ELSE form
  /\ saving' = (saving /\ ~IsForm(c))
  /\ CASE Listing(c) = "add" ->
            /\ shown' = IF c.what = "create" \/ shown[c.of] # Absent
                        THEN [shown EXCEPT ![c.of] = [key |-> IF c.what = "create" THEN c.key ELSE @.key,
                                                      val |-> c.id]]
                        ELSE shown
            /\ UNCHANGED <<reading, reads, raced, gone, spent>>
       [] Listing(c) = "drop" ->
            shown' = [shown EXCEPT ![c.of] = Absent] /\ UNCHANGED <<reading, reads, raced, gone, spent>>
       [] Listing(c) \in {"reload", "always"} ->
            Read(key, changes \ {c}) /\ reading' = TRUE /\ UNCHANGED <<shown, gone>>
       [] Listing(c) = "leave" ->
            gone' = TRUE /\ UNCHANGED <<shown, reading, reads, raced, spent>>
  /\ UNCHANGED <<panel, rows, key, broken, made>>

\* refused, or no answer: an open form stays open; a page that ignores errors
\* reads the list again all the same ("always")
ChangeFailed(c) ==
  /\ ~gone
  /\ c.stage = "refused" \/ spent["faults"] < MaxFaults
  /\ changes' = changes \ {c}
  /\ saving' = (saving /\ ~(IsForm(c) /\ (panel.form.kind = "page" \/ c.form = form.n)))
  /\ LET cost == IF c.stage = "refused" THEN 0 ELSE 1
     IN  IF Listing(c) = "always"
         THEN /\ reads' = reads \cup {[n |-> spent["reads"] + 1, key |-> key, served |-> FALSE, got |-> NotYet]}
              /\ reading' = TRUE
              /\ raced' = (raced \/ changes # {c} \/ (reads # {} /\ ~panel.list.cancels))
              /\ spent' = [spent EXCEPT !["faults"] = @ + cost, !["reads"] = @ + 1]
         ELSE /\ spent' = [spent EXCEPT !["faults"] = @ + cost]
              /\ UNCHANGED <<reads, reading, raced>>
  /\ UNCHANGED <<panel, rows, key, shown, broken, form, made, gone>>

-----------------------------------------------------------------------------
User == \/ \E k \in Keys : Pick(k)
        \/ \E of \in {New} \cup Rows : Open(of)
        \/ Dismiss \/ Submit
        \/ \E i \in Rows : Patch(i) \/ Remove(i)

Answers == \/ \E r \in reads : ReadServed(r) \/ ReadAnswered(r)
           \/ \E c \in changes : ChangeStored(c) \/ ChangeAnswered(c)
           \/ \E c \in changes : c.stage = "refused" /\ ChangeFailed(c)

Faults == \/ \E r \in reads : ReadFailed(r)
          \/ \E c \in changes : ChangeFailed(c)

Next == User \/ Poll \/ Answers \/ Faults

-----------------------------------------------------------------------------
(* What a panel promises.                                                    *)

TypeOK ==
  /\ key \in Keys /\ {reading, broken, saving, raced, gone} \subseteq BOOLEAN
  /\ \A i \in Rows : /\ rows[i] = Absent \/ rows[i].key \in Keys
                     /\ shown[i] = Absent \/ shown[i].key \in Keys
                     /\ rows[i].val \in 0..MaxChanges /\ shown[i].val \in 0..MaxChanges
  /\ form.of \in {Closed, New} \cup Rows /\ form.n \in 0..MaxForms
  /\ \A c \in changes : c.stage \in {"sent", "ok", "refused"} /\ c.form \in 0..MaxForms
  /\ \A q, r \in reads : q.n = r.n => q = r

\* A form creates one record, however often it is submitted, dismissed and
\* opened again, unless an answer was lost: the button is disabled while the
\* request is under way.  Forms that a key submits past the button are the
\* exception (the rule `guarded`).
OncePerForm ==
  panel.form.guarded => \A n \in 1..MaxForms : made[n] <= 1 + spent["faults"]

\* When nothing is under way the list shows what the server has: every record
\* of the filter, none that is gone, each as it was stored last - although no
\* page reads the list again after most changes but edits its own copy.  What
\* makes it stale is an answer that never came, or one of three races:
\*   a read meets a change, two reads meet and the page does not drop the
\*   answer of the older one, or two changes of one record meet.
ListAgrees ==
  (~raced /\ spent["faults"] = 0 /\ reads = {} /\ changes = {}) =>
    \A i \in Rows : /\ shown[i] # Absent => shown[i] = rows[i]
                   /\ (rows[i].key = key /\ ~gone) => shown[i] = rows[i]

\* The page never stays in "Loading..." or with its button disabled.
AtRest == gone \/ (~reading /\ ~saving)
Settles == []<>AtRest
=============================================================================
