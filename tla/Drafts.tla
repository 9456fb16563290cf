-------------------------------- MODULE Drafts --------------------------------
(* What a user types on a page of the web client before it is stored: the    *)
(* steps and custom fields of a test, its title and status, the profile and  *)
(* the notification settings.  Each is a copy in the page that is read once, *)
(* edited, sent as a whole and mixed with the answer; they differ in a few   *)
(* rules.  A value is the set of the edits it contains, and "orig" is what   *)
(* was stored at first: so a value without "orig" has lost the old content.  *)
EXTENDS Integers, FiniteSets

CONSTANTS
  Edits,                 \* the edits the user makes
  MaxSaves, MaxDrops     \* bounds: saves; saves and reads that fail

VARIABLES
  draft,     \* the page: its rules, and what it shows
  stored,    \* the server's value
  load,      \* the read at mount: asked, read, done or failed
  saves,     \* the saves whose answers are to come
  busy,      \* the flag that disables the button
  typed,     \* history: for each edit whether it was made in an "idle" page, while
             \* it was "loading" or "saving", or not at all ("no")
  blind,     \* history: a save was sent from a page that had not read the value
  met,       \* history: a save was sent while another, or the read, was under way
  tally      \* how much of each bound is used up

draftVars == <<draft, stored, load, saves, busy, typed, blind, met, tally>>

(* The rules.                                                                *)
(*   reads    the value is read at mount; otherwise the parent has it        *)
(*   clears   a read that fails empties the page                             *)
(*   merges   an edit changes a part of the value, or else all of it         *)
(*   once     choosing a value sends it at once, and a failure takes it back *)
(*   flag     the button is there only while there is something to save      *)
(*   guarded  it cannot be sent while a save is under way                    *)
(*   adopts   the page takes over the value that was saved                   *)
(*   checks   it looks at whether the save was refused                       *)
(*   resets   a failure ends the editing, with the value of before           *)
Plain == [name |-> "draft", reads |-> FALSE, clears |-> FALSE, merges |-> TRUE, once |-> FALSE,
          flag |-> FALSE, guarded |-> TRUE, adopts |-> FALSE, checks |-> TRUE, resets |-> FALSE]

\* the steps of a test; the button to add one is there while they are read
DefinitionTab == [Plain EXCEPT !.name = "steps", !.reads = TRUE, !.clears = TRUE, !.flag = TRUE,
                               !.adopts = TRUE]
TestCustomFieldsCard == [Plain EXCEPT !.name = "fields", !.flag = TRUE, !.adopts = TRUE]
\* the answer of the PATCH is not looked at, and Enter sends it in any case
TestTitle == [Plain EXCEPT !.name = "title", !.merges = FALSE, !.flag = TRUE, !.guarded = FALSE,
                           !.adopts = TRUE, !.checks = FALSE, !.resets = TRUE]
StatusSelect == [Plain EXCEPT !.name = "status", !.merges = FALSE, !.once = TRUE, !.guarded = FALSE,
                              !.adopts = TRUE]
ProfileTab == [Plain EXCEPT !.name = "profile"]
\* the defaults are shown until the settings are read, and stay if that fails
NotificationsTab == [Plain EXCEPT !.name = "notifications", !.reads = TRUE]

AllDrafts == {DefinitionTab, TestCustomFieldsCard, TestTitle, StatusSelect, ProfileTab, NotificationsTab}

-----------------------------------------------------------------------------
Rule == draft.rule
Room(b, n) == tally[b] < n
Use(b) == tally' = [tally EXCEPT ![b] = @ + 1]

Init ==
  /\ \E r \in AllDrafts :
       /\ draft = [rule |-> r, now |-> IF r.reads THEN {} ELSE {"orig"},
                   base |-> IF r.reads THEN {} ELSE {"orig"}, dirty |-> FALSE]
       /\ load = [st |-> IF r.reads THEN "asked" ELSE "done", got |-> {}]
  /\ stored = {"orig"} /\ saves = {} /\ busy = FALSE
  /\ typed = [e \in Edits |-> "no"] /\ blind = FALSE /\ met = FALSE
  /\ tally = [b \in {"saves", "drops"} |-> 0]

ReadServed ==
  /\ load.st = "asked"
  /\ load' = [st |-> "read", got |-> stored]
  /\ UNCHANGED <<draft, stored, saves, busy, typed, blind, met, tally>>

\* whatever has been typed in the meantime
ReadAnswered ==
  /\ load.st = "read"
  /\ load' = [load EXCEPT !.st = "done"]
  /\ draft' = [draft EXCEPT !.now = load.got, !.base = load.got]
  /\ UNCHANGED <<stored, saves, busy, typed, blind, met, tally>>

ReadFailed ==
  /\ load.st \in {"asked", "read"} /\ Room("drops", MaxDrops) /\ Use("drops")
  /\ load' = [load EXCEPT !.st = "failed"]
  /\ draft' = IF Rule.clears THEN [draft EXCEPT !.now = {}, !.base = {}] ELSE draft
  /\ UNCHANGED <<stored, saves, busy, typed, blind, met>>

-----------------------------------------------------------------------------
Sent(v, before) ==
  /\ Room("saves", MaxSaves) /\ Use("saves")
  /\ saves' = saves \cup {[n |-> tally["saves"] + 1, val |-> v, before |-> before, st |-> "sent"]}
  /\ blind' = (blind \/ load.st # "done")
  /\ met' = (met \/ saves # {} \/ load.st \in {"asked", "read"})

Changed(e) == IF Rule.merges THEN draft.now \cup {e} ELSE {e}

\* typing does not wait for a save or a read
Edit(e) ==
  /\ typed[e] = "no"
  /\ typed' = [typed EXCEPT ![e] = IF load.st \in {"asked", "read"} THEN "loading"
                                   ELSE IF saves # {} THEN "saving" ELSE "idle"]
  /\ draft' = [draft EXCEPT !.now = Changed(e), !.dirty = ~Rule.once]
  /\ IF Rule.once THEN Sent({e}, draft.now) ELSE UNCHANGED <<saves, blind, met, tally>>
  /\ UNCHANGED <<stored, load, busy>>

\* Cancel or Escape, where a value is edited in place
Cancel ==
  /\ Rule.resets /\ draft.dirty
  /\ draft' = [draft EXCEPT !.now = draft.base, !.dirty = FALSE]
  /\ UNCHANGED <<stored, load, saves, busy, typed, blind, met, tally>>

Save ==
  /\ ~Rule.once /\ (Rule.flag => draft.dirty) /\ (Rule.guarded => ~busy)
  /\ busy' = TRUE
  /\ Sent(draft.now, draft.now)
  /\ draft' = IF Rule.flag THEN draft ELSE [draft EXCEPT !.dirty = FALSE]
  /\ UNCHANGED <<stored, load, typed>>

SaveStored(s) ==
  /\ s.st = "sent"
  /\ stored' = s.val
  /\ saves' = (saves \ {s}) \cup {[s EXCEPT !.st = "ok"]}
  /\ UNCHANGED <<draft, load, busy, typed, blind, met, tally>>

\* the page as after a save that succeeded
Adopted(s) == IF Rule.adopts THEN [draft EXCEPT !.now = s.val, !.base = s.val, !.dirty = FALSE]
              ELSE [draft EXCEPT !.base = s.val]

SaveAnswered(s) ==
  /\ s.st = "ok"
  /\ saves' = saves \ {s} /\ busy' = FALSE
  /\ draft' = Adopted(s)
  /\ UNCHANGED <<stored, load, typed, blind, met, tally>>

\* Faulty: no page looks at whether the save was refused
SaveRefusedAdopted(s) ==
  /\ s.st = "sent" /\ Room("drops", MaxDrops) /\ Use("drops")
  /\ saves' = saves \ {s} /\ busy' = FALSE
  /\ draft' = Adopted(s)
  /\ UNCHANGED <<stored, load, typed, blind, met>>

SaveRefused(s) ==
  /\ s.st = "sent" /\ Room("drops", MaxDrops) /\ Use("drops")
  /\ saves' = saves \ {s} /\ busy' = FALSE
  /\ draft' = IF ~Rule.checks THEN Adopted(s)
              ELSE IF Rule.once THEN [draft EXCEPT !.now = s.before]
              ELSE [draft EXCEPT !.dirty = TRUE]
  /\ UNCHANGED <<stored, load, typed, blind, met>>

\* no answer
SaveLost(s) ==
  /\ Room("drops", MaxDrops) /\ Use("drops")
  /\ saves' = saves \ {s} /\ busy' = FALSE
  /\ draft' = IF Rule.once THEN [draft EXCEPT !.now = s.before]
              ELSE IF Rule.resets THEN [draft EXCEPT !.now = draft.base, !.dirty = FALSE]
              ELSE [draft EXCEPT !.dirty = TRUE]
  /\ UNCHANGED <<stored, load, typed, blind, met>>

Answers == ReadServed \/ ReadAnswered \/ \E s \in saves : SaveStored(s) \/ SaveAnswered(s)
User    == Cancel \/ Save \/ \E e \in Edits : Edit(e)
Faults  == ReadFailed \/ \E s \in saves : SaveRefused(s) \/ SaveLost(s)

Next == Answers \/ User \/ Faults

-----------------------------------------------------------------------------
TypeOK ==
  /\ draft.now \subseteq Edits \cup {"orig"} /\ draft.base \subseteq Edits \cup {"orig"}
  /\ stored \subseteq Edits \cup {"orig"}
  /\ load.st \in {"asked", "read", "done", "failed"} /\ busy \in BOOLEAN
  /\ \A s \in saves : s.st \in {"sent", "ok"}
  /\ typed \in [Edits -> {"no", "idle", "loading", "saving"}]

\* What the user typed stays on the page: an edit made when nothing was under
\* way survives every answer and every failure.  (Made while the value is read,
\* or while a save is under way whose answer the page takes over, it is lost:
\* that is what DefinitionTab and TestCustomFieldsCard do.)
NothingTypedIsLost ==
  \A e \in Edits :
    (Rule.merges /\ (typed[e] = "idle" \/ (typed[e] = "saving" /\ ~Rule.adopts))) => e \in draft.now

\* What was stored before is overwritten as a whole only by a page that never
\* read it, because it was saved too early or the read had failed.
OldContentKept == (Rule.merges /\ "orig" \notin stored) => blind

\* When nothing is under way and the page shows no unsaved change, it shows
\* what is stored.  The exceptions: the read failed, a save met another save or
\* the read, or it failed on a page that takes its value back or does not look at the answer.
CleanShowsStored ==
  (~draft.dirty /\ saves = {} /\ load.st = "done" /\ ~met
    /\ (tally["drops"] > 0 => Rule.checks /\ ~Rule.once)) => draft.now = stored

\* The button comes back.
AtRest == ~busy
SavingEnds == []<>AtRest
=============================================================================
