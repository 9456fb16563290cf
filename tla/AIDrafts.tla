------------------------------- MODULE AIDrafts -------------------------------
(* Test drafts an AI has written, which the user stores: the AI assistant    *)
(* (view-config.jsx) and the box that suggests missing edge cases            *)
(* (view-overview.jsx).  Both store the selected drafts one after another in *)
(* a loop that gives up at the first error: the assistant then offers the    *)
(* same selection again, the box reports how far it came and offers nothing. *)
EXTENDS Integers, FiniteSets

CONSTANTS
  Drafts,               \* the drafts of one answer, in their order: 1, 2, ...
  Stepped,              \* those that come with steps (the assistant's)
  MaxAsks, MaxErrors    \* bounds: questions to the AI; failed requests

VARIABLES
  ai,       \* the page: assistant or box
  asking,   \* the question under way, or 0
  result,   \* the answer that is shown (by the question's number), or 0
  picks,    \* the drafts that are selected
  job,      \* the loop that stores drafts, or Idle
  count,    \* createdCount of the box
  tests,    \* the tests on the server: how many of each draft of each answer
  steps,    \* the drafts of which a test has got its steps
  told,     \* history: the drafts the page has reported as stored
  again,    \* history: the same drafts were offered again although some may be stored
  bound     \* how much of each bound is used up

aiVars == <<ai, asking, result, picks, job, count, tests, steps, told, again, bound>>

Asks == 1..MaxAsks
Idle == [st |-> "idle"]
May(b, n) == bound[b] < n
Spend(b) == bound' = [bound EXCEPT ![b] = @ + 1]

Init ==
  /\ ai \in {"assistant", "box"}
  /\ asking = 0 /\ result = 0 /\ picks = {} /\ job = Idle /\ count = 0
  /\ tests = [d \in Asks \X Drafts |-> 0] /\ steps = {} /\ told = {} /\ again = FALSE
  /\ bound = [b \in {"asks", "errors"} |-> 0]

-----------------------------------------------------------------------------
(* Asking: handleGenerate and analyze clear what is shown, also while drafts *)
(* of it are being stored.                                                   *)

Ask ==
  /\ asking = 0 /\ May("asks", MaxAsks) /\ Spend("asks")
  /\ ai = "box" => result = 0
  /\ asking' = bound["asks"] + 1
  /\ result' = 0 /\ picks' = {}
  /\ count' = 0
  /\ UNCHANGED <<ai, job, tests, steps, told, again>>

\* all drafts are selected at first
Answered ==
  /\ asking # 0
  /\ asking' = 0 /\ result' = asking /\ picks' = Drafts
  /\ UNCHANGED <<ai, job, count, tests, steps, told, again, bound>>

AskFailed ==
  /\ asking # 0 /\ May("errors", MaxErrors) /\ Spend("errors")
  /\ asking' = 0
  /\ UNCHANGED <<ai, result, picks, job, count, tests, steps, told, again>>

\* a checkbox; the box disables it once drafts are stored
Toggle(d) ==
  /\ result # 0 /\ (ai = "box" => count = 0)
  /\ picks' = IF d \in picks THEN picks \ {d} ELSE picks \cup {d}
  /\ UNCHANGED <<ai, asking, result, job, count, tests, steps, told, again, bound>>

\* Discard, or Dismiss: also while drafts are being stored
Discard ==
  /\ result # 0
  /\ result' = 0 /\ picks' = (IF ai = "box" THEN picks ELSE {}) /\ count' = 0
  /\ UNCHANGED <<ai, asking, job, tests, steps, told, again, bound>>

-----------------------------------------------------------------------------
(* The loop: it works on the selection there was at the click.               *)

Least(S) == CHOOSE d \in S : \A e \in S : d <= e

\* Faulty: the box goes on offering drafts once some are stored
SaveSelectedAgain ==
  /\ result # 0 /\ picks # {} /\ job = Idle
  /\ job' = [st |-> "test", of |-> result, todo |-> picks, done |-> {}, arrived |-> FALSE]
  /\ UNCHANGED <<ai, asking, result, picks, count, tests, steps, told, again, bound>>

SaveSelected ==
  /\ result # 0 /\ picks # {} /\ job = Idle /\ (ai = "box" => count = 0)
  /\ job' = [st |-> "test", of |-> result, todo |-> picks, done |-> {}, arrived |-> FALSE]
  /\ UNCHANGED <<ai, asking, result, picks, count, tests, steps, told, again, bound>>

Current == <<job.of, Least(job.todo)>>

\* the request has reached the server: POST of the test, or PUT of its steps
Arrives ==
  /\ job # Idle /\ ~job.arrived
  /\ job' = [job EXCEPT !.arrived = TRUE]
  /\ IF job.st = "test" THEN tests' = [tests EXCEPT ![Current] = @ + 1] /\ UNCHANGED steps
     ELSE steps' = steps \cup {Current} /\ UNCHANGED tests
  /\ UNCHANGED <<ai, asking, result, picks, count, told, again, bound>>

\* The end of the loop, for the draft after which it ends: the assistant clears
\* what is shown by then, the box says how many it has created.
Finished(done) ==
  /\ job' = Idle
  /\ told' = told \cup {<<job.of, d>> : d \in done}
  /\ IF ai = "assistant" THEN result' = 0 /\ picks' = {} /\ UNCHANGED count
     ELSE count' = Cardinality(done) /\ UNCHANGED <<result, picks>>

\* on to the steps of the draft, to the next draft, or to the end
Proceeds ==
  /\ job # Idle /\ job.arrived
  /\ LET d    == Least(job.todo)
         rest == job.todo \ {d}
     IN  IF job.st = "test" /\ ai = "assistant" /\ d \in Stepped
         THEN job' = [job EXCEPT !.st = "steps", !.arrived = FALSE] /\ UNCHANGED <<result, picks, count, told>>
         ELSE IF rest # {}
         THEN /\ job' = [job EXCEPT !.st = "test", !.arrived = FALSE, !.todo = rest, !.done = @ \cup {d}]
              /\ UNCHANGED <<result, picks, count, told>>
         ELSE Finished(job.done \cup {d})
  /\ UNCHANGED <<ai, asking, tests, steps, again, bound>>

\* refused, or the answer is lost
Breaks ==
  /\ job # Idle /\ May("errors", MaxErrors) /\ Spend("errors")
  /\ job' = Idle
  /\ count' = IF ai = "box" THEN Cardinality(job.done) ELSE count
  /\ told' = IF ai = "box" THEN told \cup {<<job.of, d>> : d \in job.done} ELSE told
  /\ again' = (again \/ (IF ai = "assistant" THEN job.done # {} \/ job.st = "steps" \/ job.arrived
                         ELSE job.done = {} /\ job.arrived))
  /\ UNCHANGED <<ai, asking, result, picks, tests, steps>>

Next == \/ Ask \/ Answered \/ Discard \/ SaveSelected \/ (\E d \in Drafts : Toggle(d))
        \/ Arrives \/ Proceeds \/ AskFailed \/ Breaks

Answers == Answered \/ Arrives \/ Proceeds

-----------------------------------------------------------------------------
TypeOK ==
  /\ asking \in 0..MaxAsks /\ result \in 0..MaxAsks /\ picks \subseteq Drafts
  /\ job = Idle \/ (job.todo # {} /\ job.todo \cap job.done = {} /\ job.of \in Asks)
  /\ count \in 0..Cardinality(Drafts) /\ steps \subseteq Asks \X Drafts /\ told \subseteq Asks \X Drafts

\* No draft becomes two tests, however the user asks, discards and stores: only
\* the selection of an attempt that broke off can be stored twice.  With the
\* assistant any error after the first test does that; the box avoids it, by
\* offering nothing once something is created, unless the answer to the very
\* first request is lost.
NoDraftTwice == (\E d \in Asks \X Drafts : tests[d] > 1) => again

\* A draft the page reports as stored has become a test, and has the steps the
\* AI wrote for it.
ReportIsTrue ==
  \A d \in told : tests[d] > 0 /\ (ai = "assistant" /\ d[2] \in Stepped => d \in steps)

\* The loop ends, and the buttons come back.
AtRest == job = Idle
JobEnds == []<>AtRest
=============================================================================
