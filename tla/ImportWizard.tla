----------------------------- MODULE ImportWizard -----------------------------
(* The import page of the web client (view-import.jsx): the user chooses a   *)
(* file, the server guesses its format and the mapping of its columns, the   *)
(* user corrects them, looks at a preview and imports.  Each request carries *)
(* the file and whatever format and mapping the page holds at that moment.   *)
EXTENDS Integers, FiniteSets

CONSTANTS
  Files, Formats,          \* the files; the formats a user may choose
  Tabular,                 \* the formats that have columns to map
  Guess,                   \* Guess[f]: the format the server detects in file f
  MaxChoices, MaxFailed    \* bounds: files, formats and mappings chosen; requests that fail

VARIABLES
  file,       \* the file chosen, or "none"
  detected,   \* detectedFmt, or "none"
  format,     \* the format the user chose, or "none"
  mapping,    \* whose file's columns are mapped, and which edit of the mapping it is
  preview,    \* what the preview shown was made from, or NoPreview
  previewing, importing,   \* the flags that disable the buttons
  result,     \* the result is shown
  calls,      \* requests whose answers are to come
  tests,      \* the server: the imports that were executed
  stale,      \* history: something was chosen while a request that is still to answer was under way
  choices, failed          \* how much of the bounds is used up

wizardVars == <<file, detected, format, mapping, preview, previewing, importing, result, calls,
                tests, stale, choices, failed>>

NoMapping == [of |-> "none", n |-> 0]
NoPreview == [file |-> "none", format |-> "none", mapping |-> NoMapping]

effectiveFmt == IF format # "none" THEN format ELSE detected
Chosen == [file |-> file, format |-> effectiveFmt, mapping |-> mapping]

Init ==
  /\ file = "none" /\ detected = "none" /\ format = "none" /\ mapping = NoMapping
  /\ preview = NoPreview /\ previewing = FALSE /\ importing = FALSE /\ result = FALSE
  /\ calls = {} /\ tests = {} /\ stale = FALSE /\ choices = 0 /\ failed = 0

Choose(what) == choices < MaxChoices /\ choices' = choices + 1 /\ stale' = (stale \/ what)

Call(kind) == calls' = calls \cup {[n |-> choices + 1, kind |-> kind, from |-> Chosen, st |-> "sent"]}

\* the zone takes a file while there is none
handleFile(f) ==
  /\ file = "none" /\ ~result
  /\ Choose(calls # {})
  /\ file' = f /\ mapping' = NoMapping /\ preview' = NoPreview
  /\ calls' = calls \cup {[n |-> choices + 1, kind |-> "detect", st |-> "sent",
                           from |-> [file |-> f, format |-> "none", mapping |-> NoMapping]]}
  /\ UNCHANGED <<detected, format, previewing, importing, result, tests, failed>>

\* "Change file" and "Import another file"; nothing is cancelled
reset ==
  /\ file # "none"
  /\ file' = "none" /\ detected' = "none" /\ format' = "none" /\ mapping' = NoMapping
  /\ preview' = NoPreview /\ result' = FALSE /\ stale' = (stale \/ calls # {})
  /\ UNCHANGED <<previewing, importing, calls, tests, choices, failed>>

\* Faulty: the preview stays when another format is chosen
ChooseFormatOnly(x) ==
  /\ file # "none" /\ ~result /\ Choose(calls # {})
  /\ format' = x
  /\ UNCHANGED <<file, detected, mapping, preview, previewing, importing, result, calls, tests, failed>>

ChooseFormat(x) ==
  /\ file # "none" /\ ~result /\ Choose(calls # {})
  /\ format' = x /\ preview' = NoPreview
  /\ UNCHANGED <<file, detected, mapping, previewing, importing, result, calls, tests, failed>>

ChangeMapping ==
  /\ file # "none" /\ ~result /\ mapping.of # "none" /\ Choose(calls # {})
  /\ mapping' = [mapping EXCEPT !.n = choices + 1] /\ preview' = NoPreview
  /\ UNCHANGED <<file, detected, format, previewing, importing, result, calls, tests, failed>>

handlePreview ==
  /\ file # "none" /\ effectiveFmt # "none" /\ ~result /\ ~previewing
  /\ previewing' = TRUE /\ Call("preview")
  /\ UNCHANGED <<file, detected, format, mapping, preview, importing, result, tests, stale, choices, failed>>

handleImport ==
  /\ file # "none" /\ effectiveFmt # "none" /\ ~result /\ ~importing
  /\ importing' = TRUE /\ Call("import")
  /\ UNCHANGED <<file, detected, format, mapping, preview, previewing, result, tests, stale, choices, failed>>

-----------------------------------------------------------------------------
\* With the policy "skip" the server leaves out what it has already: a second
\* import of the same adds nothing.
Served(c) ==
  /\ c.st = "sent"
  /\ calls' = (calls \ {c}) \cup {[c EXCEPT !.st = "ok"]}
  /\ tests' = IF c.kind = "import" THEN tests \cup {c.from} ELSE tests
  /\ UNCHANGED <<file, detected, format, mapping, preview, previewing, importing, result, stale, choices, failed>>

\* The answer goes to the page as it is by now: a format and a mapping that
\* were detected for an earlier file replace those of the file chosen since.
Answered(c) ==
  /\ c.st = "ok"
  /\ calls' = calls \ {c}
  /\ CASE c.kind = "detect" ->
            /\ detected' = Guess[c.from.file] /\ format' = "none"
            /\ mapping' = IF Guess[c.from.file] \in Tabular THEN [of |-> c.from.file, n |-> 0] ELSE mapping
            /\ UNCHANGED <<preview, previewing, importing, result>>
       [] c.kind = "preview" ->
            preview' = c.from /\ previewing' = FALSE /\ UNCHANGED <<detected, format, mapping, importing, result>>
       [] c.kind = "import" ->
            result' = TRUE /\ importing' = FALSE /\ UNCHANGED <<detected, format, mapping, preview, previewing>>
  /\ UNCHANGED <<file, tests, stale, choices, failed>>

Fails(c) ==
  /\ failed < MaxFailed /\ failed' = failed + 1
  /\ calls' = calls \ {c}
  /\ previewing' = (previewing /\ c.kind # "preview") /\ importing' = (importing /\ c.kind # "import")
  /\ UNCHANGED <<file, detected, format, mapping, preview, result, tests, stale, choices>>

Answers == \E c \in calls : Served(c) \/ Answered(c)

Next == \/ \E f \in Files : handleFile(f)
        \/ \E x \in Formats : ChooseFormat(x)
        \/ reset \/ ChangeMapping \/ handlePreview \/ handleImport
        \/ Answers \/ \E c \in calls : Fails(c)

-----------------------------------------------------------------------------
TypeOK ==
  /\ file \in Files \cup {"none"} /\ effectiveFmt \in Formats \cup {"none"}
  /\ mapping.of \in Files \cup {"none"} /\ {previewing, importing, result} \subseteq BOOLEAN
  /\ \A c \in calls : c.from.file # "none" /\ c.st \in {"sent", "ok"}

\* The format and the mapping on the page are those of the file on the page,
\* and so are those of every import: they belong to an earlier file only if
\* another one was chosen while the server was still looking at it.
MappingFitsFile ==
  ~stale => /\ mapping.of \in {"none", file}
            /\ \A t \in tests : t.mapping.of \in {"none", t.file}

\* A preview on the page is one of what an import would now send, unless
\* something was changed while it was made.
PreviewIsOfThis == (preview # NoPreview /\ ~stale) => preview = Chosen

\* the answer to an import comes, or the import fails, whatever else is asked
ImportAnswers == \E c \in calls : c.kind = "import" /\ (Served(c) \/ Answered(c))

\* The Import button comes back.
AtRest == ~importing
ImportEnds == []<>AtRest
=============================================================================
