-------------------------------- MODULE Clients --------------------------------
(* The pages of the web client: log-in, the page of a run, the shell, the    *)
(* bell, the panels, the drafts and the dialogs.  They do not share state,   *)
(* so a behaviour is one of a single part, which `part` names; the parts lay *)
(* their variables over the same cells v1 .. v15, and the cells a part does  *)
(* not need are off.                                                         *)
EXTENDS Integers, Sequences, FiniteSets

CONSTANTS
  Parts,                                             \* the parts that are considered
  Runs, Listed, First, Cases, Verdicts, Remark,      \* of RunView,
  MaxMarks, MaxOthers, MaxEdits, MaxMoves,
  Tabs, Users, TwoFactor, MaxSteps, MaxOutages,      \* of Session,
  Needs, Strange, MaxVisits, MaxScriptErrors, MaxRoles,     \* of RouteShell,
  Cap, MaxNotes, MaxLosses, MaxReloads, MaxReadings,       \* of Bell,
  Panels, Keys, Home, Rows, Old, MaxReads, MaxForms, MaxChanges,     \* of Panel,
  MaxFaults,                                         \* of RunView and Panel,
  Edits, MaxSaves, MaxDrops,                         \* of Drafts,
  Drafts, Stepped, MaxAsks, MaxErrors,               \* of AIDrafts,
  MaxAsked, MaxBroken,                               \* of ShownOnce,
  Files, Formats, Tabular, Guess, MaxChoices, MaxFailed    \* of ImportWizard

VARIABLES
  part,
  v1, v2, v3, v4, v5, v6, v7, v8, v9, v10, v11, v12, v13, v14, v15

cells == <<part, v1, v2, v3, v4, v5, v6, v7, v8, v9, v10, v11, v12, v13, v14, v15>>

-----------------------------------------------------------------------------
(* What the parts call their cells.  A name that several parts use is given  *)
(* once, where it comes first, and is the same cell in each of them.         *)

\* log-in (Session)
token == v4
revoked == v5
tab == v6
calls == v1
crossed == v2
steps == v3
outages == v7
\* the page of a run (RunView)
server == v2
url == v3
loading == v4
live == v5
list == v6
idx == v7
loads == v1
ws == v8
mark == v9
edits == v10
retest == v11
ever == v12
used == v13
\* the shell and its loader (RouteShell)
admin == v2
view == v3
hash == v4
events == v5
route == v6
fetching == v7
loaded == v8
runs == v9
refused == v10
moves == v11
errors == v12
roles == v13
\* the bell (Bell)
notes == v3
bell == v4
sock == v5
posts == v6
losses == v7
reloads == v8
readings == v9
\* the panels of the pages (Panel)
panel == v1
rows == v2
key == v3
shown == v4
reading == v5
broken == v6
reads == v7
form == v8
saving == v9
changes == v10
made == v11
raced == v12
gone == v13
spent == v14
\* drafts on a page (Drafts)
draft == v1
stored == v2
load == v3
saves == v4
busy == v5
typed == v6
blind == v7
met == v8
tally == v9
\* drafts of the AI (AIDrafts)
ai == v1
asking == v2
result == v4
picks == v6
job == v7
count == v8
tests == v5
told == v9
again == v10
bound == v11
\* secrets shown once (ShownOnce)
place == v1
dialog == v2
requests == v3
valid == v4
status == v5
counting == v6
reveal == v7
kept == v8
missed == v9
late == v10
asked == v11
\* the import page (ImportWizard)
file == v2
detected == v3
format == v6
mapping == v7
preview == v8
previewing == v9
importing == v10
stale == v11
choices == v12
failed == v13

-----------------------------------------------------------------------------
(* The parts.                                                                *)

S == INSTANCE Session
V == INSTANCE RunView
R == INSTANCE RouteShell
B == INSTANCE Bell
P == INSTANCE Panel
D == INSTANCE Drafts
A == INSTANCE AIDrafts
O == INSTANCE ShownOnce
I == INSTANCE ImportWizard

-----------------------------------------------------------------------------
(* What the constants are: nobody and no file is "none"; the overview is a   *)
(* page, and what a page needs is a list of scripts; the drafts of an answer *)
(* have numbers, and there are finitely many.                                *)

ASSUME RunAssumed ==
  /\ First \in Listed /\ Listed \subseteq Runs /\ "none" \notin Runs
  /\ Cases \subseteq Nat /\ IsFiniteSet(Cases) /\ Cases # {}

ASSUME SessionAssumed == "none" \notin Users /\ MaxSteps \in Nat

ASSUME ShellAssumed == /\ "overview" \in DOMAIN Needs
                       /\ \A v \in DOMAIN Needs : Needs[v] \in Seq(R!Scripts)

ASSUME BellAssumed == Cap \in Nat

\* the rules of PanelCatalog; only a page that does not edit records is left
ListRules == [keyed : BOOLEAN, cancels : BOOLEAN, polls : BOOLEAN, hides : {"all", "rows", "nothing"},
              onError : {"keep", "empty", "replace", "latch"}, patches : {"none", "add", "always"},
              removes : {"none", "drop", "reload", "always"}]
FormRules == [kind : {"own", "page", "none"}, guarded : BOOLEAN, opens : SUBSET {"new", "old"},
              ok : {"add", "reload", "leave"}]
ASSUME PanelAssumed ==
  /\ Panels \subseteq [list : ListRules, form : FormRules]
  /\ \A p \in Panels : p.form.ok = "leave" => "old" \notin p.form.opens
  /\ "none" \notin Keys /\ Home \in Keys /\ Old \in Seq(Keys)
  /\ MaxForms \in Nat /\ MaxChanges \in Nat /\ Rows = 1..(Len(Old) + MaxChanges)

ASSUME AIAssumed == Drafts \subseteq Nat /\ IsFiniteSet(Drafts) /\ MaxAsks \in Nat

ASSUME OnceAssumed == MaxAsked \in Nat

ASSUME WizardAssumed == "none" \notin Files \cup Formats /\ Guess \in [Files -> Formats]

-----------------------------------------------------------------------------
(* The parts side by side.                                                   *)

\* cells that are not used, and that stay so
Off15 == v15 = "off"
Off14 == v14 = "off" /\ Off15
Off13 == v13 = "off" /\ Off14
Off12 == v12 = "off" /\ Off13
Off11 == v11 = "off" /\ Off12
Off10 == v10 = "off" /\ Off11
Off9 == v9 = "off" /\ Off10
Off8 == v8 = "off" /\ Off9
Off7 == v7 = "off" /\ Off8
Kept6 == UNCHANGED <<part, v7, v8, v9, v10, v11, v12, v13, v14, v15>>
Kept7 == UNCHANGED <<part, v8, v9, v10, v11, v12, v13, v14, v15>>
Kept9 == UNCHANGED <<part, v10, v11, v12, v13, v14, v15>>
Kept11 == UNCHANGED <<part, v12, v13, v14, v15>>
Kept13 == UNCHANGED <<part, v14, v15>>
Kept14 == UNCHANGED <<part, v15>>
Kept15 == UNCHANGED <<part>>

-----------------------------------------------------------------------------
ClientInit ==
  \/ part = "session" /\ S!Init /\ Off8
  \/ part = "run" /\ V!Init /\ Off14
  \/ part = "shell" /\ R!Init /\ Off14
  \/ part = "bell" /\ B!Init /\ Off10
  \/ part = "panel" /\ P!Init /\ Off15
  \/ part = "draft" /\ D!Init /\ Off10
  \/ part = "ai" /\ A!Init /\ Off12
  \/ part = "once" /\ O!Init /\ Off12
  \/ part = "import" /\ I!Init /\ Off14

ClientNext ==
  \/ part = "session" /\ S!Next /\ Kept7
  \/ part = "run" /\ V!Next /\ Kept13
  \/ part = "shell" /\ R!Next /\ Kept13
  \/ part = "bell" /\ B!Next /\ Kept9
  \/ part = "panel" /\ P!Next /\ Kept14
  \/ part = "draft" /\ D!Next /\ Kept9
  \/ part = "ai" /\ A!Next /\ Kept11
  \/ part = "once" /\ O!Next /\ Kept11
  \/ part = "import" /\ I!Next /\ Kept13

ClientSpec == part \in Parts /\ ClientInit /\ [][ClientNext]_cells

-----------------------------------------------------------------------------
(* What is promised of each part.                                            *)

\* A tab acts as the user it shows, on that user's data (Session).
SessionOwn == part = "session" => S!TypeOK /\ S!ActsAsShown /\ S!ShowsOwnData

\* The page of a run shows no result the server never had (RunView).
ShowsOnlyStored == part = "run" => V!TypeOK /\ V!ShowsOnlyStored

\* A page is drawn once its scripts have run, the page chosen last is the one
\* that is shown, with its address, and no address leads to the administration
\* without the role (RouteShell).
ShellShows ==
  part = "shell" => R!TypeOK /\ R!DrawnWhenLoaded /\ R!RestsWhereItShould /\ R!AdminsOnly

\* The bell has what the server has (Bell).
BellTells == part = "bell" => B!TypeOK /\ B!BellAgrees

\* No form creates a record twice, and a list that nothing crossed shows what
\* the server has (Panel).
PanelKeeps == part = "panel" => P!TypeOK /\ P!OncePerForm /\ P!ListAgrees

\* What was typed stays, what was stored is not overwritten unread, and a page
\* without changes shows what is stored (Drafts).
DraftKeeps ==
  part = "draft" => D!TypeOK /\ D!NothingTypedIsLost /\ D!OldContentKept /\ D!CleanShowsStored

\* No draft becomes two tests, and what is reported as stored is (AIDrafts).
DraftsStoredOnce == part = "ai" => A!TypeOK /\ A!NoDraftTwice /\ A!ReportIsTrue

\* No recovery code and no token is good that nobody has seen (ShownOnce).
SecretsSeen == part = "once" => O!TypeOK /\ O!SecretsAreSeen /\ O!StatusIsTrue

\* Format, mapping and preview are those of the file that is imported
\* (ImportWizard).
WizardFits == part = "import" => I!TypeOK /\ I!MappingFitsFile /\ I!PreviewIsOfThis
=============================================================================
