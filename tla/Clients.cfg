SPECIFICATION FairSpec
CONSTANTS
  Parts = {"run", "panel", "draft", "ai", "once", "bell", "import", "session", "shell", "push", "call", "file"}
  Runs = {"r1", "r2", "r3"}
  Listed = {"r1", "r2"}
  First = "r1"
  Cases = {1, 2}
  Verdicts = {"pass", "fail"}
  Remark = TRUE
  MaxMarks = 2
  MaxOthers = 1
  MaxEdits = 1
  MaxMoves = 1
  Tabs = {"t1", "t2"}
  Users = {"a", "b"}
  TwoFactor = {"b"}
  MaxSteps = 4
  MaxOutages = 1
  Needs <- SomeRoutes
  Strange = {"tests"}
  MaxVisits = 2
  MaxScriptErrors = 1
  MaxRoles = 1
  Cap = 2
  MaxNotes = 3
  MaxLosses = 1
  MaxReloads = 1
  MaxReadings = 2
  Panels <- EveryPanel
  Keys = {"a", "b"}
  Home = "a"
  Rows = {1, 2, 3}
  Old <- OneOld
  MaxReads = 1
  MaxForms = 2
  MaxChanges = 2
  MaxFaults = 1
  Edits = {"e1", "e2"}
  MaxSaves = 3
  MaxDrops = 2
  Drafts = {1, 2}
  Stepped = {1}
  MaxAsks = 2
  MaxErrors = 2
  MaxAsked = 3
  MaxBroken = 1
  Files = {"f1", "f2"}
  Formats = {"csv", "json"}
  Tabular = {"csv"}
  Guess <- Guessed
  MaxChoices = 2
  MaxFailed = 1
INVARIANT ShowsOnlyStored
INVARIANT PanelKeeps
INVARIANT DraftKeeps
INVARIANT DraftsStoredOnce
INVARIANT SecretsSeen
INVARIANT BellTells
INVARIANT WizardFits
INVARIANT SessionOwn
INVARIANT ShellShows
INVARIANT ExitTells
INVARIANT TwoPushesStoreAll
INVARIANT FilesRead
PROPERTY Ends
CHECK_DEADLOCK FALSE
