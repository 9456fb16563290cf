---------------------------- MODULE PanelCatalog ----------------------------
(* The rules by which the panels of the web client differ (see Panel).       *)
(*                                                                           *)
(* Rules of a list:                                                          *)
(*   keyed    it is read again when a filter changes, while it stays mounted *)
(*   cancels  the answer of an older read is dropped                         *)
(*   polls    it is read again at an interval                                *)
(*   hides    what "Loading..." hides: "all", the "rows" or "nothing"        *)
(*   onError  a read that fails: "keep" the list, "empty" it, "replace" it   *)
(*            by the error, or "latch" the error for good                    *)
(*   patches  what a control on a row does after its change: nothing is      *)
(*            there ("none"), the answer is put into the row ("add"), or the *)
(*            list is read again even if the change failed ("always")        *)
(*   removes  after a removal: "drop" the row, "reload" the list, reload it  *)
(*            even if it failed ("always"), or there is no removal ("none")  *)
(* Rules of a form:                                                          *)
(*   kind     "own": a dialog with a state of its own; "page": the state is  *)
(*            the page's and survives the form; "none"                       *)
(*   guarded  it cannot be submitted while it is saving                      *)
(*   opens    for a "new" record, for an "old" one                           *)
(*   ok       after it was saved: "add" the answer to the list, "reload" or  *)
(*            "leave" for the new record                                     *)

Plain == [keyed |-> FALSE, cancels |-> FALSE, polls |-> FALSE, hides |-> "all",
          onError |-> "replace", patches |-> "none", removes |-> "none"]

NoForm    == [kind |-> "none", guarded |-> TRUE, opens |-> {}, ok |-> "add"]
Dialog(opens, ok) == [kind |-> "own",  guarded |-> TRUE, opens |-> opens, ok |-> ok]
Inline(opens, ok) == [kind |-> "page", guarded |-> TRUE, opens |-> opens, ok |-> ok]

-----------------------------------------------------------------------------
(* view-runs.jsx                                                             *)

\* the runs of the initial data
RunsList == [Plain EXCEPT !.onError = "keep"]
\* the run is created with an id drawn by the page, and opened
NewRunModal == Dialog({"new"}, "leave")

\* loadPlans empties the list when it fails, and nothing waits for it
PlansList == [Plain EXCEPT !.hides = "nothing", !.onError = "empty", !.removes = "reload"]
NewPlanModal == Dialog({"new"}, "reload")
\* `busy` holds one plan: running another enables the first one's button
runPlan == [Inline({"new"}, "leave") EXCEPT !.guarded = FALSE]

\* the defects of the run on the page, which the user may change
RunDefects == [Plain EXCEPT !.keyed = TRUE, !.hides = "nothing", !.onError = "keep"]
RunDefectModal == Dialog({"new"}, "add")

-----------------------------------------------------------------------------
(* view-test-detail.jsx                                                      *)

HistoryTab == [Plain EXCEPT !.hides = "rows", !.onError = "keep"]

DefectsTab == [Plain EXCEPT !.hides = "rows", !.onError = "keep", !.patches = "add", !.removes = "drop"]
CreateDefect == Inline({"new"}, "add")

CommentsTab == [Plain EXCEPT !.hides = "nothing", !.onError = "keep"]
\* Ctrl+Enter posts while a post is under way
CommentBox == [Inline({"new"}, "add") EXCEPT !.guarded = FALSE]

-----------------------------------------------------------------------------
(* view-defects.jsx, view-requirements.jsx and view-library.jsx: lists with  *)
(* filters, none of which drops the answer of an older read                  *)

Defects == [Plain EXCEPT !.keyed = TRUE, !.hides = "rows", !.onError = "keep",
                         !.patches = "add", !.removes = "drop"]
CreateDefectModal == Dialog({"new"}, "add")
EditDefectModal   == Dialog({"old"}, "add")

Requirements == [Defects EXCEPT !.patches = "none"]
RequirementModal == Dialog({"new", "old"}, "add")

\* The tests stay on the screen while they are read.  The answers of removals
\* and bulk changes are not looked at: refresh follows in any case.
Library == [Plain EXCEPT !.keyed = TRUE, !.hides = "nothing", !.onError = "keep",
                         !.patches = "always", !.removes = "always"]
NewTestModal == Dialog({"new"}, "reload")

-----------------------------------------------------------------------------
(* view-config.jsx                                                           *)

\* the three lists of the page are read together
Integrations == [Plain EXCEPT !.patches = "add", !.removes = "drop"]
AddIntegrationModal  == Dialog({"new"}, "add")
EditIntegrationModal == Dialog({"old"}, "add")
CreateTokenModal     == Dialog({"new"}, "add")
AddWebhookModal      == Dialog({"new", "old"}, "add")

-----------------------------------------------------------------------------
(* view-settings.jsx: one form on the page for new and old records           *)

ProjectsTab == [Plain EXCEPT !.removes = "drop"]
ProjectForm == Inline({"new", "old"}, "add")
CategoriesTab == [Plain EXCEPT !.removes = "drop"]
CategoryForm == Inline({"new", "old"}, "add")

\* each change reads the tree again; an error is never cleared
FoldersTab == [Plain EXCEPT !.onError = "latch", !.removes = "reload"]
\* the Enter key submits while a request is under way
FolderInlineForm == [Inline({"new", "old"}, "reload") EXCEPT !.guarded = FALSE]

-----------------------------------------------------------------------------
(* view-admin.jsx, custom-fields.jsx and the panels that only read           *)

AdminPage == [Plain EXCEPT !.patches = "add", !.removes = "drop"]
NewUserForm == Inline({"new"}, "add")

CustomFieldsAdmin == [Plain EXCEPT !.keyed = TRUE, !.hides = "rows", !.onError = "keep", !.removes = "drop"]
CustomFieldDefModal == Dialog({"new", "old"}, "add")

\* the definitions a form shows; `alive` drops late answers
useCustomFieldDefs == [Plain EXCEPT !.keyed = TRUE, !.cancels = TRUE, !.hides = "nothing", !.onError = "keep"]

AuditLogTab == [Plain EXCEPT !.keyed = TRUE, !.hides = "rows"]
MyWork == Plain
ChangeHistory == Plain
Insights == [Plain EXCEPT !.hides = "nothing", !.onError = "keep"]

\* the list of the initial data, replaced by each answer of the reconcile poll
Pipelines == [Plain EXCEPT !.polls = TRUE, !.onError = "keep", !.removes = "drop"]

-----------------------------------------------------------------------------
P(list, form) == [list |-> list, form |-> form]

AllPanels ==
  {P(RunsList, NewRunModal), P(PlansList, NewPlanModal), P(PlansList, runPlan),
   P(RunDefects, RunDefectModal), P(HistoryTab, NoForm), P(DefectsTab, CreateDefect),
   P(CommentsTab, CommentBox), P(Defects, CreateDefectModal), P(Defects, EditDefectModal),
   P(Requirements, RequirementModal), P(Library, NewTestModal),
   P(Integrations, AddIntegrationModal), P(Integrations, EditIntegrationModal),
   P(Integrations, CreateTokenModal), P(Integrations, AddWebhookModal),
   P(ProjectsTab, ProjectForm), P(CategoriesTab, CategoryForm), P(FoldersTab, FolderInlineForm),
   P(AdminPage, NewUserForm), P(CustomFieldsAdmin, CustomFieldDefModal),
   P(useCustomFieldDefs, NoForm), P(AuditLogTab, NoForm), P(MyWork, NoForm),
   P(ChangeHistory, NoForm), P(Insights, NoForm), P(Pipelines, NoForm)}
=============================================================================
