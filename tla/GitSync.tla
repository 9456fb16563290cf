-------------------------------- MODULE GitSync --------------------------------
(* A test as code between its row and its file on git: pulls of the branch   *)
(* (sync_repo of backend/github_sync.py), edits of the row, and pushes of    *)
(* the row (push_test of github_sync.py and gitlab_sync.py), while others    *)
(* commit to the same branch.  A push is four requests to two parties, the   *)
(* last of which is a commit of our own; others go on in between.            *)
EXTENDS Integers, Sequences, FiniteSets, SequencesExt

CONSTANTS
  Values,       \* what a test can say (title, tags, ...; the owner, which a file
                \* need not name, is left out)
  Pushes,       \* requests to push the test that are in flight at a time
  Syncs,        \* syncs of the integration that are in flight at a time
  MaxCommits,   \* bounds: commits on the branch,
  MaxEdits,     \*         edits of the row,
  MaxSyncs      \*         syncs

VARIABLES
  provider,  \* "github" or "gitlab"
  log,       \* the branch: the file after each commit, or NoFile
  row,       \* the test: what it says, source_body and source_ref
  push,      \* push requests
  sync,      \* syncs: the commit, and the row they read; history: it was not edited
             \* since, it was synced or pushed since
  edited,    \* history: the row says something no sync or push has taken note of
  crossed,   \* history: the row was synced or pushed while a push or another
             \* sync was under way
  unseen,    \* history: commits a push has replaced although the row never had them
  edits, syncs

gitVars == <<provider, log, row, push, sync, edited, crossed, unseen, edits, syncs>>

NoFile == [says |-> "nothing", by |-> "nobody"]
\* A file written by hand differs from the one that is rendered, whatever it
\* says (comments, order, quotes).
By(who, v) == [says |-> v, by |-> who]
Bodies == {NoFile} \cup {By(who, v) : who \in {"hand", "app"}, v \in Values}

Newest == Len(log)
File  == Last(log)

Idle == [st |-> "idle", snap |-> NoFile, body |-> NoFile, sha |-> NoFile, at |-> 0, clean |-> TRUE]
NoRow == [says |-> "nothing", body |-> NoFile, ref |-> 0]
SyncAt(st, k, r) == [st |-> st, at |-> k, was |-> r, clean |-> TRUE, met |-> FALSE]
Done == SyncAt("idle", 0, NoRow)

\* The test was synced from the first commit.
GitInit ==
  /\ provider \in {"github", "gitlab"}
  /\ \E v \in Values : log = <<By("hand", v)>> /\ row = [says |-> v, body |-> By("hand", v), ref |-> 1]
  /\ push = [q \in Pushes |-> Idle] /\ sync = [s \in Syncs |-> Done]
  /\ edited = FALSE /\ crossed = FALSE /\ unseen = {} /\ edits = 0 /\ syncs = 0

-----------------------------------------------------------------------------
(* Others.                                                                   *)

\* Somebody commits to the file, or removes it.
CommitOutside(f) ==
  /\ Newest < MaxCommits /\ f # File
  /\ log' = Append(log, f)
  /\ UNCHANGED <<provider, row, push, sync, edited, crossed, unseen, edits, syncs>>

\* PATCH /tests/{id}
Edit(v) ==
  /\ edits < MaxEdits /\ edits' = edits + 1
  /\ v # row.says
  /\ row' = [row EXCEPT !.says = v]
  /\ edited' = TRUE
  /\ push' = [q \in Pushes |-> [push[q] EXCEPT !.clean = FALSE]]
  /\ sync' = [s \in Syncs |-> [sync[s] EXCEPT !.clean = FALSE]]
  /\ UNCHANGED <<provider, log, crossed, unseen, syncs>>

-----------------------------------------------------------------------------
(* A sync reads the branch at one commit, then the row; its transaction ends *)
(* with an UPDATE of the columns that differ from what it read.  A file that *)
(* is gone leaves the row alone.                                             *)

SyncFetch(s) ==
  /\ sync[s].st = "idle" /\ syncs < MaxSyncs /\ syncs' = syncs + 1
  /\ sync' = [sync EXCEPT ![s] = SyncAt("fetched", Newest, NoRow)]
  /\ UNCHANGED <<provider, log, row, push, edited, crossed, unseen, edits>>

SyncLoad(s) ==
  /\ sync[s].st = "fetched"
  /\ sync' = [sync EXCEPT ![s] = IF log[sync[s].at] = NoFile THEN Done
                                 ELSE SyncAt("loaded", sync[s].at, row)]
  /\ UNCHANGED <<provider, log, row, push, edited, crossed, unseen, edits, syncs>>

Underway == {q \in Pushes : push[q].st # "idle"}

\* The syncs after a commit to the row: the one that made it is done, the
\* others have read what is no longer there.
Met(done) == [s \in Syncs |-> IF s \in done THEN Done ELSE [sync[s] EXCEPT !.met = TRUE]]

SyncApply(s) ==
  LET p == sync[s]
      f == log[p.at]
  IN /\ p.st = "loaded"
     /\ row' = [says |-> IF f.says = p.was.says THEN row.says ELSE f.says,
                body |-> IF f = p.was.body THEN row.body ELSE f,
                ref  |-> IF p.at = p.was.ref THEN row.ref ELSE p.at]
     /\ sync' = Met({s})
     /\ edited' = (edited /\ ~p.clean)
     /\ crossed' = (Underway # {} \/ p.met)
     /\ UNCHANGED <<provider, log, push, unseen, edits, syncs>>

\* A request to the provider fails, or the process dies: nothing is committed.
SyncFails(s) ==
  /\ sync[s].st # "idle"
  /\ sync' = [sync EXCEPT ![s] = Done]
  /\ UNCHANGED <<provider, log, row, push, edited, crossed, unseen, edits, syncs>>

-----------------------------------------------------------------------------
(* A push.                                                                   *)

Goes(q, to) == push' = [push EXCEPT ![q] = to]

PushLoad(q) ==
  /\ push[q].st = "idle" /\ Newest < MaxCommits
  /\ Goes(q, [st |-> "loaded", snap |-> row.body, body |-> By("app", row.says), sha |-> NoFile,
              at |-> 0, clean |-> TRUE])
  /\ UNCHANGED <<provider, log, row, sync, edited, crossed, unseen, edits, syncs>>

\* Faulty: only a file that came from here can be in the way
ConflictsOwn(current, last) == current.by = "app" /\ current # last
\* check_conflict: the file is what the row was synced from, or is not there.
Conflicts(current, last) == current # NoFile /\ current # last

PushRead(q) ==
  /\ push[q].st = "loaded"
  /\ Goes(q, IF Conflicts(File, push[q].snap) THEN Idle
             ELSE [push[q] EXCEPT !.st = "read", !.sha = File])
  /\ UNCHANGED <<provider, log, row, sync, edited, crossed, unseen, edits, syncs>>

\* GitHub compares the blob with the one that was read; GitLab knows whether
\* the file is to be created or updated.
Accepts(q) == IF provider = "github" THEN File = push[q].sha
              ELSE (File = NoFile) = (push[q].sha = NoFile)

PushPut(q) ==
  /\ push[q].st = "read"
  /\ IF Accepts(q) /\ Newest < MaxCommits
     THEN /\ log' = Append(log, push[q].body)
          /\ unseen' = unseen \cup (IF File # push[q].snap THEN {Newest} ELSE {})
          /\ Goes(q, [push[q] EXCEPT !.st = "put", !.at = Newest + 1])
     ELSE Goes(q, Idle) /\ UNCHANGED <<log, unseen>>
  /\ UNCHANGED <<provider, row, sync, edited, crossed, edits, syncs>>

\* GitHub's answer names the commit; GitLab is asked for the newest one.
Named(q) == IF provider = "github" THEN push[q].at ELSE Newest

PushName(q) ==
  /\ push[q].st = "put"
  /\ Goes(q, [push[q] EXCEPT !.st = "named", !.at = Named(q)])
  /\ UNCHANGED <<provider, log, row, sync, edited, crossed, unseen, edits, syncs>>

\* The UPDATE names the columns that differ from what was loaded: a body that
\* is what it was is not written.
PushCommit(q) ==
  /\ push[q].st = "named"
  /\ row' = [row EXCEPT !.ref = push[q].at,
                        !.body = IF push[q].body = push[q].snap THEN @ ELSE push[q].body]
  /\ Goes(q, Idle)
  /\ edited' = (edited /\ ~push[q].clean)
  /\ sync' = Met({})
  /\ crossed' = (crossed \/ Underway # {q})
  /\ UNCHANGED <<provider, log, unseen, edits, syncs>>

\* A request fails, its answer is lost, or the process dies.
PushFails(q) ==
  /\ push[q].st # "idle"
  /\ Goes(q, Idle)
  /\ UNCHANGED <<provider, log, row, sync, edited, crossed, unseen, edits, syncs>>

-----------------------------------------------------------------------------
GitNext ==
  \/ \E v \in Values : CommitOutside(By("hand", v)) \/ Edit(v)
  \/ CommitOutside(NoFile)
  \/ \E s \in Syncs : SyncFetch(s) \/ SyncLoad(s) \/ SyncApply(s) \/ SyncFails(s)
  \/ \E q \in Pushes : \/ PushLoad(q) \/ PushRead(q) \/ PushPut(q) \/ PushName(q)
                       \/ PushCommit(q) \/ PushFails(q)

GitSpec == GitInit /\ [][GitNext]_gitVars

-----------------------------------------------------------------------------
GitTypeOK ==
  /\ log \in Seq(Bodies) /\ Len(log) \in 1..MaxCommits
  /\ row \in [says : Values, body : Bodies \ {NoFile}, ref : 1..Newest]
  /\ \A q \in Pushes : push[q].st \in {"idle", "loaded", "read", "put", "named"}
  /\ \A s \in Syncs : sync[s].st \in {"idle", "fetched", "loaded"} /\ sync[s].at \in 0..Newest
  /\ unseen \subseteq 1..Newest

\* "The file on git changed since the last sync - refuse to overwrite"
\* (PushConflict): with GitHub no push replaces a file the row was not synced
\* from, whoever commits between its requests.  A file that was removed is
\* taken for one that was never there.  (With GitLab a commit that falls
\* between the read and the write is lost.)
NothingOverwrittenUnseen ==
  provider = "github" => \A k \in unseen : log[k] = NoFile

\* The row says what its source says, unless it was edited since; and its
\* source is that of the commit it names.  A sync or another push that ends
\* during a push or a sync mixes the two: the row then has the fields of one
\* and the source of the other - until the next sync that nothing crosses.
\* (GitLab's newest commit may be somebody else's.)
RowFollowsSource ==
  ~crossed => /\ row.says = row.body.says \/ edited
              /\ provider = "github" => log[row.ref] = row.body

\* What is promised of a test as code.
GitKeeps == GitTypeOK /\ NothingOverwrittenUnseen /\ RowFollowsSource
=============================================================================
