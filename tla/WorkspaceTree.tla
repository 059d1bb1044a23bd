---------------------------- MODULE WorkspaceTree ----------------------------
(***************************************************************************)
(* The workspace panel of one connection in one tab: what the web's        *)
(* store/workspace.ts keeps of directory listings, git status and git      *)
(* scopes, and the components that drive it (WorkspacePanel, FileTree,     *)
(* GitChangesPanel, DiffViewer).  Connections share nothing of this.       *)
(*                                                                         *)
(* Requests overlap and are answered in any order.  What the server finds  *)
(* (api/workspace.ts, workspace/git-service.ts) is left open: an answer    *)
(* is any of its possible outcomes.  Of a listing the model keeps the git  *)
(* status that its entries were marked with; the text of a diff, messages  *)
(* and the tab of the panel are left out.  The open file is in             *)
(* WorkspaceFiles.                                                         *)
(***************************************************************************)
EXTENDS Naturals, FiniteSets

CONSTANTS
    Directories,  \* directories by their path; the root is ""
    Scopes,       \* git scopes by their path; the workspace's own is ""
    MaxCalls      \* bound: requests that run when the user does something

Root == ""

ASSUME RootAssumption == Root \in Directories /\ Root \in Scopes
ASSUME CallsAssumption == MaxCalls \in Nat

\* A GitStatusResponse: gitAvailable is false, or it has changes or none.
Statuses == {"unavailable", "clean", "changed"}
None == "none"

\* A request, with what its function goes on to do when it is answered
Call ==
    [kind : {"workspace", "scopes", "diff"}, arg : {Root}, next : {"end"}]
      \cup [kind : {"tree"}, arg : Directories, next : {"end", "status", "all"}]
      \cup [kind : {"status"}, arg : Scopes, next : {"end"}]
      \cup [kind : {"item"}, arg : Directories, next : {"end"}]

VARIABLES
    calls,         \* how many of each request are in flight
    meta,          \* metaByConnection: None, or whether it is configured
    tree,          \* treeByConnection: None, or the status marked on entries
    treeError,     \* treeErrorByConnection is not empty
    status,        \* gitStatusByConnection
    scopes,        \* gitScopesByConnection
    activeScope,   \* activeGitScopeByConnection
    loading        \* the requests whose spinner turns, as pairs of kind and arg

gitVars == <<status, scopes, activeScope>>
treeVars == <<calls, meta, tree, treeError, gitVars, loading>>

Badge == {"unmarked", "clean", "changed"}
Spinner ==
    ({"workspace", "scopes", "diff"} \X {Root}) \cup ({"tree"} \X Directories)
      \cup ({"status"} \X Scopes)

TreeTypeOK ==
    /\ calls \in [Call -> Nat]
    /\ meta \in {None, "configured", "refused"}
    /\ tree \in [Directories -> Badge \cup {None}]
    /\ treeError \in [Directories -> BOOLEAN]
    /\ status \in [Scopes -> Statuses \cup {None}]
    /\ scopes \subseteq Scopes
    /\ activeScope \in Scopes
    /\ loading \subseteq Spinner

TreeInit ==
    /\ calls = [c \in Call |-> 0]
    /\ meta = None
    /\ tree = [d \in Directories |-> None]
    /\ treeError = [d \in Directories |-> FALSE]
    /\ status = [s \in Scopes |-> None]
    /\ scopes = {}
    /\ activeScope = Root
    /\ loading = {}

-----------------------------------------------------------------------------
(* Requests                                                                 *)

A(kind, arg, next) == [kind |-> kind, arg |-> arg, next |-> next]

InFlight(kind, arg) == \E c \in Call : c.kind = kind /\ c.arg = arg /\ calls[c] > 0

\* The user acts while few requests run: a bound.
Few ==
    /\ Cardinality({c \in Call : calls[c] > 0}) < MaxCalls
    /\ \A c \in Call : calls[c] < MaxCalls

\* c is answered, and the requests in new begin; spinners stop and start.
Step(c, new) ==
    /\ calls' = [x \in Call |->
                   calls[x] + (IF x \in new THEN 1 ELSE 0) - (IF x = c THEN 1 ELSE 0)]
    /\ loading' = (loading \ {<<c.kind, c.arg>>})
                    \cup ({<<x.kind, x.arg>> : x \in new} \cap Spinner)

Start(c) ==
    /\ Few
    /\ calls' = [calls EXCEPT ![c] = @ + 1]
    /\ loading' = loading \cup ({<<c.kind, c.arg>>} \cap Spinner)

-----------------------------------------------------------------------------
(* withGitStatuses: what a status marks the entries of a listing with       *)

Mark(st) == IF st \in {None, "unavailable"} THEN "unmarked" ELSE st

\* mergeTreeWithGitStatus
Marked(st) == [d \in Directories |-> IF tree[d] = None THEN None ELSE Mark(st)]

-----------------------------------------------------------------------------
(* loadWorkspace                                                            *)

LoadWorkspace ==
    /\ Start(A("workspace", Root, "end"))
    /\ UNCHANGED <<meta, tree, treeError, gitVars>>

WorkspaceConfigured ==
    /\ Step(A("workspace", Root, "end"), {A("tree", Root, "all")})
    /\ meta' = "configured"
    /\ UNCHANGED <<tree, treeError, gitVars>>

WorkspaceRefused ==
    /\ Step(A("workspace", Root, "end"), {})
    /\ meta' = "refused"
    /\ tree' = [d \in Directories |-> None]
    /\ status' = [s \in Scopes |-> IF s = Root THEN "unavailable" ELSE None]
    /\ UNCHANGED <<treeError, scopes, activeScope>>

WorkspaceFails ==
    /\ Step(A("workspace", Root, "end"), {})
    /\ meta' = "refused"
    /\ UNCHANGED <<tree, treeError, gitVars>>

-----------------------------------------------------------------------------
(* loadTree                                                                 *)

\* FileTree: a directory is expanded that has not been loaded.
ExpandDirectory(d) ==
    /\ meta = "configured"
    /\ tree[d] = None
    /\ Start(A("tree", d, "end"))
    /\ UNCHANGED <<meta, tree, treeError, gitVars>>

\* What awaits loadTree: loadWorkspace, or an operation on an item
AfterTree(next) ==
    CASE next = "all"    -> {A("status", activeScope, "end"), A("scopes", Root, "end")}
      [] next = "status" -> {A("status", activeScope, "end")}
      [] OTHER           -> {}

TreeArrives(d, next) ==
    /\ Step(A("tree", d, next), AfterTree(next))
    /\ tree' = [tree EXCEPT ![d] = Mark(status[activeScope])]
    /\ treeError' = [treeError EXCEPT ![d] = FALSE]
    /\ UNCHANGED <<meta, gitVars>>

TreeFails(d, next) ==
    /\ Step(A("tree", d, next), AfterTree(next))
    /\ treeError' = [treeError EXCEPT ![d] = TRUE]
    /\ UNCHANGED <<meta, tree, gitVars>>

-----------------------------------------------------------------------------
(* loadGitStatus, loadGitScopes                                             *)

\* GitChangesPanel's button
RefreshStatus ==
    /\ meta = "configured"
    /\ Start(A("status", activeScope, "end"))
    /\ UNCHANGED <<meta, tree, treeError, gitVars>>

\* An error counts as a status that is not available.
StatusArrives(s, st) ==
    /\ Step(A("status", s, "end"), {})
    /\ status' = [status EXCEPT ![s] = st]
    /\ tree' = Marked(IF activeScope = s THEN st ELSE status[activeScope])
    /\ UNCHANGED <<meta, treeError, scopes, activeScope>>

ScopesArrive ==
    /\ Step(A("scopes", Root, "end"), {})
    /\ \E found \in SUBSET Scopes : scopes' = scopes \cup found
    /\ UNCHANGED <<meta, tree, treeError, status, activeScope>>

ScopesFail ==
    /\ Step(A("scopes", Root, "end"), {})
    /\ UNCHANGED <<meta, tree, treeError, gitVars>>

\* Mutant of SetActiveScope: the status of the scope is not fetched.
SetActiveScopeOnly(s) ==
    /\ activeScope' = s
    /\ tree' = Marked(status[s])
    /\ UNCHANGED <<calls, loading>>

\* Mutant of SetActiveScope: the listings are not marked again.
SetActiveScopeUnmarked(s) ==
    /\ activeScope' = s
    /\ UNCHANGED tree
    /\ IF status[s] = None THEN Start(A("status", s, "end")) ELSE UNCHANGED <<calls, loading>>

SetActiveScope(s) ==
    /\ activeScope' = s
    /\ tree' = Marked(status[s])
    /\ IF status[s] = None THEN Start(A("status", s, "end")) ELSE UNCHANGED <<calls, loading>>

\* GitChangesPanel's selection
ChooseScope(s) ==
    /\ meta = "configured"
    /\ SetActiveScope(s)
    /\ UNCHANGED <<meta, treeError, status, scopes>>

\* FileTree's button: addCustomGitScope, requestWorkspaceTab
AddCustomScope(s) ==
    /\ meta = "configured"
    /\ s # Root
    /\ scopes' = scopes \cup {s}
    /\ SetActiveScope(s)
    /\ UNCHANGED <<meta, treeError, status>>

-----------------------------------------------------------------------------
(* openDiff, closeDiff                                                      *)

OpenDiff ==
    /\ status[activeScope] = "changed"
    /\ Start(A("diff", Root, "end"))
    /\ UNCHANGED <<meta, tree, treeError, gitVars>>

DiffArrives ==
    /\ Step(A("diff", Root, "end"), {})
    /\ UNCHANGED <<meta, tree, treeError, gitVars>>

\* closeDiff, and what openFile does to the diff
CloseDiff ==
    /\ loading' = loading \ {<<"diff", Root>>}
    /\ UNCHANGED <<calls, meta, tree, treeError, gitVars>>

-----------------------------------------------------------------------------
(* createItem, uploadFile, renameItem, deleteItem and saveFile, of an item  *)
(* of the directory d, as far as listings and status go                     *)

ChangeItem(d) ==
    /\ meta = "configured"
    /\ Start(A("item", d, "end"))
    /\ UNCHANGED <<meta, tree, treeError, gitVars>>

ItemChanged(d) ==
    /\ Step(A("item", d, "end"), {A("tree", d, "status")})
    /\ UNCHANGED <<meta, tree, treeError, gitVars>>

ItemRefused(d) ==
    /\ Step(A("item", d, "end"), {})
    /\ UNCHANGED <<meta, tree, treeError, gitVars>>

-----------------------------------------------------------------------------
\* The answer of a request, or its failure
Answer(c) ==
    /\ calls[c] > 0
    /\ \/ c.kind = "workspace" /\ (WorkspaceConfigured \/ WorkspaceRefused \/ WorkspaceFails)
       \/ c.kind = "tree" /\ (TreeArrives(c.arg, c.next) \/ TreeFails(c.arg, c.next))
       \/ c.kind = "status" /\ \E st \in Statuses : StatusArrives(c.arg, st)
       \/ c.kind = "scopes" /\ (ScopesArrive \/ ScopesFail)
       \/ c.kind = "diff" /\ DiffArrives
       \/ c.kind = "item" /\ (ItemChanged(c.arg) \/ ItemRefused(c.arg))

User ==
    \/ LoadWorkspace \/ RefreshStatus \/ OpenDiff \/ CloseDiff
    \/ \E d \in Directories : ExpandDirectory(d) \/ ChangeItem(d)
    \/ \E s \in Scopes : ChooseScope(s) \/ AddCustomScope(s)

TreeNext == User \/ \E c \in Call : Answer(c)

TreeSpec == TreeInit /\ [][TreeNext]_treeVars

-----------------------------------------------------------------------------
(* Whatever order listings, statuses and scope changes come in, every      *)
(* loaded listing shows the status of the scope that is selected now       *)
(* (withGitStatuses and mergeTreeWithGitStatus at each set of the store).  *)
BadgesFollowActiveScope == \A d \in Directories : tree[d] \in {None, Mark(status[activeScope])}

(* A spinner means a request in flight whose answer will stop it, however  *)
(* requests for the same thing overlap.                                    *)
SpinnersHaveRequests == \A x \in loading : InFlight(x[1], x[2])

(* When nothing is in flight, a configured workspace has its root listing  *)
(* or an error to show, and the status of the selected scope: no order of  *)
(* answers of overlapping loads leaves the panel without them.             *)
SettledPanelIsComplete ==
    (meta = "configured" /\ \A c \in Call : calls[c] = 0) =>
        /\ tree[Root] # None \/ treeError[Root]
        /\ status[activeScope] # None

=============================================================================
