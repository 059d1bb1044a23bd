---------------------------- MODULE WorkspaceGit ----------------------------
(***************************************************************************)
(* Git in a workspace (server/workspace/git-service.ts): which repository  *)
(* a scope stands for, the changes that are listed for it, the diff of one *)
(* of them, and the scan for repositories.                                 *)
(*                                                                         *)
(* A path is a sequence of names.  The workspace root has the absolute     *)
(* path Root, so that a repository may enclose it.  Each directory holds   *)
(* one file, and the changed files are all modified or all untracked.      *)
(* What git does is external: a status lists paths relative to the top     *)
(* level of the repository it runs in, a diff takes a path relative to the *)
(* working directory.  A command that runs may also fail, take too long or *)
(* print too much.  Renames, and a nested repository as an entry of the    *)
(* outer one's status, are left out.                                       *)
(***************************************************************************)
EXTENDS Naturals, Sequences, FiniteSets, SequencesExt

CONSTANTS
    Dirs,       \* directories of the workspace, by path
    Ignored,    \* names the scan skips: GIT_SCOPE_IGNORE_DIRS and hidden ones
    MaxDepth,   \* GIT_SCOPE_SCAN_DEFAULT_DEPTH
    MaxDirs,    \* GIT_SCOPE_SCAN_DIR_LIMIT
    MaxChanged  \* bound on the changed files

ASSUME DirsAssumption ==
    /\ IsFiniteSet(Dirs) /\ <<>> \in Dirs
    /\ \A d \in Dirs : d \in Seq(STRING) /\ \A i \in 0..Len(d) : SubSeq(d, 1, i) \in Dirs
ASSUME LimitsAssumption == MaxDepth \in Nat \ {0} /\ MaxDirs \in Nat \ {0}

RootPath == <<"w">>
Nowhere == <<"nowhere">>   \* no repository, no file
Outcomes == {"done", "fails", "timeout", "missing", "big"}

VARIABLES
    repos,      \* the directories with a .git, as absolute paths
    changed,    \* the directories whose file is changed
    untracked,  \* whether the changed files are untracked
    scan,       \* listGitScopes: queue, directories read, scopes found
    gitStatus,  \* the last GitStatusResponse
    diff        \* the last GitDiffResponse

world == <<repos, changed, untracked>>
repoVars == <<world, scan, gitStatus, diff>>

File(d) == RootPath \o d \o <<"f">>

-----------------------------------------------------------------------------
(* Git                                                                      *)

Below(p, q) == IsPrefix(q, p)

\* rev-parse --show-toplevel
TopOf(p) ==
    LET tops == {r \in repos : Below(p, r)}
    IN  IF tops = {} THEN Nowhere ELSE CHOOSE r \in tops : \A q \in tops : Below(r, q)

After(p, prefix) == SubSeq(p, Len(prefix) + 1, Len(p))

\* The changed files that a status in cwd lists
Dirty(cwd, spec) ==
    {File(d) : d \in {x \in changed : /\ TopOf(RootPath \o x) = TopOf(cwd)
                                      /\ Below(RootPath \o x, spec)}}

-----------------------------------------------------------------------------
(* Scopes                                                                   *)

JoinScopePath(scope, p) == scope \o p

\* Mutant of StripScopePrefix: the path of the workspace is kept.
StripNothing(scope, p) == p

StripScopePrefix(scope, p) == IF Below(p, scope) THEN After(p, scope) ELSE p

NoContext == [mode |-> "none", repoRoot |-> <<>>, cwd |-> RootPath, spec |-> RootPath]

\* Mutant of ScopeContext: a nested repository is read from the root.
ScopeContextOfRoot(scope) ==
    IF TopOf(RootPath \o scope) = Nowhere THEN NoContext
    ELSE [NoContext EXCEPT !.mode = "subpath", !.spec = RootPath \o scope]

\* resolveScopeContext, for a scope that is a directory
ScopeContext(scope) ==
    IF TopOf(RootPath \o scope) = Nowhere THEN NoContext
    ELSE IF scope = <<>> THEN [NoContext EXCEPT !.mode = "root"]
    ELSE IF TopOf(RootPath \o scope) = RootPath \o scope
         THEN [mode |-> "nested", repoRoot |-> scope,
               cwd |-> RootPath \o scope, spec |-> RootPath \o scope]
         ELSE [NoContext EXCEPT !.mode = "subpath", !.spec = RootPath \o scope]

\* A change of a status: its path, and, as history, the file it is about
ListedChange(ctx, f) ==
    [path |-> JoinScopePath(ctx.repoRoot, After(f, TopOf(ctx.cwd))), file |-> f]

NoStatus == [asked |-> FALSE, available |-> FALSE, large |-> FALSE,
             scope |-> <<>>, changes |-> {}]

\* getGitStatus, with the outcome of its commands
GitStatus(scope, outcome) ==
    LET ctx  == ScopeContext(scope)
        none == [NoStatus EXCEPT !.asked = TRUE, !.scope = scope]
    IN  IF ctx.mode = "none" \/ TopOf(ctx.cwd) = Nowhere \/ outcome \notin {"done", "big"} THEN none
        ELSE IF outcome = "big" THEN [none EXCEPT !.available = TRUE, !.large = TRUE]
        ELSE [none EXCEPT !.available = TRUE,
                          !.changes = {ListedChange(ctx, f) : f \in Dirty(ctx.cwd, ctx.spec)}]

NoDiff == [asked |-> FALSE, done |-> FALSE, reason |-> "none", of |-> Nowhere, shown |-> Nowhere]

\* The path exists, or can be made: resolveWorkspacePath
Resolves(p) == p = <<>> \/ Front(p) \in Dirs

\* getGitDiff: first is the outcome of isUntracked, then that of the diff.
GitDiff(change, scope, first, then) ==
    LET ctx    == ScopeContext(scope)
        rel    == IF ctx.mode = "nested" THEN StripScopePrefix(ctx.repoRoot, change.path)
                                         ELSE change.path
        file   == ctx.cwd \o rel
        inHere == file \in Dirty(ctx.cwd, ctx.cwd)
        new    == first = "done" /\ untracked /\ inHere
        none   == [NoDiff EXCEPT !.asked = TRUE, !.of = change.file,
                                 !.done = first = "done" /\ then = "done"]
    IN  IF ~ Resolves(change.path) THEN [none EXCEPT !.reason = "error"]
        ELSE IF ctx.mode = "none" THEN [none EXCEPT !.reason = "GIT_UNAVAILABLE"]
        ELSE IF ~ Below(RootPath \o change.path, ctx.spec)
             THEN [none EXCEPT !.reason = "DIFF_UNAVAILABLE"]
        ELSE IF then = "big" THEN [none EXCEPT !.reason = "DIFF_TOO_LARGE"]
        ELSE IF then = "timeout" THEN [none EXCEPT !.reason = "DIFF_UNAVAILABLE"]
        ELSE IF then = "missing" THEN [none EXCEPT !.reason = "GIT_UNAVAILABLE"]
        ELSE IF then = "fails" /\ ~ new THEN [none EXCEPT !.reason = "DIFF_UNAVAILABLE"]
        ELSE [none EXCEPT !.shown = IF inHere /\ untracked = new /\ then = "done"
                                    THEN file ELSE Nowhere]

-----------------------------------------------------------------------------
(* The requests                                                             *)

ScanStart == [queue |-> <<<<>>>>, count |-> 0, found |-> {}, truncated |-> FALSE]
NoScan == [ScanStart EXCEPT !.queue = <<>>]

GitInit ==
    /\ repos \in SUBSET ({RootPath \o d : d \in Dirs} \cup {<<>>})
    /\ changed \in {s \in SUBSET Dirs : Cardinality(s) <= MaxChanged}
    /\ untracked \in BOOLEAN
    /\ scan = NoScan
    /\ gitStatus = NoStatus
    /\ diff = NoDiff

\* listGitScopes begins: the root, if it is in a work tree
ListScopes ==
    /\ scan = NoScan
    /\ scan' = [ScanStart EXCEPT !.found = IF TopOf(RootPath) # Nowhere THEN {<<>>} ELSE {}]
    /\ UNCHANGED <<world, gitStatus, diff>>

\* Mutant of Children: names are not looked at.
ChildrenOfAnyName(d) == {c \in Dirs : c # <<>> /\ Front(c) = d}

Children(d) == {c \in Dirs : c # <<>> /\ Front(c) = d /\ Last(c) \notin Ignored}
Nested(d) == {c \in Children(d) : RootPath \o c \in repos}

\* The directories below d that are queued, and in any order
Deeper(d) == IF Len(d) + 1 < MaxDepth THEN Children(d) \ Nested(d) ELSE {}

\* One round of the loop
ScanDirectory ==
    /\ scan.queue # <<>>
    /\ LET d == Head(scan.queue) IN
       IF scan.count >= MaxDirs
       THEN scan' = [scan EXCEPT !.queue = <<>>, !.truncated = TRUE]
       ELSE \E more \in [1..Cardinality(Deeper(d)) -> Deeper(d)] :
               /\ IsInjective(more)
               /\ scan' = [scan EXCEPT !.queue = Tail(@) \o more,
                                       !.count = @ + 1,
                                       !.found = @ \cup Nested(d)]
    /\ UNCHANGED <<world, gitStatus, diff>>

\* GitChangesPanel: a scope of the list, or one that FileTree added
ReadStatus ==
    /\ scan.count > 0 /\ scan.queue = <<>>
    /\ ~ gitStatus.asked
    /\ \E scope \in Dirs, outcome \in Outcomes : gitStatus' = GitStatus(scope, outcome)
    /\ UNCHANGED <<world, scan, diff>>

AskDiff ==
    /\ ~ diff.asked
    /\ \E c \in gitStatus.changes, first, then \in Outcomes :
          diff' = GitDiff(c, gitStatus.scope, first, then)
    /\ UNCHANGED <<world, scan, gitStatus>>

GitNext == ListScopes \/ ScanDirectory \/ ReadStatus \/ AskDiff

GitSpec == GitInit /\ [][GitNext]_repoVars

-----------------------------------------------------------------------------
Enclosed == TopOf(RootPath) = <<>>

(* The diff of a listed change is of that file, whichever the scope: the   *)
(* paths that getGitStatus joins are those that getGitDiff strips again.   *)
(* The workspace must not be part of a larger repository, whose paths git  *)
(* reports from its own top level.                                         *)
DiffIsOfListedFile ==
    ~ Enclosed =>
        /\ diff.shown \in {Nowhere, diff.of}
        /\ diff.done => diff.shown = diff.of

(* A listed scope lists every changed file of its repository, and none of  *)
(* another: with the scan, no change of a repository that it reaches is    *)
(* out of sight (listGitScopes, resolveScopeContext).                      *)
ListedScopesShowTheirRepository ==
    (gitStatus.available /\ ~ gitStatus.large /\ gitStatus.scope \in scan.found /\ ~ Enclosed) =>
        {c.file : c \in gitStatus.changes}
            = {File(d) : d \in {x \in changed :
                                  TopOf(RootPath \o x) = RootPath \o gitStatus.scope}}

(* The scan finds each repository up to MaxDepth that is in no ignored     *)
(* directory and in no other nested one, unless it says it was truncated.  *)
ScanFindsRepositories ==
    (scan.count > 0 /\ scan.queue = <<>> /\ ~ scan.truncated) =>
        scan.found \ {<<>>} =
            {d \in Dirs : /\ Len(d) \in 1..MaxDepth
                          /\ RootPath \o d \in repos
                          /\ \A i \in 1..Len(d) : d[i] \notin Ignored
                          /\ \A i \in 1..(Len(d) - 1) : RootPath \o SubSeq(d, 1, i) \notin repos}

=============================================================================
