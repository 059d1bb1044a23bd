---------------------------- MODULE PathResolver ----------------------------
(* Which file of the disk a workspace request names, and whether it may be   *)
(* read or written: server/workspace/resolver.ts.                            *)
(*                                                                           *)
(* A path is the sequence of its segments, from the disk's root.  A disk     *)
(* maps each path in it to [kind, to]: "dir", "file", or "link" to the real  *)
(* path "to".  A request's input is [nul, absolute, segs].  An answer is     *)
(* [code, relative, path], with code "ok" or the refusal's.                  *)
EXTENDS Naturals, Sequences
LOCAL INSTANCE SequencesExt

Denied(code) == [code |-> code, relative |-> <<>>, path |-> <<>>]

\* Node's path functions: a segment taken after a path, as text only.
StepDown(path, seg) ==
    CASE seg = "." -> path
      [] seg = ".." -> IF path # <<>> /\ Last(path) # ".." THEN Front(path)
                       ELSE Append(path, "..")
      [] OTHER -> Append(path, seg)

StepFromRoot(path, seg) ==
    IF seg = ".." THEN (IF path = <<>> THEN <<>> ELSE Front(path)) ELSE StepDown(path, seg)

Dirname(path) == IF path = <<>> THEN <<>> ELSE Front(path)

\* path.relative starts with ".." outside the root, but also for a child
\* whose own name does.
IsInsideOrEqual(root, candidate) ==
    /\ IsPrefix(root, candidate)
    /\ \/ candidate = root
       \/ candidate[Len(root) + 1] \notin {"..", "..x"}

NormalizeRelativePath(input) ==
    IF input.nul \/ input.absolute THEN Denied("PATH_INVALID")
    ELSE [Denied("ok") EXCEPT !.relative = FoldLeft(StepDown, <<>>, input.segs)]

\* realpath: [code, path]; a link is followed, and what is not there, or lies
\* below a file, has no real path.
FollowFrom(disk, at, seg) ==
    LET next == Append(at.path, seg)
        real == IF disk[next].kind = "link" THEN disk[next].to ELSE next
    IN  CASE at.code # "ok" -> at
          [] at.code = "ok" /\ at.path # <<>> /\ disk[at.path].kind = "file" ->
                [code |-> "ENOTDIR", path |-> <<>>]
          [] OTHER -> IF next \in DOMAIN disk /\ real \in DOMAIN disk
                      THEN [code |-> "ok", path |-> real]
                      ELSE [code |-> "ENOENT", path |-> <<>>]

Realpath(disk, path) ==
    FoldLeft(LAMBDA at, seg: FollowFrom(disk, at, seg), [code |-> "ok", path |-> <<>>], path)

\* What is missing is told apart from what cannot be looked up.
RealpathInside(disk, root, candidate, allowOutside) ==
    LET real == Realpath(disk, candidate)
    IN  IF real.code = "ok" /\ ~allowOutside /\ ~IsInsideOrEqual(root, real.path)
        THEN Denied("PATH_OUTSIDE_ROOT")
        ELSE [code |-> real.code, relative |-> <<>>, path |-> real.path]

\* The workspace of a connection.  The realpath of the configured directory is
\* the root of everything below.
ResolveConnectionWorkspace(disk, auth, connectionId, bridges) ==
    LET configured == bridges[connectionId]
        real == Realpath(disk, configured[1])
    IN  CASE auth = {} -> Denied("UNAUTHORIZED")
          [] auth # {} /\ ~\E a \in auth : connectionId \in a -> Denied("FORBIDDEN")
          [] OTHER ->
               IF connectionId \notin DOMAIN bridges THEN Denied("CONNECTION_NOT_FOUND")
               ELSE IF configured = <<>> THEN Denied("NOT_CONFIGURED")
               ELSE IF real.code # "ok" \/ (real.path # <<>> /\ disk[real.path].kind # "dir")
                    THEN Denied("UNAVAILABLE")
               ELSE [Denied("ok") EXCEPT !.path = real.path]

\* A file that need not exist, in a directory that must.
ResolveWorkspacePath(disk, root, input) ==
    LET normalized == NormalizeRelativePath(input)
        candidate == FoldLeft(StepFromRoot, root, normalized.relative)
        target == RealpathInside(disk, root, candidate, TRUE)
        parent == RealpathInside(disk, root, Dirname(candidate), TRUE)
        resolved == [code |-> "ok", relative |-> normalized.relative, path |-> candidate]
    IN  IF normalized.code # "ok" THEN normalized
        ELSE IF ~IsInsideOrEqual(root, candidate) THEN Denied("PATH_OUTSIDE_ROOT")
        ELSE IF target.code # "ENOENT" THEN IF target.code = "ok" THEN resolved ELSE target
        ELSE IF parent.code = "ok" THEN resolved
        ELSE IF parent.code = "ENOENT" THEN Denied("PATH_INVALID") ELSE parent

\* The directory that would be written to lies in the workspace, and may be
\* written by the server.
AssertWritablePath(disk, writable, root, input) ==
    LET resolved == ResolveWorkspacePath(disk, root, input)
        parent == RealpathInside(disk, root, Dirname(resolved.path), FALSE)
    IN  CASE resolved.code # "ok" -> resolved
          [] resolved.code = "ok" /\ parent.code # "ok" ->
                IF parent.code = "ENOENT" THEN Denied("PATH_INVALID") ELSE parent
          [] OTHER -> IF parent.path \in writable THEN resolved ELSE Denied("PATH_NOT_WRITABLE")

\* The same for what is created, renamed or deleted, which is never the root.
AssertWritableChildPath(disk, writable, root, input) ==
    LET resolved == ResolveWorkspacePath(disk, root, input)
    IN  IF resolved.code = "ok" /\ resolved.relative = <<>> THEN Denied("PATH_INVALID")
        ELSE AssertWritablePath(disk, writable, root, input)

(***************************************************************************)
(* Checks on a disk with a workspace r that has a directory, a file, a link *)
(* to a directory elsewhere and one to a directory of its own.              *)
(***************************************************************************)
SmallDisk ==
    LET Node(kind) == [kind |-> kind, to |-> <<>>]
        Link(to) == [kind |-> "link", to |-> to]
    IN  [p \in {<<"r">>, <<"r", "d">>, <<"r", "d", "..x">>, <<"r", "f">>, <<"r", "out">>,
                <<"r", "in">>, <<"e">>, <<"e", "d">>} |->
            CASE p = <<"r", "out">> -> Link(<<"e">>)
              [] p = <<"r", "in">> -> Link(<<"r", "d">>)
              [] p \in {<<"r", "f">>, <<"r", "d", "..x">>} -> Node("file")
              [] OTHER -> Node("dir")]

SmallInputs ==
    {[nul |-> FALSE, absolute |-> FALSE, segs |-> s] :
        s \in UNION {[1..n -> {"d", "f", "out", "in", "n", ".", "..", "..x"}] : n \in 0..3}}

\* Whatever is written lands in a directory of the workspace, through however
\* many links and steps up the request names it.
ASSUME WritesStayInside ==
    \A input \in SmallInputs :
        LET answer == AssertWritablePath(SmallDisk, DOMAIN SmallDisk, <<"r">>, input)
        IN  answer.code = "ok" => IsPrefix(<<"r">>, Realpath(SmallDisk, Dirname(answer.path)).path)

\* The workspace itself can be neither renamed nor deleted, by any spelling.
ASSUME RootStays ==
    \A input \in SmallInputs : \A assert \in {
            AssertWritablePath(SmallDisk, DOMAIN SmallDisk, <<"r">>, input),
            AssertWritableChildPath(SmallDisk, DOMAIN SmallDisk, <<"r">>, input)} :
        assert.code = "ok" => assert.path # <<"r">>

\* What is there and can be named without a step up can be read, except a
\* child of the root whose name begins with two dots; the answer's two paths
\* name the same file.
ASSUME ReadableIfThere ==
    \A input \in SmallInputs :
        LET answer == ResolveWorkspacePath(SmallDisk, <<"r">>, input)
        IN  /\ answer.code = "ok" => answer.path = <<"r">> \o answer.relative
            /\ LET plain == SelectSeq(input.segs, LAMBDA s: s # ".") IN
                 (/\ Realpath(SmallDisk, <<"r">> \o plain).code = "ok"
                  /\ ".." \notin ToSet(plain)
                  /\ plain # <<>> => plain[1] # "..x") => answer.code = "ok"

\* A request of another token, or for a connection that is gone, is refused
\* before its directory is looked at.
ASSUME OnlyOwnConnections ==
    \A auth \in {{}, {{"c"}}, {{"c", "gone"}}}, id \in {"c", "other", "gone"} :
        ResolveConnectionWorkspace(SmallDisk, auth, id,
            [b \in {"c", "other"} |-> IF b = "c" THEN <<<<"r">>>> ELSE <<<<"n">>>>]).code
          = IF auth = {} THEN "UNAUTHORIZED"
            ELSE IF id = "other" \/ (id = "gone" /\ auth = {{"c"}}) THEN "FORBIDDEN"
            ELSE IF id = "c" THEN "ok" ELSE "CONNECTION_NOT_FOUND"
=============================================================================
