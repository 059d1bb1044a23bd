--------------------------- MODULE WorkspaceFiles ---------------------------
(***************************************************************************)
(* Files of a workspace, edited by dashboards while the agent of the       *)
(* workspace writes them too: server/workspace/file-service.ts with its    *)
(* routes (api/workspace.ts), and in each tab the open file (the web's     *)
(* store/workspace.ts, FileTree and FileViewer).  Directory listings, git  *)
(* status and diffs, which the store reloads after each operation, are in  *)
(* WorkspaceTree: no variable of this module depends on theirs.            *)
(*                                                                         *)
(* A version stands for the content of a file and for its etag, the mtime  *)
(* and size it was written with: every write makes a new version, a rename *)
(* keeps it.  A directory is the files below it.  The server runs a        *)
(* request in steps, one per await of a file system call that another      *)
(* writer can come between.  Paths are taken as resolved (resolver.ts).     *)
(***************************************************************************)
EXTENDS Integers, FiniteSets, Sequences, SequencesExt

CONSTANTS
    Conns,       \* connections; each has a workspace of its own
    Tabs,        \* open dashboards
    Paths,       \* paths of files: non-empty sequences of names
    Slots,       \* bound: requests in flight at a time
    Kinds,       \* bound: the kinds of requests that each slot takes
    MaxVersion   \* bound on the versions that are ever written

RequestKinds == {"open", "save", "create", "rename", "delete"}

ASSUME KindsAssumption == Kinds \in [Slots -> SUBSET RequestKinds]
ASSUME PathsAssumption == \A p \in Paths : p \in Seq(STRING) /\ p # <<>>
ASSUME VersionsAssumption == MaxVersion \in Nat

VARIABLES
    disk,        \* the version of each file of each workspace, 0 if absent
    clock,       \* the last version written
    req,         \* the requests in flight
    conn,        \* activeConnectionId of each tab's workspace store
    view,        \* activeFile
    loadingFile, savingFile,
    overwritten  \* history: versions replaced by someone who had not seen them

serverVars == <<disk, clock, overwritten>>
storeVars == <<conn, view, loadingFile, savingFile>>
filesVars == <<serverVars, req, storeVars>>

-----------------------------------------------------------------------------
(* Paths                                                                    *)

Folders == UNION {{SubSeq(p, 1, n) : n \in 1..(Len(p) - 1)} : p \in Paths}
Items == Paths \cup Folders

\* p is the item x or lies below it.
Under(p, x) == IsPrefix(x, p)

\* parentPathOf
ParentOf(x) == Front(x)

\* Items that a rename can take from one to the other
Siblings(x, y) == x # y /\ ParentOf(x) = ParentOf(y) /\ (x \in Paths) = (y \in Paths)

Exists(c, x) == \E p \in Paths : Under(p, x) /\ disk[c][p] # 0

\* The path that p gets when the item x becomes y.
Moved(p, x, y) == y \o SubSeq(p, Len(x) + 1, Len(p))

ASSUME RenameAssumption ==
    \A p \in Paths, x, y \in Items : Siblings(x, y) /\ Under(p, x) => Moved(p, x, y) \in Paths

-----------------------------------------------------------------------------
NoView == [path |-> <<>>, conn |-> "none", ver |-> 0, etag |-> 0, ok |-> FALSE, raced |-> FALSE]

\* A FilePreview; raced is history: the version changed while it was made.
View ==
    [path : Items, conn : Conns, ver : 0..MaxVersion, etag : 0..MaxVersion,
     ok : BOOLEAN, raced : BOOLEAN] \cup {NoView}

Idle == [kind |-> "none"]

(***************************************************************************)
(* A request: what it asks (kind, conn, path, the new path of a rename,    *)
(* the content a save's author last saw and the etag it expects), how far  *)
(* the server is, and the answer (ok, ver, etag).  deaf: the tab has given *)
(* it up; raced is history, as in View.                                    *)
(***************************************************************************)
Request ==
    [kind : RequestKinds, tab : Tabs, conn : Conns, path : Items, to : Items,
     seen : 0..MaxVersion, expect : 0..MaxVersion,
     stage : {"sent", "checked", "written", "answered"},
     ok : BOOLEAN, ver : 0..MaxVersion, etag : 0..MaxVersion,
     deaf : BOOLEAN, raced : BOOLEAN]

FilesTypeOK ==
    /\ disk \in [Conns -> [Paths -> 0..MaxVersion]]
    /\ clock \in 0..MaxVersion
    /\ req \in [Slots -> Request \cup {Idle}]
    /\ conn \in [Tabs -> Conns \cup {"none"}]
    /\ view \in [Tabs -> View]
    /\ {loadingFile, savingFile} \subseteq [Tabs -> BOOLEAN]
    /\ overwritten \subseteq [ver : 1..MaxVersion, raced : BOOLEAN]

FilesInit ==
    /\ disk = [c \in Conns |-> [p \in Paths |-> 0]]
    /\ clock = 0
    /\ req = [s \in Slots |-> Idle]
    /\ conn = [t \in Tabs |-> "none"]
    /\ view = [t \in Tabs |-> NoView]
    /\ loadingFile = [t \in Tabs |-> FALSE]
    /\ savingFile = [t \in Tabs |-> FALSE]
    /\ overwritten = {}

-----------------------------------------------------------------------------
(* The tab makes requests                                                   *)

Ask(kind, t, x, y) ==
    /\ conn[t] # "none"
    /\ \E s \in Slots :
          /\ kind \in Kinds[s]
          /\ req[s] = Idle
          /\ req' = [req EXCEPT ![s] =
                [kind |-> kind, tab |-> t, conn |-> conn[t], path |-> x, to |-> y,
                 seen |-> IF kind = "save" THEN view[t].ver ELSE 0,
                 expect |-> IF kind = "save" THEN view[t].etag ELSE 0,
                 stage |-> "sent", ok |-> FALSE, ver |-> 0, etag |-> 0,
                 deaf |-> FALSE, raced |-> kind = "save" /\ view[t].raced]]

Show(t, v) == view' = [view EXCEPT ![t] = v]

OpenFile(t) ==
    /\ \E p \in Paths : Ask("open", t, p, p)
    /\ loadingFile' = [loadingFile EXCEPT ![t] = TRUE]
    /\ UNCHANGED <<serverVars, conn, view, savingFile>>

\* FileViewer: the user edits what is shown, and saves.
SaveFile(t) ==
    /\ view[t].ok
    /\ ~ loadingFile[t]
    /\ ~ savingFile[t]
    /\ Ask("save", t, view[t].path, view[t].path)
    /\ savingFile' = [savingFile EXCEPT ![t] = TRUE]
    /\ UNCHANGED <<serverVars, conn, view, loadingFile>>

\* FileTree's buttons.  create stands for the upload of a file as well.
CreateItem(t) ==
    /\ \E p \in Paths : Ask("create", t, p, p)
    /\ UNCHANGED <<serverVars, storeVars>>

RenameItem(t) ==
    /\ \E x, y \in Items : Siblings(x, y) /\ Ask("rename", t, x, y)
    /\ UNCHANGED <<serverVars, storeVars>>

DeleteItem(t) ==
    /\ \E x \in Items : Ask("delete", t, x, x)
    /\ UNCHANGED <<serverVars, storeVars>>

\* closeFile, and what openDiff does to the file viewer
CloseFile(t) ==
    /\ view[t] # NoView \/ loadingFile[t]
    /\ Show(t, NoView)
    /\ loadingFile' = [loadingFile EXCEPT ![t] = FALSE]
    /\ UNCHANGED <<serverVars, req, conn, savingFile>>

\* loadWorkspace, from WorkspacePanel's effect on the active connection
SwitchWorkspace(t) ==
    /\ \E c \in Conns \cup {"none"} :
          /\ c # conn[t]
          /\ conn' = [conn EXCEPT ![t] = c]
    /\ Show(t, NoView)
    /\ UNCHANGED <<serverVars, req, loadingFile, savingFile>>

-----------------------------------------------------------------------------
(* Writing a file                                                           *)

\* The requests that were looking at one of the files ps when it changed
Disturb(r, c, ps) ==
    IF r # Idle /\ r.conn = c /\ r.stage \in {"checked", "written"}
         /\ \E p \in ps : Under(p, r.path) \/ Under(p, r.to)
    THEN [r EXCEPT !.raced = TRUE]
    ELSE r

\* The files of c become d; the request s, if it is one, becomes r.
Change(c, d, s, r) ==
    LET ps == {p \in Paths : d[p] # disk[c][p]}
    IN  /\ disk' = [disk EXCEPT ![c] = d]
        /\ req' = [z \in Slots |-> IF z = s THEN r ELSE Disturb(req[z], c, ps)]

\* A request that nobody waits for is gone when the server has answered it.
Answered(r) ==
    IF r.deaf THEN Idle ELSE [r EXCEPT !.stage = "answered", !.seen = 0, !.expect = 0]

Refused(s) ==
    /\ req' = [req EXCEPT ![s] =
                  Answered([@ EXCEPT !.ok = FALSE, !.ver = 0, !.etag = 0, !.raced = FALSE])]
    /\ UNCHANGED serverVars

\* The agent, or anyone with a shell, writes or removes a file.
ExternalWrite ==
    \E c \in Conns, p \in Paths :
       /\ clock < MaxVersion
       /\ clock' = clock + 1
       /\ Change(c, [disk[c] EXCEPT ![p] = clock + 1], "none", Idle)
       /\ UNCHANGED <<overwritten, storeVars>>

ExternalRemove ==
    \E c \in Conns, p \in Paths :
       /\ disk[c][p] # 0
       /\ Change(c, [disk[c] EXCEPT ![p] = 0], "none", Idle)
       /\ UNCHANGED <<clock, overwritten, storeVars>>

-----------------------------------------------------------------------------
(* The server runs a request                                                *)

\* readFilePreview: stat, then readFile
StatForPreview(s) ==
    LET r == req[s] IN
    IF Exists(r.conn, r.path)
    THEN /\ req' = [req EXCEPT ![s].stage = "checked", ![s].etag = disk[r.conn][r.path]]
         /\ UNCHANGED serverVars
    ELSE Refused(s)

ReadPreview(s) ==
    LET r == req[s] IN
    IF Exists(r.conn, r.path)
    THEN /\ req' = [req EXCEPT ![s] =
                       Answered([@ EXCEPT !.ok = TRUE, !.ver = disk[r.conn][r.path]])]
         /\ UNCHANGED serverVars
    ELSE Refused(s)

\* Mutant of CheckSave: the etag is not compared.
CheckSaveBlindly(s) ==
    LET r == req[s] IN
    IF disk[r.conn][r.path] # 0
    THEN /\ req' = [req EXCEPT ![s].stage = "checked"]
         /\ UNCHANGED serverVars
    ELSE Refused(s)

\* writeFileContent up to its comparison of the etag
CheckSave(s) ==
    LET r == req[s] IN
    IF disk[r.conn][r.path] # 0 /\ disk[r.conn][r.path] = r.expect
    THEN /\ req' = [req EXCEPT ![s].stage = "checked"]
         /\ UNCHANGED serverVars
    ELSE Refused(s)

\* writeFileContent reads the file again before it writes.  A file that has changed since
\* the comparison may be gone by then, or no longer be a text.
RereadFails(s) ==
    /\ disk[req[s].conn][req[s].path] # req[s].expect
    /\ Refused(s)

\* Its writeFile, which makes the file if it is gone
WriteSave(s) ==
    LET r   == req[s]
        old == disk[r.conn][r.path]
    IN  /\ clock < MaxVersion
        /\ clock' = clock + 1
        /\ Change(r.conn, [disk[r.conn] EXCEPT ![r.path] = clock + 1], s,
                  [r EXCEPT !.stage = "written", !.ver = clock + 1, !.raced = FALSE])
        /\ overwritten' = overwritten \cup
              (IF old \in {0, r.seen} THEN {} ELSE {[ver |-> old, raced |-> r.raced]})

\* entryForResolvedPath, whose stat may see a later version
StatSaved(s) ==
    LET r == req[s] IN
    IF disk[r.conn][r.path] # 0
    THEN /\ req' = [req EXCEPT ![s] =
                       Answered([@ EXCEPT !.ok = TRUE, !.etag = disk[r.conn][r.path]])]
         /\ UNCHANGED serverVars
    ELSE Refused(s)

\* createItem and uploadFile: assertDirectory and the stat of the target
CheckCreate(s) ==
    LET r == req[s] IN
    IF disk[r.conn][r.path] = 0
    THEN \/ req' = [req EXCEPT ![s].stage = "checked"] /\ UNCHANGED serverVars
         \/ (Len(r.path) > 1 /\ ~ Exists(r.conn, ParentOf(r.path))) /\ Refused(s)
    ELSE Refused(s)

\* writeFile with the flag "wx"
WriteNew(s) ==
    LET r == req[s] IN
    IF disk[r.conn][r.path] = 0
    THEN /\ clock < MaxVersion
         /\ clock' = clock + 1
         /\ Change(r.conn, [disk[r.conn] EXCEPT ![r.path] = clock + 1], s,
                   Answered([r EXCEPT !.ok = TRUE, !.ver = clock + 1]))
         /\ UNCHANGED overwritten
    ELSE Refused(s)

\* renameItem: the source is there, the target is not.
CheckRename(s) ==
    LET r == req[s] IN
    IF Exists(r.conn, r.path) /\ ~ Exists(r.conn, r.to)
    THEN /\ req' = [req EXCEPT ![s].stage = "checked"]
         /\ UNCHANGED serverVars
    ELSE Refused(s)

\* rename(2) replaces a file, and refuses to replace a directory with files.
Rename(s) ==
    LET r    == req[s]
        here == disk[r.conn]
        hit  == {p \in Paths : Under(p, r.to) /\ here[p] # 0}
        new  == [p \in Paths |->
                   IF Under(p, r.to) THEN here[Moved(p, r.to, r.path)]
                   ELSE IF Under(p, r.path) THEN 0 ELSE here[p]]
    IN  IF Exists(r.conn, r.path) /\ (hit = {} \/ r.to \in Paths)
        THEN /\ Change(r.conn, new, s, Answered([r EXCEPT !.ok = TRUE]))
             /\ overwritten' = overwritten \cup
                   {[ver |-> here[p], raced |-> r.raced] : p \in hit}
             /\ UNCHANGED clock
        ELSE Refused(s)

CheckDelete(s) ==
    LET r == req[s] IN
    IF Exists(r.conn, r.path)
    THEN /\ req' = [req EXCEPT ![s].stage = "checked"]
         /\ UNCHANGED serverVars
    ELSE Refused(s)

\* rm; FileTree deletes a directory only recursively.
RemoveItem(s) ==
    LET r == req[s] IN
    IF Exists(r.conn, r.path)
    THEN /\ Change(r.conn,
                   [p \in Paths |-> IF Under(p, r.path) THEN 0 ELSE disk[r.conn][p]],
                   s, Answered([r EXCEPT !.ok = TRUE]))
         /\ UNCHANGED <<clock, overwritten>>
    ELSE Refused(s)

Serve(s) ==
    /\ req[s] # Idle
    /\ CASE req[s].stage = "sent" ->
              \/ req[s].kind = "open"   /\ StatForPreview(s)
              \/ req[s].kind = "save"   /\ CheckSave(s)
              \/ req[s].kind = "create" /\ CheckCreate(s)
              \/ req[s].kind = "rename" /\ CheckRename(s)
              \/ req[s].kind = "delete" /\ CheckDelete(s)
         [] req[s].stage = "checked" ->
              \/ req[s].kind = "open"   /\ ReadPreview(s)
              \/ req[s].kind = "save"   /\ (WriteSave(s) \/ RereadFails(s))
              \/ req[s].kind = "create" /\ WriteNew(s)
              \/ req[s].kind = "rename" /\ Rename(s)
              \/ req[s].kind = "delete" /\ RemoveItem(s)
         [] req[s].stage = "written" -> StatSaved(s)
         [] OTHER -> FALSE
    /\ UNCHANGED storeVars

-----------------------------------------------------------------------------
(* The tab gets an answer, or gives up                                      *)

\* An error shows the viewer with a reason instead of content.
FileArrives(r) ==
    /\ Show(r.tab, [path |-> r.path, conn |-> r.conn, ok |-> r.ok,
                    ver |-> r.ver, etag |-> r.etag, raced |-> r.raced])
    /\ loadingFile' = [loadingFile EXCEPT ![r.tab] = FALSE]
    /\ UNCHANGED <<conn, savingFile>>

\* Mutant of SaveEnds: the viewer is not compared with the path saved.
SaveEndsAnywhere(r) ==
    /\ savingFile' = [savingFile EXCEPT ![r.tab] = FALSE]
    /\ Show(r.tab, IF r.ok /\ view[r.tab] # NoView
                   THEN [view[r.tab] EXCEPT !.etag = r.etag, !.ok = TRUE]
                   ELSE view[r.tab])
    /\ UNCHANGED <<conn, loadingFile>>

SaveEnds(r) ==
    /\ savingFile' = [savingFile EXCEPT ![r.tab] = FALSE]
    /\ Show(r.tab, IF r.ok /\ view[r.tab].path = r.path
                   THEN [view[r.tab] EXCEPT !.ver = r.ver, !.etag = r.etag, !.ok = TRUE,
                                            !.raced = r.raced]
                   ELSE view[r.tab])
    /\ UNCHANGED <<conn, loadingFile>>

\* The viewer follows a rename of its file, and closes with a deletion.
RenameEnds(r) ==
    /\ Show(r.tab, IF r.ok /\ view[r.tab].path = r.path
                   THEN [view[r.tab] EXCEPT !.path = r.to] ELSE view[r.tab])
    /\ UNCHANGED <<conn, loadingFile, savingFile>>

DeleteEnds(r) ==
    /\ Show(r.tab, IF r.ok /\ view[r.tab] # NoView /\ Under(view[r.tab].path, r.path)
                   THEN NoView ELSE view[r.tab])
    /\ UNCHANGED <<conn, loadingFile, savingFile>>

Ends(r) ==
    \/ r.kind = "open"   /\ FileArrives(r)
    \/ r.kind = "save"   /\ SaveEnds(r)
    \/ r.kind = "create" /\ UNCHANGED storeVars
    \/ r.kind = "rename" /\ RenameEnds(r)
    \/ r.kind = "delete" /\ DeleteEnds(r)

Receive(s) ==
    /\ req[s] # Idle
    /\ req[s].stage = "answered"
    /\ Ends(req[s])
    /\ req' = [req EXCEPT ![s] = Idle]
    /\ UNCHANGED serverVars

\* The fetch rejects; the server goes on with a change it was asked for.
GiveUp(s) ==
    /\ req[s] # Idle
    /\ ~ req[s].deaf
    /\ Ends([req[s] EXCEPT !.ok = FALSE, !.ver = 0, !.etag = 0, !.raced = FALSE])
    /\ req' = [req EXCEPT ![s] =
                  IF @.kind = "open" \/ @.stage \in {"written", "answered"}
                  THEN Idle ELSE [@ EXCEPT !.deaf = TRUE]]
    /\ UNCHANGED serverVars

-----------------------------------------------------------------------------
TabAction(t) ==
    \/ OpenFile(t) \/ SaveFile(t)
    \/ CreateItem(t) \/ RenameItem(t) \/ DeleteItem(t)
    \/ CloseFile(t) \/ SwitchWorkspace(t)

FilesNext ==
    \/ \E t \in Tabs : TabAction(t)
    \/ \E s \in Slots : Serve(s) \/ Receive(s) \/ GiveUp(s)
    \/ ExternalWrite
    \/ ExternalRemove

FilesSpec == FilesInit /\ [][FilesNext]_filesVars

-----------------------------------------------------------------------------
(* A version is overwritten by a save or a rename whose author had not     *)
(* seen it only when another writer came between two steps of one request: *)
(* the etag and the "wx" flag protect what was written at any other time   *)
(* (file-service.ts, store/workspace.ts saveFile).                         *)
OverwritesAreRaced == \A o \in overwritten : o.raced

(* Unless the file changed under the request that filled it, the viewer's  *)
(* etag belongs to the content it shows, through saves, renames, errors    *)
(* and answers that come late (store/workspace.ts activeFile).             *)
EtagIsOfContent == \A t \in Tabs : view[t].raced \/ view[t].etag = view[t].ver

=============================================================================
