------------------------------- MODULE Composer -------------------------------
(* The composer of a chat: the slash menu, the keys, what is sent, the files  *)
(* that wait to be sent and the overlay of a drag.                            *)
(* web/components/ChatWindow.tsx, MessageInput.tsx, SlashCommandMenu.tsx and  *)
(* web/lib/slash-commands.ts.                                                 *)
(*                                                                           *)
(* The input is [slash, query, args]: whether it starts with a slash, what    *)
(* follows the slash up to a blank or the words of a plain text ("" for       *)
(* none), and whether a blank follows that.  A composer is [input, index,     *)
(* agent, conn, stages, files, notice, running, reading, out, over, depth,    *)
(* dragging]: the input, the line of the menu, the agent's commands, whether  *)
(* there is a connection and whether it stages files, the files that wait,    *)
(* the notice, how many local commands are awaited, the batches being read,     *)
(* what left last, whether a drag is over the chat, and its overlay.          *)
(* Left out: the caret, input methods, the menu while arguments are written,  *)
(* and closing the chat by Escape.                                            *)
EXTENDS Naturals, Sequences
LOCAL INSTANCE SequencesExt

Cmd(n, category) == [name |-> n, category |-> category]
BUILTIN_COMMANDS == <<Cmd("clear", "builtin"), Cmd("settings", "builtin"), Cmd("connect", "builtin")>>
CC_CONNECT_COMMANDS ==
    <<Cmd("new", "session"), Cmd("model", "agent"), Cmd("cron", "cron"), Cmd("cron setup", "cron"),
      Cmd("help", "other")>>
LocalCommands == {"clear", "connect"}

NormalizeBridgeSlashCommands(raw) == SelectSeq(raw, LAMBDA c : c.name # "")
BridgeSlashToSpec(c) == [c EXCEPT !.category = IF @ = "" THEN "skill" ELSE @]

Matches(query, n) ==
    CASE query = "" -> TRUE
      [] query = "c" -> n \in {"clear", "connect", "cron", "cron setup", "commit"}
      [] query = "cron" -> n \in {"cron", "cron setup"}
      [] OTHER -> n = query
GetFilteredCommands(query, agent) ==
    SelectSeq(BUILTIN_COMMANDS \o CC_CONNECT_COMMANDS \o
                 [i \in DOMAIN agent |-> BridgeSlashToSpec(agent[i])],
              LAMBDA c : Matches(query, c.name))

Input(slash, query, args) == [slash |-> slash, query |-> query, args |-> args]
Blank == Input(FALSE, "", FALSE)
Query(input) == IF input.slash THEN <<input.query, input.args>> ELSE <<"", FALSE>>
Menu(c) == GetFilteredCommands(c.input.query, c.agent)
Interactive(c) == c.input.slash /\ ~c.input.args /\ c.input.query # "cron setup" /\ Menu(c) # <<>>

\* The menu is drawn by categories, in the order in which they first occur.
Drawn(cmds) ==
    LET categories == FoldLeft(LAMBDA seen, c : IF Contains(seen, c.category) THEN seen
                                                ELSE Append(seen, c.category), <<>>, cmds)
    IN  FlattenSeq([k \in DOMAIN categories |->
                        SelectSeq(cmds, LAMBDA c : c.category = categories[k])])

\* A query that changes starts the menu at its first line.
SetInput(c, input) ==
    [c EXCEPT !.input = input, !.index = IF Query(input) = Query(c.input) THEN @ ELSE 0]
HandleSlashSelect(c, cmd) == [SetInput(c, Input(TRUE, cmd.name, TRUE)) EXCEPT !.index = 0]
ResetComposer(c) == [SetInput(c, Blank) EXCEPT !.files = <<>>, !.notice = FALSE]

Left(how, text, files) == [how |-> how, text |-> text, files |-> files]
Big == "big"  \* a file above the limit of the inline channel
Text(c) == <<c.input.slash, c.input.query>>

HandleSend(c) ==
    LET batch == Left("sent", Text(c), c.files)
        taken == [SetInput(c, Blank) EXCEPT !.files = <<>>, !.notice = FALSE]
        idle == c.files = <<>> /\ c.input = Blank
        name == IF c.input.slash THEN c.input.query ELSE ""
    IN  IF idle THEN c
        ELSE IF c.files = <<>> /\ name = "settings"
             THEN [SetInput(c, Blank) EXCEPT !.out = Left("run", Text(c), <<>>)]
        ELSE IF ~c.conn THEN c
        ELSE IF c.files = <<>> /\ name \in LocalCommands
             THEN [c EXCEPT !.running = @ + 1, !.out = Left("run", Text(c), <<>>)]
        ELSE IF c.files = <<>> THEN [SetInput(c, Blank) EXCEPT !.out = batch]
        ELSE IF c.stages THEN [taken EXCEPT !.out = batch]
        ELSE IF Contains(c.files, Big) THEN [c EXCEPT !.notice = TRUE]
        ELSE [taken EXCEPT !.reading = Append(@, batch)]

\* The local command is through; the first batch is read, or a file of it is not.
CommandDone(c) == IF c.running > 0 THEN [SetInput(c, Blank) EXCEPT !.running = @ - 1] ELSE c
FilesRead(c) ==
    IF c.reading = <<>> THEN c ELSE [c EXCEPT !.reading = Tail(@), !.out = Head(c.reading)]
FileUnreadable(c) == IF c.reading = <<>> THEN c ELSE [c EXCEPT !.reading = Tail(@)]

SendDisabled(c) == (c.input = Blank /\ c.files = <<>>) \/ ~c.conn
\* The window's keys come first; Enter that it leaves sends.
HandleKeyDown(c, key) ==
    LET n == Len(Menu(c))
    IN  IF Interactive(c)
        THEN CASE key = "ArrowDown" -> [c EXCEPT !.index = (@ + 1) % n]
               [] key = "ArrowUp" -> [c EXCEPT !.index = (@ + n - 1) % n]
               [] key = "Enter" -> IF c.index < n THEN HandleSlashSelect(c, Menu(c)[c.index + 1]) ELSE c
               [] key = "Tab" ->
                    IF c.index < n THEN SetInput(c, Input(TRUE, Menu(c)[c.index + 1].name, TRUE)) ELSE c
               [] key = "Escape" -> SetInput(c, Blank)
        ELSE IF key = "Enter" /\ ~SendDisabled(c) THEN HandleSend(c) ELSE c

\* One file of a name, size and date.
HandleFilesSelected(c, picked) ==
    [c EXCEPT !.files = FoldLeft(LAMBDA next, f : IF Contains(next, f) THEN next ELSE Append(next, f),
                                 @, picked)]
RemovePendingAttachment(c, file) == [c EXCEPT !.files = SelectSeq(@, LAMBDA f : f # file)]

HandleDragEnter(c) == IF c.conn THEN [c EXCEPT !.depth = @ + 1, !.dragging = TRUE] ELSE c
HandleDragLeave(c) ==
    IF c.depth = 0 THEN c ELSE [c EXCEPT !.depth = @ - 1, !.dragging = @ /\ c.depth > 1]
HandleDrop(c, dropped) ==
    LET ended == [c EXCEPT !.depth = 0, !.dragging = FALSE]
    IN  IF c.conn THEN HandleFilesSelected(ended, dropped) ELSE ended

\* An event is [kind, arg]; over an element inside, a drag enters it first.
ComposerStep(c, e) ==
    CASE e.kind = "typed" -> SetInput(c, e.arg)
      [] e.kind = "key" -> HandleKeyDown(c, e.arg)
      [] e.kind = "click" /\ Interactive(c) /\ e.arg <= Len(Menu(c)) ->
            HandleSlashSelect(c, Drawn(Menu(c))[e.arg])
      [] e.kind = "send" /\ ~SendDisabled(c) -> HandleSend(c)
      [] e.kind = "skills" -> [c EXCEPT !.agent = NormalizeBridgeSlashCommands(e.arg)]
      [] e.kind = "new" -> ResetComposer(c)
      [] e.kind = "done" -> CommandDone(c)
      [] e.kind = "read" -> FilesRead(c)
      [] e.kind = "unread" -> FileUnreadable(c)
      [] e.kind = "files" -> HandleFilesSelected(c, e.arg)
      [] e.kind = "remove" -> RemovePendingAttachment(c, e.arg)
      [] e.kind = "conn" -> [c EXCEPT !.conn = e.arg]
      [] e.kind = "enter" /\ ~c.over -> HandleDragEnter([c EXCEPT !.over = TRUE])
      [] e.kind = "move" /\ c.over -> HandleDragLeave(HandleDragEnter(c))
      [] e.kind = "leave" /\ c.over -> HandleDragLeave([c EXCEPT !.over = FALSE])
      [] e.kind = "drop" /\ c.over -> HandleDrop([c EXCEPT !.over = FALSE], e.arg)
      [] OTHER -> c

(***************************************************************************)
(* Checks over the events of the menu, of sending and of dragging.          *)
(***************************************************************************)
Nothing == Left("no", <<FALSE, "">>, <<>>)
Composers ==
    {[input |-> Blank, index |-> 0, agent |-> <<>>, conn |-> TRUE, stages |-> b, files |-> <<>>,
      notice |-> FALSE, running |-> 0, reading |-> <<>>, out |-> Nothing, over |-> FALSE,
      depth |-> 0, dragging |-> FALSE] : b \in BOOLEAN}
ComposersAfter(events, n) ==
    LET after[k \in 0..n] ==
          IF k = 0 THEN Composers
          ELSE after[k - 1] \cup {ComposerStep(c, e) : c \in after[k - 1], e \in events}
    IN  after[n]

Events(kind, args) == [kind : {kind}, arg : args]
Skills == <<Cmd("", ""), Cmd("commit", "skill"), Cmd("clear", "")>>
MenuEvents ==
    Events("typed", {Blank, Input(FALSE, "words", FALSE)} \cup
                    {Input(TRUE, q, FALSE) : q \in {"", "c", "cron", "clear"}})
      \cup Events("key", {"ArrowDown", "ArrowUp", "Enter", "Tab", "Escape"})
      \cup Events("click", {1, 9}) \cup Events("skills", {Skills})
SendEvents ==
    Events("typed", {Input(FALSE, "words", FALSE)} \cup
                    {Input(TRUE, q, TRUE) : q \in {"settings", "clear", "help"}})
      \cup Events("send", {0}) \cup Events("done", {0}) \cup Events("read", {0})
      \cup Events("unread", {0}) \cup Events("new", {0}) \cup Events("conn", BOOLEAN)
      \cup Events("files", {<<"f">>, <<"f", Big, "f">>}) \cup Events("remove", {Big})
DragEvents ==
    Events("enter", {0}) \cup Events("move", {0}) \cup Events("leave", {0})
      \cup Events("drop", {<<>>, <<"f">>}) \cup Events("conn", BOOLEAN)
AtMenu == ComposersAfter(MenuEvents, 5)
AtSend == ComposersAfter(SendEvents, 5)

\* The line that is drawn as selected is the command Enter chooses, although
\* the menu is drawn by categories and the choice is from the flat list; and
\* there is such a line as long as the agent's commands do not become fewer.
ASSUME HighlightedIsChosen ==
    \A c \in AtMenu : Interactive(c) => c.index < Len(Menu(c)) /\ Drawn(Menu(c)) = Menu(c)

\* Enter twice on a line of the menu sends the command of that line, or runs
\* it here if the window does so with a command of that name.
ASSUME EnterTwiceSends ==
    \A c \in AtMenu : Interactive(c) =>
        LET name == Menu(c)[c.index + 1].name
        IN  HandleKeyDown(HandleKeyDown(c, "Enter"), "Enter").out =
              Left(IF name \in LocalCommands \cup {"settings"} THEN "run" ELSE "sent",
                   <<TRUE, name>>, <<>>)

\* What is written or waits leaves the composer only to be sent, run or read,
\* by the user's own hand, by a new session, or as the end of a local command
\* takes what was typed meanwhile; files that are sent no longer wait, and
\* what is read is sent, unless reading fails.
ASSUME NothingIsDropped ==
    \A c \in AtSend, e \in SendEvents :
        LET d == ComposerStep(c, e)
            went == {Left(how, Text(c), c.files) : how \in {"sent", "run"}} \cap
                      ({d.out} \cup ToSet(d.reading))
        IN  /\ c.input # Blank /\ d.input = Blank => went # {} \/ e.kind \in {"new", "done"}
            /\ c.files # <<>> /\ d.files = <<>> => went # {} \/ e.kind \in {"new", "remove"}
            /\ e.kind = "send" /\ (d.out # c.out \/ d.reading # c.reading) => d.files = <<>>
            /\ Len(d.reading) < Len(c.reading) =>
                  d.reading = Tail(c.reading) /\ (d.out = Head(c.reading) \/ e.kind = "unread")

\* A file waits once, and none above the limit is read for a connection that
\* does not stage: it is neither sent nor lost.
ASSUME WaitsOnce ==
    \A c \in AtSend : IsInjective(c.files) /\ \A k \in DOMAIN c.reading :
                          ~c.stages /\ IsInjective(c.reading[k].files) /\ ~Contains(c.reading[k].files, Big)

\* The overlay ends with the drag, and stays while it is over the chat unless
\* the connection has changed meanwhile.
ASSUME OverlayFollowsDrag ==
    /\ \A c \in ComposersAfter(DragEvents, 6) : ~c.over => ~c.dragging /\ c.depth = 0
    /\ \A c \in ComposersAfter({e \in DragEvents : e.kind # "conn"}, 6) : c.dragging <=> c.over
=============================================================================
