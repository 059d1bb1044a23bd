---------------------------- MODULE MessageGroups ----------------------------
(* How the message list arranges a chat: web/lib/group-messages.ts and       *)
(* web/lib/tool-call.ts.  Runs of tool calls, thoughts and results become    *)
(* one block; blank placeholders of the assistant are dropped.               *)
(*                                                                           *)
(* A message is [id, kind]: "call" (content opening with the tool mark),     *)
(* "thought", "result", "blank" and "text" are the assistant's, "user" is    *)
(* any message of the user.  A step pairs a call with <<>> or <<result>>.    *)
EXTENDS Naturals, Sequences
LOCAL INSTANCE SequencesExt

IsToolCallContent(kind) == kind \in {"call", "thought"}
IsToolResultContent(kind) == kind = "result"
IsAssistantWhitespaceOnly(m) == m.kind = "blank"
IsToolRelated(m) == IsToolCallContent(m.kind) \/ IsToolResultContent(m.kind)

\* A preview that is drawn: a progress card, or a text with a tool mark in it.
LooksLikeToolProgress(preview) ==
    preview \in {"progress", "call", "thought", "result", "textWithMark"}

\* A result goes to the step just before it if that one still waits for one.
AddStep(steps, m) ==
    IF /\ IsToolResultContent(m.kind)
       /\ steps # <<>>
       /\ Last(steps).result = <<>>
    THEN [steps EXCEPT ![Len(steps)].result = <<m>>]
    ELSE Append(steps, [call |-> m, result |-> <<>>])

PairSteps(buf) == FoldLeft(AddStep, <<>>, buf)

\* The streamed text ends the tool block as soon as it says something else.
StreamingClosesToolGroup(streamed) ==
    ~(streamed = "none" \/ IsToolCallContent(streamed) \/ IsToolResultContent(streamed))

FlushToolGroup(g, done) ==
    IF g.toolBuf = <<>> THEN g
    ELSE [items |-> Append(g.items, [kind |-> "tool-group",
                                     steps |-> PairSteps(g.toolBuf), done |-> done]),
          toolBuf |-> <<>>]

AddMessage(g, m) ==
    CASE IsAssistantWhitespaceOnly(m) -> g
      [] IsToolRelated(m) -> [g EXCEPT !.toolBuf = Append(@, m)]
      [] OTHER ->
           LET closed == FlushToolGroup(g, m.kind # "user" \/ g.toolBuf # <<>>)
           IN  [closed EXCEPT !.items = Append(@, [kind |-> "message", message |-> m])]

GroupMessages(messages, trailingDone) ==
    FlushToolGroup(FoldLeft(AddMessage, [items |-> <<>>, toolBuf |-> <<>>], messages),
                   trailingDone).items

\* What is drawn while a text streams in: the groups are kept, and only an
\* open last one is replaced.
RenderItems(baseItems, trailingDone) ==
    IF trailingDone /\ baseItems # <<>> /\ Last(baseItems).kind = "tool-group"
    THEN [baseItems EXCEPT ![Len(baseItems)].done = TRUE] ELSE baseItems

(***************************************************************************)
(* The text of a tool message, as a sequence of lines.                      *)
(***************************************************************************)
\* "red" is a red mark, "failed" a failed state, "code0" and "code1" an exit
\* code, "fence" the delimiter of a block and "text" anything else.
HeadEnd(lines) ==
    LET fences == SelectInSeq(lines, LAMBDA l: l = "fence")
    IN  IF fences = 0 THEN Len(lines) + 1 ELSE fences

\* What lies between the first fence and the one that closes it.
Fenced(lines) ==
    LET rest == SubSeq(lines, HeadEnd(lines) + 1, Len(lines))
    IN  SubSeq(rest, 1, HeadEnd(rest) - 1)

\* Only what precedes the block decides the status.
ParseToolResult(lines) ==
    LET head == SubSeq(lines, 1, HeadEnd(lines) - 1)
        codes == SelectSeq(head, LAMBDA l: l \in {"code0", "code1"})
    IN  [status |-> IF \/ {"red", "failed"} \cap ToSet(head) # {}
                       \/ (codes # <<>> /\ codes[1] = "code1")
                    THEN "error" ELSE "ok",
         body |-> Fenced(lines)]

GetToolCallLabel(call) ==
    IF call.kind = "thought" THEN "thought" ELSE IF call.name # "" THEN call.name ELSE "tool call"

\* The details: a thought's lines after the first; of a call the block after
\* the separator, or the one line there.
GetToolCallFullDetail(kind, lines) ==
    LET seps == {i \in 2..Len(lines) - 1 : lines[i] = "sep"}
        sep == CHOOSE i \in seps : \A j \in seps : i <= j
        after == SubSeq(lines, sep + 1, Len(lines))
    IN  CASE kind = "thought" -> SubSeq(lines, 2, Len(lines))
          [] kind # "thought" /\ seps = {} -> <<>>
          [] OTHER -> IF after[1] = "fence" THEN Fenced(after) ELSE <<after[1]>>

DETAIL_MAX_LEN == 40

\* The folded line: nothing for a thought, else at most so many characters.
GetToolCallDetail(kind, length) ==
    IF kind = "thought" THEN [shown |-> 0, cut |-> FALSE]
    ELSE [shown |-> IF length <= DETAIL_MAX_LEN THEN length ELSE DETAIL_MAX_LEN,
          cut |-> length > DETAIL_MAX_LEN]

(***************************************************************************)
(* Checks over every chat of at most five messages, and of six lines.       *)
(***************************************************************************)
\* Grouping loses, repeats and reorders nothing but the blank placeholders: the
\* groups read in order are the messages of groupMessages' input without them.
ASSUME NothingLostByGrouping ==
    \A n \in 0..5 : \A kinds \in [1..n -> {"call", "thought", "result", "blank", "text", "user"}] :
        LET messages == [i \in 1..n |-> [id |-> i, kind |-> kinds[i]]]
            ReadStep(read, s) == Append(read, s.call) \o s.result
            Read(read, it) == IF it.kind = "message" THEN Append(read, it.message)
                              ELSE FoldLeft(ReadStep, read, it.steps)
        IN  FoldLeft(Read, <<>>, GroupMessages(messages, FALSE))
              = SelectSeq(messages, LAMBDA m: m.kind # "blank")

\* One activity is one block, whatever blanks the bridge puts in between: two
\* blocks are never next to each other, and only the last one can be running.
ASSUME BlocksAreMaximal ==
    \A n \in 0..5 : \A kinds \in [1..n -> {"call", "result", "blank", "text", "user"}] :
        LET messages == [i \in 1..n |-> [id |-> i, kind |-> kinds[i]]]
            items == GroupMessages(messages, FALSE)
        IN  \A i \in 1..Len(items) - 1 : items[i].kind = "tool-group" =>
                items[i].done /\ items[i + 1].kind = "message"

\* Patching the last block while a reply streams in shows what grouping the
\* messages anew would, so the other blocks need not be drawn again.
ASSUME PatchIsGrouping ==
    \A n \in 0..5 : \A kinds \in [1..n -> {"call", "result", "blank", "text", "user"}] :
        LET messages == [i \in 1..n |-> [id |-> i, kind |-> kinds[i]]]
        IN  RenderItems(GroupMessages(messages, FALSE), TRUE) = GroupMessages(messages, TRUE)

\* A result is shown under the call it follows: with calls and results that
\* alternate, every call has its own result and no result stands alone.
ASSUME ResultsFindTheirCalls ==
    \A n \in 1..3 :
        LET buf == [i \in 1..2 * n |-> [id |-> i, kind |-> IF i % 2 = 1 THEN "call" ELSE "result"]]
        IN  PairSteps(buf) = [i \in 1..n |-> [call |-> buf[2 * i - 1], result |-> <<buf[2 * i]>>]]

\* A command whose output speaks of a failure has not failed for that: the
\* block below a result's head never changes its status.
ASSUME OutputIsNotAStatus ==
    \A n \in 0..2, k \in 0..2 :
        \A head \in [1..n -> {"red", "code0", "code1", "text"}],
           out \in [1..k -> {"red", "failed", "code1", "text"}] :
            ParseToolResult(head \o <<"fence">> \o out).status = ParseToolResult(head).status
=============================================================================
