---------------------------- MODULE MessageScroll ----------------------------
(* Which part of a chat the message list draws and where it scrolls:         *)
(* web/components/MessageList.tsx, between what arrives, what the reader      *)
(* does and a jump to a search result.                                       *)
(*                                                                           *)
(* Messages are numbered.  A view is [session, count, own, windowOf, size,   *)
(* pending, settled, stick, back, at, resizing]: the chat, the messages in   *)
(* each, the chats whose last is the user's, the window and the chat it is   *)
(* for, the message to jump to (0 for none), the chat that was landed in,    *)
(* whether new messages are followed, the button "back to the latest", where *)
(* the list stands, and whether the viewport is changing its size.  Left     *)
(* out: animations, and keeping the reader's place as older messages appear. *)
EXTENDS Naturals

HISTORY_WINDOW_STEP == 200
Chats == {"A", "B"}
\* Messages drawn inside a block of tool steps: they have no bubble.
ToolSteps == {2, 3}

Count(v) == v.count[v.session]
\* The window starts anew in another chat.
Render(v) ==
    IF v.windowOf = v.session THEN v
    ELSE [v EXCEPT !.windowOf = v.session, !.size = HISTORY_WINDOW_STEP]
HasOlderMessages(v) == Count(v) > v.size
IsDrawn(v, k) == k > 0 /\ k <= Count(v) /\ k + v.size > Count(v)

ExpandWindow(v) ==
    IF HasOlderMessages(v) THEN [v EXCEPT !.size = @ + HISTORY_WINDOW_STEP] ELSE v

ScrollToLatest(v) == [v EXCEPT !.at = "latest", !.stick = TRUE, !.back = FALSE]

\* The list has been scrolled to a place near the bottom, near the top, or between.
HandleScroll(v, place) ==
    LET near == place = "latest"
        scrolled == [v EXCEPT !.stick = near, !.back = ~near]
    IN  IF v.resizing THEN v
        ELSE IF place = "top" THEN ExpandWindow(scrolled) ELSE scrolled

\* A message outside of the window widens it first; one without a bubble is awaited.
JumpEffect(v) ==
    IF v.pending = 0 \/ v.pending > Count(v) THEN v
    ELSE LET needed == Count(v) + 1 - v.pending
         IN  IF needed > v.size THEN [v EXCEPT !.size = needed + HISTORY_WINDOW_STEP]
             ELSE IF v.pending \in ToolSteps THEN v
             ELSE [v EXCEPT !.at = "target", !.stick = FALSE, !.back = FALSE, !.pending = 0]

AutoScrollEffect(v) ==
    IF v.settled # v.session
    THEN IF Count(v) = 0 THEN v ELSE ScrollToLatest([v EXCEPT !.settled = v.session])
    ELSE IF v.session \in v.own \/ v.stick THEN ScrollToLatest(v)
    ELSE [v EXCEPT !.back = TRUE]

\* The effects of a rendering: the jump's come first, and while there is one
\* the list is not scrolled.  The jump's run again after what they changed.
Jumped(v) == JumpEffect(JumpEffect(v))
Commit(v) ==
    LET r == Render(v)
    IN  Jumped(IF r.pending # 0 THEN JumpEffect(r) ELSE AutoScrollEffect(r))

\* The list has more below, in the chat that is open.
Grown(v, k, own) ==
    [v EXCEPT !.count[v.session] = k, !.at = IF @ = "latest" THEN "behind" ELSE @,
              !.own = IF own THEN @ \cup {v.session} ELSE @ \ {v.session}]

\* setActiveSession forgets a jump, jumpToMessage makes one.
SetActiveSession(v, s, k) ==
    [v EXCEPT !.session = s, !.pending = k, !.at = IF s = v.session THEN @ ELSE "elsewhere"]

\* visualViewport's resize event, and the timer that ends it.
OnResize(v) ==
    LET w == [v EXCEPT !.resizing = TRUE] IN IF w.stick THEN ScrollToLatest(w) ELSE w

\* An event is [kind, arg].
Step(v, e) ==
    CASE e.kind = "loaded" /\ Count(v) < e.arg -> Commit(Grown(v, e.arg, FALSE))
      [] e.kind = "reply" -> Commit(Grown(v, Count(v) + 1, FALSE))
      [] e.kind = "typed" -> Commit(Grown(v, Count(v) + 1, TRUE))
      [] e.kind = "stream" -> Commit(Grown(v, Count(v), v.session \in v.own))
      [] e.kind = "switch" /\ e.arg # v.session -> Commit(SetActiveSession(v, e.arg, 0))
      [] e.kind = "jump" -> Commit(SetActiveSession(v, e.arg[1], e.arg[2]))
      [] e.kind = "scroll" -> Jumped(HandleScroll([v EXCEPT !.at = e.arg], e.arg))
      [] e.kind = "older" -> Jumped(ExpandWindow(v))
      [] e.kind = "back" /\ v.back -> ScrollToLatest(v)
      [] e.kind = "resize" -> OnResize(v)
      [] e.kind = "resized" -> [v EXCEPT !.resizing = FALSE]
      [] OTHER -> v

(***************************************************************************)
(* Checks over five events in two chats, one with more than two windows of  *)
(* messages and one that is empty until its history arrives.                *)
(***************************************************************************)
Mounted == Commit([session |-> "A", count |-> [A |-> 500, B |-> 0], own |-> {},
    windowOf |-> "A", size |-> HISTORY_WINDOW_STEP, pending |-> 0, settled |-> "",
    stick |-> TRUE, back |-> FALSE, at |-> "elsewhere", resizing |-> FALSE])

Jumps == {<<"A", 3>>, <<"A", 100>>, <<"B", 30>>}
ListEvents ==
    [kind : {"reply", "typed", "stream", "older", "back", "resize", "resized"}, arg : {0}]
      \cup [kind : {"scroll"}, arg : {"latest", "middle", "top"}]
      \cup [kind : {"switch"}, arg : Chats]
      \cup [kind : {"loaded"}, arg : {450}] \cup [kind : {"jump"}, arg : Jumps]

ViewsAfter(events) ==
    LET after[k \in 0..5] ==
          IF k = 0 THEN {Mounted}
          ELSE after[k - 1] \cup {Step(v, e) : v \in after[k - 1], e \in events}
    IN  after[5]
ReachedViews == ViewsAfter(ListEvents)

\* A jump waits only for a message that is not there, or that has no bubble;
\* one that is there is drawn and scrolled to.
ASSUME JumpsEnd ==
    \A v \in ReachedViews :
        /\ v.pending # 0 => v.pending > Count(v) \/ v.pending \in ToolSteps
        /\ \A j \in Jumps : j[2] \in 1..v.count[j[1]] \ ToolSteps =>
              LET w == Step(v, [kind |-> "jump", arg |-> j])
              IN  w.at = "target" /\ IsDrawn(w, j[2]) /\ w.pending = 0

\* What arrives is on the screen, or announced by the button, unless a jump
\* has just ended or is still to come.
ASSUME NothingUnnoticed ==
    \A v \in ReachedViews, k \in {"reply", "typed", "stream"} :
        LET w == Step(v, [kind |-> k, arg |-> 0])
        IN  w.at \in {"latest", "target"} \/ w.back \/ w.pending # 0 \/ Count(w) = 0

\* Once the list has come to rest in a chat, nothing the agent says moves a
\* reader away from where he scrolled or jumped to, unless he scrolled while
\* the viewport changed its size, or the last message is his own and a reply
\* is streamed.
ASSUME ReaderIsLeftAlone ==
    \A v \in ViewsAfter({e \in ListEvents : e.kind \notin {"resize", "resized"}}),
       k \in {"reply", "stream"} :
        /\ v.settled = v.session /\ v.at \in {"middle", "top", "target"}
        /\ k = "stream" => v.session \notin v.own
        => Step(v, [kind |-> k, arg |-> 0]).at = v.at

\* A chat is opened at its latest message and with one window, unless the
\* list had come to rest in it before and in no other since.
ASSUME OpensAtLatest ==
    \A v \in ReachedViews, s \in Chats :
        s # v.session /\ v.count[s] > 0 =>
            LET w == Step(v, [kind |-> "switch", arg |-> s])
            IN  w.size = HISTORY_WINDOW_STEP /\ (w.at = "latest" \/ (v.settled = s /\ w.back))
=============================================================================
