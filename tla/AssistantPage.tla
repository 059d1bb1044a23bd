---------------------------- MODULE AssistantPage ----------------------------
(* The assistant page: the board, the unread badge of the resident session,  *)
(* and the chats of the item sessions.  The assistant's backend writes into  *)
(* item sessions, where the agent answers, and reports progress; the page    *)
(* collects the events, then reloads the board, reads the list of sessions   *)
(* again and pulls, one after the other, what is new in the chats it has     *)
(* loaded.  The agent's answers are pushed to the page meanwhile.  The user  *)
(* opens the discussion of an item, which creates its session and sends an   *)
(* opening prompt.                                                           *)
EXTENDS ResidentUnread, AssistantBoard, FiniteSets

CONSTANTS
    Page,       \* the dashboard that shows the assistant page
    ItemChats,      \* item sessions
    MaxEvents   \* bound on what users, backend and faults do

ASSUME PageAssumption == Page \in Tabs /\ MaxEvents \in Nat

VARIABLES
    rows,       \* item sessions of the sessions table
    written,    \* messages in the history of one, of the backend and of the agent
    unseen,     \* those of the backend that its chat on the page lacks
    pushes,     \* messages of the agent on their way into a chat of the page
    told,       \* sessions of ASSISTANT_SESSION_UPDATED events on their way to the page
    batch,      \* those collected since the last flush
    refreshes,  \* runs of refreshAssistantSession that wait for the list of sessions
    pulls,      \* runs that wait for the new messages of a chat
    list,       \* sessions of the page
    fresh,      \* those it created within the last minute
    listedRows, \* the sessions in the answer to the list of hydration
    loading,    \* history requests of chats: "no", "asked" or "answered"
    history,    \* the length of the history in the answer
    loaded,     \* chats marked as loaded
    mark,       \* watermark of a chat
    creating,   \* the request of createSession: "no", "sent" or "stored"
    events,     \* events so far
    prompts,    \* history: opening prompts sent for an item
    lost,       \* history: sessions hydration has dropped from the list
    missed,     \* history: chats with a write the page was not told of, or could not pull
    passed      \* history: messages that a push moved the watermark past before they were
                \* asked for

runVars == <<told, batch, refreshes, pulls>>
viewVars == <<loading, history, loaded, mark>>
rowVars == <<written, unseen, pushes, passed>>
chatVars == <<runVars, viewVars, rowVars, missed>>
listVars == <<rows, list, fresh, listedRows, creating, prompts, lost>>
vars == <<unreadVars, boardVars, chatVars, listVars, events>>

TypeOK ==
    /\ UnreadTypeOK /\ BoardTypeOK
    /\ rows \subseteq ItemChats /\ list \subseteq ItemChats /\ listedRows \subseteq ItemChats
    /\ fresh \subseteq ItemChats /\ told \subseteq ItemChats /\ batch \subseteq ItemChats
    /\ refreshes \subseteq [stage : {"asked", "answered"}, keys : SUBSET ItemChats,
                            rows : SUBSET ItemChats]
    /\ pulls \subseteq [stage : {"asked", "answered"}, chat : ItemChats,
                        rest : SUBSET ItemChats, after : Nat, upto : Nat]
    /\ {written, history, mark, prompts} \subseteq [ItemChats -> Nat]
    /\ {unseen, passed} \subseteq [ItemChats -> SUBSET Nat] /\ pushes \subseteq ItemChats \X Nat
    /\ loading \in [ItemChats -> {"no", "asked", "answered"}]
    /\ creating \in [ItemChats -> {"no", "sent", "stored"}]
    /\ loaded \subseteq ItemChats /\ lost \subseteq ItemChats /\ missed \subseteq ItemChats
    /\ events \in 0..MaxEvents

Event == events < MaxEvents /\ events' = events + 1
Highest(a, b) == IF a > b THEN a ELSE b

-----------------------------------------------------------------------------
(* The backend                                                               *)

Untold(k) == missed' = missed \cup {k} /\ UNCHANGED told

\* hub.broadcast of ASSISTANT_SESSION_UPDATED.
Tell(k) ==
    IF Page \in online THEN told' = told \cup {k} /\ UNCHANGED missed
    ELSE Untold(k)

\* POST /internal/assistant/send: the session if it is missing, the message in it, and the
\* hand-over to the agent.  Without a client of the bridge that throws, and nobody is told.
BackendSends(k) ==
    /\ Event
    /\ rows' = rows \cup {k}
    /\ written' = [written EXCEPT ![k] = @ + 1]
    /\ unseen' = [unseen EXCEPT ![k] = @ \cup {written[k] + 1}]
    /\ Tell(k) \/ Untold(k)
    /\ UNCHANGED <<unreadVars, boardVars, batch, refreshes, pulls, viewVars, pushes, passed,
                   list, fresh, listedRows, creating, prompts, lost>>

\* The agent answers in the session: the reply is stored and pushed.
AgentReplies(k) ==
    /\ Event
    /\ k \in rows
    /\ written' = [written EXCEPT ![k] = @ + 1]
    /\ pushes' = IF Page \in online THEN pushes \cup {<<k, written[k] + 1>>} ELSE pushes
    /\ UNCHANGED <<unreadVars, boardVars, runVars, viewVars, unseen, passed, missed, listVars>>

\* The agent finishes a file; POST /internal/assistant/notify tells the page.
BackendFinishes(c, k) ==
    /\ Event
    /\ AddCard(c)
    /\ Tell(k)
    /\ UNCHANGED <<unreadVars, batch, refreshes, pulls, viewVars, rowVars, listVars>>

-----------------------------------------------------------------------------
(* Events of the backend, and messages of the agent, on the page             *)

\* A request that brings the message is under way, or the chat has yet to read its history.
AskedFor(k, m) ==
    \/ k \notin loaded /\ (loading[k] = "answered" => m <= history[k])
    \/ \E p \in pulls : p.chat = k /\ p.after < m /\ (p.stage = "answered" => m <= p.upto)

\* addMessage, at once or when the text has been revealed: the watermark moves to its seq.
TakePush(k, n) ==
    /\ <<k, n>> \in pushes
    /\ pushes' = pushes \ {<<k, n>>}
    /\ mark' = [mark EXCEPT ![k] = Highest(@, n)]
    /\ passed' = [passed EXCEPT ![k] = @ \cup
                    {m \in unseen[k] : mark[k] < m /\ m <= n /\ ~AskedFor(k, m)}]
    /\ UNCHANGED <<unreadVars, boardVars, runVars, loading, history, loaded, written, unseen,
                   missed, listVars, events>>

\* The batcher collects the sessions, each once.
CollectLast(k) ==
    /\ k \in told
    /\ told' = told \ {k}
    /\ batch' = {k}
    /\ UNCHANGED <<unreadVars, boardVars, refreshes, pulls, viewVars, rowVars, missed, listVars,
                   events>>
Collect(k) ==
    /\ k \in told
    /\ told' = told \ {k}
    /\ batch' = batch \cup {k}
    /\ UNCHANGED <<unreadVars, boardVars, refreshes, pulls, viewVars, rowVars, missed, listVars,
                   events>>

Refresh(keys) == [stage |-> "asked", keys |-> keys, rows |-> {}]

\* 300 ms after the last event: the board and the sessions are asked for.
Flush ==
    /\ batch # {}
    /\ \E a \in Timers : Asks(a)
    /\ refreshes' = refreshes \cup {Refresh(batch)}
    /\ batch' = {}
    /\ UNCHANGED <<unreadVars, open, closed, board, hidden, posts, sent, overtaken,
                   told, pulls, viewVars, rowVars, missed, listVars, events>>

ServeRefresh(r) ==
    /\ r.stage = "asked"
    /\ refreshes' = (refreshes \ {r}) \cup {[r EXCEPT !.stage = "answered", !.rows = rows]}
    /\ UNCHANGED <<unreadVars, boardVars, told, batch, pulls, viewVars, rowVars, missed,
                   listVars, events>>

Pull(k, rest) ==
    [stage |-> "asked", chat |-> k, rest |-> rest, after |-> mark[k], upto |-> 0]

\* A run goes on to the next chat that is loaded by then: pullNewMessages asks for what
\* follows its watermark.  A chat that is not loaded reads its history when it is opened;
\* one whose history was read before the write does without it.
GoesOn(others, keys, skipped) ==
    /\ skipped \cap loaded = {}
    /\ IF skipped = keys THEN pulls' = others
       ELSE \E k \in (keys \ skipped) \cap loaded :
                pulls' = others \cup {Pull(k, keys \ (skipped \cup {k}))}
Late(skipped) == {k \in skipped : loading[k] = "answered"}

\* The list of the server, and sessions created here within the last minute.
TakeRefreshOnly(r) ==
    /\ r.stage = "answered"
    /\ list' = r.rows
    /\ refreshes' = refreshes \ {r}
    /\ \E skipped \in SUBSET r.keys :
        GoesOn(pulls, r.keys, skipped) /\ missed' = missed \cup Late(skipped)
    /\ UNCHANGED <<unreadVars, boardVars, told, batch, viewVars, rowVars,
                   rows, fresh, listedRows, creating, prompts, lost, events>>
TakeRefresh(r) ==
    /\ r.stage = "answered"
    /\ list' = r.rows \cup (list \cap fresh)
    /\ refreshes' = refreshes \ {r}
    /\ \E skipped \in SUBSET r.keys :
        GoesOn(pulls, r.keys, skipped) /\ missed' = missed \cup Late(skipped)
    /\ UNCHANGED <<unreadVars, boardVars, told, batch, viewVars, rowVars,
                   rows, fresh, listedRows, creating, prompts, lost, events>>

\* The list stays as it is; the chats are pulled all the same.
RefreshFails(r) ==
    /\ Event
    /\ refreshes' = refreshes \ {r}
    /\ \E skipped \in SUBSET r.keys :
        GoesOn(pulls, r.keys, skipped) /\ missed' = missed \cup Late(skipped)
    /\ UNCHANGED <<unreadVars, boardVars, told, batch, viewVars, rowVars, listVars>>

\* The pages after the watermark that was sent, as the server reads them.
ServePull(p) ==
    /\ p.stage = "asked"
    /\ pulls' = (pulls \ {p}) \cup {[p EXCEPT !.stage = "answered", !.upto = written[p.chat]]}
    /\ UNCHANGED <<unreadVars, boardVars, told, batch, refreshes, viewVars, rowVars, missed,
                   listVars, events>>
TakePull(p) ==
    /\ p.stage = "answered"
    /\ mark' = [mark EXCEPT ![p.chat] = Highest(@, p.upto)]
    /\ unseen' = [unseen EXCEPT ![p.chat] = {m \in @ : m <= p.after \/ m > p.upto}]
    /\ \E skipped \in SUBSET p.rest :
        GoesOn(pulls \ {p}, p.rest, skipped) /\ missed' = missed \cup Late(skipped)
    /\ UNCHANGED <<unreadVars, boardVars, told, batch, refreshes, loading, history, loaded,
                   written, pushes, passed, listVars, events>>

\* A chat is not pulled; the next one is.
PullFails(p) ==
    /\ Event
    /\ \E skipped \in SUBSET p.rest :
        GoesOn(pulls \ {p}, p.rest, skipped) /\ missed' = missed \cup {p.chat} \cup Late(skipped)
    /\ UNCHANGED <<unreadVars, boardVars, told, batch, refreshes, viewVars, rowVars, listVars>>

\* A minute passes; no request takes as long.
GracePasses ==
    /\ fresh # {} /\ refreshes = {} /\ asked[Page] = "no"
    /\ fresh' = {}
    /\ UNCHANGED <<unreadVars, boardVars, chatVars, rows, list, listedRows, creating, prompts,
                   lost, events>>

-----------------------------------------------------------------------------
(* The user                                                                  *)

\* The first opening of a chat asks for its whole history, and an opening after a failure.
OpenChat(k) ==
    /\ Event
    /\ k \in list \ loaded /\ loading[k] = "no"
    /\ loading' = [loading EXCEPT ![k] = "asked"]
    /\ UNCHANGED <<unreadVars, boardVars, runVars, history, loaded, mark, rowVars, missed,
                   listVars>>
ServeHistory(k) ==
    /\ loading[k] = "asked"
    /\ loading' = [loading EXCEPT ![k] = "answered"]
    /\ history' = [history EXCEPT ![k] = written[k]]
    /\ missed' = missed \ {k}
    /\ UNCHANGED <<unreadVars, boardVars, runVars, loaded, mark, rowVars, listVars, events>>
TakeHistory(k) ==
    /\ loading[k] = "answered"
    /\ loading' = [loading EXCEPT ![k] = "no"]
    /\ history' = [history EXCEPT ![k] = 0]
    /\ mark' = [mark EXCEPT ![k] = Highest(@, history[k])]
    /\ unseen' = [unseen EXCEPT ![k] = {m \in @ : m > history[k]}]
    /\ loaded' = loaded \cup {k}
    /\ UNCHANGED <<unreadVars, boardVars, runVars, written, pushes, passed, missed, listVars,
                   events>>
LoadFails(k) ==
    /\ Event
    /\ loading[k] # "no"
    /\ loading' = [loading EXCEPT ![k] = "no"]
    /\ history' = [history EXCEPT ![k] = 0]
    /\ UNCHANGED <<unreadVars, boardVars, runVars, loaded, mark, rowVars, missed, listVars>>

\* discuss: a session that is not in the list, nor being created, is created.
Discuss(k) ==
    /\ Event
    /\ k \notin list /\ creating[k] = "no"
    /\ creating' = [creating EXCEPT ![k] = "sent"]
    /\ UNCHANGED <<unreadVars, boardVars, chatVars, rows, list, fresh, listedRows, prompts, lost>>
ServeCreate(k) ==
    /\ creating[k] = "sent"
    /\ creating' = [creating EXCEPT ![k] = "stored"]
    /\ rows' = rows \cup {k}
    /\ UNCHANGED <<unreadVars, boardVars, chatVars, list, fresh, listedRows, prompts, lost, events>>

\* It is listed and focused, and the prompt is sent.
Created(k) ==
    /\ creating[k] = "stored"
    /\ creating' = [creating EXCEPT ![k] = "no"]
    /\ list' = list \cup {k} /\ fresh' = fresh \cup {k}
    /\ prompts' = [prompts EXCEPT ![k] = @ + 1]
    /\ UNCHANGED <<unreadVars, boardVars, chatVars, rows, listedRows, lost, events>>
CreateFails(k) ==
    /\ Event
    /\ creating[k] # "no"
    /\ creating' = [creating EXCEPT ![k] = "no"]
    /\ UNCHANGED <<unreadVars, boardVars, chatVars, rows, list, fresh, listedRows, prompts, lost>>

-----------------------------------------------------------------------------
(* The badge and the board, as parts of this page                            *)

\* Hydration replaces the list of the page, without the grace of the refresh.
ServeSessions(t) ==
    /\ ServeList(t)
    /\ listedRows' = IF t = Page THEN rows ELSE listedRows
    /\ UNCHANGED <<boardVars, chatVars, rows, list, fresh, creating, prompts, lost, events>>
TakeSessions(t) ==
    /\ TakeList(t)
    /\ IF t = Page
       THEN /\ list' = listedRows /\ listedRows' = {}
            /\ lost' = lost \cup (list \ listedRows)
       ELSE UNCHANGED <<list, listedRows, lost>>
    /\ UNCHANGED <<boardVars, chatVars, rows, fresh, creating, prompts, events>>

\* Events and messages on their way to a page whose socket closes are lost; a message it
\* has begun to reveal is not.
Disconnect(t) ==
    /\ Event
    /\ GoOffline(t)
    /\ IF t = Page THEN told' = {} /\ missed' = missed \cup told /\ pushes' \in SUBSET pushes
       ELSE UNCHANGED <<told, missed, pushes>>
    /\ UNCHANGED <<boardVars, batch, refreshes, pulls, viewVars, written, unseen, passed,
                   listVars>>

Counts(t) ==
    \/ Event /\ (View(t) \/ Peek(t) \/ Leave(t) \/ ReadFails(t) \/ ListFails(t))
    \/ UNCHANGED events /\ (HearCount(t) \/ ServeRead(t) \/ GoOnline(t))

CardSteps(c) ==
    \/ Event /\ (CloseCard(c) \/ CloseFails(c))
    \/ UNCHANGED events /\ (ServeClose(c) \/ ReloadAfter(c))

BoardSteps ==
    \/ Event /\ (PollBoard \/ \E a \in Askers : BoardFails(a))
    \/ UNCHANGED events /\ \E a \in Askers : ServeBoard(a) \/ TakeBoard(a)

Init ==
    /\ UnreadInit /\ BoardInit
    /\ rows = {} /\ written = [k \in ItemChats |-> 0] /\ unseen = [k \in ItemChats |-> {}]
    /\ pushes = {} /\ told = {} /\ batch = {} /\ refreshes = {} /\ pulls = {}
    /\ list = {} /\ fresh = {} /\ listedRows = {}
    /\ loading = [k \in ItemChats |-> "no"] /\ history = [k \in ItemChats |-> 0]
    /\ loaded = {} /\ mark = [k \in ItemChats |-> 0]
    /\ creating = [k \in ItemChats |-> "no"]
    /\ events = 0 /\ prompts = [k \in ItemChats |-> 0] /\ lost = {} /\ missed = {}
    /\ passed = [k \in ItemChats |-> {}]

Next ==
    \/ \E k \in ItemChats :
        \/ BackendSends(k) \/ AgentReplies(k) \/ Collect(k)
        \/ OpenChat(k) \/ ServeHistory(k) \/ TakeHistory(k) \/ LoadFails(k)
        \/ Discuss(k) \/ ServeCreate(k) \/ Created(k) \/ CreateFails(k)
        \/ \E c \in Deliverables : BackendFinishes(c, k)
        \/ \E n \in 1..written[k] : TakePush(k, n)
    \/ Flush \/ GracePasses
    \/ \E r \in refreshes : ServeRefresh(r) \/ TakeRefresh(r) \/ RefreshFails(r)
    \/ \E p \in pulls : ServePull(p) \/ TakePull(p) \/ PullFails(p)
    \/ \E t \in Tabs : ServeSessions(t) \/ TakeSessions(t) \/ Disconnect(t)
    \/ Event /\ Reply /\ UNCHANGED <<boardVars, chatVars, listVars>>
    \/ (\E t \in Tabs : Counts(t)) /\ UNCHANGED <<boardVars, chatVars, listVars>>
    \/ ((\E c \in Cards : CardSteps(c)) \/ BoardSteps) /\ UNCHANGED <<unreadVars, chatVars, listVars>>

Spec == Init /\ [][Next]_vars
-----------------------------------------------------------------------------
(* The page sends the opening prompt of an item once: neither a list read    *)
(* before the session was created, nor a request tried again, makes it       *)
(* forget a session it has created (useItemDiscussion.ts:30-47,              *)
(* assistantEvents.ts:74-78, 97-103).  Only hydration may drop one.          *)
PromptedOnce ==
    \A k \in ItemChats \ lost : prompts[k] <= 1

(* What the backend writes into a chat the page has loaded is shown once the *)
(* events are handled, however they come in bursts, refreshes and pulls      *)
(* overlap and pushes move the watermark (assistantEvents.ts:43-60,          *)
(* 102-130, message.ts:63-72).  Left aside are writes the page was not told  *)
(* of, a chat whose pull failed or whose history was read before the write   *)
(* and applied after it, and a message the agent's answer got ahead of.      *)
WritesArePulled ==
    told = {} /\ batch = {} /\ refreshes = {} /\ pulls = {} =>
        \A k \in loaded \ missed : unseen[k] \subseteq passed[k]
=============================================================================
