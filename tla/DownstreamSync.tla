--------------------------- MODULE DownstreamSync ---------------------------
(***************************************************************************)
(* How replies reach a dashboard page: the server stores each under the    *)
(* next seq and pushes it to the open sockets (index.ts, messages.ts), the *)
(* page appends what is pushed and keeps a watermark for each chat         *)
(* (store/message.ts, App.tsx), fetches the history of a chat when it is   *)
(* first activated (hydrateFromServer.ts), and after a reconnect pages     *)
(* through what it missed (web-adapter.ts, backfillAllChats).              *)
(*                                                                         *)
(* A row is [id, chat, seq]; its content, its role and the order of the    *)
(* rendered list are left out.  Requests travel by HTTP, beside the socket.*)
(***************************************************************************)
EXTENDS Naturals, Sequences, FiniteSetsExt, Functions

CONSTANTS
    Chats,       \* the chat keys of one user
    PageSize,    \* rows of a page of /api/history?afterSeq (200 in the code)
    Faults,      \* the kinds of trouble that may happen, see FaultKinds
    MaxReplies,  \* bound on the replies of a behaviour
    MaxFaults,   \* bound on how often trouble happens in a behaviour
    MaxRuns      \* bound on the backfills that run at the same time

FaultKinds ==
    {"drop",    \* the socket closes; pushes in flight are lost
     "crash",   \* the server process dies and is restarted
     "fetch",   \* a request fails, or is answered with an error body
     "clear",   \* the user clears the history of a chat
     "delete"}  \* the user deletes a session

ASSUME PageAssumption == PageSize \in Nat \ {0}
ASSUME BoundsAssumption == MaxReplies \in Nat /\ MaxFaults \in Nat /\ MaxRuns \in Nat
ASSUME FaultsAssumption == Faults \subseteq FaultKinds

Ids == 1 .. MaxReplies
Runs == 1 .. MaxRuns
Row == [id : Ids, chat : Chats, seq : Nat]

VARIABLES
    rows,       \* the messages table
    nextSeq,    \* MessageStore.nextSeq
    replies,    \* how many replies the server has stored so far
    socket,     \* "open" or "down", seen from both ends
    push,       \* frames in flight to the page, in order
    opened,     \* hasOpenedOnce
    copies,     \* copies[c][i]: how often the row with id i is in the list of c
    mark,       \* watermarks; 0 when absent
    loaded,     \* loadedChatKeys
    reveal,     \* reveal[c]: the row a typewriter is revealing in c, if any
    history,    \* history[c]: the fetch of a whole chat that is in flight, if any
    run,        \* run[i]: a run of backfillAllChats, if any
    request,    \* request[c]: a deletion of the user that is under way
    owed,       \* history: chats that owe a backfill since the last drop
    gaveUp,     \* history: of these, the chats whose backfill a failed request ended
    disturbed,  \* history: chats no backfill vouches for, see NothingElseMissed
    faults      \* how often trouble happened

serverVars == <<rows, nextSeq, replies>>
linkVars == <<socket, push, opened>>
pageVars == <<copies, mark, loaded, reveal>>
gapVars == <<owed, gaveUp>>
vars == <<serverVars, linkVars, pageVars, history, run, request, gapVars, disturbed, faults>>

NoRow == [id |-> 0, chat |-> "none", seq |-> 0]
NoFetch == [state |-> "none", rows |-> {}]
NoRun == [state |-> "idle", todo |-> {}, chat |-> "none", after |-> 0,
          page |-> {}, more |-> FALSE, fresh |-> FALSE]

-----------------------------------------------------------------------------
(* Helpers                                                                  *)

Trouble(kind) ==
    /\ kind \in Faults
    /\ faults < MaxFaults
    /\ faults' = faults + 1

RowsOf(c) == {r \in rows : r.chat = c}
SeqsOf(rs) == {r.seq : r \in rs}

\* A list that changes while a backfill is due, or a deletion is under way, is
\* no longer vouched for.
Disturbs(c) == c \in owed \/ request[c] # "none"

\* addMessage: appended whatever is in the list already.
AddMessage(c, r) ==
    /\ copies' = [copies EXCEPT ![c][r.id] = @ + 1]
    /\ mark' = [mark EXCEPT ![c] = Max({@, r.seq})]
    /\ disturbed' = IF Disturbs(c) THEN disturbed \cup {c} ELSE disturbed

\* Mutant of MergeMessages: the rows are appended.
MergeAppends(c, rs) ==
    /\ copies' = [copies EXCEPT ![c] =
                    [i \in Ids |-> IF i \in {r.id : r \in rs} THEN @[i] + 1 ELSE @[i]]]
    /\ mark' = [mark EXCEPT ![c] = Max({@} \cup SeqsOf(rs))]

\* mergeMessages: one entry for each id.
MergeMessages(c, rs) ==
    /\ copies' = [copies EXCEPT ![c] =
                    [i \in Ids |-> IF @[i] > 0 \/ i \in {r.id : r \in rs} THEN 1 ELSE 0]]
    /\ mark' = [mark EXCEPT ![c] = Max({@} \cup SeqsOf(rs))]

\* getByChatKeyAfterSeq
PageAfter(c, after) ==
    {r \in RowsOf(c) : /\ r.seq > after
                       /\ Cardinality({s \in RowsOf(c) : s.seq > after /\ s.seq < r.seq}) < PageSize}
\* Mutant of HasMore: the query does not ask for the one row more.
HasMoreNever(c, after) == FALSE

HasMore(c, after) == Cardinality({r \in RowsOf(c) : r.seq > after}) > PageSize

\* Mutant of Ask: the watermark is read once, before the loop.
AskReadingOnce(r, todo, c) ==
    [r EXCEPT !.state = "asked", !.todo = todo \ {c}, !.chat = c,
              !.after = IF r.chat = c THEN @ ELSE mark'[c]]

\* The run asks for the page after the watermark as it is now.
Ask(r, todo, c) ==
    [r EXCEPT !.state = "asked", !.todo = todo \ {c}, !.chat = c, !.after = mark'[c]]

\* Run i turns to another chat, or ends.
Proceed(i) ==
    IF run[i].todo = {}
    THEN run' = [run EXCEPT ![i] = NoRun]
    ELSE \E c \in run[i].todo : run' = [run EXCEPT ![i] = Ask(run[i], run[i].todo, c)]

SocketLost ==
    /\ socket' = "down"
    /\ push' = <<>>
    /\ owed' = Chats
    /\ gaveUp' = {}
    /\ run' = [i \in Runs |-> [run[i] EXCEPT !.fresh = FALSE]]

-----------------------------------------------------------------------------
(* The server                                                               *)

\* bridgeManager.on("message"): stored, then broadcast to the open sockets.
Reply(c) ==
    /\ replies < MaxReplies
    /\ replies' = replies + 1
    /\ LET r == [id |-> replies + 1, chat |-> c, seq |-> nextSeq]
       IN  /\ rows' = rows \cup {r}
           /\ push' = IF socket = "open" THEN Append(push, r) ELSE push
    /\ nextSeq' = nextSeq + 1
    /\ UNCHANGED <<socket, opened, pageVars, history, run, request, gapVars, disturbed, faults>>

\* The process restarts: nextSeq is derived from the rows that are left, and
\* may fall behind what a page has seen of rows that were deleted.
Crash ==
    /\ Trouble("crash")
    /\ SocketLost
    /\ nextSeq' = Max({0} \cup SeqsOf(rows)) + 1
    /\ disturbed' = IF nextSeq' < nextSeq THEN Chats ELSE disturbed
    /\ UNCHANGED <<rows, replies, opened, pageVars, history, request>>

\* A GET of the whole history, and one of a page, is answered.
ServeHistory(c) ==
    /\ history[c].state = "asked"
    /\ history' = [history EXCEPT ![c] = [state |-> "served", rows |-> RowsOf(c)]]
    /\ UNCHANGED <<serverVars, linkVars, pageVars, run, request, gapVars, disturbed, faults>>

ServePage(i) ==
    /\ run[i].state = "asked"
    /\ LET r == run[i]
       IN  run' = [run EXCEPT ![i].state = "served",
                              ![i].page = PageAfter(r.chat, r.after),
                              ![i].more = HasMore(r.chat, r.after)]
    /\ UNCHANGED <<serverVars, linkVars, pageVars, history, request, gapVars, disturbed, faults>>

\* DELETE of a history, for /clear, and of a session.
DeleteRows(c) ==
    /\ request[c] = "delete"
    /\ rows' = rows \ RowsOf(c)
    /\ request' = [request EXCEPT ![c] = "none"]
    /\ UNCHANGED <<nextSeq, replies, linkVars, pageVars, history, run, gapVars, disturbed, faults>>

\* The request of a deleted session fails; the page only logs it.
DeleteFails(c) ==
    /\ Trouble("fetch")
    /\ request[c] = "delete"
    /\ request' = [request EXCEPT ![c] = "none"]
    /\ UNCHANGED <<serverVars, linkVars, pageVars, history, run, gapVars, disturbed>>

-----------------------------------------------------------------------------
(* The page: its socket                                                     *)

Drop ==
    /\ Trouble("drop")
    /\ socket = "open"
    /\ SocketLost
    /\ UNCHANGED <<serverVars, opened, pageVars, history, request, disturbed>>

\* Mutant of Open: no backfill.
OpenWithoutRun ==
    /\ socket = "down"
    /\ socket' = "open"
    /\ opened' = TRUE
    /\ UNCHANGED <<serverVars, push, pageVars, history, run, request, gapVars, disturbed, faults>>

\* socket.onopen: every open but the first starts a run over the chats that
\* have state now.
Open ==
    /\ socket = "down"
    /\ socket' = "open"
    /\ opened' = TRUE
    /\ LET known == loaded \cup {c \in Chats : mark[c] > 0}
       IN  IF opened /\ known # {}
           THEN \E i \in Runs, c \in known :
                   /\ run[i].state = "idle"
                   /\ run' = [run EXCEPT ![i] =
                                [NoRun EXCEPT !.state = "asked", !.todo = known \ {c},
                                              !.chat = c, !.after = mark[c], !.fresh = TRUE]]
           ELSE UNCHANGED run
    /\ UNCHANGED <<serverVars, push, pageVars, history, request, gapVars, disturbed, faults>>

\* A push is handled: a text reply first ends the reveal that is running and
\* then starts its own; a tool step, or a text where animation is off, is added
\* after the running one; a file, card or audio is added at once.
Deliver(mode) ==
    /\ push # <<>>
    /\ push' = Tail(push)
    /\ LET r == Head(push)
           c == r.chat
           q == reveal[c]
       IN  \/ /\ mode = "reveal"
              /\ reveal' = [reveal EXCEPT ![c] = r]
              /\ IF q = NoRow THEN UNCHANGED <<copies, mark, disturbed>> ELSE AddMessage(c, q)
           \/ /\ mode = "flush"
              /\ reveal' = [reveal EXCEPT ![c] = NoRow]
              /\ IF q = NoRow
                 THEN AddMessage(c, r)
                 ELSE /\ copies' = [copies EXCEPT ![c][q.id] = @ + 1, ![c][r.id] = @ + 1]
                      /\ mark' = [mark EXCEPT ![c] = Max({@, q.seq, r.seq})]
                      /\ disturbed' = IF Disturbs(c) THEN disturbed \cup {c} ELSE disturbed
           \/ /\ mode = "direct"
              /\ AddMessage(c, r)
              /\ UNCHANGED reveal
    /\ UNCHANGED <<serverVars, socket, opened, loaded, history, run, request, gapVars, faults>>

\* The reveal of a reply ends and the reply is added.
RevealEnds(c) ==
    /\ reveal[c] # NoRow
    /\ AddMessage(c, reveal[c])
    /\ reveal' = [reveal EXCEPT ![c] = NoRow]
    /\ UNCHANGED <<serverVars, linkVars, loaded, history, run, request, gapVars, faults>>

-----------------------------------------------------------------------------
(* The page: fetching                                                       *)

\* The chat is activated for the first time.
AskHistory(c) ==
    /\ opened
    /\ c \notin loaded
    /\ history[c].state = "none"
    /\ history' = [history EXCEPT ![c] = [state |-> "asked", rows |-> {}]]
    /\ UNCHANGED <<serverVars, linkVars, pageVars, run, request, gapVars, disturbed, faults>>

\* The whole history arrives, and is merged with what came meanwhile.
HistoryArrives(c) ==
    /\ history[c].state = "served"
    /\ history' = [history EXCEPT ![c] = NoFetch]
    /\ MergeMessages(c, history[c].rows)
    /\ loaded' = loaded \cup {c}
    /\ disturbed' = IF request[c] # "none" THEN disturbed \cup {c} ELSE disturbed
    /\ UNCHANGED <<serverVars, linkVars, reveal, run, request, gapVars, faults>>

\* The fetch rejects: the chat stays unloaded.  An error body parses as a
\* history without messages: the chat is loaded, whatever it lacks.
HistoryFails(c) ==
    /\ Trouble("fetch")
    /\ history[c].state # "none"
    /\ history' = [history EXCEPT ![c] = NoFetch]
    /\ \/ UNCHANGED <<copies, mark, loaded, disturbed>>
       \/ /\ MergeMessages(c, {})
          /\ loaded' = loaded \cup {c}
          /\ disturbed' = disturbed \cup {c}
    /\ UNCHANGED <<serverVars, linkVars, reveal, run, request, gapVars>>

\* A page of the backfill: it ends with an empty page, with the last page, or
\* with one that does not advance the watermark.
PageArrives(i) ==
    /\ run[i].state = "served"
    /\ LET c == run[i].chat
           caughtUp == run[i].page = {} \/ ~ run[i].more
       IN  /\ IF run[i].page = {} THEN UNCHANGED <<copies, mark>>
                                  ELSE MergeMessages(c, run[i].page)
           /\ owed' = IF caughtUp /\ run[i].fresh THEN owed \ {c} ELSE owed
           /\ IF caughtUp \/ mark'[c] <= run[i].after
              THEN Proceed(i)
              ELSE run' = [run EXCEPT ![i] = Ask(run[i], run[i].todo, c)]
           /\ disturbed' = IF request[c] # "none" THEN disturbed \cup {c} ELSE disturbed
    /\ UNCHANGED <<serverVars, linkVars, loaded, reveal, history, request, gaveUp, faults>>

\* The fetch of a page rejects and the run turns to the next chat; an error
\* body has no messages, which throws and ends the run.
PageFails(i) ==
    /\ Trouble("fetch")
    /\ run[i].state # "idle"
    /\ UNCHANGED mark
    /\ \/ Proceed(i) /\ gaveUp' = gaveUp \cup {run[i].chat}
       \/ /\ run' = [run EXCEPT ![i] = NoRun]
          /\ gaveUp' = gaveUp \cup {run[i].chat} \cup run[i].todo
    /\ UNCHANGED <<serverVars, linkVars, copies, loaded, reveal, history, request, owed,
                   disturbed>>

-----------------------------------------------------------------------------
(* The page: deleting                                                       *)

\* /clear: the request is handled, or fails ...
AskClear(c) ==
    /\ Trouble("clear")
    /\ request[c] = "none"
    /\ request' = [request EXCEPT ![c] = "clear"]
    /\ \/ rows' = rows \ RowsOf(c) /\ UNCHANGED disturbed
       \/ disturbed' = disturbed \cup {c} /\ UNCHANGED rows
    /\ UNCHANGED <<nextSeq, replies, linkVars, pageVars, history, run, gapVars>>

\* ... and then clearMessages empties the list, and keeps the watermark.
ClearMessages(c) ==
    /\ request[c] = "clear"
    /\ request' = [request EXCEPT ![c] = "none"]
    /\ copies' = [copies EXCEPT ![c] = [i \in Ids |-> 0]]
    /\ UNCHANGED <<serverVars, linkVars, mark, loaded, reveal, history, run, gapVars,
                   disturbed, faults>>

\* The user deletes a session: purgeChat at once, while the request travels.
PurgeChat(c) ==
    /\ Trouble("delete")
    /\ request[c] = "none"
    /\ request' = [request EXCEPT ![c] = "delete"]
    /\ copies' = [copies EXCEPT ![c] = [i \in Ids |-> 0]]
    /\ mark' = [mark EXCEPT ![c] = 0]
    /\ loaded' = loaded \ {c}
    /\ disturbed' = disturbed \cup {c}
    /\ UNCHANGED <<serverVars, linkVars, reveal, history, run, gapVars>>

-----------------------------------------------------------------------------
Init ==
    /\ rows = {}
    /\ nextSeq = 1
    /\ replies = 0
    /\ socket = "down"
    /\ push = <<>>
    /\ opened = FALSE
    /\ copies = [c \in Chats |-> [i \in Ids |-> 0]]
    /\ mark = [c \in Chats |-> 0]
    /\ loaded = {}
    /\ reveal = [c \in Chats |-> NoRow]
    /\ history = [c \in Chats |-> NoFetch]
    /\ run = [i \in Runs |-> NoRun]
    /\ request = [c \in Chats |-> "none"]
    /\ owed = {}
    /\ gaveUp = {}
    /\ disturbed = {}
    /\ faults = 0

ServerNext ==
    \/ Crash
    \/ \E c \in Chats : Reply(c) \/ ServeHistory(c) \/ DeleteRows(c) \/ DeleteFails(c)
    \/ \E i \in Runs : ServePage(i)

PageNext ==
    \/ Drop
    \/ Open
    \/ \E mode \in {"reveal", "flush", "direct"} : Deliver(mode)
    \/ \E i \in Runs : PageArrives(i) \/ PageFails(i)
    \/ \E c \in Chats : \/ RevealEnds(c)
                        \/ AskHistory(c)
                        \/ HistoryArrives(c)
                        \/ HistoryFails(c)
                        \/ AskClear(c)
                        \/ ClearMessages(c)
                        \/ PurgeChat(c)

Next == ServerNext \/ PageNext

Spec == Init /\ [][Next]_vars

\* The reconnect timer ends in a connection, and a request that is under way
\* is answered, or rejected by the browser.
Fairness ==
    /\ WF_vars(Open)
    /\ \A i \in Runs : WF_vars(ServePage(i)) /\ WF_vars(PageArrives(i))

FairSpec == Spec /\ Fairness

-----------------------------------------------------------------------------
(* Properties                                                               *)

\* The type of every variable: the rows of the table and the fields of the
\* message store.
TypeOK ==
    /\ rows \subseteq Row
    /\ nextSeq \in Nat
    /\ replies \in 0 .. MaxReplies
    /\ socket \in {"open", "down"}
    /\ push \in Seq(Row)
    /\ opened \in BOOLEAN
    /\ copies \in [Chats -> [Ids -> Nat]]
    /\ mark \in [Chats -> Nat]
    /\ loaded \subseteq Chats
    /\ reveal \in [Chats -> Row \cup {NoRow}]
    /\ \A c \in Chats : /\ history[c].state \in {"none", "asked", "served"}
                        /\ history[c].rows \subseteq Row
    /\ \A i \in Runs : /\ run[i].state \in {"idle", "asked", "served"}
                       /\ run[i].todo \subseteq Chats
                       /\ run[i].page \subseteq Row
    /\ request \in [Chats -> {"none", "clear", "delete"}]
    /\ owed \subseteq Chats /\ gaveUp \subseteq Chats /\ disturbed \subseteq Chats
    /\ faults \in 0 .. MaxFaults

\* The page has row r of the chat, or is about to.
Arriving(r) ==
    copies[r.chat][r.id] > 0 \/ r \in Range(push) \/ reveal[r.chat] = r

ShowsAll(c) == \A r \in RowsOf(c) : Arriving(r)

\* The only ways to miss a message: the chat is not loaded; its backfill has not
\* been completed since the last drop (web-adapter.ts:185-192); or it is
\* disturbed, that is: a push was added to it while the backfill was due, it was
\* deleted, or its history came back as an error body (hydrateFromServer.ts:97);
\* or the server was restarted after the newest rows had been deleted, and gave
\* their seqs out again.  Paging, concurrent runs, and drops and restarts during a
\* run lose nothing.
NothingElseMissed == \A c \in loaded \ (owed \cup disturbed) : ShowsAll(c)

\* No row is rendered more than twice, whatever fetches and pushes overlap: only
\* the one push of a row is appended without a look at the list.
AtMostTwice == \A c \in Chats, i \in Ids : copies[c][i] <= 2

\* Every run of the backfill ends: "the strict-advance check is what makes the
\* loop safe" (web-adapter.ts:171-175), with the watermark as its cursor.
BackfillEnds == \A i \in Runs : run[i].state # "idle" ~> run[i].state = "idle"

\* A chat that is loaded when the connection is lost is eventually caught up,
\* unless a failed request ends its backfill: nothing but another drop repeats it.
CatchesUp ==
    \A c \in Chats :
        c \in loaded /\ socket = "down" ~> c \notin owed \/ c \notin loaded \/ c \in gaveUp
=============================================================================
