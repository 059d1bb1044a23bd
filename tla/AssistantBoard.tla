---------------------------- MODULE AssistantBoard ----------------------------
(* The board of the assistant page: items and deliverables that the server   *)
(* reads from the planner's database, statuses the user sets, and a page     *)
(* that polls, reloads after every change and hides a dismissed deliverable  *)
(* until the change is through.                                              *)
EXTENDS Naturals

CONSTANTS
    Items,          \* items of the board
    Deliverables,   \* files the assistant finishes
    Timers          \* bound: what the poll and the backend's updates may ask for at once

Cards == Items \cup Deliverables

ASSUME AskersAssumption == Timers \cap Cards = {}

\* A request for the board is named after the card whose status it follows, or a timer.
Askers == Cards \cup Timers

VARIABLES
    open,       \* cards the server sends: open, or a deliverable not dismissed
    closed,     \* cards the user has closed
    board,      \* the cards of the last board taken (rawBoard)
    hidden,     \* deliverables hidden until their request is through
    posts,      \* the status request of a card: "no", "sent", "stored" or "reload"
    gets,       \* requests for the board: "no", "asked" or "answered"
    sent,       \* the board in the answer
    overtaken   \* history: cards whose last board was, or may be followed by, an older one

boardVars == <<open, closed, board, hidden, posts, gets, sent, overtaken>>

BoardTypeOK ==
    /\ open \subseteq Cards /\ closed \subseteq Cards
    /\ board \subseteq Cards /\ hidden \subseteq Deliverables
    /\ posts \in [Cards -> {"no", "sent", "stored", "reload"}]
    /\ gets \in [Askers -> {"no", "asked", "answered"}]
    /\ sent \in [Askers -> SUBSET Cards]
    /\ overtaken \subseteq Cards

\* The cards on the page.
Visible == board \ hidden

\* The planner or the agent writes a new card into the database.
AddCard(c) ==
    /\ c \notin open \cup closed
    /\ open' = open \cup {c}
    /\ UNCHANGED <<closed, board, hidden, posts, gets, sent, overtaken>>

\* setStatus, setDeliverableStatus(dismissed).
CloseCard(c) ==
    /\ c \in Visible /\ posts[c] = "no"
    /\ posts' = [posts EXCEPT ![c] = "sent"]
    /\ hidden' = hidden \cup ({c} \cap Deliverables)
    /\ UNCHANGED <<open, closed, board, gets, sent, overtaken>>

\* The POST: one transaction sets the status and notes the action.
ServeClose(c) ==
    /\ posts[c] = "sent"
    /\ posts' = [posts EXCEPT ![c] = "stored"]
    /\ open' = open \ {c} /\ closed' = closed \cup {c}
    /\ UNCHANGED <<board, hidden, gets, sent, overtaken>>

\* It fails, or its answer is lost: the deliverable comes back.
CloseFails(c) ==
    /\ posts[c] \in {"sent", "stored"}
    /\ posts' = [posts EXCEPT ![c] = "no"]
    /\ hidden' = hidden \ {c}
    /\ overtaken' = overtaken \cup {c}
    /\ UNCHANGED <<open, closed, board, gets, sent>>

Asks(a) ==
    /\ gets[a] = "no"
    /\ gets' = [gets EXCEPT ![a] = "asked"]

\* post() reloads before it returns, and only then is the deliverable unhidden.
UnhideAndReload(c) ==
    /\ posts[c] = "stored"
    /\ Asks(c)
    /\ posts' = [posts EXCEPT ![c] = "reload"]
    /\ hidden' = hidden \ {c}
    /\ UNCHANGED <<open, closed, board, sent, overtaken>>
ReloadAfter(c) ==
    /\ posts[c] = "stored"
    /\ Asks(c)
    /\ posts' = [posts EXCEPT ![c] = "reload"]
    /\ UNCHANGED <<open, closed, board, hidden, sent, overtaken>>

PollBoard ==
    /\ \E a \in Timers : Asks(a)
    /\ UNCHANGED <<open, closed, board, hidden, posts, sent, overtaken>>

ServeBoard(a) ==
    /\ gets[a] = "asked"
    /\ gets' = [gets EXCEPT ![a] = "answered"]
    /\ sent' = [sent EXCEPT ![a] = open]
    /\ UNCHANGED <<open, closed, board, hidden, posts, overtaken>>

\* The reload is over; of a status request it is the last step.
ReloadOver(a) ==
    /\ gets' = [gets EXCEPT ![a] = "no"]
    /\ sent' = [sent EXCEPT ![a] = {}]
    /\ posts' = IF a \in Cards THEN [posts EXCEPT ![a] = "no"] ELSE posts
    /\ hidden' = hidden \ {a}

TakeBoard(a) ==
    /\ gets[a] = "answered"
    /\ board' = sent[a]
    /\ overtaken' = overtaken \cup
        {c \in closed : c = a /\ \E b \in Askers \ {a} : c \in sent[b]}
    /\ ReloadOver(a)
    /\ UNCHANGED <<open, closed>>

BoardFails(a) ==
    /\ gets[a] # "no"
    /\ ReloadOver(a)
    /\ overtaken' = overtaken \cup (Cards \cap {a})
    /\ UNCHANGED <<open, closed, board>>

BoardInit ==
    /\ open = Items /\ closed = {} /\ board = {} /\ hidden = {} /\ overtaken = {}
    /\ posts = [c \in Cards |-> "no"]
    /\ gets = [a \in Askers |-> "no"] /\ sent = [a \in Askers |-> {}]
-----------------------------------------------------------------------------
(* A deliverable the user has dismissed is gone from the page at once and    *)
(* does not come back, whatever polls and reloads answer meanwhile           *)
(* (useAssistantBoard.ts:107-126).  It may come back when a request fails,   *)
(* or when a board that was read before is still on its way after the reload.*)
DismissedStaysAway ==
    \A c \in Deliverables :
        c \in Visible => c \in overtaken \/ (c \notin closed /\ posts[c] = "no")
=============================================================================
