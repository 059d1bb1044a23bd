--------------------------- MODULE SessionRouting ---------------------------
(* The sessions of one connection on one dashboard page: the list, the       *)
(* active session, where frames of the agent are shown, the task phases, and *)
(* hydration, creation and deletion overlapping with all of it.              *)
(*                                                                           *)
(* The bridge may leave the session out of a frame.  Such a keyless frame    *)
(* goes to a session that is typing, else to the "sticky" one, the last that *)
(* exchanged a message with a key, else to the active one.  A frame is       *)
(* handled the moment it is sent: a delay changes nothing that an earlier    *)
(* step of the user would not.  The active and the sticky session and the    *)
(* phases are written to localStorage by every function that changes them,   *)
(* so the copy is the value.  Left out: unread badges (ResidentUnread),      *)
(* the text of messages, the pet, jumps from the search, and the entry that  *)
(* stands in for an empty list of the server when the page has messages      *)
(* under the key "default".                                                  *)
EXTENDS Naturals, Sequences, FiniteSets, SequencesExt

CONSTANTS
    Sessions,   \* session keys; createSession takes a key never used before
    Existing,   \* those the server has when the page is opened
    Default,    \* the key "default", which stands in where there is no session
    None,       \* no key
    MaxEvents   \* bound on lost frames, failures, reloads, reconnects, deletions, unasked turns

ASSUME SessionsAssumption ==
    /\ Existing \subseteq Sessions /\ IsFiniteSet(Existing)
    /\ Default \notin Sessions /\ None \notin Sessions \cup {Default}
    /\ MaxEvents \in Nat

VARIABLES
    rows,       \* sessions of the server's table
    deleting,   \* DELETE requests on their way
    creating,   \* POST requests of createSession the server has carried out, unanswered
    hydrate,    \* what hydrateSessionsAndHistory waits for, and the list it was sent
    ready,      \* the first hydration of the page has ended, and the user may act
    list,       \* sessions[connectionId], in its order
    active,     \* activeSessionKey[connectionId]
    sticky,     \* stickySessionByConnection[connectionId]
    typing,     \* sessions with typingActiveByChatKey
    working,    \* sessions whose phase is "working"
    reveal,     \* chats in which the typewriter reveals a text
    turn,       \* what the agent does for a session: "no", "quiet" or "typing"
    events,     \* events so far
    used,       \* keys that were given to a session
    exchanged,  \* history: sessions the server has had, or that exchanged a message with a key
    foreign,    \* history: <<k, s>> where content of another session's turn, by a frame of
                \* kind k, is shown in s, a session that was created here and is still fresh
    created,    \* history: sessions createSession has put into the list
    exposed,    \* history: no session to attribute keyless frames to, or a new one that
                \* types or is the sticky one
    muddled     \* history: sessions whose frames were lost, misplaced or ignored

server == <<rows, deleting>>
page == <<ready, list, active, sticky, typing, working, reveal>>
history == <<exchanged, foreign, created, exposed, muddled>>
vars == <<server, creating, hydrate, page, turn, events, used, history>>

Targets == Sessions \cup {Default}
\* How a frame finds its session: it is routed, goes to the active session, or is an error.
Kinds == {"routed", "card", "error"}
\* One of the events that are counted.
Counted == events < MaxEvents /\ events' = events + 1
Idle == [stage |-> "no", rows |-> <<>>]

TypeOK ==
    /\ rows \subseteq Sessions /\ deleting \subseteq Sessions /\ used \subseteq Sessions
    /\ events \in 0..MaxEvents
    /\ creating \subseteq Sessions
    /\ hydrate.stage \in {"no", "answered", "loading"}
    /\ hydrate.rows \in Seq(Sessions) /\ list \in Seq(Sessions)
    /\ {active, sticky} \subseteq Targets \cup {None}
    /\ typing \subseteq Targets /\ working \subseteq Targets
    /\ reveal \subseteq Targets
    /\ turn \in [Sessions -> {"no", "quiet", "typing"}]
    /\ exchanged \subseteq Sessions /\ created \subseteq Sessions
    /\ foreign \subseteq Kinds \X Targets
    /\ ready \in BOOLEAN /\ exposed \in BOOLEAN /\ muddled \subseteq Targets

-----------------------------------------------------------------------------
(* Routing                                                                   *)

\* resolveIncomingSessionRouting without a key: the active session, the first of the list.
Guess == IF active # None THEN active ELSE IF list # <<>> THEN list[1] ELSE Default

\* Where a frame is shown: keyless ones go to a typing session, the sticky one or a guess.
Routed(o, keyed) ==
    IF keyed THEN {o}
    ELSE IF typing # {} THEN typing
    ELSE IF sticky # None THEN {sticky} ELSE {Guess}

IsGuess(keyed) == ~keyed /\ typing = {} /\ sticky = None

\* A frame with a key makes its session the sticky one.
Notes(o, keyed) ==
    /\ sticky' = IF keyed THEN o ELSE sticky
    /\ exchanged' = IF keyed THEN exchanged \cup {o} ELSE exchanged

\* A frame of kind k shows content of o's turn in s, a session created here that has
\* exchanged nothing.
Shown(k, s, o) == {<<k, t>> : t \in ({s} \ {o}) \cap (created \ exchanged)}

\* The messages of s are purged.
Purged(s) == {f \in foreign : f[2] # s}

\* The chats whose phase says nothing reliable any more.
Misplaced(s, o) == IF s = o THEN {} ELSE {s, o}

\* setTaskPhase(completed) unless the session is typing.
CompletedUnlessTyping(s, w) == IF s \in typing THEN w \cup {s} ELSE w \ {s}

-----------------------------------------------------------------------------
(* Frames of the agent                                                       *)

\* A plain text: it is revealed in its chat, and a reveal that still runs there is
\* committed first, which sets the phase after it was set to working.
Text(o, keyed) ==
    \E s \in Routed(o, keyed) :
        /\ Notes(o, keyed)
        /\ working' = IF s \in reveal THEN CompletedUnlessTyping(s, working) ELSE working \cup {s}
        /\ reveal' = reveal \cup {s}
        /\ foreign' = foreign \cup Shown("routed", s, o)
        /\ muddled' = muddled \cup Misplaced(s, o)
        /\ UNCHANGED <<list, active, typing>>

\* The commit of a reveal, as the timer ends it.
RevealEndsSilently(s) ==
    /\ s \in reveal
    /\ reveal' = reveal \ {s}
    /\ UNCHANGED <<server, creating, hydrate, ready, list, active, sticky, typing, working, turn,
                   events, used, history>>
RevealEnds(s) ==
    /\ s \in reveal
    /\ reveal' = reveal \ {s}
    /\ working' = CompletedUnlessTyping(s, working)
    /\ UNCHANGED <<server, creating, hydrate, ready, list, active, sticky, typing, turn,
                   events, used, history>>

\* Progress of a turn: a tool step, which commits the running reveal, or a stream delta.
Progress(o, keyed) ==
    \E s \in Routed(o, keyed), flush \in BOOLEAN :
        /\ Notes(o, keyed)
        /\ working' = working \cup {s}
        /\ reveal' = IF flush THEN reveal \ {s} ELSE reveal
        /\ foreign' = foreign \cup Shown("routed", s, o)
        /\ muddled' = muddled \cup Misplaced(s, o)
        /\ UNCHANGED <<list, active, typing>>

\* The end of a stream, a file, or buttons, which wait for the user instead.
Settles(o, keyed) ==
    \E s \in Routed(o, keyed) :
        /\ Notes(o, keyed)
        /\ working' = CompletedUnlessTyping(s, working)
        /\ foreign' = foreign \cup Shown("routed", s, o)
        /\ muddled' = muddled \cup Misplaced(s, o)
        /\ UNCHANGED <<list, active, typing, reveal>>

\* Cards and audio are not among the routed types: without a key they go to the
\* active session, and with one they leave the sticky session alone.
Card(o, keyed) ==
    LET s == IF keyed THEN o ELSE IF active # None THEN active ELSE Default IN
        /\ working' = CompletedUnlessTyping(s, working)
        /\ foreign' = foreign \cup Shown("card", s, o)
        /\ muddled' = muddled \cup Misplaced(s, o)
        /\ UNCHANGED <<list, active, sticky, typing, reveal, exchanged>>

\* A progress card: dropped when its session is only a guess, or it shows no tool.
Preview(o, keyed) ==
    \E s \in Routed(o, keyed) :
        /\ Notes(o, keyed)
        /\ \/ UNCHANGED <<working, foreign, muddled>>
           \/ /\ ~IsGuess(keyed)
              /\ working' = working \cup {s}
              /\ foreign' = foreign \cup Shown("routed", s, o)
              /\ muddled' = muddled \cup Misplaced(s, o)
        /\ UNCHANGED <<list, active, typing, reveal>>

TypingStart(o, keyed) ==
    \E s \in Routed(o, keyed) :
        /\ Notes(o, keyed)
        /\ typing' = typing \cup {s}
        /\ working' = working \cup {s}
        /\ muddled' = muddled \cup Misplaced(s, o)
        /\ UNCHANGED <<list, active, reveal, foreign>>

TypingStop(o, keyed) ==
    \E s \in Routed(o, keyed) :
        /\ Notes(o, keyed)
        /\ typing' = typing \ {s}
        /\ working' = IF s \in typing THEN working \ {s} ELSE working
        /\ muddled' = muddled \cup Misplaced(s, o)
        /\ UNCHANGED <<list, active, reveal, foreign>>

\* BRIDGE_ERROR never has a key: the active session shows it, whatever session failed.
Error(o) ==
    LET s == Guess IN
        /\ typing' = typing \ {s}
        /\ working' = working \ {s}
        /\ foreign' = foreign \cup Shown("error", s, o)
        /\ muddled' = muddled \cup Misplaced(s, o)
        /\ UNCHANGED <<list, active, sticky, reveal, exchanged>>

\* The agent on a turn of o: it types or not, and ends with a text, a card or the like,
\* with an error, or by ceasing to type.
Frame(o, keyed) ==
    /\ turn[o] # "no"
    /\ \/ /\ Progress(o, keyed) \/ Preview(o, keyed)
          /\ UNCHANGED turn
       \/ /\ Text(o, keyed) \/ Settles(o, keyed) \/ Card(o, keyed)
          /\ \/ UNCHANGED turn
             \/ turn[o] = "quiet" /\ turn' = [turn EXCEPT ![o] = "no"]
       \/ /\ turn[o] = "quiet" /\ TypingStart(o, keyed)
          /\ turn' = [turn EXCEPT ![o] = "typing"]
       \/ /\ turn[o] = "typing" /\ TypingStop(o, keyed)
          /\ turn' = [turn EXCEPT ![o] = "no"]
       \/ Error(o) /\ turn' = [turn EXCEPT ![o] = "no"]
    /\ UNCHANGED <<server, creating, hydrate, ready, events, used, created, exposed>>

\* Frames pass while the socket is down: the page never sees how the turn goes on.
FramesLost(o) ==
    /\ Counted
    /\ turn[o] # "no"
    /\ \E t \in {"no", "quiet", "typing"} : turn' = [turn EXCEPT ![o] = t]
    /\ muddled' = muddled \cup {o}
    /\ UNCHANGED <<server, creating, hydrate, page, used, exchanged, foreign, created, exposed>>

\* A turn the user of this page did not start: a cron job, another dashboard.
OwnTurn(o) ==
    /\ Counted
    /\ o \in rows /\ turn[o] = "no"
    /\ turn' = [turn EXCEPT ![o] = "quiet"]
    /\ UNCHANGED <<server, creating, hydrate, page, used, history>>

-----------------------------------------------------------------------------
(* The user                                                                  *)

\* sendTextMessage, or an attachment, in the active session.
Send ==
    /\ ready /\ active \in ToSet(list)
    /\ sticky' = active
    /\ exchanged' = exchanged \cup {active}
    /\ turn' = [turn EXCEPT ![active] = IF @ = "no" THEN "quiet" ELSE @]
    /\ UNCHANGED <<server, creating, hydrate, ready, list, active, typing, working, reveal,
                   events, used, foreign, created, exposed, muddled>>

\* setActiveSession from the list.
Switch(s) ==
    /\ ready /\ s \in ToSet(list) /\ s # active
    /\ active' = s
    /\ UNCHANGED <<server, creating, hydrate, ready, list, sticky, typing, working, reveal, turn,
                   events, used, history>>

\* POST /api/sessions stores the row of a new key.
RowsWith(s) == rows \cup {s}

\* The POST of createSession, which changes nothing on the page until its answer; the
\* server has stored the session by then.
AskCreate(s) ==
    /\ ready /\ s \notin used
    /\ used' = used \cup {s}
    /\ creating' = creating \cup {s}
    /\ rows' = RowsWith(s)
    /\ UNCHANGED <<deleting, events, hydrate, page, turn, history>>

\* The answer is lost.
CreateFails(s) ==
    /\ Counted
    /\ s \in creating
    /\ creating' = creating \ {s}
    /\ UNCHANGED <<server, hydrate, page, turn, used, history>>

\* Without a sticky session the one that is left becomes it; what leaked into the new
\* key is purged, and it is listed and focused.
CreateBlindly(s) ==
    /\ s \in creating
    /\ creating' = creating \ {s}
    /\ working' = working \ {s} /\ foreign' = Purged(s)
    /\ list' = Append(list, s)
    /\ active' = s
    /\ created' = created \cup {s}
    /\ exposed' = (exposed \/ s \in typing \/ sticky = s \/ (sticky = None /\ active \in {None, s}))
    /\ UNCHANGED <<server, hydrate, ready, sticky, typing, reveal, turn, events, used, exchanged, muddled>>
Create(s) ==
    /\ s \in creating
    /\ creating' = creating \ {s}
    /\ sticky' = IF sticky = None /\ active # s THEN active ELSE sticky
    /\ working' = working \ {s} /\ foreign' = Purged(s)
    /\ list' = Append(list, s)
    /\ active' = s
    /\ created' = created \cup {s}
    /\ exposed' = (exposed \/ s \in typing \/ sticky = s \/ (sticky = None /\ active \in {None, s}))
    /\ UNCHANGED <<server, hydrate, ready, typing, reveal, turn, events, used, exchanged, muddled>>

\* The filter of the list: the others, in their order.
Without(q, s) ==
    LET f[i \in 0..Len(q)] ==
            IF i = 0 THEN <<>> ELSE IF q[i] = s THEN f[i - 1] ELSE Append(f[i - 1], q[i])
    IN  f[Len(q)]

\* handleDeleteClick: the request, and removeSession without waiting for its answer.
\* typingActiveByChatKey and a reveal that runs are not touched.
DeleteKeepsFocus(s) ==
    /\ Counted
    /\ ready /\ s \in ToSet(list)
    /\ deleting' = deleting \cup {s}
    /\ list' = Without(list, s)
    /\ UNCHANGED active
    /\ sticky' = IF sticky = s THEN None ELSE sticky
    /\ exposed' = (exposed \/ sticky = s)
    /\ working' = working \ {s} /\ foreign' = Purged(s)
    /\ UNCHANGED <<rows, creating, hydrate, ready, typing, reveal, turn, used, exchanged, created,
                   muddled>>
Delete(s) ==
    /\ Counted
    /\ ready /\ s \in ToSet(list)
    /\ deleting' = deleting \cup {s}
    /\ list' = Without(list, s)
    /\ active' = IF active # s THEN active ELSE IF list' # <<>> THEN list'[1] ELSE None
    /\ sticky' = IF sticky = s THEN None ELSE sticky
    /\ exposed' = (exposed \/ sticky = s)
    /\ working' = working \ {s} /\ foreign' = Purged(s)
    /\ UNCHANGED <<rows, creating, hydrate, ready, typing, reveal, turn, used, exchanged, created,
                   muddled>>

ServeDelete(s) ==
    /\ s \in deleting
    /\ deleting' = deleting \ {s}
    /\ rows' = rows \ {s}
    /\ UNCHANGED <<creating, hydrate, page, turn, events, used, history>>

-----------------------------------------------------------------------------
(* Hydration                                                                 *)

\* GET /api/sessions: the rows by their last activity, which may be any order.
ListedRows == SetToSeqs(rows)

\* BRIDGE_MANIFEST after every connect asks for the sessions, and the server reads its
\* rows some time before the answer is taken.  Runs of two connects are
\* not overlapped.
Manifest ==
    /\ hydrate.stage = "no"
    /\ \E q \in ListedRows : hydrate' = [stage |-> "answered", rows |-> q]
    /\ IF ready THEN Counted ELSE UNCHANGED events
    /\ UNCHANGED <<server, creating, page, turn, used, history>>

\* The answer replaces the list, unless it is empty; then the active history is awaited.
TakeSessions ==
    /\ hydrate.stage = "answered"
    /\ list' = IF hydrate.rows # <<>> THEN hydrate.rows ELSE list
    /\ hydrate' = [stage |-> "loading", rows |-> <<>>]
    /\ UNCHANGED <<server, creating, ready, active, sticky, typing, working, reveal, turn, events, used,
                   history>>

\* The history has arrived, or a request failed: applyDefaultFocusAfterHydrate.
Focus ==
    IF list = <<>> THEN Default ELSE IF active \in ToSet(list) THEN active ELSE list[1]
HydrateEnds ==
    /\ hydrate.stage # "no"
    /\ hydrate' = Idle
    /\ ready' = TRUE
    /\ active' = Focus
    /\ UNCHANGED <<server, creating, list, sticky, typing, working, reveal, turn, events, used, history>>

-----------------------------------------------------------------------------
\* The page is loaded again: what is persisted is read back, phases only while fresh.
Reload ==
    /\ Counted
    /\ ready' = FALSE
    /\ list' = <<>> /\ typing' = {} /\ reveal' = {}
    /\ UNCHANGED <<sticky, active>>
    /\ \E fresh \in SUBSET working : working' = fresh
    /\ creating' = {}
    /\ hydrate' = Idle
    /\ foreign' = {}
    /\ muddled' = muddled \cup working \cup {s \in Sessions : turn[s] # "no"}
    /\ UNCHANGED <<server, turn, used, exchanged, created, exposed>>

Init ==
    /\ rows = Existing /\ used = Existing /\ events = 0 /\ deleting = {}
    /\ creating = {}
    /\ hydrate = Idle
    /\ ready = FALSE /\ list = <<>> /\ active = None /\ sticky = None
    /\ typing = {} /\ working = {}
    /\ reveal = {}
    /\ turn = [s \in Sessions |-> "no"]
    /\ exchanged = Existing /\ foreign = {} /\ created = {} /\ exposed = FALSE /\ muddled = {}

Next ==
    \/ \E o \in Sessions, keyed \in BOOLEAN : Frame(o, keyed)
    \/ \E o \in Sessions : FramesLost(o) \/ OwnTurn(o)
    \/ \E s \in Targets : RevealEnds(s)
    \/ Send
    \/ \E s \in Sessions :
        Switch(s) \/ AskCreate(s) \/ CreateFails(s) \/ Create(s)
          \/ Delete(s) \/ ServeDelete(s)
    \/ Manifest \/ TakeSessions \/ HydrateEnds
    \/ Reload

Spec == Init /\ [][Next]_vars
-----------------------------------------------------------------------------
(* No frame that is routed shows content of another conversation in a        *)
(* session the user has just created, whatever turns are still under way,    *)
(* across switches, reloads and hydration (sessionActions.ts:78-87,          *)
(* App.tsx:206-244, hydrateFromServer.ts:118-193).  Cards, audio and errors  *)
(* are not attributed to a turn and do show such content, whatever           *)
(* App.tsx:207-209 says of keyless replies.  The exceptions: the             *)
(* sticky session was deleted, or none was ever focused, so there is none to *)
(* attribute a keyless frame to; or, before it was created, a frame had gone *)
(* to the new key and set it typing, or a list that had it already let the   *)
(* user focus it and create another one from there, which made it the sticky *)
(* session.                                                                  *)
RoutedFramesStayHome ==
    exposed \/ \A f \in foreign : f[1] # "routed"

(* A session is shown as working only while the agent works for it, types,   *)
(* or a reply is being revealed: replies, tool steps, reveals and the end of *)
(* the typing complete it in every order (App.tsx:322-388, 473-483).  Only   *)
(* lost or misplaced frames and reloads leave it working.                    *)
WorkingHasAReason ==
    \A s \in working \ muddled :
        s \in Sessions => turn[s] # "no" \/ s \in typing \/ s \in reveal

(* Once hydration has come to its end the active session is one of the list, *)
(* although creations, deletions and the list it was sent overlap            *)
(* (hydrateFromServer.ts:64-85, session.ts:378-385).                         *)
ActiveIsListed ==
    hydrate.stage = "no" /\ list # <<>> => active \in ToSet(list)
=============================================================================
