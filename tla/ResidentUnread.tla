---------------------------- MODULE ResidentUnread ----------------------------
(* The unread counter of the resident session.  The server raises it with    *)
(* every reply and tells all dashboards; a dashboard that shows the session  *)
(* resets it by a read request, or only its own badge.  Other sessions count *)
(* their unread replies in the page alone.                                   *)
EXTENDS Naturals, Sequences

CONSTANT Tabs   \* dashboards

VARIABLES
    unread,     \* unread_count of the resident's row
    reads,      \* read requests of a dashboard on their way
    online,     \* dashboards whose socket is open
    viewing,    \* those that show the session and are visible
    badge,      \* unread[chatKey] of a dashboard
    inbox,      \* counts of RESIDENT_UNREAD events on their way to it
    asked,      \* the session list of hydration: "no", "asked" or "answered"
    listed,     \* the count in its answer
    unaware     \* history: dashboards with a reset the server does not know of, or
                \* that could not read the list

unreadVars == <<unread, reads, online, viewing, badge, inbox, asked, listed, unaware>>

UnreadTypeOK ==
    /\ unread \in Nat /\ reads \in [Tabs -> Nat]
    /\ online \subseteq Tabs /\ viewing \subseteq Tabs /\ unaware \subseteq Tabs
    /\ badge \in [Tabs -> Nat] /\ inbox \in [Tabs -> Seq(Nat)]
    /\ asked \in [Tabs -> {"no", "asked", "answered"}] /\ listed \in [Tabs -> Nat]

\* bumpResidentUnread: a reply, the end of a stream, a file or a card.
Reply ==
    /\ unread' = unread + 1
    /\ inbox' = [t \in Tabs |-> IF t \in online THEN Append(inbox[t], unread') ELSE inbox[t]]
    /\ UNCHANGED <<reads, online, viewing, badge, asked, listed, unaware>>

\* RESIDENT_UNREAD at a dashboard: who looks at the session says so again.  Elsewhere the
\* reply itself, which follows, counts once more when it is a text.
HearCount(t) ==
    /\ inbox[t] # <<>>
    /\ inbox' = [inbox EXCEPT ![t] = Tail(@)]
    /\ \/ /\ t \in viewing
          /\ badge' = [badge EXCEPT ![t] = 0]
          /\ reads' = [reads EXCEPT ![t] = @ + 1]
          /\ UNCHANGED unaware
       \/ /\ t \notin viewing
          /\ \E own \in {0, 1} : badge' = [badge EXCEPT ![t] = Head(inbox[t]) + own]
          /\ unaware' = unaware \ {t}
          /\ UNCHANGED reads
    /\ UNCHANGED <<unread, online, viewing, asked, listed>>

\* openResident, openSession and the first opening by useResidentChat: markSessionRead.
View(t) ==
    /\ viewing' = viewing \cup {t}
    /\ badge' = [badge EXCEPT ![t] = 0]
    /\ reads' = [reads EXCEPT ![t] = @ + 1]
    /\ UNCHANGED <<unread, online, inbox, asked, listed, unaware>>

\* Shown by other ways, such as switchSession: the badge is reset here only.
Peek(t) ==
    /\ t \notin viewing
    /\ viewing' = viewing \cup {t}
    /\ badge' = [badge EXCEPT ![t] = 0]
    /\ unaware' = unaware \cup {t}
    /\ UNCHANGED <<unread, reads, online, inbox, asked, listed>>

Leave(t) ==
    /\ t \in viewing
    /\ viewing' = viewing \ {t}
    /\ UNCHANGED <<unread, reads, online, badge, inbox, asked, listed, unaware>>

ServeRead(t) ==
    /\ reads[t] > 0
    /\ reads' = [reads EXCEPT ![t] = @ - 1]
    /\ unread' = 0
    /\ UNCHANGED <<online, viewing, badge, inbox, asked, listed, unaware>>

\* The request is lost, and nobody tries again.
ReadFails(t) ==
    /\ reads[t] > 0
    /\ reads' = [reads EXCEPT ![t] = @ - 1]
    /\ unaware' = unaware \cup {t}
    /\ UNCHANGED <<unread, online, viewing, badge, inbox, asked, listed>>

\* The socket is lost with the events on their way; after the next one opens the
\* manifest makes the dashboard read the list of sessions.
GoOffline(t) ==
    /\ t \in online
    /\ online' = online \ {t}
    /\ inbox' = [inbox EXCEPT ![t] = <<>>]
    /\ UNCHANGED <<unread, reads, viewing, badge, asked, listed, unaware>>
GoOnline(t) ==
    /\ t \notin online /\ asked[t] = "no"
    /\ online' = online \cup {t}
    /\ asked' = [asked EXCEPT ![t] = "asked"]
    /\ UNCHANGED <<unread, reads, viewing, badge, inbox, listed, unaware>>
ServeList(t) ==
    /\ asked[t] = "asked"
    /\ asked' = [asked EXCEPT ![t] = "answered"]
    /\ listed' = [listed EXCEPT ![t] = unread]
    /\ UNCHANGED <<unread, reads, online, viewing, badge, inbox, unaware>>

\* The counts of the list are taken over unless they are zero.
TakeListAsIs(t) ==
    /\ asked[t] = "answered"
    /\ asked' = [asked EXCEPT ![t] = "no"]
    /\ listed' = [listed EXCEPT ![t] = 0]
    /\ UNCHANGED <<badge, unread, reads, online, viewing, inbox, unaware>>
TakeList(t) ==
    /\ asked[t] = "answered"
    /\ asked' = [asked EXCEPT ![t] = "no"]
    /\ listed' = [listed EXCEPT ![t] = 0]
    /\ badge' = [badge EXCEPT ![t] = IF listed[t] > 0 THEN listed[t] ELSE @]
    /\ UNCHANGED <<unread, reads, online, viewing, inbox, unaware>>
ListFails(t) ==
    /\ asked[t] # "no"
    /\ asked' = [asked EXCEPT ![t] = "no"]
    /\ listed' = [listed EXCEPT ![t] = 0]
    /\ unaware' = unaware \cup {t}
    /\ UNCHANGED <<unread, reads, online, viewing, badge, inbox>>

UnreadInit ==
    /\ unread = 0 /\ reads = [t \in Tabs |-> 0]
    /\ online = Tabs /\ viewing = {} /\ unaware = {}
    /\ badge = [t \in Tabs |-> 0] /\ inbox = [t \in Tabs |-> <<>>]
    /\ asked = [t \in Tabs |-> "no"] /\ listed = [t \in Tabs |-> 0]

\* What a dashboard still waits for.
Settled(t) == t \in online /\ inbox[t] = <<>> /\ asked[t] = "no" /\ reads[t] = 0
-----------------------------------------------------------------------------
(* A reply nobody has read has a badge on every dashboard that is connected, *)
(* does not show the session and has heard all: counts told while another    *)
(* one reads or while it is offline are not lost (App.tsx:575-597,           *)
(* hydrateFromServer.ts:178-182).  Left aside are dashboards that reset the  *)
(* badge without telling the server, or whose request failed.                *)
UnreadReachesEveryTab ==
    \A t \in Tabs :
        Settled(t) /\ unread > 0 => badge[t] > 0 \/ t \in viewing \cup unaware
=============================================================================
