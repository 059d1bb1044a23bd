------------------------- MODULE DashboardConnection -------------------------
(* The WebSocket of a dashboard page: connections are opened by the page, by *)
(* the reconnect timer and by the browser's online event, each replacing the *)
(* one before, while events of the sockets are still to be delivered.  What  *)
(* an open socket sets off is left to MessageDelivery (the outbox) and       *)
(* DownstreamSync (the backfill).  Left out: the length of the back-off.     *)
EXTENDS Naturals

CONSTANTS
    None,           \* no socket
    MaxGeneration   \* bound on connectGeneration

VARIABLES
    ws,          \* the present socket, or None
    generation,  \* connectGeneration, which also numbers the sockets
    status,      \* socket -> what it is in the browser
    pending,     \* socket -> events the browser has still to deliver
    attached,    \* sockets with the handlers connectWs gave them
    should,      \* shouldReconnect
    timer,       \* reconnectTimer is armed
    online,      \* the listener of the online event is installed
    interval,    \* expireStaleInterval runs
    last         \* history: the socket whose event last had an effect
dashboardVars == <<ws, generation, status, pending, attached, should, timer, online, interval, last>>

Sockets == 1..MaxGeneration

\* detachWebSocket(ws): its handlers do nothing any more, and it is closed.
Detached == attached \ {ws}
ClosedAs(st) == [s \in Sockets |-> IF s = ws THEN "dead" ELSE st[s]]

\* connectWs, however it is called.
ConnectWs ==
    /\ generation < MaxGeneration
    /\ generation' = generation + 1
    /\ timer' = FALSE /\ should' = TRUE /\ online' = TRUE
    /\ ws' = generation'
    /\ attached' = Detached \cup {generation'}
    /\ status' = [ClosedAs(status) EXCEPT ![generation'] = "connecting"]
    /\ UNCHANGED <<pending, interval, last>>

PageConnects == ConnectWs
TimerFires == timer /\ ConnectWs
\* onBrowserOnline: nothing to do while a socket is open.
BrowserOnline ==
    /\ online /\ should
    /\ ws # None => status[ws] # "open"
    /\ ConnectWs

\* disconnectWs, as the page is left or the token changes.
DisconnectWs ==
    /\ generation < MaxGeneration
    /\ generation' = generation + 1
    /\ should' = FALSE /\ timer' = FALSE /\ online' = FALSE /\ interval' = FALSE
    /\ attached' = Detached
    /\ status' = ClosedAs(status)
    /\ ws' = None
    /\ UNCHANGED <<pending, last>>

-----------------------------------------------------------------------------
(* The browser.  A handler that was detached does nothing, and each handler  *)
(* asks whether its socket is still the present one.                         *)

IsPresent(s) == s \in attached /\ ws = s

\* onopen.
Opens(s) ==
    /\ status[s] = "connecting"
    /\ status' = [status EXCEPT ![s] = "open"]
    /\ IF IsPresent(s) /\ generation = s
       THEN interval' = TRUE /\ last' = s
       ELSE UNCHANGED <<interval, last>>
    /\ UNCHANGED <<ws, generation, pending, attached, should, timer, online>>

\* onmessage.
Message(s) ==
    /\ status[s] = "open"
    /\ IsPresent(s)
    /\ last' = s
    /\ UNCHANGED <<ws, generation, status, pending, attached, should, timer, online, interval>>

\* A handshake fails or a connection breaks: some runtimes report an error before the
\* close, or without one.
Breaks(s) ==
    /\ status[s] \in {"connecting", "open"}
    /\ status' = [status EXCEPT ![s] = "dead"]
    /\ \E events \in {{"close"}, {"error"}, {"error", "close"}} :
         pending' = [pending EXCEPT ![s] = events]
    /\ UNCHANGED <<ws, generation, attached, should, timer, online, interval, last>>

\* onerror: the socket is kept, and a retry is scheduled.
Error(s) ==
    /\ "error" \in pending[s]
    /\ pending' = [pending EXCEPT ![s] = @ \ {"error"}]
    /\ IF IsPresent(s)
       THEN timer' = should /\ last' = s
       ELSE UNCHANGED <<timer, last>>
    /\ UNCHANGED <<ws, generation, status, attached, should, online, interval>>

\* onclose.
CloseSocket(s) ==
    /\ pending[s] = {"close"}
    /\ pending' = [pending EXCEPT ![s] = {}]
    /\ IF IsPresent(s)
       THEN ws' = None /\ timer' = should /\ last' = s
       ELSE UNCHANGED <<ws, timer, last>>
    /\ UNCHANGED <<generation, status, attached, should, online, interval>>

DashboardInit ==
    /\ ws = None /\ generation = 0
    /\ status = [s \in Sockets |-> "unused"]
    /\ pending = [s \in Sockets |-> {}]
    /\ attached = {}
    /\ should = TRUE /\ timer = FALSE /\ online = FALSE /\ interval = FALSE
    /\ last = 0

DashboardNext ==
    \/ PageConnects \/ TimerFires \/ BrowserOnline \/ DisconnectWs
    \/ \E s \in Sockets : Opens(s) \/ Message(s) \/ Breaks(s) \/ Error(s) \/ CloseSocket(s)

DashboardSpec == DashboardInit /\ [][DashboardNext]_dashboardVars
-----------------------------------------------------------------------------
DashboardTypeOK ==
    /\ ws \in Sockets \cup {None} /\ generation \in 0..MaxGeneration
    /\ status \in [Sockets -> {"unused", "connecting", "open", "dead"}]
    /\ pending \in [Sockets -> SUBSET {"error", "close"}]
    /\ attached \subseteq Sockets
    /\ should \in BOOLEAN /\ timer \in BOOLEAN /\ online \in BOOLEAN /\ interval \in BOOLEAN
    /\ last \in 0..MaxGeneration

(* Until the page disconnects, something will bring the connection back: a   *)
(* timer, a socket that lives, or an event of it that is still to come       *)
(* (web-adapter.ts:135-146, 277-300).                                        *)
AlwaysConnecting ==
    should /\ generation > 0 =>
        \/ timer
        \/ ws # None /\ (status[ws] \in {"connecting", "open"} \/ pending[ws] # {})

(* No socket but the present one is left open or connecting behind the page, *)
(* in whatever order the page, the timer and the online event connect        *)
(* (web-adapter.ts:13-32, 218-236).                                          *)
NoSocketLeaks ==
    \A s \in Sockets : status[s] \in {"connecting", "open"} => ws = s

(* The reconnect timer never replaces a connection that lives, although      *)
(* onopen does not clear it (web-adapter.ts:238-241).                        *)
TimerOnlyAfterFailure ==
    timer => should /\ (ws = None \/ status[ws] = "dead")

(* After disconnectWs nothing of the connection is left running              *)
(* (web-adapter.ts:301-312).                                                 *)
QuietAfterDisconnect ==
    ~should => ws = None /\ ~timer /\ ~online /\ ~interval

(* Events take effect in the order of their sockets: once one of a newer     *)
(* socket has, none of a replaced one does (web-adapter.ts:239-291).         *)
NoEventOfReplacedSocket == [][last' >= last]_dashboardVars
=============================================================================
