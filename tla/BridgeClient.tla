---------------------------- MODULE BridgeClient ----------------------------
(***************************************************************************)
(* The server's connection to one cc-connect bridge: bridge/client.ts (the *)
(* WebSocket with its queue, reconnect timer, heartbeat and skills probe), *)
(* the entry BridgeManager keeps for it (bridge/manager.ts), the REST      *)
(* calls that connect and disconnect it and the status the dashboards are  *)
(* told (index.ts).                                                        *)
(*                                                                         *)
(* The calls of send() are numbered in their order, and a frame is the     *)
(* number of its call; frames that bypass the queue (register, ping,       *)
(* preview_ack) are left out.  Delays are left out: a timer that is armed  *)
(* may fire.  The ws library is modelled from how the code uses it:        *)
(* readyState is the field sock, a failed handshake emits error and then   *)
(* close, frames may still be delivered while it is CLOSING, and close()   *)
(* during the handshake emits an error on the socket afterwards.           *)
(***************************************************************************)
EXTENDS Naturals, Sequences, Functions

CONSTANTS
    MaxPending,  \* the capacity of pendingMessages (100 in the code)
    MaxRetries,  \* SKILLS_PROBE_MAX_RETRIES (2 in the code)
    Faults,      \* the kinds of trouble that may happen, see FaultKinds
    MaxSends,    \* bound on the calls of send() in a behaviour
    MaxFaults    \* bound on how often trouble happens in a behaviour

FaultKinds ==
    {"refuse",  \* a handshake fails
     "close",   \* an open connection breaks
     "api"}     \* the user connects or disconnects the bridge

ASSUME CapacityAssumption == MaxPending \in Nat \ {0} /\ MaxRetries \in Nat
ASSUME BoundsAssumption == MaxSends \in Nat /\ MaxFaults \in Nat
ASSUME FaultsAssumption == Faults \subseteq FaultKinds

VARIABLES
    registered, \* BridgeManager.clients has an entry for the bridge
    client,     \* the fields of the BridgeClient
    aborted,    \* a handshake was aborted: its error event is due, unheard
    seen,       \* the status a connected dashboard was last told
    sends,      \* history: the calls of send() so far
    probes,     \* history: skills probes sent since the last register_ack
    faults      \* how often trouble happened

bridgeVars == <<registered, client, aborted, seen, sends, probes, faults>>

-----------------------------------------------------------------------------
(* The methods of BridgeClient, as operators on its fields.                 *)

Fresh ==
    [sock       |-> "none",   \* ws = null
     connected  |-> FALSE,
     timer      |-> FALSE,    \* reconnectTimer is armed
     heartbeat  |-> FALSE,
     pending    |-> <<>>,     \* pendingMessages
     written    |-> <<>>,     \* history: frames handed to a socket
     awaiting   |-> FALSE,    \* skillsProbeAwaitingReply
     retryTimer |-> FALSE,    \* skillsProbeRetryTimer is armed
     retries    |-> 0]        \* skillsProbeRetries

ClearProbe(c) == [c EXCEPT !.awaiting = FALSE, !.retryTimer = FALSE, !.retries = 0]

ScheduleReconnect(c) == [c EXCEPT !.timer = TRUE]

\* Mutant of Disconnect: clearSkillsProbeRetry() is forgotten.
DisconnectKeepsProbe(c) ==
    [c EXCEPT !.sock = "none", !.connected = FALSE, !.timer = FALSE, !.heartbeat = FALSE]

\* disconnect(): the listeners are removed, so no event of the socket follows.
Disconnect(c) ==
    [ClearProbe(c) EXCEPT !.sock = "none", !.connected = FALSE,
                          !.timer = FALSE, !.heartbeat = FALSE]

Connect(c) ==
    [(IF c.sock = "none" THEN c ELSE Disconnect(c)) EXCEPT !.sock = "connecting"]

\* Mutant of Enqueue: unshift() instead of push().
EnqueueInFront(c, n) ==
    [c EXCEPT !.pending = <<n>> \o (IF Len(@) >= MaxPending THEN Tail(@) ELSE @)]

Enqueue(c, n) ==
    [c EXCEPT !.pending = Append(IF Len(@) >= MaxPending THEN Tail(@) ELSE @, n)]

Send(c, n) ==
    IF c.sock = "open" THEN [c EXCEPT !.written = Append(@, n)]
    ELSE IF c.sock # "connecting" THEN Connect(Enqueue(c, n))
    ELSE IF ~ c.connected THEN ScheduleReconnect(Enqueue(c, n))
    ELSE Enqueue(c, n)

\* The "open" listener
Opened(c) ==
    [c EXCEPT !.sock = "open", !.connected = TRUE, !.heartbeat = TRUE,
              !.written = @ \o c.pending, !.pending = <<>>]

\* Mutant of Closed: the reconnect is not scheduled.
ClosedWithoutReconnect(c) ==
    [ClearProbe(c) EXCEPT !.sock = "closed", !.connected = FALSE, !.heartbeat = FALSE]

\* The "close" listener, after the socket has become CLOSED
Closed(c) ==
    ScheduleReconnect([ClearProbe(c) EXCEPT !.sock = "closed",
                                            !.connected = FALSE, !.heartbeat = FALSE])

ScheduleProbeRetry(c) ==
    IF c.awaiting /\ c.retries < MaxRetries THEN [c EXCEPT !.retryTimer = TRUE] ELSE c

StartProbe(c, n) ==
    ScheduleProbeRetry(Send([ClearProbe(c) EXCEPT !.awaiting = TRUE], n))

\* Mutant of RetryProbe: the retries are not counted.
RetryProbeUncounted(c, n) ==
    ScheduleProbeRetry(Send([c EXCEPT !.retryTimer = FALSE], n))

RetryProbe(c, n) ==
    ScheduleProbeRetry(Send([c EXCEPT !.retryTimer = FALSE, !.retries = @ + 1], n))

-----------------------------------------------------------------------------
(* Helpers                                                                  *)

Trouble(kind) ==
    /\ kind \in Faults
    /\ faults < MaxFaults
    /\ faults' = faults + 1

\* An event of the process, which runs unless an uncaught error is due.
Alive == registered /\ ~ aborted

-----------------------------------------------------------------------------
(* The server's calls of manager.send                                       *)

SendMessage ==
    /\ Alive
    /\ sends < MaxSends
    /\ sends' = sends + 1
    /\ client' = Send(client, sends + 1)
    /\ UNCHANGED <<registered, aborted, seen, probes, faults>>

(* Events of the socket                                                     *)

\* Mutant of Open: "connected" is not emitted.
OpenSilently ==
    /\ Alive
    /\ client.sock = "connecting"
    /\ client' = Opened(client)
    /\ UNCHANGED <<registered, aborted, seen, sends, probes, faults>>

Open ==
    /\ Alive
    /\ client.sock = "connecting"
    /\ client' = Opened(client)
    /\ seen' = TRUE
    /\ UNCHANGED <<registered, aborted, sends, probes, faults>>

\* error and close; the error listener arms the timer that close arms too.
HandshakeFails ==
    /\ Trouble("refuse")
    /\ Alive
    /\ client.sock = "connecting"
    /\ client' = Closed(ScheduleReconnect(client))
    /\ seen' = FALSE
    /\ UNCHANGED <<registered, aborted, sends, probes>>

\* The peer closes, or the TCP connection breaks: an error while connected is
\* only reported, close follows later.
StartsClosing ==
    /\ Trouble("close")
    /\ Alive
    /\ client.sock = "open"
    /\ client' = [client EXCEPT !.sock = "closing"]
    /\ UNCHANGED <<registered, aborted, seen, sends, probes>>

Close ==
    /\ Alive
    /\ client.sock = "closing"
    /\ client' = Closed(client)
    /\ seen' = FALSE
    /\ UNCHANGED <<registered, aborted, sends, probes, faults>>

\* register_ack: the skills probe is started and the commands probe sent.
RegisterAck ==
    /\ Alive
    /\ client.sock \in {"open", "closing"}
    /\ sends + 2 <= MaxSends
    /\ sends' = sends + 2
    /\ client' = Send(StartProbe(client, sends + 1), sends + 2)
    /\ probes' = 1
    /\ UNCHANGED <<registered, aborted, seen, faults>>

ProbeReply ==
    /\ Alive
    /\ client.sock \in {"open", "closing"}
    /\ client' = ClearProbe(client)
    /\ UNCHANGED <<registered, aborted, seen, sends, probes, faults>>

(* Timers                                                                   *)

\* connect() on a client whose handshake is still running aborts it.
ReconnectFires ==
    /\ Alive
    /\ client.timer
    /\ client' = Connect([client EXCEPT !.timer = FALSE])
    /\ aborted' = (client.sock = "connecting")
    /\ UNCHANGED <<registered, seen, sends, probes, faults>>

ProbeRetryFires ==
    /\ Alive
    /\ client.retryTimer
    /\ sends < MaxSends
    /\ sends' = sends + 1
    /\ client' = RetryProbe(client, sends + 1)
    /\ probes' = probes + 1
    /\ UNCHANGED <<registered, aborted, seen, faults>>

(* BridgeManager, called by the REST handlers, and the dashboards           *)

\* manager.connect: a client that exists is replaced, with its queue.
ConnectBridge ==
    /\ Trouble("api")
    /\ ~ aborted
    /\ aborted' = (registered /\ client.sock = "connecting")
    /\ registered' = TRUE
    /\ client' = Connect(Fresh)
    /\ UNCHANGED <<seen, sends, probes>>

DisconnectBridge ==
    /\ Trouble("api")
    /\ Alive
    /\ aborted' = (client.sock = "connecting")
    /\ registered' = FALSE
    /\ client' = Fresh
    /\ UNCHANGED <<seen, sends, probes>>

\* A dashboard connects and is told getStatus(): hub.onClientConnected.
JoinDashboard ==
    /\ ~ aborted
    /\ seen' = client.connected
    /\ UNCHANGED <<registered, client, aborted, sends, probes, faults>>

\* The error of the aborted handshake has no listener and ends the process.
\* The restarted one connects the enabled bridge.
Restart ==
    /\ aborted
    /\ aborted' = FALSE
    /\ registered' = TRUE
    /\ client' = Connect(Fresh)
    /\ seen' = FALSE
    /\ UNCHANGED <<sends, probes, faults>>

-----------------------------------------------------------------------------
BridgeInit ==
    /\ registered = TRUE
    /\ client = Connect(Fresh)
    /\ aborted = FALSE
    /\ seen = FALSE
    /\ sends = 0
    /\ probes = 0
    /\ faults = 0

BridgeNext ==
    \/ SendMessage
    \/ Open
    \/ HandshakeFails
    \/ StartsClosing
    \/ Close
    \/ RegisterAck
    \/ ProbeReply
    \/ ReconnectFires
    \/ ProbeRetryFires
    \/ ConnectBridge
    \/ DisconnectBridge
    \/ JoinDashboard
    \/ Restart

BridgeSpec == BridgeInit /\ [][BridgeNext]_bridgeVars

\* A handshake ends, a closing socket closes, an armed timer fires, a process
\* that died is restarted.  Nothing is assumed of the users or the peer.
BridgeFairness ==
    /\ WF_bridgeVars(Open)
    /\ WF_bridgeVars(Close)
    /\ WF_bridgeVars(ReconnectFires)
    /\ WF_bridgeVars(Restart)

BridgeFairSpec == BridgeSpec /\ BridgeFairness

-----------------------------------------------------------------------------
(* Properties                                                               *)

ClientType ==
    [sock       : {"none", "connecting", "open", "closing", "closed"},
     connected  : BOOLEAN,
     timer      : BOOLEAN,
     heartbeat  : BOOLEAN,
     pending    : Seq(Nat),
     written    : Seq(Nat),
     awaiting   : BOOLEAN,
     retryTimer : BOOLEAN,
     retries    : 0 .. MaxRetries]

\* The type of every variable: the fields of BridgeClient, client.ts:36-44.
BridgeTypeOK ==
    /\ registered \in BOOLEAN
    /\ aborted \in BOOLEAN
    /\ client \in ClientType
    /\ seen \in BOOLEAN
    /\ sends \in 0 .. MaxSends
    /\ probes \in Nat
    /\ faults \in 0 .. MaxFaults

\* The bridge gets the frames of one client in the order of the send() calls
\* and none of them twice, whether they were queued or written at once: the
\* queue is flushed before anything is written to a new socket
\* (client.ts:71-78, 253-261).
InOrder ==
    LET all == client.written \o client.pending
    IN  \A i, j \in 1 .. Len(all) : i < j => all[i] < all[j]

\* A client the manager holds is never left without a socket and without a
\* timer that makes one: no order of events, timers and sends strands it.
NeverStranded ==
    Alive => client.timer \/ client.sock \in {"connecting", "open", "closing"}

\* The timers belong to a live connection: none survives it to act on the next.
\* A retry of the probe is due only while its answer is awaited.
TimersMatchConnection ==
    /\ client.connected <=> (client.sock \in {"open", "closing"})
    /\ client.heartbeat <=> client.connected
    /\ client.awaiting => client.connected
    /\ client.retryTimer => client.awaiting /\ client.retries < MaxRetries

\* The probe is sent at most 1 + SKILLS_PROBE_MAX_RETRIES times for one
\* register_ack, also when connections come and go in between.
ProbeBudget == probes <= 1 + MaxRetries

\* The reconnect timer runs over a handshake only because a message was queued
\* during that handshake (client.ts:191-193), and no message is left in the
\* queue of an open connection.
TimerOverHandshakeHasACause ==
    /\ client.sock = "connecting" /\ client.timer => client.pending # <<>>
    /\ client.sock = "open" => client.pending = <<>>

\* A dashboard is never shown a connected bridge as disconnected.
NeverShownDownWhileUp == client.connected => seen

\* A client the manager holds is eventually connected, unless it is removed.
Reconnects == (registered /\ ~ client.connected) ~> (client.connected \/ ~ registered)

=============================================================================
