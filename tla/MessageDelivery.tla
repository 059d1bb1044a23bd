-------------------------- MODULE MessageDelivery --------------------------
(***************************************************************************)
(* Sending a chat message: the dashboard's outbox (OutboxStore), its       *)
(* WebSocket and localStorage (web-adapter.ts), the server's handler for   *)
(* SEND_MESSAGE and SEND_FILE (index.ts, hub.onMessage), the message table *)
(* that deduplicates resends (storage/messages.ts) and the hand-over to    *)
(* the bridge.  Several tabs of one browser share the localStorage entry.  *)
(*                                                                         *)
(* A frame is named by its clientMsgId.  wire[t] holds the frames of tab t *)
(* that may still reach the server; a frame that is on its way twice is    *)
(* one element, as the second arrival finds the row of the first.  The     *)
(* frames of one handler run are independent of each other, so their order *)
(* is left out.  The server handles one frame at a time: the handler, the  *)
(* SQLite calls it makes and the broadcast are synchronous.                *)
(***************************************************************************)
EXTENDS OutboxStore, Naturals

CONSTANTS
    Tabs,       \* browser tabs (page instances) of one user
    Faults,     \* the kinds of trouble that may happen, see FaultKinds
    MaxFaults   \* bound on how often trouble happens in a behaviour

FaultKinds ==
    {"drop",    \* a socket closes; frames and acks in flight may be lost
     "close",   \* the user closes or reloads a page
     "crash",   \* the server process dies and is restarted
     "save",    \* the message table refuses a write (disk full, locked)
     "bridge",  \* the bridge is disconnected through the REST API
     "clear",   \* the user clears the history of the chat
     "quota"}   \* localStorage refuses a write

ASSUME FaultsAssumption == Faults \subseteq FaultKinds
ASSUME MaxFaultsAssumption == MaxFaults \in Nat

VARIABLES
    page,       \* page[t]: "closed", or the page is loaded with its socket "offline" or "open"
    outbox,     \* outbox[t]: the entries in the memory of tab t
    shown,      \* shown[t]: the user messages that have a bubble in tab t
    storage,    \* the entries in localStorage, one map for all tabs
    wire,       \* wire[t]: frames written to a socket of t, not yet handled
    acks,       \* acks[t]: MESSAGE_ACKs written to the current socket of t
    rows,       \* the messages table
    bridgeUp,   \* BridgeManager holds a client for the bridge
    prompts,    \* prompts[m]: how often m was handed to the BridgeClient
    submitted,  \* history: messages the user sent off
    confirmed,  \* history: messages whose ack cleared an outbox entry
    deletions,  \* history: deletions[m] counts the deletions of m's row
    faults      \* how often trouble happened

clientVars == <<page, outbox, shown, storage>>
serverVars == <<rows, bridgeUp, prompts>>
historyVars == <<submitted, confirmed, deletions>>
vars == <<clientVars, wire, acks, serverVars, historyVars, faults>>

-----------------------------------------------------------------------------
(* Helpers                                                                  *)

Trouble(kind) ==
    /\ kind \in Faults
    /\ faults < MaxFaults
    /\ faults' = faults + 1

\* The store calls persist() after every change.  A handler that changes the
\* entries several times persists each version; where localStorage may refuse
\* a write, any of them, or what was there before, is what remains.
Save(t, es, earlier) ==
    /\ outbox' = [outbox EXCEPT ![t] = es]
    /\ IF "quota" \in Faults
       THEN storage' \in {Persistable(v) : v \in earlier \cup {es}} \cup {storage}
       ELSE storage' = Persistable(es)

\* The body of flushOutbox: what it leaves in the outbox and writes to the
\* socket, given that the entries of `only` may be sent.
Flush(t, open, revived, only) ==
    LET aged == FailAgedManual(revived)
        ids  == Sendable(aged) \cap only
    IN  IF open
        THEN /\ Save(t, MarkTransmitted(aged, ids), {revived, aged})
             /\ wire' = [wire EXCEPT ![t] = @ \cup ids]
        ELSE /\ Save(t, revived, {})
             /\ UNCHANGED wire

\* The socket of every tab in ts is gone; its frames may or may not arrive.
Drop(ts) ==
    /\ wire' \in {w \in [Tabs -> SUBSET Msgs] :
                    \A t \in Tabs : IF t \in ts THEN w[t] \subseteq wire[t]
                                               ELSE w[t] = wire[t]}
    /\ acks' = [t \in Tabs |-> IF t \in ts THEN {} ELSE acks[t]]

-----------------------------------------------------------------------------
(* The dashboard                                                            *)

\* A page loads: the outbox store starts from localStorage, no bubble yet.
OpenPage(t) ==
    /\ page[t] = "closed"
    /\ page' = [page EXCEPT ![t] = "offline"]
    /\ outbox' = [outbox EXCEPT ![t] = LoadPersisted(storage)]
    /\ UNCHANGED <<shown, storage, wire, acks, serverVars, historyVars, faults>>

\* The page goes away, with all it kept in memory.
ClosePage(t) ==
    /\ Trouble("close")
    /\ page[t] # "closed"
    /\ page' = [page EXCEPT ![t] = "closed"]
    /\ outbox' = [outbox EXCEPT ![t] = EmptyOutbox]
    /\ shown' = [shown EXCEPT ![t] = {}]
    /\ Drop({t})
    /\ UNCHANGED <<storage, serverVars, historyVars>>

\* socket.onopen: failed auto entries are revived and the outbox is flushed.
Connect(t) ==
    /\ page[t] = "offline"
    /\ page' = [page EXCEPT ![t] = "open"]
    /\ Flush(t, TRUE, ReviveAuto(outbox[t]), Msgs)
    /\ UNCHANGED <<shown, acks, serverVars, historyVars, faults>>

\* socket.onclose
Disconnect(t) ==
    /\ Trouble("drop")
    /\ page[t] = "open"
    /\ page' = [page EXCEPT ![t] = "offline"]
    /\ Drop({t})
    /\ UNCHANGED <<outbox, shown, storage, serverVars, historyVars>>

\* sendWsMessage with policy "auto" or "manual", then the local bubble.
Submit(t, m) ==
    /\ page[t] # "closed"
    /\ m \notin submitted
    /\ submitted' = submitted \cup {m}
    /\ shown' = [shown EXCEPT ![t] = @ \cup {m}]
    /\ LET queued == Enqueue(outbox[t], m)
       IN  IF page[t] = "open"
           THEN /\ Save(t, MarkTransmitted(queued, {m}), {queued})
                /\ wire' = [wire EXCEPT ![t] = @ \cup {m}]
           ELSE /\ Save(t, queued, {})
                /\ UNCHANGED wire
    /\ UNCHANGED <<page, acks, serverVars, confirmed, deletions, faults>>

\* The user taps "resend" on the bubble of a failed message.
TapResend(t, m) ==
    /\ m \in shown[t]
    /\ outbox[t][m].status = "failed"
    /\ ~ outbox[t][m].dropped
    /\ Flush(t, page[t] = "open", Resend(outbox[t], m), {m})
    /\ UNCHANGED <<page, shown, acks, serverVars, historyVars, faults>>

\* MESSAGE_ACK arrives.
ReceiveAck(t, m) ==
    /\ m \in acks[t]
    /\ acks' = [acks EXCEPT ![t] = @ \ {m}]
    /\ Save(t, MarkSent(outbox[t], m), {})
    /\ confirmed' = confirmed \cup {m}
    /\ UNCHANGED <<page, shown, wire, serverVars, submitted, deletions, faults>>

\* The 5 s interval; it persists even when nothing expired.
ExpireTick(t) ==
    /\ page[t] = "open"
    /\ Save(t, ExpireStale(outbox[t]), {})
    /\ UNCHANGED <<page, shown, wire, acks, serverVars, historyVars, faults>>

\* The history of the chat is fetched and merged: stored messages get bubbles.
Hydrate(t) ==
    /\ page[t] = "open"
    /\ shown' = [shown EXCEPT ![t] = @ \cup rows]
    /\ UNCHANGED <<page, outbox, storage, wire, acks, serverVars, historyVars, faults>>

\* /clear: DELETE /api/history/:chatKey, then clearMessages in this tab.  The
\* request may fail, and the tab clears its bubbles all the same.
ClearHistory(t) ==
    /\ Trouble("clear")
    /\ page[t] # "closed"
    /\ shown' = [shown EXCEPT ![t] = {}]
    /\ \/ /\ rows' = {}
          /\ deletions' = [m \in Msgs |-> deletions[m] + (IF m \in rows THEN 1 ELSE 0)]
       \/ UNCHANGED <<rows, deletions>>
    /\ UNCHANGED <<page, outbox, storage, wire, acks, bridgeUp, prompts, submitted, confirmed>>

\* Time passes: 2 minutes since the message was last expressed ...
WindowPasses(m) ==
    /\ Policy[m] = "manual"
    /\ outbox' = [t \in Tabs |-> PassWindow(outbox[t], m)]
    /\ storage' = PassWindow(storage, m)
    /\ UNCHANGED <<page, shown, wire, acks, serverVars, historyVars, faults>>

\* ... or 15 seconds since it was last written to a socket.
AckBudgetPasses(m) ==
    /\ outbox' = [t \in Tabs |-> PassAckBudget(outbox[t], m)]
    /\ storage' = PassAckBudget(storage, m)
    /\ UNCHANGED <<page, shown, wire, acks, serverVars, historyVars, faults>>

-----------------------------------------------------------------------------
(* The server                                                               *)

\* MessageStore.saveWithStatus: an id that is in the table keeps its row.
SaveRow(m) == rows' = rows \cup {m}

\* hub.broadcast of the MESSAGE_ACK: to every dashboard whose socket is open.
Broadcast(m) ==
    acks' = [u \in Tabs |-> IF page[u] = "open" THEN acks[u] \cup {m} ELSE acks[u]]

\* Mutant of HandleFrame: a known id is forwarded again.
HandleFrameForwardsResends(t, m) ==
    /\ m \in wire[t]
    /\ wire' = [wire EXCEPT ![t] = @ \ {m}]
    /\ SaveRow(m)
    /\ Broadcast(m)
    /\ prompts' = [prompts EXCEPT ![m] = IF bridgeUp THEN @ + 1 ELSE @]
    /\ UNCHANGED <<clientVars, bridgeUp, historyVars, faults>>

\* hub.onMessage for SEND_MESSAGE and SEND_FILE.  The row is saved and the ack
\* broadcast to every open dashboard; a known id stops here, a new one goes to
\* the bridge.  Without a bridge client BridgeManager.send throws, and the hub
\* only logs it.
HandleFrame(t, m) ==
    /\ m \in wire[t]
    /\ wire' = [wire EXCEPT ![t] = @ \ {m}]
    /\ SaveRow(m)
    /\ Broadcast(m)
    /\ prompts' = [prompts EXCEPT ![m] = IF m \notin rows /\ bridgeUp THEN @ + 1 ELSE @]
    /\ UNCHANGED <<clientVars, bridgeUp, historyVars, faults>>

\* saveWithStatus throws: the hub logs it, nothing is acknowledged.
SaveFails(t, m) ==
    /\ Trouble("save")
    /\ m \in wire[t]
    /\ wire' = [wire EXCEPT ![t] = @ \ {m}]
    /\ UNCHANGED <<clientVars, acks, serverVars, historyVars>>

\* The process dies, possibly in the middle of the handler, after the row is
\* on disk and before anything else.  Every socket closes.  At the restart the
\* enabled bridges are connected.
Crash ==
    /\ Trouble("crash")
    /\ \E saved \in {{}} \cup {{m} : m \in UNION {wire[t] : t \in Tabs}} :
          rows' = rows \cup saved
    /\ bridgeUp' = TRUE
    /\ page' = [t \in Tabs |-> IF page[t] = "open" THEN "offline" ELSE page[t]]
    /\ wire' = [t \in Tabs |-> {}]
    /\ acks' = [t \in Tabs |-> {}]
    /\ UNCHANGED <<outbox, shown, storage, prompts, historyVars>>

\* POST /api/bridges/:id/disconnect and .../connect
DisconnectBridge ==
    /\ Trouble("bridge")
    /\ bridgeUp' = FALSE
    /\ UNCHANGED <<clientVars, wire, acks, rows, prompts, historyVars>>

\* Mutant of ConnectBridge: stored messages that nobody was prompted with are
\* replayed.
ConnectBridgeReplays ==
    /\ ~ bridgeUp
    /\ bridgeUp' = TRUE
    /\ prompts' = [m \in Msgs |-> IF m \in rows /\ prompts[m] = 0 THEN 1 ELSE prompts[m]]
    /\ UNCHANGED <<clientVars, wire, acks, rows, historyVars, faults>>

ConnectBridge ==
    /\ ~ bridgeUp
    /\ bridgeUp' = TRUE
    /\ UNCHANGED <<clientVars, wire, acks, rows, prompts, historyVars, faults>>

-----------------------------------------------------------------------------
Init ==
    /\ page = [t \in Tabs |-> "closed"]
    /\ outbox = [t \in Tabs |-> EmptyOutbox]
    /\ shown = [t \in Tabs |-> {}]
    /\ storage = EmptyOutbox
    /\ wire = [t \in Tabs |-> {}]
    /\ acks = [t \in Tabs |-> {}]
    /\ rows = {}
    /\ bridgeUp = TRUE
    /\ prompts = [m \in Msgs |-> 0]
    /\ submitted = {}
    /\ confirmed = {}
    /\ deletions = [m \in Msgs |-> 0]
    /\ faults = 0

TabNext(t) ==
    \/ OpenPage(t)
    \/ ClosePage(t)
    \/ Connect(t)
    \/ Disconnect(t)
    \/ ExpireTick(t)
    \/ Hydrate(t)
    \/ ClearHistory(t)
    \/ \E m \in Msgs : Submit(t, m) \/ TapResend(t, m) \/ ReceiveAck(t, m)

ServerNext ==
    \/ \E t \in Tabs, m \in Msgs : HandleFrame(t, m) \/ SaveFails(t, m)
    \/ Crash
    \/ DisconnectBridge
    \/ ConnectBridge

TimeNext == \E m \in Msgs : WindowPasses(m) \/ AckBudgetPasses(m)

Next == (\E t \in Tabs : TabNext(t)) \/ ServerNext \/ TimeNext

Spec == Init /\ [][Next]_vars

\* What the browser and Node do on their own: the reconnect timer ends in a
\* connection, the interval ticks, the history is fetched, time passes, and a
\* frame or an ack on an open socket is handled.  That the user comes back to the
\* page is the one assumption on the user.
Fairness ==
    /\ \A t \in Tabs :
         /\ WF_vars(OpenPage(t))
         /\ WF_vars(Connect(t))
         /\ WF_vars(ExpireTick(t))
         /\ WF_vars(Hydrate(t))
         /\ \A m \in Msgs : WF_vars(HandleFrame(t, m)) /\ WF_vars(ReceiveAck(t, m))
    /\ \A m \in Msgs : WF_vars(AckBudgetPasses(m))

FairSpec == Spec /\ Fairness

-----------------------------------------------------------------------------
(* Properties                                                               *)

\* The type of every variable: the shapes web-adapter.ts, outbox.ts and
\* messages.ts give their state.
TypeOK ==
    /\ page \in [Tabs -> {"closed", "offline", "open"}]
    /\ outbox \in [Tabs -> Entries]
    /\ shown \in [Tabs -> SUBSET Msgs]
    /\ storage \in Entries
    /\ wire \in [Tabs -> SUBSET Msgs]
    /\ acks \in [Tabs -> SUBSET Msgs]
    /\ rows \in SUBSET Msgs
    /\ bridgeUp \in BOOLEAN
    /\ prompts \in [Msgs -> Nat]
    /\ submitted \in SUBSET Msgs
    /\ confirmed \in SUBSET Msgs
    /\ deletions \in [Msgs -> Nat]
    /\ faults \in 0 .. MaxFaults

Stored(m) == IF m \in rows THEN 1 ELSE 0

\* However often a message is resent - by a reconnect, a tap, a reload, a
\* second tab - the agent is prompted with it at most once for each time its
\* row was created (saveWithStatus, index.ts:640): more prompts need a
\* deletion of the row in between.
PromptedOncePerRow == \A m \in Msgs : prompts[m] <= deletions[m] + Stored(m)

\* m's row exists or existed.
Known(m) == m \in rows \/ deletions[m] > 0

\* An outbox entry is cleared only for a message whose row exists or existed:
\* the ack is sent after the save (index.ts:629-639) and to no other id.
ConfirmedWasStored == \A m \in confirmed : Known(m)

\* What makes the two above inductive: nothing is queued, persisted or written
\* to a socket that the user has not sent off, and an ack in flight is for a
\* message that was stored (index.ts:629-639, outbox.ts:46-59).
NothingOutOfThinAir ==
    /\ Queued(storage) \subseteq submitted
    /\ \A t \in Tabs : /\ Queued(outbox[t]) \subseteq submitted
                       /\ wire[t] \subseteq submitted
                       /\ \A m \in acks[t] : Known(m)

\* A stub whose payload was too big to persist is never pending again, on any
\* path - reload, revival, tap, flush - so its empty payload is never sent.
StubStaysFailed ==
    \A m \in Msgs : \A es \in {storage} \cup {outbox[t] : t \in Tabs} :
        es[m].dropped => es[m].status = "failed"

\* An entry waiting for a connection is not waiting for an ack: it fails only
\* when an ack is overdue or, if manual, when its window has passed
\* (outbox.ts:134-136).
FailedForAReason ==
    \A t \in Tabs, m \in Msgs :
        LET e == outbox[t][m]
        IN  e.status = "failed" /\ ~ e.dropped
              => e.sent = "overdue" \/ (Policy[m] = "manual" /\ e.aged)

\* A message that was sent off and not acknowledged is still in the outbox of a
\* loaded page, or in localStorage for the next one: what a user sends while the
\* connection is down is not lost (2026-08-20-message-reliability-design.md:60).
\* It holds with a single tab and a localStorage that accepts writes.  Each of
\* two tabs writes its own entries over those of the other (outbox.ts:68).
NothingLost ==
    \A m \in submitted \ confirmed :
        \/ \E t \in Tabs : m \in Queued(outbox[t])
        \/ m \in Queued(storage)

\* A manual message is written to a socket only while the user's last
\* expression of it - submitting it, or tapping resend - is within its window.
WrittenInWindow ==
    \A t \in Tabs, m \in Msgs :
        Policy[m] = "manual" /\ m \in wire'[t] \ wire[t] => ~ outbox'[t][m].aged

ManualNotReplayedLate == [][WrittenInWindow]_vars

\* An auto message that can be persisted is eventually acknowledged, whatever
\* connections, pages and server restarts come to an end in between.
AutoDelivered ==
    \A m \in Msgs \ Big :
        Policy[m] = "auto" => (m \in submitted ~> m \in confirmed)

\* The detailed protocol implements the promise of MessageIntake.
Intake ==
    INSTANCE MessageIntake WITH
        submitted <- submitted, stored <- rows, deletions <- deletions,
        prompts <- prompts, confirmed <- confirmed
IntakeSpec == Intake!Spec
=============================================================================
