------------------------- MODULE ConnectionsProofs --------------------------
(* Proofs about the two kinds of connection, for any capacity, number of     *)
(* retries and faults and any order of the sockets' events: those of the     *)
(* server to its bridges, and the one of a dashboard to the server.          *)
EXTENDS BridgeClient, SequenceTheorems, DashboardConnection, TLAPS

-----------------------------------------------------------------------------
(* The connection to a bridge (BridgeClient)                                 *)

\* What every method of a client that the manager holds maintains.
Good(c) ==
    /\ c \in ClientType
    /\ c.sock # "none"
    /\ c.connected <=> (c.sock \in {"open", "closing"})
    /\ c.heartbeat <=> c.connected
    /\ c.awaiting => c.connected
    /\ c.retryTimer => c.awaiting /\ c.retries < MaxRetries
    /\ c.sock = "closed" => c.timer
    /\ c.sock = "connecting" /\ c.timer => c.pending # <<>>
    /\ c.sock = "open" => c.pending = <<>>

LEMMA FreshType == Fresh \in ClientType /\ Fresh.sock = "none"
  BY CapacityAssumption DEF Fresh, ClientType

LEMMA ConnectFresh == Good(Connect(Fresh)) /\ ~ Connect(Fresh).retryTimer
                      /\ ~ Connect(Fresh).connected
  <1> DEFINE d == Connect(Fresh)
  <1>1. d = [Fresh EXCEPT !.sock = "connecting"]  BY DEF Connect, Fresh
  <1>2. d \in ClientType  BY <1>1, FreshType DEF ClientType
  <1>3. /\ d.sock = "connecting" /\ ~ d.connected /\ ~ d.timer
        /\ ~ d.heartbeat /\ ~ d.awaiting /\ ~ d.retryTimer
    BY <1>1 DEF Fresh
  <1> HIDE DEF d
  <1>4. Good(d) /\ ~ d.retryTimer /\ ~ d.connected  BY <1>2, <1>3 DEF Good
  <1> QED BY <1>4 DEF d

LEMMA ConnectGood ==
  ASSUME NEW c \in ClientType, c.sock # "none"
  PROVE  /\ Good(Connect(c))
         /\ ~ Connect(c).retryTimer /\ ~ Connect(c).awaiting
         /\ ~ Connect(c).connected
         /\ Connect(c).sock = "connecting"
         /\ Connect(c).pending = c.pending
         /\ Connect(c).written = c.written
  <1>1. Connect(c) = [c EXCEPT !.awaiting = FALSE, !.retryTimer = FALSE, !.retries = 0,
                               !.sock = "connecting", !.connected = FALSE,
                               !.timer = FALSE, !.heartbeat = FALSE]
    BY DEF Connect, Disconnect, ClearProbe, ClientType
  <1> DEFINE d == Connect(c)
  <1>2. d \in ClientType
    <2>1. 0 \in 0 .. MaxRetries  BY CapacityAssumption
    <2> QED BY <1>1, <2>1, c \in ClientType DEF ClientType
  <1>3. /\ d.sock = "connecting" /\ ~ d.connected /\ ~ d.timer
        /\ ~ d.heartbeat /\ ~ d.awaiting /\ ~ d.retryTimer
        /\ d.pending = c.pending /\ d.written = c.written
    BY <1>1 DEF ClientType
  <1> HIDE DEF d
  <1>4. Good(d)  BY <1>2, <1>3 DEF Good
  <1> QED BY <1>3, <1>4 DEF d

LEMMA EnqueueType ==
  ASSUME NEW c \in ClientType, NEW n \in Nat
  PROVE  /\ Enqueue(c, n) \in ClientType
         /\ Enqueue(c, n).pending # <<>>
         /\ \A q \in Seq(Nat) :
               Enqueue(c, n) = [c EXCEPT !.pending = Enqueue(c, n).pending]
  <1> DEFINE kept == IF Len(c.pending) >= MaxPending THEN Tail(c.pending) ELSE c.pending
  <1>1. c.pending \in Seq(Nat)  BY DEF ClientType
  <1>2. Len(c.pending) >= MaxPending => c.pending # <<>>
    BY <1>1, CapacityAssumption
  <1>3. kept \in Seq(Nat)  BY <1>1, <1>2
  <1>4. Append(kept, n) \in Seq(Nat) /\ Append(kept, n) # <<>>
    <2> HIDE DEF kept
    <2>1. Append(kept, n) \in Seq(Nat) /\ Len(Append(kept, n)) = Len(kept) + 1  BY <1>3
    <2>2. Len(Append(kept, n)) # 0  BY <1>3, <2>1
    <2>3. Len(<<>>) = 0  OBVIOUS
    <2> QED BY <2>1, <2>2, <2>3
  <1>5. Enqueue(c, n) = [c EXCEPT !.pending = Append(kept, n)]  BY DEF Enqueue, ClientType
  <1> QED BY <1>4, <1>5 DEF ClientType

LEMMA SendGood ==
  ASSUME NEW c, Good(c), NEW n \in Nat
  PROVE  /\ Good(Send(c, n))
         /\ Send(c, n).sock \in {"open", "connecting"}
         /\ Send(c, n).sock = "open" =>
              /\ Send(c, n).retryTimer = c.retryTimer
              /\ Send(c, n).awaiting = c.awaiting
              /\ Send(c, n).retries = c.retries
         /\ Send(c, n).sock = "connecting" => ~ Send(c, n).awaiting
         /\ Send(c, n).connected => c.connected
  <1>1. c \in ClientType /\ c.sock # "none"  BY DEF Good
  <1>2. CASE c.sock = "open"
    <2>1. Send(c, n) = [c EXCEPT !.written = Append(c.written, n)]
      BY <1>1, <1>2 DEF Send, ClientType
    <2>2. Append(c.written, n) \in Seq(Nat)  BY <1>1 DEF ClientType
    <2> QED BY <1>1, <1>2, <2>1, <2>2 DEF Good, ClientType
  <1>3. CASE c.sock = "connecting"
    <2>1. ~ c.connected  BY <1>3 DEF Good
    <2>2. Send(c, n) = [Enqueue(c, n) EXCEPT !.timer = TRUE]
      BY <1>3, <2>1 DEF Send, ScheduleReconnect
    <2>3. Send(c, n) = [c EXCEPT !.pending = Enqueue(c, n).pending, !.timer = TRUE]
      BY <1>1, <2>2, EnqueueType DEF ClientType
    <2>4. Enqueue(c, n).pending \in Seq(Nat) /\ Enqueue(c, n).pending # <<>>
      BY <1>1, EnqueueType DEF ClientType
    <2> QED BY <1>1, <1>3, <2>1, <2>3, <2>4 DEF Good, ClientType
  <1>4. CASE c.sock \in {"closing", "closed"}
    <2>1. Enqueue(c, n) \in ClientType /\ Enqueue(c, n).sock # "none"
      BY <1>1, EnqueueType DEF ClientType
    <2>2. Send(c, n) = Connect(Enqueue(c, n))  BY <1>4 DEF Send
    <2> QED BY <2>1, <2>2, ConnectGood
  <1> QED BY <1>1, <1>2, <1>3, <1>4 DEF ClientType

LEMMA ScheduleReconnectGood ==
  ASSUME NEW c, Good(c), c.sock # "connecting" \/ c.pending # <<>>
  PROVE  Good(ScheduleReconnect(c))
  BY DEF Good, ScheduleReconnect, ClientType

LEMMA OpenedGood ==
  ASSUME NEW c, Good(c)
  PROVE  Good(Opened(c)) /\ Opened(c).retryTimer = c.retryTimer
                         /\ Opened(c).retries = c.retries
  <1>1. c.written \o c.pending \in Seq(Nat)  BY DEF Good, ClientType
  <1>2. <<>> \in Seq(Nat)  OBVIOUS
  <1> DEFINE d == Opened(c)
  <1>3. d \in ClientType  BY <1>1, <1>2 DEF Good, Opened, ClientType
  <1>4. /\ d.sock = "open" /\ d.connected /\ d.heartbeat /\ d.pending = <<>>
        /\ d.awaiting = c.awaiting /\ d.retryTimer = c.retryTimer
        /\ d.retries = c.retries
    BY DEF Good, Opened, ClientType
  <1>5. c.retryTimer => c.awaiting /\ c.retries < MaxRetries  BY DEF Good
  <1> HIDE DEF d
  <1>6. Good(d)  BY <1>3, <1>4, <1>5 DEF Good
  <1> QED BY <1>4, <1>6 DEF d

\* The state a client is in when close has been handled, whatever it was in.
LEMMA ClosedGood ==
  ASSUME NEW c \in ClientType
  PROVE  /\ Good(Closed(c))
         /\ ~ Closed(c).retryTimer
         /\ ~ Closed(c).connected
  <1> DEFINE d == Closed(c)
  <1>1. d = [c EXCEPT !.awaiting = FALSE, !.retryTimer = FALSE, !.retries = 0,
                      !.sock = "closed", !.connected = FALSE, !.heartbeat = FALSE,
                      !.timer = TRUE]
    BY DEF Closed, ScheduleReconnect, ClearProbe, ClientType
  <1>2. 0 \in 0 .. MaxRetries  BY CapacityAssumption
  <1>3. d \in ClientType  BY <1>1, <1>2 DEF ClientType
  <1>4. /\ d.sock = "closed" /\ ~ d.connected /\ d.timer /\ ~ d.heartbeat
        /\ ~ d.awaiting /\ ~ d.retryTimer
    BY <1>1 DEF ClientType
  <1> HIDE DEF d
  <1>5. Good(d)  BY <1>3, <1>4 DEF Good
  <1> QED BY <1>4, <1>5 DEF d

LEMMA ClearProbeGood ==
  ASSUME NEW c, Good(c)
  PROVE  Good(ClearProbe(c)) /\ ~ ClearProbe(c).retryTimer
         /\ ClearProbe(c).retries = 0 /\ ClearProbe(c).connected = c.connected
         /\ ClearProbe(c).sock = c.sock
  <1>1. 0 \in 0 .. MaxRetries  BY CapacityAssumption
  <1> QED BY <1>1 DEF Good, ClearProbe, ClientType

\* A probe, first or repeated, leaves its retry timer armed only if the budget
\* allows another one.
LEMMA ScheduleProbeRetryGood ==
  ASSUME NEW c, Good(c)
  PROVE  /\ Good(ScheduleProbeRetry(c))
         /\ ScheduleProbeRetry(c).retries = c.retries
         /\ ScheduleProbeRetry(c).connected = c.connected
         /\ ScheduleProbeRetry(c).retryTimer => c.retryTimer \/ c.awaiting
  BY DEF Good, ScheduleProbeRetry, ClientType

LEMMA StartProbeGood ==
  ASSUME NEW c, Good(c), NEW n \in Nat, c.connected
  PROVE  /\ Good(StartProbe(c, n))
         /\ StartProbe(c, n).retryTimer => StartProbe(c, n).retries = 0
         /\ StartProbe(c, n).connected => c.connected
  <1> DEFINE a == [ClearProbe(c) EXCEPT !.awaiting = TRUE]
  <1>1. /\ Good(a) /\ a.retries = 0 /\ ~ a.retryTimer /\ a.connected
    <2>1. Good(ClearProbe(c)) /\ ~ ClearProbe(c).retryTimer
          /\ ClearProbe(c).retries = 0 /\ ClearProbe(c).connected
      BY ClearProbeGood
    <2> HIDE DEF ClearProbe
    <2> QED BY <2>1 DEF Good, ClientType
  <1> HIDE DEF a
  <1>2. Good(Send(a, n))  BY <1>1, SendGood
  <1>3. Send(a, n).retryTimer \/ Send(a, n).awaiting => Send(a, n).retries = 0
    <2>1. Good(Send(a, n)) /\ Send(a, n).sock \in {"open", "connecting"}
      BY <1>1, SendGood
    <2>2. Send(a, n).retryTimer => Send(a, n).awaiting  BY <2>1 DEF Good
    <2> QED BY <1>1, <2>1, <2>2, SendGood
  <1>4. StartProbe(c, n) = ScheduleProbeRetry(Send(a, n))  BY DEF StartProbe, a
  <1> QED BY <1>1, <1>2, <1>3, <1>4, ScheduleProbeRetryGood

LEMMA RetryProbeGood ==
  ASSUME NEW c, Good(c), NEW n \in Nat, c.retryTimer
  PROVE  /\ Good(RetryProbe(c, n))
         /\ RetryProbe(c, n).retryTimer => RetryProbe(c, n).retries = c.retries + 1
         /\ RetryProbe(c, n).connected => c.connected
  <1> DEFINE a == [c EXCEPT !.retryTimer = FALSE, !.retries = c.retries + 1]
  <1>1. /\ Good(a) /\ a.retries = c.retries + 1 /\ ~ a.retryTimer
        /\ a.connected = c.connected
    <2>1. c.retries \in 0 .. MaxRetries /\ c.retries < MaxRetries
      BY DEF Good, ClientType
    <2>2. c.retries + 1 \in 0 .. MaxRetries  BY <2>1, CapacityAssumption
    <2> QED BY <2>2 DEF Good, ClientType
  <1> HIDE DEF a
  <1>2. Good(Send(a, n)) /\ Send(a, n).sock \in {"open", "connecting"}
    BY <1>1, SendGood
  <1>3. Send(a, n).retryTimer \/ Send(a, n).awaiting
          => Send(a, n).retries = c.retries + 1
    <2>1. Send(a, n).retryTimer => Send(a, n).awaiting  BY <1>2 DEF Good
    <2> QED BY <1>1, <1>2, <2>1, SendGood
  <1>4. RetryProbe(c, n) = ScheduleProbeRetry(Send(a, n))  BY DEF RetryProbe, a, Good, ClientType
  <1>5. Send(a, n).connected => c.connected  BY <1>1, SendGood
  <1> QED BY <1>2, <1>3, <1>4, <1>5, ScheduleProbeRetryGood

-----------------------------------------------------------------------------
(* The inductive invariant                                                  *)

ClientInv ==
    /\ BridgeTypeOK
    /\ registered => Good(client)
    /\ ~ registered => client = Fresh
    /\ client.retryTimer => probes = 1 + client.retries
    /\ probes <= 1 + MaxRetries
    /\ client.connected => seen

LEMMA ClientInvInit == BridgeInit => ClientInv
  <1> SUFFICES ASSUME BridgeInit PROVE ClientInv
    OBVIOUS
  <1>a. Connect(Fresh) \in ClientType  BY ConnectFresh DEF Good
  <1>b. 0 \in 0 .. MaxSends /\ 0 \in 0 .. MaxFaults  BY BoundsAssumption
  <1>1. BridgeTypeOK  BY <1>a, <1>b DEF BridgeInit, BridgeTypeOK
  <1>2. Good(client) /\ ~ client.retryTimer /\ ~ client.connected
    BY ConnectFresh DEF BridgeInit
  <1>3. probes <= 1 + MaxRetries  BY CapacityAssumption DEF BridgeInit
  <1> QED BY <1>1, <1>2, <1>3 DEF ClientInv, BridgeInit

LEMMA ClientInvNext == ClientInv /\ [BridgeNext]_bridgeVars => ClientInv'
  <1> SUFFICES ASSUME ClientInv, [BridgeNext]_bridgeVars PROVE ClientInv'
    OBVIOUS
  <1>t. BridgeTypeOK  BY DEF ClientInv
  <1>g. Alive => Good(client)  BY DEF ClientInv, Alive
  <1>n. sends + 1 \in Nat /\ sends + 2 \in Nat  BY <1>t DEF BridgeTypeOK
  <1>c. Good(client') => client' \in ClientType  BY DEF Good
  <1>f. client.retryTimer => client.connected /\ client.retries < MaxRetries
    <2>1. CASE registered  BY <2>1 DEF ClientInv, Good
    <2>2. CASE ~ registered  BY <2>2, ~ Fresh.retryTimer DEF ClientInv, Fresh
    <2> QED BY <2>1, <2>2
  <1>m. probes \in Nat /\ MaxRetries \in Nat  BY <1>t, CapacityAssumption DEF BridgeTypeOK
  <1>1. CASE SendMessage
    <2>1. Good(client')  BY <1>1, <1>g, <1>n, SendGood DEF SendMessage
    <2>2. client'.retryTimer => probes = 1 + client'.retries
      <3>1. client'.retryTimer => client'.awaiting  BY <2>1 DEF Good
      <3>2. client'.sock \in {"open", "connecting"} /\ (client'.sock = "connecting" => ~ client'.awaiting)
        BY <1>1, <1>g, <1>n, SendGood DEF SendMessage
      <3>3. client'.sock = "open" => client'.retryTimer = client.retryTimer
                                     /\ client'.retries = client.retries
        BY <1>1, <1>g, <1>n, SendGood DEF SendMessage
      <3> QED BY <3>1, <3>2, <3>3 DEF ClientInv
    <2>3. client'.connected => client.connected
      BY <1>1, <1>g, <1>n, SendGood DEF SendMessage
    <2>4. BridgeTypeOK'  BY <1>1, <1>t, BoundsAssumption, <2>1, <1>c DEF BridgeTypeOK, SendMessage
    <2> QED BY <1>1, <2>1, <2>2, <2>3, <2>4 DEF ClientInv, SendMessage, Alive
  <1>2. CASE Open
    <2>1. Good(client') /\ client'.retryTimer = client.retryTimer /\ client'.retries = client.retries
      BY <1>2, <1>g, OpenedGood DEF Open
    <2>2. BridgeTypeOK'  BY <1>2, <1>t, BoundsAssumption, <2>1, <1>c DEF BridgeTypeOK, Open
    <2> QED BY <1>2, <2>1, <2>2 DEF ClientInv, Open, Alive
  <1>3. CASE HandshakeFails
    <2>1. ScheduleReconnect(client) \in ClientType
      BY <1>t DEF BridgeTypeOK, ScheduleReconnect, ClientType
    <2>2. Good(client') /\ ~ client'.retryTimer /\ ~ client'.connected
      BY <1>3, <2>1, ClosedGood DEF HandshakeFails
    <2>a. client' \in ClientType  BY <2>2, <1>c
    <2>b. faults' \in 0 .. MaxFaults
      BY <1>3, <1>t, BoundsAssumption DEF BridgeTypeOK, HandshakeFails, Trouble
    <2>3. BridgeTypeOK'  BY <1>3, <1>t, <2>a, <2>b DEF BridgeTypeOK, HandshakeFails
    <2> QED BY <1>3, <2>2, <2>3 DEF ClientInv, HandshakeFails, Alive
  <1>4. CASE StartsClosing
    <2>1. Good(client') /\ client'.retryTimer = client.retryTimer
          /\ client'.retries = client.retries /\ client'.connected = client.connected
      BY <1>4, <1>g DEF StartsClosing, Good, ClientType
    <2>2. BridgeTypeOK'  BY <1>4, <1>t, BoundsAssumption, <2>1, <1>c DEF BridgeTypeOK, StartsClosing, Trouble
    <2> QED BY <1>4, <2>1, <2>2 DEF ClientInv, StartsClosing, Alive
  <1>5. CASE Close
    <2>1. Good(client') /\ ~ client'.retryTimer /\ ~ client'.connected
      BY <1>5, <1>t, ClosedGood DEF Close, BridgeTypeOK
    <2>2. BridgeTypeOK'  BY <1>5, <1>t, BoundsAssumption, <2>1, <1>c DEF BridgeTypeOK, Close
    <2> QED BY <1>5, <2>1, <2>2 DEF ClientInv, Close, Alive
  <1>6. CASE RegisterAck
    <2> DEFINE started == StartProbe(client, sends + 1)
    <2>1. client.connected  BY <1>6, <1>g DEF RegisterAck, Good
    <2>2. Good(started) /\ (started.retryTimer => started.retries = 0)
      BY <1>6, <1>g, <1>n, <2>1, StartProbeGood DEF RegisterAck
    <2> HIDE DEF started
    <2>3. client' = Send(started, sends + 2)  BY <1>6 DEF RegisterAck, started
    <2>4. Good(client')  BY <1>n, <2>2, <2>3, SendGood
    <2>5. client'.retryTimer => client'.retries = 0
      <3>1. client'.retryTimer => client'.awaiting  BY <2>4 DEF Good
      <3>2. client'.sock \in {"open", "connecting"}
            /\ (client'.sock = "connecting" => ~ client'.awaiting)
        BY <1>n, <2>2, <2>3, SendGood
      <3>3. client'.sock = "open" => client'.retryTimer = started.retryTimer
                                     /\ client'.retries = started.retries
        BY <1>n, <2>2, <2>3, SendGood
      <3> QED BY <2>2, <3>1, <3>2, <3>3
    <2>6. BridgeTypeOK'  BY <1>6, <1>t, BoundsAssumption, <2>4, <1>c DEF BridgeTypeOK, RegisterAck
    <2> QED BY <1>6, <1>m, <2>1, <2>4, <2>5, <2>6 DEF ClientInv, RegisterAck, Alive
  <1>7. CASE ProbeReply
    <2>1. Good(client') /\ ~ client'.retryTimer /\ client'.connected = client.connected
      BY <1>7, <1>g, ClearProbeGood DEF ProbeReply
    <2>2. BridgeTypeOK'  BY <1>7, <1>t, BoundsAssumption, <2>1, <1>c DEF BridgeTypeOK, ProbeReply
    <2> QED BY <1>7, <2>1, <2>2 DEF ClientInv, ProbeReply, Alive
  <1>8. CASE ReconnectFires
    <2>1. [client EXCEPT !.timer = FALSE] \in ClientType
          /\ [client EXCEPT !.timer = FALSE].sock # "none"
      BY <1>8, <1>t, <1>g DEF ReconnectFires, BridgeTypeOK, ClientType, Good
    <2>2. Good(client') /\ ~ client'.retryTimer /\ ~ client'.connected
      BY <1>8, <2>1, ConnectGood DEF ReconnectFires
    <2>3. BridgeTypeOK'  BY <1>8, <1>t, BoundsAssumption, <2>2, <1>c DEF BridgeTypeOK, ReconnectFires
    <2> QED BY <1>8, <2>2, <2>3 DEF ClientInv, ReconnectFires, Alive
  <1>9. CASE ProbeRetryFires
    <2>1. Good(client') /\ (client'.retryTimer => client'.retries = client.retries + 1)
          /\ (client'.connected => client.connected)
      BY <1>9, <1>g, <1>n, RetryProbeGood DEF ProbeRetryFires
    <2>2. BridgeTypeOK'  BY <1>9, <1>t, BoundsAssumption, <2>1, <1>c DEF BridgeTypeOK, ProbeRetryFires
    <2>3. probes = 1 + client.retries /\ client.retries < MaxRetries
      BY <1>9, <1>f DEF ProbeRetryFires, ClientInv
    <2>4. client.retries \in Nat  BY <1>t DEF BridgeTypeOK, ClientType
    <2>5. probes' <= 1 + MaxRetries /\ (client'.retryTimer => probes' = 1 + client'.retries)
      BY <1>9, <1>m, <2>1, <2>3, <2>4 DEF ProbeRetryFires
    <2> QED BY <1>9, <2>1, <2>2, <2>5 DEF ClientInv, ProbeRetryFires, Alive
  <1>10. CASE ConnectBridge
    <2>1. BridgeTypeOK'  BY <1>10, <1>t, BoundsAssumption, ConnectFresh DEF BridgeTypeOK, ConnectBridge, Trouble, Good
    <2> QED BY <1>10, <2>1, ConnectFresh DEF ClientInv, ConnectBridge
  <1>11. CASE DisconnectBridge
    <2>a. client' \in ClientType  BY <1>11, FreshType DEF DisconnectBridge
    <2>b. faults' \in 0 .. MaxFaults
      BY <1>11, <1>t, BoundsAssumption DEF BridgeTypeOK, DisconnectBridge, Trouble
    <2>c. aborted' \in BOOLEAN /\ registered' \in BOOLEAN  BY <1>11 DEF DisconnectBridge
    <2>1. BridgeTypeOK'  BY <1>11, <1>t, <2>a, <2>b, <2>c DEF BridgeTypeOK, DisconnectBridge
    <2>2. ~ client'.retryTimer /\ ~ client'.connected  BY <1>11 DEF DisconnectBridge, Fresh
    <2> QED BY <1>11, <2>1, <2>2 DEF ClientInv, DisconnectBridge
  <1>12. CASE JoinDashboard
    <2>1. BridgeTypeOK'  BY <1>12, <1>t, BoundsAssumption DEF BridgeTypeOK, JoinDashboard, ClientType
    <2> QED BY <1>12, <2>1 DEF ClientInv, JoinDashboard
  <1>13. CASE Restart
    <2>1. BridgeTypeOK'  BY <1>13, <1>t, BoundsAssumption, ConnectFresh DEF BridgeTypeOK, Restart, Good
    <2> QED BY <1>13, <2>1, ConnectFresh DEF ClientInv, Restart
  <1>14. CASE UNCHANGED bridgeVars
    <2>1. BridgeTypeOK'  BY <1>14, <1>t, BoundsAssumption DEF BridgeTypeOK, bridgeVars
    <2> QED BY <1>14, <2>1 DEF ClientInv, bridgeVars
  <1> QED BY <1>1, <1>2, <1>3, <1>4, <1>5, <1>6, <1>7, <1>8, <1>9, <1>10, <1>11,
             <1>12, <1>13, <1>14 DEF BridgeNext

LEMMA ClientInvariant == BridgeSpec => []ClientInv
  BY ClientInvInit, ClientInvNext, PTL DEF BridgeSpec

-----------------------------------------------------------------------------
(* Theorems                                                                 *)

\* Every variable keeps its type.
THEOREM BridgeTypeCorrect == BridgeSpec => []BridgeTypeOK
  <1>1. ClientInv => BridgeTypeOK  BY DEF ClientInv
  <1> QED BY <1>1, ClientInvariant, PTL

\* A client the manager holds always has a socket that lives or a timer that
\* makes a new one, after every order of sends, socket events and timers.
THEOREM NeverLeftStranded == BridgeSpec => []NeverStranded
  <1>1. ClientInv => NeverStranded
    BY DEF ClientInv, NeverStranded, Alive, Good, ClientType
  <1> QED BY <1>1, ClientInvariant, PTL

\* The heartbeat and the probe's retry live exactly as long as the connection
\* they were started for, and the reconnect timer runs over a handshake only
\* because of a message queued during it.
THEOREM TimersAreOwned == BridgeSpec => [](TimersMatchConnection /\ TimerOverHandshakeHasACause)
  <1>1. ClientInv => TimersMatchConnection /\ TimerOverHandshakeHasACause
    <2> SUFFICES ASSUME ClientInv PROVE TimersMatchConnection /\ TimerOverHandshakeHasACause
      OBVIOUS
    <2>1. CASE registered
      BY <2>1 DEF ClientInv, Good, TimersMatchConnection, TimerOverHandshakeHasACause
    <2>2. CASE ~ registered
      BY <2>2 DEF ClientInv, Fresh, TimersMatchConnection, TimerOverHandshakeHasACause
    <2> QED BY <2>1, <2>2
  <1> QED BY <1>1, ClientInvariant, PTL

\* One register_ack leads to at most 1 + SKILLS_PROBE_MAX_RETRIES probes.
THEOREM ProbesAreBounded == BridgeSpec => []ProbeBudget
  <1>1. ClientInv => ProbeBudget  BY DEF ClientInv, ProbeBudget
  <1> QED BY <1>1, ClientInvariant, PTL

\* No dashboard shows a connected bridge as disconnected.
THEOREM UpIsShown == BridgeSpec => []NeverShownDownWhileUp
  <1>1. ClientInv => NeverShownDownWhileUp  BY DEF ClientInv, NeverShownDownWhileUp
  <1> QED BY <1>1, ClientInvariant, PTL

-----------------------------------------------------------------------------
(* The order of the frames                                                  *)

Frames(c) == c.written \o c.pending

\* s holds numbers of calls up to n, each later than those before it.
Increasing(s, n) ==
    /\ \A i \in 1 .. Len(s) : s[i] <= n
    /\ \A i, j \in 1 .. Len(s) : i < j => s[i] < s[j]

LEMMA IncreasingAppend ==
  ASSUME NEW s \in Seq(Nat), NEW n \in Nat, NEW m \in Nat, Increasing(s, n), n < m
  PROVE  Increasing(Append(s, m), m)
  <1> DEFINE a == Append(s, m)
  <1>1. Len(a) = Len(s) + 1 /\ Len(s) \in Nat  OBVIOUS
  <1>2. \A i \in 1 .. Len(s) : a[i] = s[i] /\ s[i] \in Nat  OBVIOUS
  <1>3. a[Len(s) + 1] = m  OBVIOUS
  <1>4. \A i \in 1 .. Len(a) : i \in 1 .. Len(s) \/ i = Len(s) + 1  BY <1>1
  <1>5. \A i \in 1 .. Len(s) : a[i] <= n  BY <1>2 DEF Increasing
  <1> HIDE DEF a
  <1>6. \A i \in 1 .. Len(a) : a[i] <= m
    BY <1>2, <1>3, <1>4, <1>5
  <1>7. ASSUME NEW i \in 1 .. Len(a), NEW j \in 1 .. Len(a), i < j PROVE a[i] < a[j]
    <2>1. i \in 1 .. Len(s)  BY <1>1, <1>7
    <2>2. CASE j \in 1 .. Len(s)  BY <1>2, <1>7, <2>1, <2>2 DEF Increasing
    <2>3. CASE j = Len(s) + 1  BY SMTT(30), <1>2, <1>3, <1>5, <2>1, <2>3
    <2> QED BY <1>4, <2>2, <2>3
  <1> QED BY <1>6, <1>7 DEF Increasing, a

\* Leaving out the first element of the second of two sequences.
LEMMA IncreasingShift ==
  ASSUME NEW w \in Seq(Nat), NEW q \in Seq(Nat), NEW n \in Nat, q # <<>>,
         Increasing(w \o q, n)
  PROVE  Increasing(w \o Tail(q), n)
  <1> DEFINE s == w \o q
             r == w \o Tail(q)
             at(i) == IF i <= Len(w) THEN i ELSE i + 1
  <1>1. Tail(q) \in Seq(Nat) /\ Len(Tail(q)) = Len(q) - 1  OBVIOUS
  <1>2. Len(s) = Len(w) + Len(q) /\ Len(r) = Len(w) + (Len(q) - 1)  BY <1>1
  <1>3. Len(w) \in Nat /\ Len(q) \in Nat \ {0}  OBVIOUS
  <1>4. ASSUME NEW i \in 1 .. Len(r)
        PROVE  at(i) \in 1 .. Len(s) /\ r[i] = s[at(i)]
    <2>1. at(i) \in 1 .. Len(s)  BY <1>2, <1>3
    <2>2. CASE i <= Len(w)  BY <1>1, <2>2
    <2>3. CASE i > Len(w)
      <3>0. at(i) = i + 1  BY <1>3, <2>3
      <3>1. i - Len(w) \in 1 .. Len(Tail(q))  BY <1>1, <1>2, <1>3, <2>3
      <3>2. r[i] = Tail(q)[i - Len(w)]  BY <1>1, <1>2, <2>3
      <3>3. Tail(q)[i - Len(w)] = q[(i - Len(w)) + 1]  BY <3>1
      <3>4. s[i + 1] = q[(i + 1) - Len(w)]  BY <1>2, <1>3, <2>1, <2>3
      <3>5. (i - Len(w)) + 1 = (i + 1) - Len(w)  BY <1>3
      <3> QED BY <2>1, <3>0, <3>2, <3>3, <3>4, <3>5
    <2> QED BY SMTT(30), <1>3, <2>1, <2>2, <2>3
  <1>5. \A i, j \in 1 .. Len(r) : i < j => at(i) < at(j)  BY <1>2, <1>3
  <1> HIDE DEF s, r, at
  <1>6. Increasing(s, n)  BY DEF s
  <1>7. Increasing(r, n)  BY <1>4, <1>5, <1>6 DEF Increasing
  <1> QED BY <1>7 DEF r

LEMMA ConcatAppend ==
  ASSUME NEW s \in Seq(Nat), NEW t \in Seq(Nat), NEW m \in Nat
  PROVE  s \o Append(t, m) = Append(s \o t, m)
  <1> DEFINE l == s \o Append(t, m)
             r == Append(s \o t, m)
  <1>1. l \in Seq(Nat) /\ r \in Seq(Nat)  OBVIOUS
  <1>2. Len(l) = Len(r)  OBVIOUS
  <1>3. \A i \in 1 .. Len(l) : l[i] = r[i]  OBVIOUS
  <1> QED BY <1>1, <1>2, <1>3, SeqEqual, Zenon

LEMMA EnqueueFrames ==
  ASSUME NEW c \in ClientType, NEW n \in Nat, NEW m \in Nat, n < m,
         Increasing(Frames(c), n)
  PROVE  Increasing(Frames(Enqueue(c, m)), m)
  <1> DEFINE kept == IF Len(c.pending) >= MaxPending THEN Tail(c.pending) ELSE c.pending
  <1>1. c.pending \in Seq(Nat) /\ c.written \in Seq(Nat)  BY DEF ClientType
  <1>2. Len(c.pending) >= MaxPending => c.pending # <<>>  BY <1>1, CapacityAssumption
  <1>3. kept \in Seq(Nat)  BY <1>1, <1>2
  <1>4. Increasing(c.written \o kept, n)
    BY <1>1, <1>2, IncreasingShift DEF Frames
  <1>5. Frames(Enqueue(c, m)) = c.written \o Append(kept, m)
    BY DEF Enqueue, ClientType, Frames
  <1> HIDE DEF kept
  <1>6. c.written \o Append(kept, m) = Append(c.written \o kept, m)
    BY <1>1, <1>3, ConcatAppend
  <1>7. c.written \o kept \in Seq(Nat)  BY <1>1, <1>3
  <1> QED BY <1>4, <1>5, <1>6, <1>7, IncreasingAppend

LEMMA SendFrames ==
  ASSUME NEW c, Good(c), NEW n \in Nat, NEW m \in Nat, n < m, Increasing(Frames(c), n)
  PROVE  Increasing(Frames(Send(c, m)), m)
  <1>1. c \in ClientType /\ c.sock # "none"  BY DEF Good
  <1>2. CASE c.sock = "open"
    <2>1. c.pending = <<>>  BY <1>2 DEF Good
    <2>2. c.written \in Seq(Nat)  BY <1>1 DEF ClientType
    <2>3. Frames(Send(c, m)) = Append(c.written, m)
      BY <1>1, <1>2, <2>1, <2>2 DEF Send, Frames, ClientType
    <2>4. Increasing(c.written, n)  BY <2>1, <2>2 DEF Frames
    <2> QED BY <2>2, <2>3, <2>4, IncreasingAppend
  <1>3. CASE c.sock = "connecting"
    <2>1. ~ c.connected  BY <1>3 DEF Good
    <2>2. Send(c, m) = ScheduleReconnect(Enqueue(c, m))  BY <1>3, <2>1 DEF Send
    <2>3. Enqueue(c, m) \in ClientType  BY <1>1, EnqueueType
    <2>4. Frames(Send(c, m)) = Frames(Enqueue(c, m))
      BY <2>2, <2>3 DEF Frames, ScheduleReconnect, ClientType
    <2> QED BY <1>1, <2>4, EnqueueFrames
  <1>4. CASE c.sock \in {"closing", "closed"}
    <2>1. Enqueue(c, m) \in ClientType /\ Enqueue(c, m).sock # "none"
      BY <1>1, EnqueueType DEF ClientType
    <2>2. Send(c, m) = Connect(Enqueue(c, m))  BY <1>4 DEF Send
    <2>3. Frames(Send(c, m)) = Frames(Enqueue(c, m))
      BY <2>1, <2>2, ConnectGood DEF Frames
    <2> QED BY <1>1, <2>3, EnqueueFrames
  <1> QED BY <1>1, <1>2, <1>3, <1>4 DEF ClientType

\* The methods that move no frame, or move the queue to the socket.
LEMMA SameFrames ==
  ASSUME NEW c \in ClientType
  PROVE  /\ Frames(ClearProbe(c)) = Frames(c)
         /\ Frames(ScheduleReconnect(c)) = Frames(c)
         /\ Frames(ScheduleProbeRetry(c)) = Frames(c)
         /\ Frames(Closed(c)) = Frames(c)
         /\ c.sock # "none" => Frames(Connect(c)) = Frames(c)
         /\ Frames(Opened(c)) = Frames(c)
  <1>1. Frames(ClearProbe(c)) = Frames(c)  BY DEF ClearProbe, Frames, ClientType
  <1>2. Frames(ScheduleReconnect(c)) = Frames(c)
    BY DEF ScheduleReconnect, Frames, ClientType
  <1>3. Frames(ScheduleProbeRetry(c)) = Frames(c)
    BY DEF ScheduleProbeRetry, Frames, ClientType
  <1>4. Frames(Closed(c)) = Frames(c)
    BY DEF Closed, ScheduleReconnect, ClearProbe, Frames, ClientType
  <1>5. c.sock # "none" => Frames(Connect(c)) = Frames(c)  BY ConnectGood DEF Frames
  <1>6. Frames(Opened(c)) = Frames(c)
    <2>1. c.written \o c.pending \in Seq(Nat)  BY DEF ClientType
    <2>2. Opened(c).written = c.written \o c.pending /\ Opened(c).pending = <<>>
      BY DEF Opened, ClientType
    <2> QED BY <2>1, <2>2, ConcatEmptySeq DEF Frames
  <1> QED BY <1>1, <1>2, <1>3, <1>4, <1>5, <1>6

LEMMA FreshFrames ==
  ASSUME NEW n \in Nat
  PROVE  Increasing(Frames(Fresh), n) /\ Increasing(Frames(Connect(Fresh)), n)
  <1>1. <<>> \o <<>> = <<>>  BY ConcatEmptySeq
  <1>2. Frames(Fresh) = <<>>  BY <1>1 DEF Frames, Fresh
  <1>3. Frames(Connect(Fresh)) = <<>>  BY <1>1 DEF Frames, Connect, Fresh
  <1>4. 1 .. Len(<<>>) = {}  OBVIOUS
  <1> QED BY <1>2, <1>3, <1>4 DEF Increasing

OrderInv == ClientInv /\ Increasing(Frames(client), sends)

LEMMA OrderNext == OrderInv /\ [BridgeNext]_bridgeVars => Increasing(Frames(client), sends)'
  <1> SUFFICES ASSUME OrderInv, [BridgeNext]_bridgeVars PROVE Increasing(Frames(client'), sends')
    BY DEF Frames
  <1>i. Increasing(Frames(client), sends)  BY DEF OrderInv
  <1>t. client \in ClientType /\ sends \in Nat  BY DEF OrderInv, ClientInv, BridgeTypeOK
  <1>g. Alive => Good(client)  BY DEF OrderInv, ClientInv, Alive
  <1>1. CASE SendMessage
    <2>1. Increasing(Frames(Send(client, sends + 1)), sends + 1)
      BY <1>1, <1>i, <1>t, <1>g, SendFrames DEF SendMessage
    <2> QED BY <1>1, <2>1 DEF SendMessage
  <1>2. CASE Open  BY <1>2, <1>i, <1>t, SameFrames DEF Open
  <1>3. CASE HandshakeFails
    <2>1. ScheduleReconnect(client) \in ClientType
      BY <1>t DEF ScheduleReconnect, ClientType
    <2>2. Frames(client') = Frames(client)
      BY <1>3, <1>t, <2>1, SameFrames DEF HandshakeFails
    <2> QED BY <1>3, <1>i, <2>2 DEF HandshakeFails
  <1>4. CASE StartsClosing
    <2>1. Frames(client') = Frames(client)
      BY <1>4, <1>t DEF StartsClosing, Frames, ClientType
    <2> QED BY <1>4, <1>i, <2>1 DEF StartsClosing
  <1>5. CASE Close  BY <1>5, <1>i, <1>t, SameFrames DEF Close
  <1>6. CASE RegisterAck
    <2> DEFINE a == [ClearProbe(client) EXCEPT !.awaiting = TRUE]
               b == StartProbe(client, sends + 1)
    <2>1. client.connected /\ Good(client)  BY <1>6, <1>g DEF RegisterAck, Good
    <2>2. Good(b)  BY <1>t, <2>1, StartProbeGood
    <2>3. Good(a) /\ Frames(a) = Frames(client)
      <3>1. Good(ClearProbe(client)) /\ ClearProbe(client).connected
            /\ ~ ClearProbe(client).retryTimer
        BY <2>1, ClearProbeGood
      <3>2. Frames(ClearProbe(client)) = Frames(client)  BY <1>t, SameFrames
      <3>3. Good(a)  BY <3>1 DEF Good, ClientType
      <3>4. Frames(a) = Frames(ClearProbe(client))  BY <3>1 DEF Frames, Good, ClientType
      <3> QED BY <3>2, <3>3, <3>4
    <2> HIDE DEF a
    <2>4. Increasing(Frames(Send(a, sends + 1)), sends + 1)
      BY <1>i, <1>t, <2>3, SendFrames
    <2>5. Good(Send(a, sends + 1))  BY <1>t, <2>3, SendGood
    <2>6. Frames(b) = Frames(Send(a, sends + 1))
      BY <2>5, SameFrames DEF StartProbe, a, Good
    <2> HIDE DEF b
    <2>7. Increasing(Frames(Send(b, sends + 2)), sends + 2)
      BY <1>t, <2>2, <2>4, <2>6, SendFrames
    <2> QED BY <1>6, <2>7 DEF RegisterAck, b
  <1>7. CASE ProbeReply  BY <1>7, <1>i, <1>t, SameFrames DEF ProbeReply
  <1>8. CASE ReconnectFires
    <2> DEFINE a == [client EXCEPT !.timer = FALSE]
    <2>1. a \in ClientType /\ a.sock # "none" /\ Frames(a) = Frames(client)
      BY <1>8, <1>t, <1>g DEF ReconnectFires, ClientType, Good, Frames
    <2> HIDE DEF a
    <2>2. Frames(Connect(a)) = Frames(client)  BY <2>1, SameFrames
    <2> QED BY <1>8, <1>i, <2>2 DEF ReconnectFires, a
  <1>9. CASE ProbeRetryFires
    <2> DEFINE a == [client EXCEPT !.retryTimer = FALSE, !.retries = client.retries + 1]
    <2>1. Good(client) /\ client.retryTimer  BY <1>9, <1>g DEF ProbeRetryFires
    <2>2. client.retries \in 0 .. MaxRetries /\ client.retries < MaxRetries
      BY <2>1 DEF Good, ClientType
    <2>3. client.retries + 1 \in 0 .. MaxRetries  BY <2>2, CapacityAssumption
    <2>4. Good(a) /\ Frames(a) = Frames(client)
      BY <2>1, <2>3 DEF Good, Frames, ClientType
    <2>5. RetryProbe(client, sends + 1) = ScheduleProbeRetry(Send(a, sends + 1))
      BY <1>t DEF RetryProbe, ClientType
    <2> HIDE DEF a
    <2>6. Good(Send(a, sends + 1))  BY <1>t, <2>4, SendGood
    <2>7. Increasing(Frames(Send(a, sends + 1)), sends + 1)
      BY <1>i, <1>t, <2>4, SendFrames
    <2>8. Frames(client') = Frames(Send(a, sends + 1))
      BY <1>9, <2>5, <2>6, SameFrames DEF ProbeRetryFires, Good
    <2> QED BY <1>9, <2>7, <2>8 DEF ProbeRetryFires
  <1>10. CASE ConnectBridge  BY <1>10, <1>t, FreshFrames DEF ConnectBridge
  <1>11. CASE DisconnectBridge  BY <1>11, <1>t, FreshFrames DEF DisconnectBridge
  <1>12. CASE JoinDashboard  BY <1>12, <1>i DEF JoinDashboard
  <1>13. CASE Restart  BY <1>13, <1>t, FreshFrames DEF Restart
  <1>14. CASE UNCHANGED bridgeVars  BY <1>14, <1>i DEF bridgeVars
  <1> QED BY <1>1, <1>2, <1>3, <1>4, <1>5, <1>6, <1>7, <1>8, <1>9, <1>10, <1>11,
             <1>12, <1>13, <1>14 DEF BridgeNext

\* The bridge gets the frames of a client in the order they were sent in, none
\* of them twice, through every queueing, overflow, flush and reconnect.
THEOREM FirstInFirstOut == BridgeSpec => []InOrder
  <1>1. BridgeInit => OrderInv
    <2> SUFFICES ASSUME BridgeInit PROVE OrderInv
      OBVIOUS
    <2>1. Increasing(Frames(Connect(Fresh)), 0)  BY FreshFrames
    <2> QED BY <2>1, ClientInvInit DEF BridgeInit, OrderInv
  <1>2. OrderInv /\ [BridgeNext]_bridgeVars => OrderInv'
    BY ClientInvNext, OrderNext DEF OrderInv
  <1>3. OrderInv => InOrder  BY DEF OrderInv, InOrder, Increasing, Frames
  <1> QED BY <1>1, <1>2, <1>3, PTL DEF BridgeSpec

-----------------------------------------------------------------------------
(* The connection of a dashboard (DashboardConnection)                       *)

ConstantsOK == MaxGeneration \in Nat /\ None \notin Nat

\* The present socket is the one opened last, and has been given its handlers.
PresentIsNewest ==
    ws # None => ws = generation /\ ws \in attached /\ status[ws] # "unused"

\* Events are delivered only of sockets the browser has given up.
EventsOfTheDead == \A s \in Sockets : pending[s] # {} => status[s] = "dead"

\* Sockets are numbered in the order they are opened.
LaterAreUnused == \A s \in Sockets : s > generation => status[s] = "unused"

IInv ==
    /\ DashboardTypeOK
    /\ LaterAreUnused
    /\ PresentIsNewest
    /\ EventsOfTheDead
    /\ NoSocketLeaks
    /\ last <= generation
    /\ AlwaysConnecting
    /\ TimerOnlyAfterFailure
    /\ QuietAfterDisconnect

LEMMA Starts ==
    ASSUME ConstantsOK, DashboardInit
    PROVE  IInv
<1>1. /\ status \in [Sockets -> {"unused", "connecting", "open", "dead"}]
      /\ \A s \in Sockets : status[s] = "unused" /\ pending[s] = {}
  BY DEF DashboardInit
<1>2. pending \in [Sockets -> SUBSET {"error", "close"}]
  BY DEF DashboardInit
<1>3. DashboardTypeOK
  <2>1. generation \in 0..MaxGeneration /\ last \in 0..MaxGeneration
    BY DEF ConstantsOK, DashboardInit
  <2>2. ws \in Sockets \cup {None} /\ attached \subseteq Sockets
    BY DEF DashboardInit
  <2>3. should \in BOOLEAN /\ timer \in BOOLEAN /\ online \in BOOLEAN /\ interval \in BOOLEAN
    BY DEF DashboardInit
  <2> QED  BY <1>1, <1>2, <2>1, <2>2, <2>3 DEF DashboardTypeOK
<1>4. LaterAreUnused /\ EventsOfTheDead /\ NoSocketLeaks
  BY <1>1 DEF LaterAreUnused, EventsOfTheDead, NoSocketLeaks
<1> QED
  BY <1>3, <1>4 DEF DashboardInit, IInv, PresentIsNewest, AlwaysConnecting, TimerOnlyAfterFailure,
     QuietAfterDisconnect

LEMMA ConnectKeeps ==
    ASSUME ConstantsOK, IInv, ConnectWs
    PROVE  IInv' /\ last' = last
<1> DEFINE g == generation + 1
<1>1. /\ g \in Sockets /\ g # ws /\ g # None /\ g > generation
      /\ generation' = g /\ ws' = g
  BY DEF ConstantsOK, IInv, DashboardTypeOK, PresentIsNewest, ConnectWs, Sockets
<1>2. /\ status' = [ClosedAs(status) EXCEPT ![g] = "connecting"]
      /\ ClosedAs(status) \in [Sockets -> {"unused", "connecting", "open", "dead"}]
  BY <1>1 DEF ConnectWs, ClosedAs, IInv, DashboardTypeOK
<1>3. status'[g] = "connecting"
  BY <1>1, <1>2
<1>4. \A s \in Sockets \ {g} : status'[s] = IF s = ws THEN "dead" ELSE status[s]
  BY <1>1, <1>2 DEF ClosedAs
<1>5. DashboardTypeOK'
  <2>1. status' \in [Sockets -> {"unused", "connecting", "open", "dead"}]
    BY <1>1, <1>2
  <2>2. attached' \subseteq Sockets
    BY <1>1 DEF ConnectWs, Detached, IInv, DashboardTypeOK
  <2>3. generation' \in 0..MaxGeneration /\ last' \in 0..MaxGeneration
    BY <1>1 DEF ConnectWs, ConstantsOK, IInv, DashboardTypeOK, Sockets
  <2>4. pending' = pending /\ interval' = interval /\ timer' = FALSE /\ should' = TRUE
        /\ online' = TRUE
    BY DEF ConnectWs
  <2> QED  BY <1>1, <2>1, <2>2, <2>3, <2>4 DEF IInv, DashboardTypeOK
<1>6. PresentIsNewest'
  BY <1>1, <1>3 DEF PresentIsNewest, ConnectWs
<1>7. NoSocketLeaks'
  BY <1>1, <1>4 DEF NoSocketLeaks, IInv
<1>8. LaterAreUnused'
  <2>1. \A s \in Sockets \ {g} : s > g => s > generation /\ s # ws
    BY <1>1 DEF IInv, DashboardTypeOK, PresentIsNewest, Sockets, ConstantsOK
  <2> QED  BY <1>1, <1>4, <2>1 DEF LaterAreUnused, IInv, Sockets
<1>9. EventsOfTheDead'
  <2>1. pending[g] = {}
    BY <1>1 DEF IInv, EventsOfTheDead, LaterAreUnused
  <2> QED  BY <1>4, <2>1 DEF EventsOfTheDead, IInv, ConnectWs
<1>10. last' <= generation'
  BY <1>1 DEF ConnectWs, IInv, DashboardTypeOK
<1>11. AlwaysConnecting' /\ TimerOnlyAfterFailure' /\ QuietAfterDisconnect'
  BY <1>1, <1>3 DEF AlwaysConnecting, TimerOnlyAfterFailure, QuietAfterDisconnect, ConnectWs
<1> QED  BY <1>5, <1>6, <1>7, <1>8, <1>9, <1>10, <1>11 DEF IInv, ConnectWs

LEMMA DisconnectKeeps ==
    ASSUME ConstantsOK, IInv, DisconnectWs
    PROVE  IInv' /\ last' = last
<1>1. status' \in [Sockets -> {"unused", "connecting", "open", "dead"}]
  BY DEF DisconnectWs, ClosedAs, IInv, DashboardTypeOK
<1>2. \A s \in Sockets : status'[s] = IF s = ws THEN "dead" ELSE status[s]
  BY DEF DisconnectWs, ClosedAs
<1>3. DashboardTypeOK'
  <2>1. generation' \in 0..MaxGeneration /\ last' \in 0..MaxGeneration
    BY DEF DisconnectWs, ConstantsOK, IInv, DashboardTypeOK
  <2>2. pending' = pending /\ attached' \subseteq Sockets
    BY DEF DisconnectWs, Detached, IInv, DashboardTypeOK
  <2> QED  BY <1>1, <2>1, <2>2 DEF DisconnectWs, IInv, DashboardTypeOK
<1>4. LaterAreUnused'
  BY <1>2 DEF DisconnectWs, LaterAreUnused, PresentIsNewest, IInv, DashboardTypeOK, Sockets, ConstantsOK
<1>5. EventsOfTheDead' /\ NoSocketLeaks'
  BY <1>2 DEF DisconnectWs, EventsOfTheDead, NoSocketLeaks, IInv
<1> QED
  BY <1>3, <1>4, <1>5 DEF DisconnectWs, IInv, DashboardTypeOK, PresentIsNewest, AlwaysConnecting,
     TimerOnlyAfterFailure, QuietAfterDisconnect

LEMMA BrowserKeeps ==
    ASSUME ConstantsOK, IInv, NEW s \in Sockets,
           Opens(s) \/ Message(s) \/ Breaks(s) \/ Error(s) \/ CloseSocket(s)
    PROVE  IInv' /\ last' >= last
<1> USE DEF IInv
<1>0. s # None /\ (IsPresent(s) => s = ws /\ s = generation /\ last <= s)
  BY DEF IsPresent, PresentIsNewest, ConstantsOK, Sockets, DashboardTypeOK
<1>1. CASE Opens(s)
  <2>1. /\ status' = [status EXCEPT ![s] = "open"] /\ status[s] = "connecting"
        /\ ws = s
    BY <1>1 DEF Opens, NoSocketLeaks, DashboardTypeOK
  <2>2. DashboardTypeOK' /\ last' >= last /\ last' <= generation'
    <3>1. status' \in [Sockets -> {"unused", "connecting", "open", "dead"}]
      BY <2>1 DEF DashboardTypeOK
    <3>2. last' \in 0..MaxGeneration /\ last' >= last /\ last' <= generation'
      BY <1>0, <1>1 DEF Opens, DashboardTypeOK, Sockets, ConstantsOK
    <3>3. interval' \in BOOLEAN
      BY <1>1 DEF Opens, DashboardTypeOK
    <3> QED  BY <1>1, <3>1, <3>2, <3>3 DEF Opens, DashboardTypeOK
  <2>3. \A x \in Sockets : status'[x] = IF x = s THEN "open" ELSE status[x]
    BY <2>1 DEF DashboardTypeOK
  <2>4. LaterAreUnused' /\ EventsOfTheDead' /\ NoSocketLeaks'
    BY <1>1, <2>1, <2>3 DEF Opens, LaterAreUnused, EventsOfTheDead, NoSocketLeaks
  <2> QED
    BY <1>0, <1>1, <2>1, <2>2, <2>3, <2>4 DEF Opens, PresentIsNewest, AlwaysConnecting,
       TimerOnlyAfterFailure, QuietAfterDisconnect
<1>2. CASE Message(s)
  <2>1. DashboardTypeOK' /\ last' >= last /\ last' <= generation'
    BY <1>0, <1>2 DEF Message, DashboardTypeOK, Sockets, ConstantsOK
  <2> QED
    BY <1>2, <2>1 DEF Message, PresentIsNewest, AlwaysConnecting, LaterAreUnused, EventsOfTheDead,
       NoSocketLeaks, TimerOnlyAfterFailure, QuietAfterDisconnect
<1>3. CASE Breaks(s)
  <2>1. PICK events \in {{"close"}, {"error"}, {"error", "close"}} :
            pending' = [pending EXCEPT ![s] = events]
    BY <1>3 DEF Breaks
  <2>2. /\ status' = [status EXCEPT ![s] = "dead"] /\ status[s] \in {"connecting", "open"}
        /\ ws = s
    BY <1>3 DEF Breaks, NoSocketLeaks, DashboardTypeOK
  <2>3. \A x \in Sockets : /\ status'[x] = IF x = s THEN "dead" ELSE status[x]
                           /\ pending'[x] = IF x = s THEN events ELSE pending[x]
    BY <2>1, <2>2 DEF DashboardTypeOK
  <2>4. DashboardTypeOK'
    <3>1. pending' \in [Sockets -> SUBSET {"error", "close"}]
      BY <2>1 DEF DashboardTypeOK
    <3>2. status' \in [Sockets -> {"unused", "connecting", "open", "dead"}]
      BY <2>2 DEF DashboardTypeOK
    <3> QED  BY <1>3, <3>1, <3>2 DEF Breaks, DashboardTypeOK
  <2>5. LaterAreUnused' /\ EventsOfTheDead' /\ NoSocketLeaks'
    BY <1>3, <2>2, <2>3 DEF Breaks, LaterAreUnused, EventsOfTheDead, NoSocketLeaks
  <2>6. events # {}
    BY <2>1
  <2>7. last' >= last
    BY <1>3 DEF Breaks, DashboardTypeOK
  <2> QED
    BY <1>3, <2>2, <2>3, <2>4, <2>5, <2>6, <2>7 DEF Breaks, PresentIsNewest, AlwaysConnecting,
       TimerOnlyAfterFailure, QuietAfterDisconnect
<1>4. CASE Error(s)
  <2>1. /\ pending' = [pending EXCEPT ![s] = pending[s] \ {"error"}]
        /\ status[s] = "dead"
    BY <1>4 DEF Error, EventsOfTheDead
  <2>2. \A x \in Sockets : pending'[x] = IF x = s THEN pending[s] \ {"error"} ELSE pending[x]
    BY <2>1 DEF DashboardTypeOK
  <2>3. DashboardTypeOK' /\ last' >= last /\ last' <= generation'
    <3>1. pending' \in [Sockets -> SUBSET {"error", "close"}]
      BY <2>1 DEF DashboardTypeOK
    <3> QED  BY <1>0, <1>4, <3>1 DEF Error, DashboardTypeOK, Sockets, ConstantsOK
  <2>4. LaterAreUnused' /\ EventsOfTheDead' /\ NoSocketLeaks' /\ PresentIsNewest'
    BY <1>4, <2>1, <2>2 DEF Error, LaterAreUnused, EventsOfTheDead, NoSocketLeaks, PresentIsNewest
  <2>5. AlwaysConnecting'
    <3>1. CASE IsPresent(s)
      BY <1>4, <3>1 DEF Error, AlwaysConnecting
    <3>2. CASE ~IsPresent(s)
      <4>1. ws # s
        BY <1>0, <3>2 DEF PresentIsNewest, IsPresent
      <4> QED  BY <1>4, <2>2, <3>2, <4>1 DEF Error, AlwaysConnecting, DashboardTypeOK
    <3> QED  BY <3>1, <3>2
  <2>6. TimerOnlyAfterFailure' /\ QuietAfterDisconnect'
    BY <1>0, <1>4, <2>1 DEF Error, TimerOnlyAfterFailure, QuietAfterDisconnect
  <2> QED  BY <2>3, <2>4, <2>5, <2>6
<1>5. CASE CloseSocket(s)
  <2>1. pending' = [pending EXCEPT ![s] = {}] /\ status[s] = "dead"
    BY <1>5 DEF CloseSocket, EventsOfTheDead
  <2>2. \A x \in Sockets : pending'[x] = IF x = s THEN {} ELSE pending[x]
    BY <2>1 DEF DashboardTypeOK
  <2>3. DashboardTypeOK' /\ last' >= last /\ last' <= generation'
    <3>1. pending' \in [Sockets -> SUBSET {"error", "close"}]
      BY <2>1 DEF DashboardTypeOK
    <3> QED  BY <1>0, <1>5, <3>1 DEF CloseSocket, DashboardTypeOK, Sockets, ConstantsOK
  <2>4. LaterAreUnused' /\ EventsOfTheDead' /\ NoSocketLeaks' /\ PresentIsNewest'
    BY <1>0, <1>5, <2>1, <2>2 DEF CloseSocket, LaterAreUnused, EventsOfTheDead, NoSocketLeaks,
       PresentIsNewest, IsPresent
  <2>5. AlwaysConnecting'
    <3>1. CASE IsPresent(s)
      BY <1>5, <3>1 DEF CloseSocket, AlwaysConnecting
    <3>2. CASE ~IsPresent(s)
      <4>1. ws # s
        BY <1>0, <3>2 DEF PresentIsNewest, IsPresent
      <4> QED  BY <1>5, <2>2, <3>2, <4>1 DEF CloseSocket, AlwaysConnecting, DashboardTypeOK
    <3> QED  BY <3>1, <3>2
  <2>6. TimerOnlyAfterFailure' /\ QuietAfterDisconnect'
    BY <1>0, <1>5, <2>1 DEF CloseSocket, TimerOnlyAfterFailure, QuietAfterDisconnect
  <2> QED  BY <2>3, <2>4, <2>5, <2>6
<1> QED  BY <1>1, <1>2, <1>3, <1>4, <1>5

LEMMA StepKeeps ==
    ASSUME ConstantsOK, IInv, [DashboardNext]_dashboardVars
    PROVE  IInv' /\ last' >= last
<1>0. last \in Nat
  BY DEF IInv, DashboardTypeOK, ConstantsOK
<1>1. CASE ConnectWs
  BY <1>0, <1>1, ConnectKeeps
<1>2. CASE DisconnectWs
  BY <1>0, <1>2, DisconnectKeeps
<1>3. CASE UNCHANGED dashboardVars
  BY <1>0, <1>3 DEF dashboardVars, IInv, DashboardTypeOK, PresentIsNewest, EventsOfTheDead, LaterAreUnused,
     NoSocketLeaks, AlwaysConnecting, TimerOnlyAfterFailure, QuietAfterDisconnect
<1>4. CASE \E s \in Sockets : Opens(s) \/ Message(s) \/ Breaks(s) \/ Error(s) \/ CloseSocket(s)
  BY <1>4, BrowserKeeps
<1> QED
  BY <1>1, <1>2, <1>3, <1>4 DEF DashboardNext, PageConnects, TimerFires, BrowserOnline

LEMMA Inductive ==
    ASSUME ConstantsOK
    PROVE  DashboardSpec => []IInv
<1>1. DashboardInit => IInv  BY Starts
<1>2. IInv /\ [DashboardNext]_dashboardVars => IInv'  BY StepKeeps
<1> QED  BY <1>1, <1>2, PTL DEF DashboardSpec

\* The types of the connection's state hold in every reachable state.
THEOREM DashboardTypeCorrect ==
    ASSUME ConstantsOK
    PROVE  DashboardSpec => []DashboardTypeOK
<1>1. IInv => DashboardTypeOK  BY DEF IInv
<1> QED  BY <1>1, Inductive, PTL

\* Until the page disconnects, a timer, a socket or one of its events is there to bring
\* the connection back (web-adapter.ts:135-146, 277-300).
THEOREM ConnectionComesBack ==
    ASSUME ConstantsOK
    PROVE  DashboardSpec => []AlwaysConnecting
<1>1. IInv => AlwaysConnecting  BY DEF IInv
<1> QED  BY <1>1, Inductive, PTL

\* At most one socket is open or connecting, whoever opened it (web-adapter.ts:218-236).
THEOREM OneSocket ==
    ASSUME ConstantsOK
    PROVE  DashboardSpec => []NoSocketLeaks
<1>1. IInv => NoSocketLeaks  BY DEF IInv
<1> QED  BY <1>1, Inductive, PTL

\* The reconnect timer is never armed while the socket lives, and nothing is left running
\* once the page has disconnected (web-adapter.ts:135-146, 301-312).
THEOREM TimersAreInOrder ==
    ASSUME ConstantsOK
    PROVE  DashboardSpec => [](TimerOnlyAfterFailure /\ QuietAfterDisconnect)
<1>1. IInv => TimerOnlyAfterFailure /\ QuietAfterDisconnect  BY DEF IInv
<1> QED  BY <1>1, Inductive, PTL

\* No event of a replaced socket takes effect once one of its successor has
\* (web-adapter.ts:239-291).
THEOREM EventsInOrder ==
    ASSUME ConstantsOK
    PROVE  DashboardSpec => NoEventOfReplacedSocket
<1>1. IInv /\ [DashboardNext]_dashboardVars => [last' >= last]_dashboardVars
  BY StepKeeps
<1> QED  BY <1>1, Inductive, PTL DEF DashboardSpec, NoEventOfReplacedSocket
=============================================================================
