----------------------- MODULE MessageDeliveryProofs -----------------------
(***************************************************************************)
(* Theorems about MessageDelivery, for every set of messages and tabs and  *)
(* every combination of faults.                                            *)
(***************************************************************************)
EXTENDS MessageDelivery, TLAPS

-----------------------------------------------------------------------------
(* The outbox functions return outboxes.                                    *)

LEMMA EmptyOutboxType == EmptyOutbox \in Entries
  BY DEF EmptyOutbox, NoEntry, Entries, Entry

LEMMA OutboxFunctionsType ==
  ASSUME NEW es \in Entries
  PROVE  /\ FailAgedManual(es) \in Entries
         /\ ExpireStale(es) \in Entries
         /\ ReviveAuto(es) \in Entries
         /\ Persistable(es) \in Entries
         /\ LoadPersisted(es) \in Entries
         /\ \A ids : MarkTransmitted(es, ids) \in Entries
         /\ \A m \in Msgs : /\ Enqueue(es, m) \in Entries
                           /\ MarkSent(es, m) \in Entries
                           /\ Resend(es, m) \in Entries
                           /\ PassWindow(es, m) \in Entries
                           /\ PassAckBudget(es, m) \in Entries
  <1> USE DEF Entries, Entry, NoEntry, Pending, Queued
  <1>1. FailAgedManual(es) \in Entries  BY DEF FailAgedManual
  <1>2. ExpireStale(es) \in Entries  BY DEF ExpireStale
  <1>3. ReviveAuto(es) \in Entries  BY DEF ReviveAuto
  <1>4. Persistable(es) \in Entries  BY DEF Persistable
  <1>5. LoadPersisted(es) \in Entries  BY DEF LoadPersisted
  <1>6. ASSUME NEW ids PROVE MarkTransmitted(es, ids) \in Entries
    BY DEF MarkTransmitted
  <1>7. ASSUME NEW m \in Msgs
        PROVE  /\ Enqueue(es, m) \in Entries
               /\ MarkSent(es, m) \in Entries
               /\ Resend(es, m) \in Entries
               /\ PassWindow(es, m) \in Entries
               /\ PassAckBudget(es, m) \in Entries
    <2>1. Enqueue(es, m) \in Entries  BY DEF Enqueue
    <2>2. MarkSent(es, m) \in Entries  BY DEF MarkSent
    <2>3. Resend(es, m) \in Entries  BY DEF Resend
    <2>4. PassWindow(es, m) \in Entries  BY DEF PassWindow
    <2>5. PassAckBudget(es, m) \in Entries  BY DEF PassAckBudget
    <2> QED BY <2>1, <2>2, <2>3, <2>4, <2>5
  <1> HIDE DEF Entries
  <1> QED BY <1>1, <1>2, <1>3, <1>4, <1>5, <1>6, <1>7

-----------------------------------------------------------------------------
(* What every handler does to the client's state.                           *)

LEMMA SaveType ==
  ASSUME NEW t \in Tabs, NEW es \in Entries, NEW earlier \in SUBSET Entries,
         outbox \in [Tabs -> Entries], storage \in Entries,
         Save(t, es, earlier)
  PROVE  /\ outbox' \in [Tabs -> Entries]
         /\ storage' \in Entries
  <1>1. \A v \in Entries : Persistable(v) \in Entries
    BY OutboxFunctionsType
  <1> QED BY <1>1 DEF Save

LEMMA FlushType ==
  ASSUME NEW t \in Tabs, NEW open \in BOOLEAN, NEW revived \in Entries,
         NEW only \in SUBSET Msgs,
         outbox \in [Tabs -> Entries], storage \in Entries,
         wire \in [Tabs -> SUBSET Msgs],
         Flush(t, open, revived, only)
  PROVE  /\ outbox' \in [Tabs -> Entries]
         /\ storage' \in Entries
         /\ wire' \in [Tabs -> SUBSET Msgs]
  <1> DEFINE aged == FailAgedManual(revived)
             ids  == Sendable(aged) \cap only
  <1>1. aged \in Entries
    BY OutboxFunctionsType
  <1>2. MarkTransmitted(aged, ids) \in Entries
    <2> HIDE DEF aged, ids
    <2> QED BY <1>1, OutboxFunctionsType
  <1>3. ids \in SUBSET Msgs
    BY DEF Sendable
  <1>4. CASE open
    <2>1. Save(t, MarkTransmitted(aged, ids), {revived, aged})
      BY <1>4 DEF Flush
    <2>2. wire' = [wire EXCEPT ![t] = @ \cup ids]
      BY <1>4 DEF Flush
    <2> HIDE DEF aged, ids
    <2> QED BY <2>1, <2>2, <1>1, <1>2, <1>3, SaveType
  <1>5. CASE ~ open
    <2>1. Save(t, revived, {}) /\ wire' = wire
      BY <1>5 DEF Flush
    <2> QED BY <2>1, SaveType
  <1> QED BY <1>4, <1>5

LEMMA DropType ==
  ASSUME NEW ts \in SUBSET Tabs, acks \in [Tabs -> SUBSET Msgs], Drop(ts)
  PROVE  /\ wire' \in [Tabs -> SUBSET Msgs]
         /\ acks' \in [Tabs -> SUBSET Msgs]
  BY DEF Drop

LEMMA TroubleType ==
  ASSUME NEW kind, faults \in 0 .. MaxFaults, Trouble(kind)
  PROVE  faults' \in 0 .. MaxFaults
  BY MaxFaultsAssumption DEF Trouble

-----------------------------------------------------------------------------
(* Type correctness.                                                        *)

LEMMA InitTypeOK == Init => TypeOK
  BY EmptyOutboxType, MaxFaultsAssumption DEF Init, TypeOK

LEMMA TabStepTypeOK ==
  ASSUME TypeOK, NEW t \in Tabs, TabNext(t)
  PROVE  TypeOK'
  <1> USE DEF TypeOK
  <1>1. CASE OpenPage(t)
    <2>1. LoadPersisted(storage) \in Entries
      BY OutboxFunctionsType
    <2> QED BY <1>1, <2>1 DEF OpenPage, serverVars, historyVars
  <1>2. CASE ClosePage(t)
    BY <1>2, EmptyOutboxType, DropType, TroubleType
    DEF ClosePage, serverVars, historyVars
  <1>3. CASE Connect(t)
    <2>1. ReviveAuto(outbox[t]) \in Entries
      BY OutboxFunctionsType, outbox[t] \in Entries
    <2> QED BY <1>3, <2>1, FlushType DEF Connect, serverVars, historyVars
  <1>4. CASE Disconnect(t)
    BY <1>4, DropType, TroubleType DEF Disconnect, serverVars, historyVars
  <1>5. CASE ExpireTick(t)
    <2>1. ExpireStale(outbox[t]) \in Entries
      BY OutboxFunctionsType, outbox[t] \in Entries
    <2> QED BY <1>5, <2>1, SaveType DEF ExpireTick, serverVars, historyVars
  <1>6. CASE Hydrate(t)
    BY <1>6 DEF Hydrate, serverVars, historyVars
  <1>7. CASE ClearHistory(t)
    <2>1. deletions' \in [Msgs -> Nat] /\ rows' \in SUBSET Msgs
      BY <1>7 DEF ClearHistory
    <2> QED BY <1>7, <2>1, TroubleType DEF ClearHistory
  <1>8. CASE \E m \in Msgs : Submit(t, m)
    <2> PICK m \in Msgs : Submit(t, m)  BY <1>8
    <2>1. outbox[t] \in Entries  OBVIOUS
    <2> DEFINE queued == Enqueue(outbox[t], m)
               marked == MarkTransmitted(queued, {m})
    <2>2. queued \in Entries /\ marked \in Entries
      <3>1. queued \in Entries
        BY <2>1, OutboxFunctionsType
      <3> HIDE DEF queued
      <3> QED BY <3>1, OutboxFunctionsType
    <2>3. outbox' \in [Tabs -> Entries] /\ storage' \in Entries
          /\ wire' \in [Tabs -> SUBSET Msgs]
      <3>1. CASE page[t] = "open"
        <4>1. Save(t, marked, {queued}) /\ wire' = [wire EXCEPT ![t] = @ \cup {m}]
          BY <3>1 DEF Submit
        <4> HIDE DEF queued, marked
        <4> QED BY <4>1, <2>2, SaveType
      <3>2. CASE page[t] # "open"
        <4>1. Save(t, queued, {}) /\ wire' = wire
          BY <3>2 DEF Submit
        <4> HIDE DEF queued, marked
        <4> QED BY <4>1, <2>2, SaveType
      <3> QED BY <3>1, <3>2
    <2> QED BY <2>3 DEF Submit, serverVars
  <1>9. CASE \E m \in Msgs : TapResend(t, m)
    <2> PICK m \in Msgs : TapResend(t, m)  BY <1>9
    <2>1. Resend(outbox[t], m) \in Entries
      BY OutboxFunctionsType, outbox[t] \in Entries
    <2>2. outbox' \in [Tabs -> Entries] /\ storage' \in Entries
          /\ wire' \in [Tabs -> SUBSET Msgs]
      <3>1. Flush(t, page[t] = "open", Resend(outbox[t], m), {m})
        BY DEF TapResend
      <3>2. (page[t] = "open") \in BOOLEAN /\ {m} \in SUBSET Msgs
        OBVIOUS
      <3> QED BY <2>1, <3>1, <3>2, FlushType
    <2> QED BY <2>2 DEF TapResend, serverVars, historyVars
  <1>10. CASE \E m \in Msgs : ReceiveAck(t, m)
    <2> PICK m \in Msgs : ReceiveAck(t, m)  BY <1>10
    <2>1. MarkSent(outbox[t], m) \in Entries
      BY OutboxFunctionsType, outbox[t] \in Entries
    <2> QED BY <2>1, SaveType DEF ReceiveAck, serverVars
  <1> QED
    BY <1>1, <1>2, <1>3, <1>4, <1>5, <1>6, <1>7, <1>8, <1>9, <1>10 DEF TabNext

LEMMA ServerStepTypeOK ==
  ASSUME TypeOK, ServerNext
  PROVE  TypeOK'
  <1> USE DEF TypeOK
  <1>1. CASE \E t \in Tabs, m \in Msgs : HandleFrame(t, m)
    <2> PICK t \in Tabs, m \in Msgs : HandleFrame(t, m)  BY <1>1
    <2>1. prompts' \in [Msgs -> Nat]
      BY DEF HandleFrame, SaveRow, Broadcast
    <2>2. acks' \in [Tabs -> SUBSET Msgs]
      BY DEF HandleFrame, SaveRow, Broadcast
    <2> QED BY <2>1, <2>2 DEF HandleFrame, SaveRow, Broadcast, clientVars, historyVars
  <1>2. CASE \E t \in Tabs, m \in Msgs : SaveFails(t, m)
    BY <1>2, TroubleType DEF SaveFails, clientVars, serverVars, historyVars
  <1>3. CASE Crash
    <2>1. rows' \in SUBSET Msgs
      BY <1>3 DEF Crash
    <2> QED BY <1>3, <2>1, TroubleType DEF Crash, historyVars
  <1>4. CASE DisconnectBridge
    BY <1>4, TroubleType DEF DisconnectBridge, clientVars, historyVars
  <1>5. CASE ConnectBridge
    BY <1>5 DEF ConnectBridge, clientVars, historyVars
  <1> QED BY <1>1, <1>2, <1>3, <1>4, <1>5 DEF ServerNext

LEMMA TimeStepTypeOK ==
  ASSUME TypeOK, TimeNext
  PROVE  TypeOK'
  <1> USE DEF TypeOK
  <1> PICK m \in Msgs : WindowPasses(m) \/ AckBudgetPasses(m)
    BY DEF TimeNext
  <1>1. \A es \in Entries : PassWindow(es, m) \in Entries /\ PassAckBudget(es, m) \in Entries
    <2> TAKE es \in Entries
    <2>1. PassWindow(es, m) \in Entries
      BY OutboxFunctionsType
    <2>2. PassAckBudget(es, m) \in Entries
      BY OutboxFunctionsType
    <2> QED BY <2>1, <2>2
  <1>2. CASE WindowPasses(m)
    BY <1>1, <1>2 DEF WindowPasses, serverVars, historyVars
  <1>3. CASE AckBudgetPasses(m)
    BY <1>1, <1>3 DEF AckBudgetPasses, serverVars, historyVars
  <1> QED BY <1>2, <1>3

LEMMA StutterTypeOK == TypeOK /\ UNCHANGED vars => TypeOK'
  BY DEF TypeOK, vars, clientVars, serverVars, historyVars

\* Every variable keeps its type.
THEOREM TypeCorrect == Spec => []TypeOK
  <1>1. TypeOK /\ [Next]_vars => TypeOK'
    BY TabStepTypeOK, ServerStepTypeOK, TimeStepTypeOK, StutterTypeOK DEF Next
  <1> QED BY <1>1, InitTypeOK, PTL DEF Spec

-----------------------------------------------------------------------------
(* The agent is prompted at most once per row.                              *)

LEMMA PromptedStep ==
  ASSUME TypeOK, TypeOK', PromptedOncePerRow, [Next]_vars
  PROVE  PromptedOncePerRow'
  <1> USE DEF TypeOK, PromptedOncePerRow, Stored
  <1>1. CASE UNCHANGED <<rows, prompts, deletions>>
    BY <1>1
  <1>2. ASSUME NEW t \in Tabs, NEW m \in Msgs, HandleFrame(t, m)
        PROVE  PromptedOncePerRow'
    <2>1. /\ rows' = rows \cup {m}
          /\ deletions' = deletions
          /\ prompts' = [prompts EXCEPT ![m] = IF m \notin rows /\ bridgeUp THEN @ + 1 ELSE @]
      BY <1>2 DEF HandleFrame, SaveRow, Broadcast, historyVars
    <2> SUFFICES ASSUME NEW n \in Msgs
                 PROVE  prompts'[n] <= deletions'[n] + (IF n \in rows' THEN 1 ELSE 0)
      OBVIOUS
    <2>2. CASE n = m  BY <2>1, <2>2
    <2>3. CASE n # m  BY <2>1, <2>3
    <2> QED BY <2>2, <2>3
  <1>3. ASSUME NEW t \in Tabs, ClearHistory(t)
        PROVE  PromptedOncePerRow'
    <2>1. prompts' = prompts
      BY <1>3 DEF ClearHistory
    <2>2. CASE UNCHANGED <<rows, deletions>>
      BY <2>1, <2>2
    <2>3. CASE /\ rows' = {}
               /\ deletions' = [m \in Msgs |-> deletions[m] + (IF m \in rows THEN 1 ELSE 0)]
      BY <2>1, <2>3
    <2> QED BY <1>3, <2>2, <2>3 DEF ClearHistory
  <1>4. CASE Crash
    <2>1. rows \subseteq rows' /\ prompts' = prompts /\ deletions' = deletions
      BY <1>4 DEF Crash, historyVars
    <2> QED BY <2>1
  <1>5. ASSUME NEW t \in Tabs, TabNext(t)
        PROVE  PromptedOncePerRow'
    <2>1. CASE ClearHistory(t)  BY <1>3, <2>1
    <2>2. CASE ~ ClearHistory(t)
      <3>1. UNCHANGED <<rows, prompts, deletions>>
        BY <1>5, <2>2
        DEF TabNext, OpenPage, ClosePage, Connect, Disconnect, ExpireTick, Hydrate,
            Submit, TapResend, ReceiveAck, serverVars, historyVars
      <3> QED BY <3>1, <1>1
    <2> QED BY <2>1, <2>2
  <1>6. CASE ServerNext
    <2>1. CASE \E t \in Tabs, m \in Msgs : HandleFrame(t, m)  BY <1>2, <2>1
    <2>2. CASE \/ \E t \in Tabs, m \in Msgs : SaveFails(t, m)
               \/ DisconnectBridge
               \/ ConnectBridge
      <3>1. UNCHANGED <<rows, prompts, deletions>>
        BY <2>2 DEF SaveFails, DisconnectBridge, ConnectBridge, serverVars, historyVars
      <3> QED BY <3>1, <1>1
    <2> QED BY <1>4, <1>6, <2>1, <2>2 DEF ServerNext
  <1>7. CASE TimeNext
    BY <1>1, <1>7 DEF TimeNext, WindowPasses, AckBudgetPasses, serverVars, historyVars
  <1>8. CASE UNCHANGED vars
    BY <1>1, <1>8 DEF vars, serverVars, historyVars
  <1> QED BY <1>5, <1>6, <1>7, <1>8 DEF Next

\* However a message is resent, the agent is prompted with it at most once for
\* each time its row was created.
THEOREM AtMostOncePrompt == Spec => []PromptedOncePerRow
  <1>1. Init => PromptedOncePerRow
    <2> SUFFICES ASSUME Init, NEW m \in Msgs
                 PROVE  prompts[m] <= deletions[m] + Stored(m)
      BY DEF PromptedOncePerRow
    <2>1. prompts[m] = 0 /\ deletions[m] = 0 /\ Stored(m) = 0
      BY DEF Init, Stored
    <2> QED BY <2>1
  <1>2. TypeOK /\ TypeOK' /\ PromptedOncePerRow /\ [Next]_vars => PromptedOncePerRow'
    BY PromptedStep
  <1> QED BY <1>1, <1>2, TypeCorrect, PTL DEF Spec

-----------------------------------------------------------------------------
(* Nothing is queued, sent or acknowledged out of thin air.                 *)

LEMMA QueuedFacts ==
  ASSUME NEW es \in Entries
  PROVE  /\ Queued(FailAgedManual(es)) \subseteq Queued(es)
         /\ Sendable(es) \subseteq Queued(es)
         /\ Queued(ExpireStale(es)) \subseteq Queued(es)
         /\ Queued(ReviveAuto(es)) \subseteq Queued(es)
         /\ Queued(Persistable(es)) \subseteq Queued(es)
         /\ Queued(LoadPersisted(es)) \subseteq Queued(es)
         /\ \A ids : Queued(MarkTransmitted(es, ids)) \subseteq Queued(es)
         /\ \A m \in Msgs : /\ Queued(Enqueue(es, m)) \subseteq Queued(es) \cup {m}
                           /\ Queued(MarkSent(es, m)) \subseteq Queued(es)
                           /\ Queued(Resend(es, m)) \subseteq Queued(es)
                           /\ Queued(PassWindow(es, m)) \subseteq Queued(es)
                           /\ Queued(PassAckBudget(es, m)) \subseteq Queued(es)
  <1> USE DEF Entries, Entry, NoEntry, Pending, Queued
  <1>1. Queued(FailAgedManual(es)) \subseteq Queued(es)  BY DEF FailAgedManual
  <1>2. Sendable(es) \subseteq Queued(es)  BY DEF Sendable
  <1>3. Queued(ExpireStale(es)) \subseteq Queued(es)  BY DEF ExpireStale
  <1>4. Queued(ReviveAuto(es)) \subseteq Queued(es)  BY DEF ReviveAuto
  <1>5. Queued(Persistable(es)) \subseteq Queued(es)  BY DEF Persistable
  <1>6. Queued(LoadPersisted(es)) \subseteq Queued(es)  BY DEF LoadPersisted
  <1>7. ASSUME NEW ids PROVE Queued(MarkTransmitted(es, ids)) \subseteq Queued(es)
    BY DEF MarkTransmitted
  <1>8. ASSUME NEW m \in Msgs
        PROVE  /\ Queued(Enqueue(es, m)) \subseteq Queued(es) \cup {m}
               /\ Queued(MarkSent(es, m)) \subseteq Queued(es)
               /\ Queued(Resend(es, m)) \subseteq Queued(es)
               /\ Queued(PassWindow(es, m)) \subseteq Queued(es)
               /\ Queued(PassAckBudget(es, m)) \subseteq Queued(es)
    <2>1. Queued(Enqueue(es, m)) \subseteq Queued(es) \cup {m}  BY DEF Enqueue
    <2>2. Queued(MarkSent(es, m)) \subseteq Queued(es)  BY DEF MarkSent
    <2>3. Queued(Resend(es, m)) \subseteq Queued(es)  BY DEF Resend
    <2>4. Queued(PassWindow(es, m)) \subseteq Queued(es)  BY DEF PassWindow
    <2>5. Queued(PassAckBudget(es, m)) \subseteq Queued(es)  BY DEF PassAckBudget
    <2> QED BY <2>1, <2>2, <2>3, <2>4, <2>5
  <1> HIDE DEF Entries, Queued
  <1> QED BY <1>1, <1>2, <1>3, <1>4, <1>5, <1>6, <1>7, <1>8

\* Saving a map whose entries, and those of its earlier versions, are in S.
LEMMA SaveQueued ==
  ASSUME NEW S, NEW t \in Tabs, NEW es \in Entries, NEW earlier \in SUBSET Entries,
         outbox \in [Tabs -> Entries], storage \in Entries,
         \A u \in Tabs : Queued(outbox[u]) \subseteq S,
         Queued(storage) \subseteq S,
         Queued(es) \subseteq S,
         \A v \in earlier : Queued(v) \subseteq S,
         Save(t, es, earlier)
  PROVE  /\ \A u \in Tabs : Queued(outbox'[u]) \subseteq S
         /\ Queued(storage') \subseteq S
  <1>1. \A v \in Entries : Queued(Persistable(v)) \subseteq Queued(v)
    BY QueuedFacts
  <1>2. Queued(storage') \subseteq S
    <2>1. storage' \in {Persistable(v) : v \in earlier \cup {es}} \cup {storage}
      BY DEF Save
    <2> QED BY <2>1, <1>1
  <1>3. \A u \in Tabs : outbox'[u] = IF u = t THEN es ELSE outbox[u]
    BY DEF Save
  <1> QED BY <1>2, <1>3

LEMMA FlushQueued ==
  ASSUME NEW S, NEW t \in Tabs, NEW open \in BOOLEAN, NEW revived \in Entries,
         NEW only \in SUBSET Msgs,
         outbox \in [Tabs -> Entries], storage \in Entries,
         wire \in [Tabs -> SUBSET Msgs],
         \A u \in Tabs : Queued(outbox[u]) \subseteq S /\ wire[u] \subseteq S,
         Queued(storage) \subseteq S,
         Queued(revived) \subseteq S,
         Flush(t, open, revived, only)
  PROVE  /\ \A u \in Tabs : Queued(outbox'[u]) \subseteq S /\ wire'[u] \subseteq S
         /\ Queued(storage') \subseteq S
  <1> DEFINE aged == FailAgedManual(revived)
             ids  == Sendable(aged) \cap only
             marked == MarkTransmitted(aged, ids)
  <1>1. aged \in Entries
    BY OutboxFunctionsType
  <1>2. Queued(aged) \subseteq Queued(revived)
    BY QueuedFacts
  <1>3. marked \in Entries /\ Queued(marked) \subseteq Queued(aged)
    <2> HIDE DEF aged, ids
    <2> QED BY <1>1, OutboxFunctionsType, QueuedFacts
  <1>4. ids \subseteq Queued(aged)
    BY DEF Sendable, Queued
  <1>5. CASE open
    <2>1. Save(t, marked, {revived, aged})
      BY <1>5 DEF Flush
    <2>2. wire' = [wire EXCEPT ![t] = @ \cup ids]
      BY <1>5 DEF Flush
    <2> HIDE DEF aged, ids, marked
    <2>3. \A u \in Tabs : wire'[u] \subseteq S
      BY <2>2, <1>2, <1>4
    <2>4. Queued(marked) \subseteq S /\ \A v \in {revived, aged} : Queued(v) \subseteq S
      BY <1>2, <1>3
    <2>5. /\ \A u \in Tabs : Queued(outbox'[u]) \subseteq S
          /\ Queued(storage') \subseteq S
      BY <2>1, <2>4, <1>1, <1>3, SaveQueued
    <2> QED BY <2>3, <2>5
  <1>6. CASE ~ open
    <2>1. Save(t, revived, {}) /\ wire' = wire
      BY <1>6 DEF Flush
    <2>2. /\ \A u \in Tabs : Queued(outbox'[u]) \subseteq S
          /\ Queued(storage') \subseteq S
      BY <2>1, SaveQueued
    <2> QED BY <2>1, <2>2
  <1> QED BY <1>5, <1>6

IntakeInv == NothingOutOfThinAir /\ ConfirmedWasStored

LEMMA KnownStays ==
  ASSUME TypeOK, NEW m \in Msgs, Known(m),
         \/ rows \subseteq rows' /\ deletions' = deletions
         \/ /\ rows' = {}
            /\ deletions' = [n \in Msgs |-> deletions[n] + (IF n \in rows THEN 1 ELSE 0)]
  PROVE  Known(m)'
  BY DEF TypeOK, Known

LEMMA IntakeTabStep ==
  ASSUME TypeOK, IntakeInv, NEW t \in Tabs, TabNext(t)
  PROVE  IntakeInv'
  <1>a. /\ outbox \in [Tabs -> Entries]
        /\ storage \in Entries
        /\ wire \in [Tabs -> SUBSET Msgs]
        /\ outbox[t] \in Entries
    BY DEF TypeOK
  <1>b. /\ \A u \in Tabs : Queued(outbox[u]) \subseteq submitted /\ wire[u] \subseteq submitted
        /\ Queued(storage) \subseteq submitted
    BY DEF IntakeInv, NothingOutOfThinAir
  <1>c. {} \in SUBSET Entries /\ \A v \in {} : Queued(v) \subseteq submitted
    OBVIOUS
  <1>1. CASE OpenPage(t)
    <2>1. Queued(LoadPersisted(storage)) \subseteq Queued(storage)
      BY <1>a, QueuedFacts
    <2>2. \A u \in Tabs : outbox'[u] = IF u = t THEN LoadPersisted(storage) ELSE outbox[u]
      BY <1>1, <1>a DEF OpenPage
    <2>3. UNCHANGED <<storage, wire, acks, rows, submitted, confirmed, deletions>>
      BY <1>1 DEF OpenPage, serverVars, historyVars
    <2> QED BY <2>1, <2>2, <2>3 DEF Known, IntakeInv, NothingOutOfThinAir, ConfirmedWasStored, TypeOK
  <1>2. CASE ClosePage(t)
    <2>1. Queued(EmptyOutbox) = {}
      BY DEF Queued, EmptyOutbox, NoEntry
    <2>2. \A u \in Tabs : outbox'[u] = IF u = t THEN EmptyOutbox ELSE outbox[u]
      BY <1>2, <1>a DEF ClosePage
    <2>3. \A u \in Tabs : wire'[u] \subseteq wire[u] /\ acks'[u] \subseteq acks[u]
      BY <1>2 DEF ClosePage, Drop
    <2>4. UNCHANGED <<storage, rows, submitted, confirmed, deletions>>
      BY <1>2 DEF ClosePage, serverVars, historyVars
    <2> QED BY <2>1, <2>2, <2>3, <2>4 DEF Known, IntakeInv, NothingOutOfThinAir, ConfirmedWasStored, TypeOK
  <1>3. CASE Connect(t)
    <2>1. ReviveAuto(outbox[t]) \in Entries
      BY <1>a, OutboxFunctionsType
    <2>2. Queued(ReviveAuto(outbox[t])) \subseteq Queued(outbox[t])
      BY <1>a DEF Queued, ReviveAuto
    <2>3. Flush(t, TRUE, ReviveAuto(outbox[t]), Msgs)
      BY <1>3 DEF Connect
    <2>4. UNCHANGED <<acks, rows, submitted, confirmed, deletions>>
      BY <1>3 DEF Connect, serverVars, historyVars
    <2>5. /\ \A u \in Tabs : Queued(outbox'[u]) \subseteq submitted /\ wire'[u] \subseteq submitted
          /\ Queued(storage') \subseteq submitted
      BY <2>1, <2>2, <2>3, FlushQueued, <1>a, <1>b
    <2> QED BY <2>4, <2>5 DEF Known, IntakeInv, NothingOutOfThinAir, ConfirmedWasStored, TypeOK
  <1>4. CASE Disconnect(t)
    <2>1. \A u \in Tabs : wire'[u] \subseteq wire[u] /\ acks'[u] \subseteq acks[u]
      BY <1>4 DEF Disconnect, Drop
    <2>2. UNCHANGED <<outbox, storage, rows, submitted, confirmed, deletions>>
      BY <1>4 DEF Disconnect, serverVars, historyVars
    <2> QED BY <2>1, <2>2 DEF Known, IntakeInv, NothingOutOfThinAir, ConfirmedWasStored, TypeOK
  <1>5. CASE ExpireTick(t)
    <2>1. ExpireStale(outbox[t]) \in Entries
      BY <1>a, OutboxFunctionsType
    <2>2. Queued(ExpireStale(outbox[t])) \subseteq Queued(outbox[t])
      BY <1>a DEF Queued, ExpireStale
    <2>3. Save(t, ExpireStale(outbox[t]), {})
      BY <1>5 DEF ExpireTick
    <2>4. UNCHANGED <<wire, acks, rows, submitted, confirmed, deletions>>
      BY <1>5 DEF ExpireTick, serverVars, historyVars
    <2>5. /\ \A u \in Tabs : Queued(outbox'[u]) \subseteq submitted
          /\ Queued(storage') \subseteq submitted
      BY <2>1, <2>2, <2>3, SaveQueued, <1>a, <1>b, <1>c
    <2> QED BY <2>4, <2>5 DEF Known, IntakeInv, NothingOutOfThinAir, ConfirmedWasStored, TypeOK
  <1>6. CASE Hydrate(t)
    BY <1>6 DEF Hydrate, serverVars, historyVars, Known, IntakeInv, NothingOutOfThinAir,
                ConfirmedWasStored
  <1>7. CASE ClearHistory(t)
    <2>1. UNCHANGED <<outbox, storage, wire, acks, submitted, confirmed>>
      BY <1>7 DEF ClearHistory
    <2>2. \A m \in Msgs : Known(m) => Known(m)'
      BY <1>7, KnownStays DEF ClearHistory
    <2> QED BY <2>1, <2>2 DEF IntakeInv, NothingOutOfThinAir, ConfirmedWasStored, TypeOK
  <1>8. CASE \E m \in Msgs : Submit(t, m)
    <2> PICK m \in Msgs : Submit(t, m)  BY <1>8
    <2> DEFINE queued == Enqueue(outbox[t], m)
               marked == MarkTransmitted(queued, {m})
    <2>1. queued \in Entries /\ Queued(queued) \subseteq Queued(outbox[t]) \cup {m}
      BY <1>a, OutboxFunctionsType, QueuedFacts
    <2>2. marked \in Entries /\ Queued(marked) \subseteq Queued(queued)
      <3> HIDE DEF queued
      <3> QED BY <2>1, OutboxFunctionsType, QueuedFacts
    <2>3. submitted' = submitted \cup {m}
      BY DEF Submit
    <2>4. UNCHANGED <<acks, rows, confirmed, deletions>>
      BY DEF Submit, serverVars
    <2>5. /\ \A u \in Tabs : Queued(outbox'[u]) \subseteq submitted' /\ wire'[u] \subseteq submitted'
          /\ Queued(storage') \subseteq submitted'
      <3>1. CASE page[t] = "open"
        <4>1. Save(t, marked, {queued}) /\ wire' = [wire EXCEPT ![t] = @ \cup {m}]
          BY <3>1 DEF Submit
        <4> HIDE DEF queued, marked
        <4>2. /\ \A u \in Tabs : Queued(outbox'[u]) \subseteq submitted'
              /\ Queued(storage') \subseteq submitted'
          BY <4>1, <2>1, <2>2, <2>3, SaveQueued, <1>a, <1>b, <1>c
        <4> QED BY <4>1, <4>2, <2>3, <1>a, <1>b
      <3>2. CASE page[t] # "open"
        <4>1. Save(t, queued, {}) /\ wire' = wire
          BY <3>2 DEF Submit
        <4> HIDE DEF queued, marked
        <4>2. /\ \A u \in Tabs : Queued(outbox'[u]) \subseteq submitted'
              /\ Queued(storage') \subseteq submitted'
          BY <4>1, <2>1, <2>3, SaveQueued, <1>a, <1>b, <1>c
        <4> QED BY <4>1, <4>2, <2>3, <1>a, <1>b
      <3> QED BY <3>1, <3>2
    <2> QED BY <2>3, <2>4, <2>5 DEF Known, IntakeInv, NothingOutOfThinAir, ConfirmedWasStored, TypeOK
  <1>9. CASE \E m \in Msgs : TapResend(t, m)
    <2> PICK m \in Msgs : TapResend(t, m)  BY <1>9
    <2>1. /\ Resend(outbox[t], m) \in Entries
          /\ Queued(Resend(outbox[t], m)) \subseteq Queued(outbox[t])
      BY <1>a, OutboxFunctionsType, QueuedFacts
    <2>2. Flush(t, page[t] = "open", Resend(outbox[t], m), {m})
      BY DEF TapResend
    <2>3. UNCHANGED <<acks, rows, submitted, confirmed, deletions>>
      BY DEF TapResend, serverVars, historyVars
    <2>4. (page[t] = "open") \in BOOLEAN /\ {m} \in SUBSET Msgs
      OBVIOUS
    <2>5. /\ \A u \in Tabs : Queued(outbox'[u]) \subseteq submitted /\ wire'[u] \subseteq submitted
          /\ Queued(storage') \subseteq submitted
      BY ZenonT(60), <2>1, <2>2, <2>4, FlushQueued, <1>a, <1>b
    <2> QED BY <2>3, <2>5 DEF Known, IntakeInv, NothingOutOfThinAir, ConfirmedWasStored, TypeOK
  <1>10. CASE \E m \in Msgs : ReceiveAck(t, m)
    <2> PICK m \in Msgs : ReceiveAck(t, m)  BY <1>10
    <2>1. /\ MarkSent(outbox[t], m) \in Entries
          /\ Queued(MarkSent(outbox[t], m)) \subseteq Queued(outbox[t])
      BY <1>a, OutboxFunctionsType, QueuedFacts
    <2>2. Save(t, MarkSent(outbox[t], m), {})
      BY DEF ReceiveAck
    <2>3. /\ UNCHANGED <<wire, rows, submitted, deletions>>
          /\ confirmed' = confirmed \cup {m}
          /\ \A u \in Tabs : acks'[u] \subseteq acks[u]
          /\ m \in acks[t]
      BY DEF ReceiveAck, serverVars
    <2>4. /\ \A u \in Tabs : Queued(outbox'[u]) \subseteq submitted
          /\ Queued(storage') \subseteq submitted
      BY <2>1, <2>2, SaveQueued, <1>a, <1>b, <1>c
    <2> QED BY <2>3, <2>4 DEF Known, IntakeInv, NothingOutOfThinAir, ConfirmedWasStored, TypeOK
  <1> QED
    BY <1>1, <1>2, <1>3, <1>4, <1>5, <1>6, <1>7, <1>8, <1>9, <1>10 DEF TabNext

LEMMA IntakeServerStep ==
  ASSUME TypeOK, IntakeInv, ServerNext
  PROVE  IntakeInv'
  <1> USE DEF TypeOK, IntakeInv, NothingOutOfThinAir, ConfirmedWasStored
  <1>1. CASE \E t \in Tabs, m \in Msgs : HandleFrame(t, m)
    <2> PICK t \in Tabs, m \in Msgs : HandleFrame(t, m)  BY <1>1
    <2>1. UNCHANGED <<outbox, storage, submitted, confirmed, deletions>>
      BY DEF HandleFrame, SaveRow, Broadcast, clientVars, historyVars
    <2>2. rows' = rows \cup {m} /\ \A u \in Tabs : wire'[u] \subseteq wire[u]
      BY DEF HandleFrame, SaveRow, Broadcast
    <2>3. \A u \in Tabs : acks'[u] \subseteq acks[u] \cup {m}
      BY DEF HandleFrame, SaveRow, Broadcast
    <2> QED BY <2>1, <2>2, <2>3 DEF Known
  <1>2. CASE \E t \in Tabs, m \in Msgs : SaveFails(t, m)
    <2>1. UNCHANGED <<outbox, storage, submitted, confirmed, deletions, rows, acks>>
      BY <1>2 DEF SaveFails, clientVars, serverVars, historyVars
    <2>2. \A u \in Tabs : wire'[u] \subseteq wire[u]
      BY <1>2 DEF SaveFails
    <2> QED BY <2>1, <2>2 DEF Known
  <1>3. CASE Crash
    <2>1. UNCHANGED <<outbox, storage, submitted, confirmed, deletions>> /\ rows \subseteq rows'
      BY <1>3 DEF Crash, historyVars
    <2>2. \A u \in Tabs : wire'[u] = {} /\ acks'[u] = {}
      BY <1>3 DEF Crash
    <2> QED BY <2>1, <2>2 DEF Known
  <1>4. CASE DisconnectBridge \/ ConnectBridge
    BY <1>4 DEF DisconnectBridge, ConnectBridge, clientVars, historyVars, Known
  <1> QED BY <1>1, <1>2, <1>3, <1>4 DEF ServerNext

LEMMA IntakeTimeStep ==
  ASSUME TypeOK, IntakeInv, TimeNext
  PROVE  IntakeInv'
  <1> USE DEF TypeOK, IntakeInv, NothingOutOfThinAir, ConfirmedWasStored
  <1> PICK m \in Msgs : WindowPasses(m) \/ AckBudgetPasses(m)
    BY DEF TimeNext
  <1>1. \A es \in Entries : /\ Queued(PassWindow(es, m)) \subseteq Queued(es)
                          /\ Queued(PassAckBudget(es, m)) \subseteq Queued(es)
    BY QueuedFacts
  <1>2. UNCHANGED <<wire, acks, rows, submitted, confirmed, deletions>>
    BY DEF WindowPasses, AckBudgetPasses, serverVars, historyVars
  <1>3. /\ Queued(storage') \subseteq Queued(storage)
        /\ \A u \in Tabs : Queued(outbox'[u]) \subseteq Queued(outbox[u])
    BY <1>1 DEF WindowPasses, AckBudgetPasses
  <1> QED BY <1>2, <1>3 DEF Known

LEMMA IntakeInit == Init => IntakeInv
  BY DEF Init, IntakeInv, NothingOutOfThinAir, ConfirmedWasStored, Queued, EmptyOutbox,
         NoEntry, Known

\* A message is shown as delivered only once the server has stored it.
THEOREM ConfirmedMeansStored == Spec => [](NothingOutOfThinAir /\ ConfirmedWasStored)
  <1>1. TypeOK /\ IntakeInv /\ UNCHANGED vars => IntakeInv'
    BY DEF vars, clientVars, serverVars, historyVars, IntakeInv, NothingOutOfThinAir,
           ConfirmedWasStored, Known
  <1>2. TypeOK /\ IntakeInv /\ [Next]_vars => IntakeInv'
    BY <1>1, IntakeTabStep, IntakeServerStep, IntakeTimeStep DEF Next
  <1> QED BY <1>2, IntakeInit, TypeCorrect, PTL DEF Spec, IntakeInv

-----------------------------------------------------------------------------
(* A manual message is not replayed after its window.                       *)

\* What flushOutbox writes to the socket is not past its window.
LEMMA FlushInWindow ==
  ASSUME NEW t \in Tabs, NEW open \in BOOLEAN, NEW revived \in Entries,
         NEW only \in SUBSET Msgs,
         outbox \in [Tabs -> Entries], wire \in [Tabs -> SUBSET Msgs],
         Flush(t, open, revived, only)
  PROVE  WrittenInWindow
  <1> DEFINE aged == FailAgedManual(revived)
             ids  == Sendable(aged) \cap only
             marked == MarkTransmitted(aged, ids)
  <1>1. aged \in Entries
    BY OutboxFunctionsType
  <1>2. \A m \in ids : Policy[m] = "manual" => ~ aged[m].aged
    BY DEF Entries, Entry, FailAgedManual, Sendable
  <1>3. \A m \in Msgs : marked[m].aged = aged[m].aged
    <2> HIDE DEF aged, ids
    <2> QED BY <1>1 DEF Entries, Entry, MarkTransmitted
  <1>4. CASE open
    <2>1. outbox' = [outbox EXCEPT ![t] = marked]
      BY <1>4 DEF Flush, Save
    <2>2. wire' = [wire EXCEPT ![t] = @ \cup ids]
      BY <1>4 DEF Flush
    <2> HIDE DEF aged, ids, marked
    <2> QED BY <2>1, <2>2, <1>2, <1>3 DEF WrittenInWindow
  <1>5. CASE ~ open
    <2>1. wire' = wire
      BY <1>5 DEF Flush
    <2> QED BY <2>1 DEF WrittenInWindow
  <1> QED BY <1>4, <1>5

LEMMA NothingWritten ==
  ASSUME \A t \in Tabs : wire'[t] \subseteq wire[t]
  PROVE  WrittenInWindow
  BY DEF WrittenInWindow

LEMMA TabStepInWindow ==
  ASSUME TypeOK, NEW t \in Tabs, TabNext(t)
  PROVE  WrittenInWindow
  <1>a. /\ outbox \in [Tabs -> Entries]
        /\ wire \in [Tabs -> SUBSET Msgs]
        /\ outbox[t] \in Entries
    BY DEF TypeOK
  <1>1. CASE OpenPage(t) \/ ExpireTick(t) \/ Hydrate(t) \/ ClearHistory(t)
    <2>1. wire' = wire
      BY <1>1 DEF OpenPage, ExpireTick, Hydrate, ClearHistory
    <2> QED BY <2>1, NothingWritten
  <1>2. CASE ClosePage(t) \/ Disconnect(t)
    <2>1. \A u \in Tabs : wire'[u] \subseteq wire[u]
      BY <1>2, <1>a DEF ClosePage, Disconnect, Drop
    <2> QED BY <2>1, NothingWritten
  <1>3. CASE Connect(t)
    <2>1. ReviveAuto(outbox[t]) \in Entries
      BY <1>a, OutboxFunctionsType
    <2> QED BY <1>3, <1>a, <2>1, FlushInWindow DEF Connect
  <1>4. CASE \E m \in Msgs : Submit(t, m)
    <2> PICK m \in Msgs : Submit(t, m)  BY <1>4
    <2> DEFINE queued == Enqueue(outbox[t], m)
               marked == MarkTransmitted(queued, {m})
    <2>1. CASE page[t] = "open"
      <3>1. ~ marked[m].aged
        BY <1>a DEF Enqueue, MarkTransmitted, Pending, NoEntry, Entries, Entry
      <3>2. outbox' = [outbox EXCEPT ![t] = marked] /\ wire' = [wire EXCEPT ![t] = @ \cup {m}]
        BY <2>1 DEF Submit, Save
      <3> HIDE DEF queued, marked
      <3> QED BY <1>a, <3>1, <3>2 DEF WrittenInWindow
    <2>2. CASE page[t] # "open"
      <3>1. wire' = wire
        BY <2>2 DEF Submit
      <3> QED BY <3>1, NothingWritten
    <2> QED BY <2>1, <2>2
  <1>5. CASE \E m \in Msgs : TapResend(t, m)
    <2> PICK m \in Msgs : TapResend(t, m)  BY <1>5
    <2>1. Resend(outbox[t], m) \in Entries
      BY <1>a, OutboxFunctionsType
    <2>2. Flush(t, page[t] = "open", Resend(outbox[t], m), {m})
      BY DEF TapResend
    <2>3. (page[t] = "open") \in BOOLEAN /\ {m} \in SUBSET Msgs
      OBVIOUS
    <2> QED BY <1>a, <2>1, <2>2, <2>3, FlushInWindow
  <1>6. CASE \E m \in Msgs : ReceiveAck(t, m)
    <2>1. wire' = wire
      BY <1>6 DEF ReceiveAck
    <2> QED BY <2>1, NothingWritten
  <1> QED BY <1>1, <1>2, <1>3, <1>4, <1>5, <1>6 DEF TabNext

\* A manual message is written to a socket only within two minutes of the
\* user's last expression of it.
THEOREM ManualStaysInWindow == Spec => ManualNotReplayedLate
  <1>1. TypeOK /\ ServerNext => WrittenInWindow
    <2> SUFFICES ASSUME TypeOK, ServerNext PROVE WrittenInWindow
      OBVIOUS
    <2>1. \A u \in Tabs : wire'[u] \subseteq wire[u]
      BY DEF ServerNext, HandleFrame, SaveRow, Broadcast, SaveFails, Crash, DisconnectBridge,
             ConnectBridge, TypeOK
    <2> QED BY <2>1, NothingWritten
  <1>2. TimeNext => WrittenInWindow
    BY NothingWritten DEF TimeNext, WindowPasses, AckBudgetPasses
  <1>3. TypeOK /\ [Next]_vars => [WrittenInWindow]_vars
    BY <1>1, <1>2, TabStepInWindow DEF Next
  <1> QED BY <1>3, TypeCorrect, PTL DEF Spec, ManualNotReplayedLate

-----------------------------------------------------------------------------
(* MessageDelivery implements MessageIntake.                                *)

LEMMA TabStepRefines ==
  ASSUME TypeOK, IntakeInv, NEW t \in Tabs, TabNext(t)
  PROVE  [Intake!Next]_(Intake!vars)
  <1>1. CASE \/ OpenPage(t) \/ ClosePage(t) \/ Connect(t) \/ Disconnect(t)
             \/ ExpireTick(t) \/ Hydrate(t) \/ \E m \in Msgs : TapResend(t, m)
    <2>1. UNCHANGED <<submitted, rows, deletions, prompts, confirmed>>
      BY <1>1 DEF OpenPage, ClosePage, Connect, Disconnect, ExpireTick, Hydrate,
                  TapResend, serverVars, historyVars
    <2> QED BY <2>1 DEF Intake!vars
  <1>2. CASE ClearHistory(t)
    <2>1. UNCHANGED <<submitted, prompts, confirmed>>
      BY <1>2 DEF ClearHistory
    <2>2. CASE UNCHANGED <<rows, deletions>>
      BY <2>1, <2>2 DEF Intake!vars
    <2>3. CASE /\ rows' = {}
               /\ deletions' = [m \in Msgs |-> deletions[m] + (IF m \in rows THEN 1 ELSE 0)]
      <3>1. CASE rows # {}
        BY <2>1, <2>3, <3>1 DEF Intake!Next, Intake!Forget
      <3>2. CASE rows = {}
        <4>1. \A m \in Msgs : deletions[m] + 0 = deletions[m]
          BY DEF TypeOK
        <4>2. deletions' = deletions
          BY <2>3, <3>2, <4>1 DEF TypeOK
        <4> QED BY <2>1, <2>3, <3>2, <4>2 DEF Intake!vars
      <3> QED BY <3>1, <3>2
    <2> QED BY <1>2, <2>2, <2>3 DEF ClearHistory
  <1>3. CASE \E m \in Msgs : Submit(t, m)
    <2> PICK m \in Msgs : Submit(t, m)  BY <1>3
    <2>1. Intake!Submit(m)
      BY DEF Submit, Intake!Submit, serverVars
    <2> QED BY <2>1 DEF Intake!Next
  <1>4. CASE \E m \in Msgs : ReceiveAck(t, m)
    <2> PICK m \in Msgs : ReceiveAck(t, m)  BY <1>4
    <2>1. m \in rows \/ deletions[m] > 0
      BY DEF ReceiveAck, IntakeInv, NothingOutOfThinAir, Known
    <2>2. Intake!Confirm(m)
      BY <2>1 DEF ReceiveAck, Intake!Confirm, serverVars
    <2> QED BY <2>2 DEF Intake!Next
  <1> QED BY <1>1, <1>2, <1>3, <1>4 DEF TabNext

LEMMA ServerStepRefines ==
  ASSUME TypeOK, IntakeInv, ServerNext
  PROVE  [Intake!Next]_(Intake!vars)
  <1>1. CASE \E t \in Tabs, m \in Msgs : HandleFrame(t, m)
    <2> PICK t \in Tabs, m \in Msgs : HandleFrame(t, m)  BY <1>1
    <2>1. /\ UNCHANGED <<submitted, deletions, confirmed>>
          /\ m \in submitted
          /\ rows' = rows \cup {m}
          /\ prompts' = [prompts EXCEPT ![m] = IF m \notin rows /\ bridgeUp THEN @ + 1 ELSE @]
      BY DEF HandleFrame, SaveRow, Broadcast, historyVars, IntakeInv, NothingOutOfThinAir
    <2>2. CASE m \in rows
      <3>1. prompts' = prompts /\ rows' = rows
        BY <2>1, <2>2 DEF TypeOK
      <3> QED BY <2>1, <3>1 DEF Intake!vars
    <2>3. CASE m \notin rows
      <3>1. \E n \in {0, 1} : prompts' = [prompts EXCEPT ![m] = @ + n]
        <4>1. prompts[m] \in Nat
          BY DEF TypeOK
        <4>2. CASE bridgeUp
          BY <2>1, <2>3, <4>2
        <4>3. CASE ~ bridgeUp
          <5>1. prompts' = [prompts EXCEPT ![m] = @]
            BY <2>1, <4>3
          <5>2. prompts[m] + 0 = prompts[m]
            BY <4>1
          <5> QED BY <5>1, <5>2
        <4> QED BY <4>2, <4>3
      <3>2. Intake!Take(m)
        BY <2>1, <2>3, <3>1 DEF Intake!Take
      <3> QED BY <3>2 DEF Intake!Next
    <2> QED BY <2>2, <2>3
  <1>2. CASE Crash
    <2>1. UNCHANGED <<prompts, submitted, deletions, confirmed>>
      BY <1>2 DEF Crash, historyVars
    <2>2. PICK saved \in {{}} \cup {{m} : m \in UNION {wire[t] : t \in Tabs}} :
                 rows' = rows \cup saved
      BY <1>2 DEF Crash
    <2>3. CASE saved \subseteq rows
      BY <2>1, <2>2, <2>3 DEF Intake!vars
    <2>4. CASE ~ (saved \subseteq rows)
      <3>1. PICK m : saved = {m} /\ m \in submitted \ rows
        BY <2>2, <2>4 DEF IntakeInv, NothingOutOfThinAir
      <3>2. m \in Msgs
        BY <3>1 DEF TypeOK
      <3>3. prompts' = [prompts EXCEPT ![m] = @ + 0]
        BY <2>1, <3>2 DEF TypeOK
      <3>4. Intake!Take(m)
        BY <2>1, <2>2, <3>1, <3>3 DEF Intake!Take
      <3> QED BY <3>2, <3>4 DEF Intake!Next
    <2> QED BY <2>3, <2>4
  <1>3. CASE \/ \E t \in Tabs, m \in Msgs : SaveFails(t, m)
             \/ DisconnectBridge \/ ConnectBridge
    BY <1>3 DEF SaveFails, DisconnectBridge, ConnectBridge, serverVars, historyVars, Intake!vars
  <1> QED BY <1>1, <1>2, <1>3 DEF ServerNext

\* Tabs, sockets, retries, reloads and crashes implement the abstract promise.
THEOREM ImplementsIntake == Spec => IntakeSpec
  <1>1. Init => Intake!Init
    BY DEF Init, Intake!Init
  <1>2. TypeOK /\ IntakeInv /\ [Next]_vars => [Intake!Next]_(Intake!vars)
    <2>1. TimeNext => [Intake!Next]_(Intake!vars)
      BY DEF TimeNext, WindowPasses, AckBudgetPasses, serverVars, historyVars, Intake!vars
    <2>2. UNCHANGED vars => [Intake!Next]_(Intake!vars)
      BY DEF vars, serverVars, historyVars, Intake!vars
    <2> QED BY <2>1, <2>2, TabStepRefines, ServerStepRefines DEF Next
  <1> QED
    BY <1>1, <1>2, TypeCorrect, ConfirmedMeansStored, PTL
    DEF Spec, IntakeSpec, Intake!Spec, IntakeInv

-----------------------------------------------------------------------------
(* Entries fail for a reason, and stubs stay failed.                        *)

\* The two properties of one map of entries; they hold of what is stored in
\* localStorage as well.
Sound(es) ==
    /\ es \in Entries
    /\ \A m \in Msgs :
          /\ es[m].dropped => es[m].status = "failed"
          /\ es[m].status = "failed" /\ ~ es[m].dropped
               => es[m].sent = "overdue" \/ (Policy[m] = "manual" /\ es[m].aged)

SoundInv == Sound(storage) /\ \A t \in Tabs : Sound(outbox[t])

LEMMA SoundFunctions ==
  ASSUME NEW es, Sound(es)
  PROVE  /\ Sound(FailAgedManual(es))
         /\ Sound(ExpireStale(es))
         /\ Sound(ReviveAuto(es))
         /\ Sound(Persistable(es))
         /\ Sound(LoadPersisted(es))
         /\ \A ids : Sound(MarkTransmitted(es, ids))
         /\ \A m \in Msgs : /\ Sound(Enqueue(es, m))
                           /\ Sound(MarkSent(es, m))
                           /\ Sound(Resend(es, m))
                           /\ Sound(PassWindow(es, m))
                           /\ Sound(PassAckBudget(es, m))
  <1>a. \A m \in Msgs : es[m] \in Entry
    BY DEF Sound, Entries
  <1> USE DEF Sound, NoEntry, Pending, Queued
  <1>1. Sound(FailAgedManual(es))
    BY OutboxFunctionsType, <1>a DEF FailAgedManual, Entry
  <1>2. Sound(ExpireStale(es))
    BY OutboxFunctionsType, <1>a DEF ExpireStale, Entry
  <1>3. Sound(ReviveAuto(es))
    BY OutboxFunctionsType, <1>a DEF ReviveAuto, Entry
  <1>4. Sound(Persistable(es))
    BY OutboxFunctionsType, <1>a DEF Persistable, Entry
  <1>5. Sound(LoadPersisted(es))
    BY OutboxFunctionsType, <1>a DEF LoadPersisted, Entry
  <1>6. ASSUME NEW ids PROVE Sound(MarkTransmitted(es, ids))
    BY OutboxFunctionsType, <1>a DEF MarkTransmitted, Entry
  <1>7. ASSUME NEW m \in Msgs
        PROVE  /\ Sound(Enqueue(es, m))
               /\ Sound(MarkSent(es, m))
               /\ Sound(Resend(es, m))
               /\ Sound(PassWindow(es, m))
               /\ Sound(PassAckBudget(es, m))
    <2> USE DEF Entries, Entry
    <2>1. Sound(Enqueue(es, m))  BY DEF Enqueue
    <2>2. Sound(MarkSent(es, m))  BY DEF MarkSent
    <2>3. Sound(Resend(es, m))  BY DEF Resend
    <2>4. Sound(PassWindow(es, m))  BY ZenonT(60) DEF PassWindow
    <2>5. Sound(PassAckBudget(es, m))  BY DEF PassAckBudget
    <2> HIDE DEF Sound
    <2> QED BY <2>1, <2>2, <2>3, <2>4, <2>5
  <1> HIDE DEF Sound
  <1> QED BY <1>1, <1>2, <1>3, <1>4, <1>5, <1>6, <1>7

LEMMA SaveSound ==
  ASSUME outbox \in [Tabs -> Entries], SoundInv,
         NEW t \in Tabs, NEW es, Sound(es),
         NEW earlier, \A v \in earlier : Sound(v),
         Save(t, es, earlier)
  PROVE  SoundInv'
  <1>1. \A v : Sound(v) => Sound(Persistable(v))
    BY SoundFunctions
  <1>2. storage' \in {Persistable(v) : v \in earlier \cup {es}} \cup {storage}
    BY DEF Save
  <1>3. Sound(storage')
    BY <1>1, <1>2 DEF SoundInv
  <1>4. \A u \in Tabs : outbox'[u] = IF u = t THEN es ELSE outbox[u]
    BY DEF Save
  <1>5. Sound(storage)' /\ \A u \in Tabs : Sound(outbox[u])'
    BY <1>3, <1>4 DEF Sound, SoundInv
  <1> QED BY <1>5 DEF SoundInv

LEMMA FlushSound ==
  ASSUME outbox \in [Tabs -> Entries], SoundInv,
         NEW t \in Tabs, NEW open, NEW revived, Sound(revived), NEW only,
         Flush(t, open, revived, only)
  PROVE  SoundInv'
  <1> DEFINE aged == FailAgedManual(revived)
             ids  == Sendable(aged) \cap only
             marked == MarkTransmitted(aged, ids)
  <1>1. Sound(aged)
    BY SoundFunctions
  <1>2. Sound(marked)
    <2> HIDE DEF aged, ids
    <2> QED BY <1>1, SoundFunctions
  <1>3. Save(t, marked, {revived, aged}) \/ Save(t, revived, {})
    BY DEF Flush
  <1> HIDE DEF aged, ids, marked
  <1>4. CASE Save(t, marked, {revived, aged})
    <2>1. \A v \in {revived, aged} : Sound(v)
      BY <1>1
    <2> QED BY <1>2, <1>4, <2>1, SaveSound
  <1>5. CASE Save(t, revived, {})
    <2>1. \A v \in {} : Sound(v)
      OBVIOUS
    <2> QED BY <1>5, <2>1, SaveSound
  <1> QED BY <1>3, <1>4, <1>5

LEMMA SoundTabStep ==
  ASSUME TypeOK, SoundInv, NEW t \in Tabs, TabNext(t)
  PROVE  SoundInv'
  <1>a. outbox \in [Tabs -> Entries] /\ Sound(outbox[t]) /\ Sound(storage)
    BY DEF TypeOK, SoundInv
  <1>b. \A v \in {} : Sound(v)
    OBVIOUS
  <1>1. CASE OpenPage(t)
    <2>1. Sound(LoadPersisted(storage))
      BY <1>a, SoundFunctions
    <2>2. /\ storage' = storage
          /\ \A u \in Tabs : outbox'[u] = IF u = t THEN LoadPersisted(storage) ELSE outbox[u]
      BY <1>1, <1>a DEF OpenPage
    <2> QED BY <2>1, <2>2 DEF SoundInv, Sound
  <1>2. CASE ClosePage(t)
    <2>1. Sound(EmptyOutbox)
      BY DEF Sound, Entries, Entry, EmptyOutbox, NoEntry
    <2>2. /\ storage' = storage
          /\ \A u \in Tabs : outbox'[u] = IF u = t THEN EmptyOutbox ELSE outbox[u]
      BY <1>2, <1>a DEF ClosePage
    <2> QED BY <2>1, <2>2 DEF SoundInv, Sound
  <1>3. CASE Connect(t)
    <2>1. Sound(ReviveAuto(outbox[t]))
      BY <1>a, SoundFunctions
    <2> QED BY <1>3, <1>a, <2>1, FlushSound DEF Connect
  <1>4. CASE Disconnect(t) \/ Hydrate(t) \/ ClearHistory(t)
    <2>1. UNCHANGED <<outbox, storage>>
      BY <1>4 DEF Disconnect, Hydrate, ClearHistory
    <2> QED BY <2>1 DEF SoundInv, Sound
  <1>5. CASE ExpireTick(t)
    <2>1. Sound(ExpireStale(outbox[t]))
      BY <1>a, SoundFunctions
    <2> QED BY <1>5, <1>a, <1>b, <2>1, SaveSound DEF ExpireTick
  <1>6. CASE \E m \in Msgs : Submit(t, m)
    <2> PICK m \in Msgs : Submit(t, m)  BY <1>6
    <2> DEFINE queued == Enqueue(outbox[t], m)
               marked == MarkTransmitted(queued, {m})
    <2>1. Sound(queued)
      BY <1>a, SoundFunctions
    <2>2. Sound(marked)
      <3> HIDE DEF queued
      <3> QED BY <2>1, SoundFunctions
    <2>3. Save(t, marked, {queued}) \/ Save(t, queued, {})
      BY DEF Submit
    <2> HIDE DEF queued, marked
    <2>4. \A v \in {queued} : Sound(v)
      BY <2>1
    <2> QED BY <1>a, <1>b, <2>1, <2>2, <2>3, <2>4, SaveSound
  <1>7. CASE \E m \in Msgs : TapResend(t, m)
    <2> PICK m \in Msgs : TapResend(t, m)  BY <1>7
    <2>1. Sound(Resend(outbox[t], m))
      BY <1>a, SoundFunctions
    <2>2. Flush(t, page[t] = "open", Resend(outbox[t], m), {m})
      BY DEF TapResend
    <2> QED BY <1>a, <2>1, <2>2, FlushSound
  <1>8. CASE \E m \in Msgs : ReceiveAck(t, m)
    <2> PICK m \in Msgs : ReceiveAck(t, m)  BY <1>8
    <2>1. Sound(MarkSent(outbox[t], m))
      BY <1>a, SoundFunctions
    <2> QED BY <1>a, <1>b, <2>1, SaveSound DEF ReceiveAck
  <1> QED BY <1>1, <1>2, <1>3, <1>4, <1>5, <1>6, <1>7, <1>8 DEF TabNext

LEMMA SoundTimeStep ==
  ASSUME TypeOK, SoundInv, TimeNext
  PROVE  SoundInv'
  <1> PICK m \in Msgs : WindowPasses(m) \/ AckBudgetPasses(m)
    BY DEF TimeNext
  <1>1. \A es : Sound(es) => Sound(PassWindow(es, m)) /\ Sound(PassAckBudget(es, m))
    BY SoundFunctions
  <1>2. Sound(storage') /\ \A t \in Tabs : Sound(outbox'[t])
    BY <1>1 DEF WindowPasses, AckBudgetPasses, SoundInv
  <1> QED BY <1>2 DEF SoundInv, Sound

\* An entry fails only for an overdue ack or a window that has passed, and the
\* stub of an oversized message is never pending again.
THEOREM EntriesAreSound == Spec => [](StubStaysFailed /\ FailedForAReason)
  <1>1. Init => SoundInv
    <2> SUFFICES ASSUME Init PROVE SoundInv
      OBVIOUS
    <2>1. Sound(EmptyOutbox)
      BY DEF Sound, Entries, Entry, EmptyOutbox, NoEntry
    <2> QED BY <2>1 DEF Init, SoundInv
  <1>2. TypeOK /\ SoundInv /\ [Next]_vars => SoundInv'
    <2>1. SoundInv /\ UNCHANGED <<outbox, storage>> => SoundInv'
      BY DEF SoundInv, Sound
    <2>2. ServerNext => UNCHANGED <<outbox, storage>>
      BY DEF ServerNext, HandleFrame, SaveRow, Broadcast, SaveFails, Crash, DisconnectBridge,
             ConnectBridge, clientVars
    <2>3. UNCHANGED vars => UNCHANGED <<outbox, storage>>
      BY DEF vars, clientVars
    <2> QED BY <2>1, <2>2, <2>3, SoundTabStep, SoundTimeStep DEF Next
  <1>3. SoundInv => StubStaysFailed /\ FailedForAReason
    BY DEF SoundInv, Sound, StubStaysFailed, FailedForAReason
  <1> QED BY <1>1, <1>2, <1>3, TypeCorrect, PTL DEF Spec
-----------------------------------------------------------------------------
(* Nothing is lost: one tab, and a localStorage that accepts writes.        *)

\* With two tabs the map of one overwrites the other's in localStorage, and a
\* write that is refused leaves an older map there (outbox.ts:53-68): in both
\* cases only the loaded page still has the message.
OneTab == \A t, u \in Tabs : t = u
WritesSucceed == "quota" \notin Faults

\* The functions of the store forget nothing: all but enqueue and markSent
\* keep the set of queued messages as it is.
LEMMA QueuedKept ==
  ASSUME NEW es \in Entries
  PROVE  /\ Queued(FailAgedManual(es)) = Queued(es)
         /\ Queued(ExpireStale(es)) = Queued(es)
         /\ Queued(ReviveAuto(es)) = Queued(es)
         /\ Queued(Persistable(es)) = Queued(es)
         /\ Queued(LoadPersisted(es)) = Queued(es)
         /\ \A ids : Queued(MarkTransmitted(es, ids)) = Queued(es)
         /\ \A m \in Msgs : /\ Queued(Enqueue(es, m)) = Queued(es) \cup {m}
                           /\ Queued(MarkSent(es, m)) = Queued(es) \ {m}
                           /\ Queued(Resend(es, m)) = Queued(es)
                           /\ Queued(PassWindow(es, m)) = Queued(es)
                           /\ Queued(PassAckBudget(es, m)) = Queued(es)
  <1> USE DEF Entries, Entry, NoEntry, Pending, Queued
  <1>1. Queued(FailAgedManual(es)) = Queued(es)  BY DEF FailAgedManual
  <1>2. Queued(ExpireStale(es)) = Queued(es)  BY DEF ExpireStale
  <1>3. Queued(ReviveAuto(es)) = Queued(es)  BY DEF ReviveAuto
  <1>4. Queued(Persistable(es)) = Queued(es)  BY DEF Persistable
  <1>5. Queued(LoadPersisted(es)) = Queued(es)  BY DEF LoadPersisted
  <1>6. ASSUME NEW ids PROVE Queued(MarkTransmitted(es, ids)) = Queued(es)
    BY DEF MarkTransmitted
  <1>7. ASSUME NEW m \in Msgs
        PROVE  /\ Queued(Enqueue(es, m)) = Queued(es) \cup {m}
               /\ Queued(MarkSent(es, m)) = Queued(es) \ {m}
               /\ Queued(Resend(es, m)) = Queued(es)
               /\ Queued(PassWindow(es, m)) = Queued(es)
               /\ Queued(PassAckBudget(es, m)) = Queued(es)
    <2>1. Queued(Enqueue(es, m)) = Queued(es) \cup {m}  BY DEF Enqueue
    <2>2. Queued(MarkSent(es, m)) = Queued(es) \ {m}  BY DEF MarkSent
    <2>3. Queued(Resend(es, m)) = Queued(es)  BY DEF Resend
    <2>4. Queued(PassWindow(es, m)) = Queued(es)  BY DEF PassWindow
    <2>5. Queued(PassAckBudget(es, m)) = Queued(es)  BY DEF PassAckBudget
    <2> HIDE DEF Queued
    <2> QED BY <2>1, <2>2, <2>3, <2>4, <2>5
  <1> HIDE DEF Queued, Entries
  <1> QED BY <1>1, <1>2, <1>3, <1>4, <1>5, <1>6, <1>7

\* What localStorage and a loaded page hold, and that a page that is not loaded
\* cannot write over it: it has no entries to resend and no ack to receive.
Unacknowledged == submitted \ confirmed
KeptInv ==
    /\ Unacknowledged \subseteq Queued(storage)
    /\ \A t \in Tabs :
         /\ page[t] # "closed" => Unacknowledged \subseteq Queued(outbox[t])
         /\ page[t] = "closed" => Queued(outbox[t]) = {}
         /\ acks[t] # {} => page[t] # "closed"

\* Saving a map that has the message leaves it in both places.
LEMMA SaveKeeps ==
  ASSUME WritesSucceed, TypeOK, NEW t \in Tabs, NEW es \in Entries, NEW earlier,
         Save(t, es, earlier)
  PROVE  Queued(storage') = Queued(es) /\ Queued(outbox'[t]) = Queued(es)
  <1>1. storage' = Persistable(es) /\ outbox'[t] = es
    BY DEF Save, WritesSucceed, TypeOK
  <1> QED BY <1>1, QueuedKept

LEMMA FlushKeeps ==
  ASSUME WritesSucceed, TypeOK, NEW t \in Tabs, NEW open, NEW revived \in Entries,
         NEW only, Flush(t, open, revived, only)
  PROVE  Queued(storage') = Queued(revived) /\ Queued(outbox'[t]) = Queued(revived)
  <1> DEFINE aged == FailAgedManual(revived)
             ids  == Sendable(aged) \cap only
             marked == MarkTransmitted(aged, ids)
  <1>1. aged \in Entries /\ Queued(aged) = Queued(revived)
    BY OutboxFunctionsType, QueuedKept
  <1>2. marked \in Entries /\ Queued(marked) = Queued(revived)
    <2> HIDE DEF aged, ids
    <2> QED BY <1>1, OutboxFunctionsType, QueuedKept
  <1>3. Save(t, marked, {revived, aged}) \/ Save(t, revived, {})
    BY DEF Flush
  <1> HIDE DEF aged, ids, marked
  <1> QED BY <1>2, <1>3, SaveKeeps

\* A step after which the page and localStorage both have what they need.
LEMMA KeptInBoth ==
  ASSUME OneTab, NEW t \in Tabs, NEW es, page'[t] # "closed",
         Unacknowledged' \subseteq Queued(es),
         Queued(storage') = Queued(es) /\ Queued(outbox'[t]) = Queued(es)
  PROVE  KeptInv'
  <1>1. \A u \in Tabs : u = t
    BY DEF OneTab
  <1>2. Queued(storage)' = Queued(storage') /\ Queued(outbox[t])' = Queued(outbox'[t])
    BY DEF Queued
  <1> HIDE DEF Unacknowledged
  <1> QED BY <1>1, <1>2 DEF KeptInv

LEMMA KeptTabStep ==
  ASSUME OneTab, WritesSucceed, TypeOK, KeptInv, NEW t \in Tabs, TabNext(t)
  PROVE  KeptInv'
  <1>a. /\ outbox[t] \in Entries /\ storage \in Entries
        /\ page' \in [Tabs -> {"closed", "offline", "open"}] => page'[t] \in {"closed", "offline", "open"}
        /\ \A u \in Tabs : u = t
    BY DEF TypeOK, OneTab
  <1>1. CASE OpenPage(t)
    <2>1. /\ storage' = storage /\ outbox'[t] = LoadPersisted(storage)
          /\ page'[t] = "offline" /\ Unacknowledged' = Unacknowledged
      BY <1>1 DEF OpenPage, TypeOK, Unacknowledged, historyVars
    <2>2. Queued(LoadPersisted(storage)) = Queued(storage)
      BY <1>a, QueuedKept
    <2> QED BY <2>1, <2>2, KeptInBoth DEF KeptInv
  <1>2. CASE ClosePage(t)
    <2>1. /\ storage' = storage /\ outbox'[t] = EmptyOutbox
          /\ page'[t] = "closed" /\ Unacknowledged' = Unacknowledged
          /\ acks'[t] = {}
      BY <1>2 DEF ClosePage, Drop, TypeOK, Unacknowledged, historyVars
    <2>2. Queued(EmptyOutbox) = {}
      BY DEF Queued, EmptyOutbox, NoEntry
    <2>3. Queued(storage)' = Queued(storage) /\ Queued(outbox[t])' = {}
      BY <2>1, <2>2 DEF Queued
    <2> QED BY <1>a, <2>1, <2>3 DEF KeptInv
  <1>3. CASE Connect(t)
    <2> DEFINE revived == ReviveAuto(outbox[t])
    <2>1. revived \in Entries /\ Queued(revived) = Queued(outbox[t])
      BY <1>a, OutboxFunctionsType, QueuedKept
    <2>2. /\ page[t] = "offline" /\ page'[t] = "open" /\ Unacknowledged' = Unacknowledged
          /\ Flush(t, TRUE, revived, Msgs)
      BY <1>3 DEF Connect, TypeOK, Unacknowledged, historyVars
    <2>3. Unacknowledged' \subseteq Queued(revived)
      BY <2>1, <2>2 DEF KeptInv
    <2> HIDE DEF revived
    <2> QED BY <2>1, <2>2, <2>3, FlushKeeps, KeptInBoth
  <1>4. CASE Disconnect(t) \/ Hydrate(t) \/ ClearHistory(t)
    <2>1. /\ UNCHANGED <<outbox, storage>> /\ Unacknowledged' = Unacknowledged
          /\ page[t] # "closed" /\ page'[t] # "closed"
      BY <1>4 DEF Disconnect, Hydrate, ClearHistory, TypeOK, Unacknowledged, historyVars
    <2>2. Unacknowledged \subseteq Queued(storage) /\ Unacknowledged \subseteq Queued(outbox[t])
      BY <2>1 DEF KeptInv
    <2>3. Queued(storage)' = Queued(storage) /\ Queued(outbox[t])' = Queued(outbox[t])
      BY <2>1 DEF Queued
    <2> QED BY <1>a, <2>1, <2>2, <2>3 DEF KeptInv
  <1>5. CASE ExpireTick(t)
    <2> DEFINE es == ExpireStale(outbox[t])
    <2>1. es \in Entries /\ Queued(es) = Queued(outbox[t])
      BY <1>a, OutboxFunctionsType, QueuedKept
    <2>2. /\ page[t] = "open" /\ page' = page /\ Unacknowledged' = Unacknowledged
          /\ Save(t, es, {})
      BY <1>5 DEF ExpireTick, Unacknowledged, historyVars
    <2>3. Unacknowledged' \subseteq Queued(es)
      BY <2>1, <2>2 DEF KeptInv
    <2> HIDE DEF es
    <2> QED BY <2>1, <2>2, <2>3, SaveKeeps, KeptInBoth
  <1>6. CASE \E m \in Msgs : Submit(t, m)
    <2> PICK m \in Msgs : Submit(t, m)  BY <1>6
    <2> DEFINE queued == Enqueue(outbox[t], m)
               marked == MarkTransmitted(queued, {m})
    <2>1. queued \in Entries /\ Queued(queued) = Queued(outbox[t]) \cup {m}
      BY <1>a, OutboxFunctionsType, QueuedKept
    <2>2. marked \in Entries /\ Queued(marked) = Queued(queued)
      <3> HIDE DEF queued
      <3> QED BY <2>1, OutboxFunctionsType, QueuedKept
    <2>3. /\ page[t] # "closed" /\ page' = page
          /\ Unacknowledged' \subseteq Unacknowledged \cup {m}
          /\ Save(t, marked, {queued}) \/ Save(t, queued, {})
      BY DEF Submit, Unacknowledged
    <2>4. Unacknowledged' \subseteq Queued(queued)
      BY <2>1, <2>3 DEF KeptInv
    <2> HIDE DEF queued, marked
    <2> QED BY <2>1, <2>2, <2>3, <2>4, SaveKeeps, KeptInBoth
  <1>7. CASE \E m \in Msgs : TapResend(t, m)
    <2> PICK m \in Msgs : TapResend(t, m)  BY <1>7
    <2> DEFINE es == Resend(outbox[t], m)
    <2>1. es \in Entries /\ Queued(es) = Queued(outbox[t])
      BY <1>a, OutboxFunctionsType, QueuedKept
    <2>2. /\ m \in Queued(outbox[t]) /\ page' = page /\ Unacknowledged' = Unacknowledged
          /\ Flush(t, page[t] = "open", es, {m})
      BY DEF TapResend, Unacknowledged, historyVars, Queued
    <2>3. page[t] # "closed" /\ Unacknowledged' \subseteq Queued(es)
      BY <2>1, <2>2 DEF KeptInv
    <2> HIDE DEF es
    <2> QED BY <2>1, <2>2, <2>3, FlushKeeps, KeptInBoth
  <1>8. CASE \E m \in Msgs : ReceiveAck(t, m)
    <2> PICK m \in Msgs : ReceiveAck(t, m)  BY <1>8
    <2> DEFINE es == MarkSent(outbox[t], m)
    <2>1. es \in Entries /\ Queued(es) = Queued(outbox[t]) \ {m}
      BY <1>a, OutboxFunctionsType, QueuedKept
    <2>2. /\ acks[t] # {} /\ page' = page /\ Unacknowledged' \subseteq Unacknowledged \ {m}
          /\ Save(t, es, {})
      BY DEF ReceiveAck, Unacknowledged
    <2>3. page[t] # "closed" /\ Unacknowledged' \subseteq Queued(es)
      BY <2>1, <2>2 DEF KeptInv
    <2> HIDE DEF es
    <2> QED BY <2>1, <2>2, <2>3, SaveKeeps, KeptInBoth
  <1> QED BY <1>1, <1>2, <1>3, <1>4, <1>5, <1>6, <1>7, <1>8 DEF TabNext

LEMMA KeptServerStep ==
  ASSUME TypeOK, KeptInv, ServerNext
  PROVE  KeptInv'
  <1>1. UNCHANGED <<outbox, storage, submitted, confirmed>>
    BY DEF ServerNext, HandleFrame, SaveRow, Broadcast, SaveFails, Crash, DisconnectBridge,
           ConnectBridge, clientVars, historyVars
  <1>2. ASSUME NEW t \in Tabs
        PROVE  /\ page'[t] = "closed" <=> page[t] = "closed"
               /\ acks'[t] # {} => page[t] # "closed"
    <2>1. CASE Crash
      BY <2>1 DEF Crash, TypeOK
    <2>2. CASE \E u \in Tabs, m \in Msgs : HandleFrame(u, m)
      BY <2>2 DEF HandleFrame, Broadcast, clientVars, KeptInv
    <2>3. CASE (\E u \in Tabs, m \in Msgs : SaveFails(u, m)) \/ DisconnectBridge \/ ConnectBridge
      BY <2>3 DEF SaveFails, DisconnectBridge, ConnectBridge, clientVars, KeptInv
    <2> QED BY <2>1, <2>2, <2>3 DEF ServerNext
  <1>3. /\ Unacknowledged' = Unacknowledged /\ Queued(storage)' = Queued(storage)
        /\ \A t \in Tabs : Queued(outbox[t])' = Queued(outbox[t])
    BY <1>1 DEF Unacknowledged, Queued
  <1> QED BY <1>2, <1>3 DEF KeptInv

LEMMA KeptTimeStep ==
  ASSUME TypeOK, KeptInv, TimeNext
  PROVE  KeptInv'
  <1> PICK m \in Msgs : WindowPasses(m) \/ AckBudgetPasses(m)
    BY DEF TimeNext
  <1>1. \A es \in Entries : /\ Queued(PassWindow(es, m)) = Queued(es)
                           /\ Queued(PassAckBudget(es, m)) = Queued(es)
    BY QueuedKept
  <1>2. storage \in Entries /\ \A t \in Tabs : outbox[t] \in Entries
    BY DEF TypeOK
  <1>3. /\ Queued(storage') = Queued(storage)
        /\ \A t \in Tabs : Queued(outbox'[t]) = Queued(outbox[t])
    BY <1>1, <1>2 DEF WindowPasses, AckBudgetPasses
  <1>4. UNCHANGED <<page, acks, Unacknowledged>>
    BY DEF WindowPasses, AckBudgetPasses, historyVars, Unacknowledged
  <1>5. /\ Queued(storage)' = Queued(storage')
        /\ \A t \in Tabs : Queued(outbox[t])' = Queued(outbox'[t])
    BY DEF Queued
  <1> QED BY <1>3, <1>4, <1>5 DEF KeptInv

\* With one tab and a localStorage that accepts writes, no reload, lost
\* connection, expiry, tap or crash of the server makes the dashboard forget a
\* message before its ack (outbox.ts:46-68, web-adapter.ts:96-160).
THEOREM MessagesAreKept ==
  ASSUME OneTab, WritesSucceed
  PROVE  Spec => []NothingLost
  <1>1. Init => KeptInv
    <2>1. Queued(EmptyOutbox) = {}
      BY DEF Queued, EmptyOutbox, NoEntry
    <2> QED BY <2>1 DEF Init, KeptInv, Unacknowledged
  <1>2. TypeOK /\ KeptInv /\ [Next]_vars => KeptInv'
    <2>1. KeptInv /\ UNCHANGED vars => KeptInv'
      BY DEF KeptInv, Unacknowledged, Queued, vars, clientVars, historyVars
    <2> QED BY <2>1, KeptTabStep, KeptServerStep, KeptTimeStep DEF Next
  <1>3. KeptInv => NothingLost
    BY DEF KeptInv, Unacknowledged, NothingLost
  <1> QED BY <1>1, <1>2, <1>3, TypeCorrect, PTL DEF Spec
=============================================================================
