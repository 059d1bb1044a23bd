---------------------------- MODULE VoiceProofs -----------------------------
(* Proofs about voice requests, for any number of requests, sessions and     *)
(* prompts, any limits and any order of answers, exits, signals, timers and  *)
(* writes of other processes: the collector of a session's replies, the      *)
(* asks of a process of their own, and the short requests that need none.    *)
EXTENDS ReplyCollector, FiniteSetTheorems, SiriAsk, VoiceFastPath, SequenceTheorems, TLAPS

-----------------------------------------------------------------------------
(* The collector of replies (ReplyCollector)                                 *)

\* An entry that was not accepted is in no state yet; one that can be polled was
\* accepted.
Born ==
    /\ \A m \in Msgs : entry[m].status = "unborn" <=> accepted < m
    /\ \A m \in byMsgId : m <= accepted

\* A removed entry was settled, and has no timer left.
Removed ==
    \A m \in Msgs \ byMsgId :
        ~ Active(entry[m]) /\ ~ entry[m].timeout /\ ~ entry[m].cleanup

\* The prompts that are not answered yet are not younger than the request their
\* session is mapped to.
PromptsAreOlder ==
    \A s \in Sessions : \A i \in 1 .. Len(agent[s]) :
        /\ agent[s][i] <= accepted
        /\ bySession[s] # 0 => agent[s][i] <= bySession[s]

CollectorIInv ==
    /\ CollectorTypeOK
    /\ Born
    /\ Removed
    /\ OneTimerEach
    /\ IndexesAgree
    /\ PromptsAreOlder
    /\ NoAnswerFromTheFuture
    /\ WithinLimit

LEMMA UnbornType == Unborn \in EntryType /\ Unborn.status = "unborn"
                    /\ ~ Unborn.timeout /\ ~ Unborn.cleanup
  <1>1. (CHOOSE s \in Sessions : TRUE) \in Sessions  BY SessionsAssumption
  <1> QED BY <1>1 DEF Unborn, EntryType, Dashboard

\* The collector never has more than MaxRequests entries.
LEMMA Finite == ASSUME CollectorTypeOK PROVE IsFiniteSet(byMsgId)
  <1>1. IsFiniteSet(Msgs)  BY FS_Interval, CollectorBoundsAssumption DEF Msgs
  <1> QED BY <1>1, FS_Subset DEF CollectorTypeOK

\* An event of a session reaches an active entry, that can be polled.
LEMMA AddresseeIsKnown ==
  ASSUME CollectorIInv, NEW s \in Sessions, NEW m \in Addressee(s)
  PROVE  m \in byMsgId /\ m = bySession[s] /\ Active(entry[m]) /\ m # 0
  BY DEF Addressee, CollectorIInv, IndexesAgree, Msgs

LEMMA InitCollectorIInv == CollectorInit => CollectorIInv
  <1> SUFFICES ASSUME CollectorInit PROVE CollectorIInv  OBVIOUS
  <1>1. CollectorTypeOK  BY UnbornType, CollectorBoundsAssumption DEF CollectorInit, CollectorTypeOK, Msgs
  <1>2. Born /\ Removed  BY UnbornType, CollectorBoundsAssumption DEF CollectorInit, Born, Removed, Active, Msgs
  <1>3. OneTimerEach /\ IndexesAgree /\ PromptsAreOlder
    BY DEF CollectorInit, OneTimerEach, IndexesAgree, PromptsAreOlder
  <1>4. NoAnswerFromTheFuture  BY UnbornType DEF CollectorInit, NoAnswerFromTheFuture
  <1>5. WithinLimit  BY FS_EmptySet, CollectorBoundsAssumption DEF CollectorInit, WithinLimit
  <1> QED BY <1>1, <1>2, <1>3, <1>4, <1>5 DEF CollectorIInv

-----------------------------------------------------------------------------
(* Steps                                                                    *)

LEMMA SendKeeps ==
  ASSUME CollectorIInv, NEW s \in Sessions, NEW bridge \in BOOLEAN, Send(s, bridge)
  PROVE  CollectorIInv'
  <1> USE CollectorBoundsAssumption
  <1> DEFINE n == accepted + 1
             new == [Unborn EXCEPT !.status = "waiting", !.session = s, !.timeout = TRUE]
  <1>1. n \in Msgs /\ n \notin byMsgId /\ accepted \in Nat
    BY DEF Send, CollectorIInv, CollectorTypeOK, Born, Msgs
  <1>2. /\ new \in EntryType /\ new.status = "waiting" /\ new.session = s
        /\ new.timeout /\ ~ new.cleanup
    BY UnbornType DEF EntryType, Status
  <1>3. /\ accepted' = n /\ byMsgId' = byMsgId \cup {n}
        /\ entry' = [entry EXCEPT ![n] = new]
        /\ bySession' = [bySession EXCEPT ![s] = n]
        /\ agent' = [agent EXCEPT ![s] = Append(@, n)] \/ agent' = agent
    BY DEF Send
  <1> HIDE DEF new
  <1>4. entry'[n] = new /\ \A m \in Msgs \ {n} : entry'[m] = entry[m]
    BY <1>1, <1>3 DEF CollectorIInv, CollectorTypeOK
  <1>5. CollectorTypeOK'
    <2>1. accepted' \in 0 .. MaxRequests  BY <1>1, <1>3 DEF Msgs
    <2>2. agent' \in [Sessions -> Seq({Dashboard} \cup Msgs)]
      <3>1. n \in {Dashboard} \cup Msgs  BY <1>1
      <3>2. \A q \in Seq({Dashboard} \cup Msgs) : Append(q, n) \in Seq({Dashboard} \cup Msgs)
        BY <3>1
      <3> QED BY <1>3, <3>2 DEF CollectorIInv, CollectorTypeOK
    <2> QED BY <1>1, <1>2, <1>3, <2>1, <2>2 DEF CollectorIInv, CollectorTypeOK
  <1>6. Born'  BY <1>1, <1>2, <1>3, <1>4 DEF CollectorIInv, CollectorTypeOK, Born, Msgs
  <1>7. Removed'  BY <1>1, <1>3, <1>4 DEF CollectorIInv, CollectorTypeOK, Removed
  <1>8. OneTimerEach'  BY <1>1, <1>2, <1>3, <1>4 DEF CollectorIInv, CollectorTypeOK, OneTimerEach, Active
  <1>9. IndexesAgree'  BY <1>1, <1>2, <1>3, <1>4 DEF CollectorIInv, CollectorTypeOK, IndexesAgree
  <1>10. PromptsAreOlder'
    <2> SUFFICES ASSUME NEW t \in Sessions, NEW i \in 1 .. Len(agent'[t])
                 PROVE  /\ agent'[t][i] <= n
                        /\ bySession'[t] # 0 => agent'[t][i] <= bySession'[t]
      BY <1>3 DEF PromptsAreOlder
    <2>1. agent[t] \in Seq({Dashboard} \cup Msgs) /\ bySession[t] \in {0} \cup Msgs
      BY DEF CollectorIInv, CollectorTypeOK
    <2>2. agent'[t][i] = n \/ (i \in 1 .. Len(agent[t]) /\ agent'[t][i] = agent[t][i])
      <3>1. agent'[t] = agent[t] \/ agent'[t] = Append(agent[t], n)
        BY <1>3 DEF CollectorIInv, CollectorTypeOK
      <3>2. n \in {Dashboard} \cup Msgs  BY <1>1
      <3> HIDE DEF n
      <3> QED BY <2>1, <3>1, <3>2
    <2>3. agent'[t][i] = n => t = s
      <3> SUFFICES ASSUME t # s PROVE agent'[t][i] # n  OBVIOUS
      <3>1. agent'[t] = agent[t]  BY <1>3 DEF CollectorIInv, CollectorTypeOK
      <3>2. agent[t][i] <= accepted /\ agent[t][i] \in {Dashboard} \cup Msgs
        BY <2>1, <3>1 DEF CollectorIInv, PromptsAreOlder
      <3> QED BY <1>1, <3>1, <3>2 DEF Dashboard, Msgs
    <2>4. bySession'[t] = IF t = s THEN n ELSE bySession[t]
      BY <1>3 DEF CollectorIInv, CollectorTypeOK
    <2>5. CASE agent'[t][i] = n
      BY <1>1, <2>3, <2>4, <2>5
    <2>6. CASE i \in 1 .. Len(agent[t]) /\ agent'[t][i] = agent[t][i]
      <3>1. /\ agent[t][i] <= accepted /\ agent[t][i] \in {Dashboard} \cup Msgs
            /\ bySession[t] # 0 => agent[t][i] <= bySession[t]
        BY <2>1, <2>6 DEF CollectorIInv, PromptsAreOlder
      <3> QED BY <1>1, <2>1, <2>4, <2>6, <3>1 DEF Dashboard, Msgs
    <2> QED BY <2>2, <2>5, <2>6
  <1>11. NoAnswerFromTheFuture'
    BY <1>1, <1>2, <1>4 DEF CollectorIInv, NoAnswerFromTheFuture
  <1>12. WithinLimit'
    <2>1. IsFiniteSet(byMsgId)  BY Finite DEF CollectorIInv
    <2>2. Cardinality(byMsgId) \in Nat  BY <2>1, FS_CardinalityType
    <2>3. Cardinality(byMsgId') = Cardinality(byMsgId) + 1
      BY <1>1, <1>3, <2>1, FS_AddElement
    <2> QED BY <2>2, <2>3 DEF WithinLimit, Send, Admits
  <1> QED BY <1>5, <1>6, <1>7, <1>8, <1>9, <1>10, <1>11, <1>12 DEF CollectorIInv

LEMMA DashboardPromptKeeps ==
  ASSUME CollectorIInv, NEW s \in Sessions, DashboardPrompt(s)
  PROVE  CollectorIInv'
  <1> USE CollectorBoundsAssumption
  <1>1. agent' = [agent EXCEPT ![s] = Append(@, Dashboard)]
        /\ UNCHANGED <<accepted, entry, byMsgId, bySession>>
    BY DEF DashboardPrompt
  <1>2. CollectorTypeOK'  BY <1>1 DEF CollectorIInv, CollectorTypeOK
  <1>3. PromptsAreOlder'
    <2> SUFFICES ASSUME NEW t \in Sessions, NEW i \in 1 .. Len(agent'[t])
                 PROVE  /\ agent'[t][i] <= accepted
                        /\ bySession[t] # 0 => agent'[t][i] <= bySession[t]
      BY <1>1 DEF PromptsAreOlder
    <2>1. agent[t] \in Seq({Dashboard} \cup Msgs) /\ bySession[t] \in {0} \cup Msgs
      BY DEF CollectorIInv, CollectorTypeOK
    <2>2. agent'[t][i] = 0 \/ (i \in 1 .. Len(agent[t]) /\ agent'[t][i] = agent[t][i])
      BY <1>1, <2>1 DEF CollectorIInv, CollectorTypeOK, Dashboard
    <2>3. accepted \in Nat  BY DEF CollectorIInv, CollectorTypeOK
    <2> QED BY <2>1, <2>2, <2>3 DEF CollectorIInv, PromptsAreOlder, Msgs
  <1>4. Born' /\ Removed' /\ OneTimerEach' /\ IndexesAgree' /\ NoAnswerFromTheFuture'
        /\ WithinLimit'
    BY <1>1 DEF CollectorIInv, Born, Removed, OneTimerEach, IndexesAgree, NoAnswerFromTheFuture,
                WithinLimit, Active
  <1> QED BY <1>2, <1>3, <1>4 DEF CollectorIInv

LEMMA DeltaKeeps ==
  ASSUME CollectorIInv, NEW s \in Sessions, Delta(s)
  PROVE  CollectorIInv'
  <1> USE CollectorBoundsAssumption
  <1>1. UNCHANGED <<accepted, byMsgId, bySession, agent>>  BY DEF Delta
  <1>2. \A m \in Msgs : entry[m] \in EntryType  BY DEF CollectorIInv, CollectorTypeOK
  <1>3. \A m \in Msgs :
           /\ entry'[m] \in EntryType
           /\ entry'[m].session = entry[m].session
           /\ entry'[m].timeout = entry[m].timeout
           /\ entry'[m].cleanup = entry[m].cleanup
           /\ entry'[m].answer = entry[m].answer
           /\ \/ entry'[m].status = entry[m].status
              \/ Active(entry[m]) /\ entry'[m].status = "streaming"
    BY <1>2 DEF Delta, Addressee, EntryType, Status
  <1>4. CollectorTypeOK'
    <2>1. entry' \in [Msgs -> EntryType]  BY <1>3 DEF Delta
    <2> QED BY <1>1, <2>1 DEF CollectorIInv, CollectorTypeOK
  <1>5. Born'  BY <1>1, <1>3 DEF CollectorIInv, Born, Active
  <1>6. Removed'  BY <1>1, <1>3 DEF CollectorIInv, Removed, Active
  <1>7. OneTimerEach'
    <2>1. \A m \in byMsgId : m \in Msgs  BY DEF CollectorIInv, CollectorTypeOK
    <2>2. \A m \in Msgs : Active(entry[m]) <=> Active(entry'[m])  BY <1>3 DEF Active
    <2> QED BY <1>1, <1>3, <2>1, <2>2 DEF CollectorIInv, OneTimerEach
  <1>8. IndexesAgree'  BY <1>1, <1>3 DEF CollectorIInv, CollectorTypeOK, IndexesAgree
  <1>9. PromptsAreOlder'  BY <1>1 DEF CollectorIInv, PromptsAreOlder
  <1>10. NoAnswerFromTheFuture'  BY <1>3 DEF CollectorIInv, NoAnswerFromTheFuture
  <1>11. WithinLimit'  BY <1>1 DEF CollectorIInv, WithinLimit
  <1> QED BY <1>4, <1>5, <1>6, <1>7, <1>8, <1>9, <1>10, <1>11 DEF CollectorIInv

LEMMA AnswerKeeps ==
  ASSUME CollectorIInv, NEW s \in Sessions, Answer(s)
  PROVE  CollectorIInv'
  <1> USE CollectorBoundsAssumption
  <1>1. UNCHANGED <<accepted, byMsgId, bySession>> /\ agent[s] # <<>>
        /\ agent' = [agent EXCEPT ![s] = Tail(@)]
    BY DEF Answer
  <1>2. \A m \in Msgs : entry[m] \in EntryType  BY DEF CollectorIInv, CollectorTypeOK
  <1> DEFINE turn == Head(agent[s])
  <1>3. agent[s] \in Seq({Dashboard} \cup Msgs) /\ turn \in {Dashboard} \cup Msgs
        /\ turn = agent[s][1] /\ 1 \in 1 .. Len(agent[s])
    BY <1>1 DEF CollectorIInv, CollectorTypeOK
  <1> HIDE DEF turn
  <1>4. \A m \in Msgs \ Addressee(s) : entry'[m] = entry[m]  BY DEF Answer
  <1>5. \A m \in Addressee(s) :
           /\ m \in Msgs
           /\ entry'[m] \in EntryType
           /\ entry'[m].session = entry[m].session
           /\ ~ entry'[m].timeout
           /\ entry'[m].cleanup
           /\ entry'[m].status = "done"
           /\ entry'[m].answer = turn
    <2> TAKE m \in Addressee(s)
    <2>1. m \in Msgs  BY DEF Addressee
    <2>2. entry'[m] = [entry[m] EXCEPT !.status = "done", !.answer = turn,
                                       !.timeout = FALSE, !.cleanup = TRUE]
      BY <1>2, <2>1 DEF Answer, Finalize, ScheduleCleanup, turn, EntryType
    <2> QED BY <1>2, <1>3, <2>1, <2>2 DEF EntryType, Status
  <1>6. CollectorTypeOK'
    <2>1. entry' \in [Msgs -> EntryType]  BY <1>2, <1>4, <1>5 DEF Answer
    <2>2. agent' \in [Sessions -> Seq({Dashboard} \cup Msgs)]  BY <1>1, <1>3 DEF CollectorIInv, CollectorTypeOK
    <2> QED BY <1>1, <2>1, <2>2 DEF CollectorIInv, CollectorTypeOK
  <1>7. \A m \in Addressee(s) : m \in byMsgId /\ m = bySession[s] /\ Active(entry[m]) /\ m # 0
    BY AddresseeIsKnown
  <1>8. Born'
    <2>1. \A m \in Msgs : entry'[m].status = "unborn" <=> entry[m].status = "unborn"
      BY <1>4, <1>5, <1>7 DEF Active
    <2> QED BY <1>1, <2>1 DEF CollectorIInv, Born
  <1>9. Removed'  BY <1>1, <1>4, <1>7 DEF CollectorIInv, Removed
  <1>10. OneTimerEach'
    <2> SUFFICES ASSUME NEW m \in byMsgId
                 PROVE  /\ entry'[m].timeout <=> Active(entry'[m])
                        /\ entry'[m].cleanup <=> ~ Active(entry'[m])
      BY <1>1 DEF OneTimerEach
    <2>1. m \in Msgs  BY DEF CollectorIInv, CollectorTypeOK
    <2>2. CASE m \in Addressee(s)  BY <1>5, <2>2 DEF Active
    <2>3. CASE m \notin Addressee(s)  BY <1>4, <2>1, <2>3 DEF CollectorIInv, OneTimerEach
    <2> QED BY <2>2, <2>3
  <1>11. IndexesAgree'
    <2>1. \A m \in Msgs : entry'[m].session = entry[m].session  BY <1>4, <1>5
    <2> QED BY <1>1, <2>1 DEF CollectorIInv, CollectorTypeOK, IndexesAgree
  <1>12. PromptsAreOlder'
    <2> SUFFICES ASSUME NEW t \in Sessions, NEW i \in 1 .. Len(agent'[t])
                 PROVE  /\ agent'[t][i] <= accepted
                        /\ bySession[t] # 0 => agent'[t][i] <= bySession[t]
      BY <1>1 DEF PromptsAreOlder
    <2>1. agent[t] \in Seq({Dashboard} \cup Msgs)  BY DEF CollectorIInv, CollectorTypeOK
    <2>2. \E j \in 1 .. Len(agent[t]) : agent'[t][i] = agent[t][j]
      <3>1. CASE t = s
        <4>1. agent'[t] = Tail(agent[t])  BY <1>1, <3>1 DEF CollectorIInv, CollectorTypeOK
        <4>0. agent[t] # <<>> /\ i \in 1 .. Len(Tail(agent[t]))  BY <1>1, <3>1, <4>1
        <4>2. i + 1 \in 1 .. Len(agent[t]) /\ agent'[t][i] = agent[t][i + 1]
          BY <2>1, <4>1, <1>3, <3>1, <4>0
        <4> QED BY <4>2
      <3>2. CASE t # s  BY <1>1, <3>2 DEF CollectorIInv, CollectorTypeOK
      <3> QED BY <3>1, <3>2
    <2> QED BY <2>2 DEF CollectorIInv, PromptsAreOlder
  <1>13. NoAnswerFromTheFuture'
    <2> SUFFICES ASSUME NEW m \in Msgs, entry'[m].status = "done"
                 PROVE  entry'[m].answer <= m
      BY DEF NoAnswerFromTheFuture
    <2>1. CASE m \in Addressee(s)
      <3>1. m = bySession[s] /\ m # 0 /\ entry'[m].answer = turn  BY <1>5, <1>7, <2>1
      <3> QED BY <1>3, <3>1 DEF CollectorIInv, PromptsAreOlder
    <2>2. CASE m \notin Addressee(s)  BY <1>4, <2>2 DEF CollectorIInv, NoAnswerFromTheFuture
    <2> QED BY <2>1, <2>2
  <1>14. WithinLimit'  BY <1>1 DEF CollectorIInv, WithinLimit
  <1> QED BY <1>6, <1>8, <1>9, <1>10, <1>11, <1>12, <1>13, <1>14 DEF CollectorIInv

LEMMA TimeoutFiresKeeps ==
  ASSUME CollectorIInv, NEW m \in Msgs, TimeoutFires(m)
  PROVE  CollectorIInv'
  <1> USE CollectorBoundsAssumption
  <1>1. UNCHANGED <<accepted, byMsgId, bySession, agent>> /\ entry[m].timeout
    BY DEF TimeoutFires
  <1>2. entry[m] \in EntryType  BY DEF CollectorIInv, CollectorTypeOK
  <1>3. m \in byMsgId /\ Active(entry[m])
    BY <1>1 DEF CollectorIInv, Removed, OneTimerEach
  <1> DEFINE e == [entry[m] EXCEPT !.status = "error", !.timeout = FALSE, !.cleanup = TRUE]
  <1>4. entry' = [entry EXCEPT ![m] = e]
    BY <1>2, <1>3 DEF TimeoutFires, ScheduleCleanup, CollectorIInv, CollectorTypeOK, EntryType
  <1>5. /\ e \in EntryType /\ e.status = "error" /\ ~ e.timeout /\ e.cleanup
        /\ e.session = entry[m].session
    BY <1>2 DEF EntryType, Status
  <1> HIDE DEF e
  <1>6. entry'[m] = e /\ \A n \in Msgs \ {m} : entry'[n] = entry[n]
    BY <1>4 DEF CollectorIInv, CollectorTypeOK
  <1>7. CollectorTypeOK'  BY <1>1, <1>4, <1>5 DEF CollectorIInv, CollectorTypeOK
  <1>8. Born'
    <2>1. \A n \in Msgs : entry'[n].status = "unborn" <=> entry[n].status = "unborn"
      BY <1>3, <1>5, <1>6 DEF Active
    <2> QED BY <1>1, <2>1 DEF CollectorIInv, Born
  <1>9. Removed'  BY <1>1, <1>3, <1>6 DEF CollectorIInv, Removed
  <1>10. OneTimerEach'  BY <1>1, <1>5, <1>6 DEF CollectorIInv, CollectorTypeOK, OneTimerEach, Active
  <1>11. IndexesAgree'
    <2>1. \A n \in Msgs : entry'[n].session = entry[n].session  BY <1>5, <1>6
    <2> QED BY <1>1, <2>1 DEF CollectorIInv, CollectorTypeOK, IndexesAgree
  <1>12. PromptsAreOlder' /\ WithinLimit'  BY <1>1 DEF CollectorIInv, PromptsAreOlder, WithinLimit
  <1>13. NoAnswerFromTheFuture'  BY <1>5, <1>6 DEF CollectorIInv, NoAnswerFromTheFuture
  <1> QED BY <1>7, <1>8, <1>9, <1>10, <1>11, <1>12, <1>13 DEF CollectorIInv

LEMMA CollectorCleanupKeeps ==
  ASSUME CollectorIInv, NEW m \in Msgs, CollectorCleanupFires(m)
  PROVE  CollectorIInv'
  <1> USE CollectorBoundsAssumption
  <1>1. UNCHANGED <<accepted, agent>> /\ entry[m].cleanup
        /\ entry' = [entry EXCEPT ![m].cleanup = FALSE]
        /\ byMsgId' = byMsgId \ {m}
        /\ bySession' = [bySession EXCEPT ![entry[m].session] = 0]
    BY DEF CollectorCleanupFires
  <1>2. \A n \in Msgs : entry[n] \in EntryType  BY DEF CollectorIInv, CollectorTypeOK
  <1>3. m \in byMsgId /\ ~ Active(entry[m]) /\ ~ entry[m].timeout
    BY <1>1 DEF CollectorIInv, Removed, OneTimerEach
  <1>4. /\ \A n \in Msgs \ {m} : entry'[n] = entry[n]
        /\ entry'[m] = [entry[m] EXCEPT !.cleanup = FALSE]
    BY <1>1 DEF CollectorIInv, CollectorTypeOK
  <1>5. \A n \in Msgs :
           /\ entry'[n] \in EntryType
           /\ entry'[n].status = entry[n].status
           /\ entry'[n].session = entry[n].session
           /\ entry'[n].answer = entry[n].answer
           /\ entry'[n].timeout = entry[n].timeout
    <2> TAKE n \in Msgs
    <2>1. entry[n] \in EntryType /\ entry[m] \in EntryType  BY <1>2
    <2>2. CASE n = m  BY <1>4, <2>1, <2>2 DEF EntryType
    <2>3. CASE n # m
      <3>1. entry'[n] = entry[n]  BY <1>4, <2>3
      <3> QED BY <2>1, <3>1
    <2> QED BY <2>2, <2>3
  <1>6. entry'[m].cleanup = FALSE  BY <1>2, <1>4 DEF EntryType
  <1>7. entry[m].session \in Sessions  BY <1>2 DEF EntryType
  <1>8. \A s \in Sessions :
           bySession'[s] = IF s = entry[m].session THEN 0 ELSE bySession[s]
    BY <1>1 DEF CollectorIInv, CollectorTypeOK
  <1>9. CollectorTypeOK'
    <2>1. entry' \in [Msgs -> EntryType]  BY <1>1, <1>5 DEF CollectorIInv, CollectorTypeOK
    <2>2. bySession' \in [Sessions -> {0} \cup Msgs]  BY <1>1 DEF CollectorIInv, CollectorTypeOK
    <2> QED BY <1>1, <2>1, <2>2 DEF CollectorIInv, CollectorTypeOK
  <1>10. Born'  BY <1>1, <1>5 DEF CollectorIInv, Born
  <1>11. Removed'  BY <1>1, <1>3, <1>4, <1>5, <1>6 DEF CollectorIInv, Removed, Active
  <1>12. OneTimerEach'  BY <1>1, <1>4 DEF CollectorIInv, CollectorTypeOK, OneTimerEach
  <1>13. IndexesAgree'
    <2> SUFFICES ASSUME NEW s \in Sessions, bySession'[s] # 0
                 PROVE  /\ bySession'[s] \in byMsgId \ {m}
                        /\ entry'[bySession'[s]].session = s
      BY <1>1 DEF IndexesAgree
    <2>1. s # entry[m].session /\ bySession'[s] = bySession[s]  BY <1>8
    <2>2. bySession[s] \in byMsgId /\ entry[bySession[s]].session = s
      BY <2>1 DEF CollectorIInv, IndexesAgree
    <2>3. bySession[s] \in Msgs  BY <2>2 DEF CollectorIInv, CollectorTypeOK
    <2> QED BY <1>5, <2>1, <2>2, <2>3
  <1>14. PromptsAreOlder'  BY <1>1, <1>8 DEF CollectorIInv, PromptsAreOlder
  <1>15. NoAnswerFromTheFuture'  BY <1>5 DEF CollectorIInv, NoAnswerFromTheFuture
  <1>16. WithinLimit'
    <2>1. IsFiniteSet(byMsgId)  BY Finite DEF CollectorIInv
    <2>2. Cardinality(byMsgId) \in Nat  BY <2>1, FS_CardinalityType
    <2>3. Cardinality(byMsgId') = Cardinality(byMsgId) - 1
      BY <1>1, <1>3, <2>1, FS_RemoveElement
    <2> QED BY <2>2, <2>3 DEF CollectorIInv, WithinLimit
  <1> QED BY <1>9, <1>10, <1>11, <1>12, <1>13, <1>14, <1>15, <1>16 DEF CollectorIInv

LEMMA NextCollectorIInv == CollectorIInv /\ [CollectorNext]_collectorVars => CollectorIInv'
  <1> SUFFICES ASSUME CollectorIInv, [CollectorNext]_collectorVars PROVE CollectorIInv'  OBVIOUS
  <1>1. CASE UNCHANGED collectorVars
    BY <1>1 DEF collectorVars, CollectorIInv, CollectorTypeOK, Born, Removed, OneTimerEach, IndexesAgree,
                PromptsAreOlder, NoAnswerFromTheFuture, WithinLimit, Active
  <1>2. ASSUME NEW s \in Sessions, NEW bridge \in BOOLEAN, Send(s, bridge) PROVE CollectorIInv'
    BY <1>2, SendKeeps
  <1>3. ASSUME NEW s \in Sessions, DashboardPrompt(s) PROVE CollectorIInv'
    BY <1>3, DashboardPromptKeeps
  <1>4. ASSUME NEW s \in Sessions, Delta(s) PROVE CollectorIInv'  BY <1>4, DeltaKeeps
  <1>5. ASSUME NEW s \in Sessions, Answer(s) PROVE CollectorIInv'  BY <1>5, AnswerKeeps
  <1>6. ASSUME NEW m \in Msgs, TimeoutFires(m) PROVE CollectorIInv'  BY <1>6, TimeoutFiresKeeps
  <1>7. ASSUME NEW m \in Msgs, CollectorCleanupFires(m) PROVE CollectorIInv'  BY <1>7, CollectorCleanupKeeps
  <1> QED BY <1>1, <1>2, <1>3, <1>4, <1>5, <1>6, <1>7 DEF CollectorNext

LEMMA AlwaysCollectorIInv == CollectorSpec => []CollectorIInv
  BY InitCollectorIInv, NextCollectorIInv, PTL DEF CollectorSpec

-----------------------------------------------------------------------------
(* Theorems                                                                 *)

\* The two maps of the ReplyCollector keep their types.
THEOREM CollectorTypeCorrect == CollectorSpec => []CollectorTypeOK
  <1>1. CollectorIInv => CollectorTypeOK  BY DEF CollectorIInv
  <1> QED BY <1>1, AlwaysCollectorIInv, PTL

\* bySession never names an entry that cannot be polled, or one of another
\* session, whatever the order of answers and cleanups.
THEOREM MapsAgree == CollectorSpec => []IndexesAgree
  <1>1. CollectorIInv => IndexesAgree  BY DEF CollectorIInv
  <1> QED BY <1>1, AlwaysCollectorIInv, PTL

\* Every entry holds exactly the timer that takes it further, so that none uses
\* up a place of the collector for good.
THEOREM NoEntryIsStuck == CollectorSpec => []OneTimerEach
  <1>1. CollectorIInv => OneTimerEach  BY DEF CollectorIInv
  <1> QED BY <1>1, AlwaysCollectorIInv, PTL

\* A request is never answered with the answer to a later prompt.
THEOREM AnswersAreNotLater == CollectorSpec => []NoAnswerFromTheFuture
  <1>1. CollectorIInv => NoAnswerFromTheFuture  BY DEF CollectorIInv
  <1> QED BY <1>1, AlwaysCollectorIInv, PTL

\* MAX_ACTIVE_COLLECTORS bounds the entries, settled ones included.
THEOREM CollectorIsBounded == CollectorSpec => []WithinLimit
  <1>1. CollectorIInv => WithinLimit  BY DEF CollectorIInv
  <1> QED BY <1>1, AlwaysCollectorIInv, PTL

\* No event or timer changes the status or the text of a settled entry.
THEOREM SettledStaysSettled == CollectorSpec => SettledIsFinal
  <1> DEFINE Final ==
        \A m \in Msgs :
          entry[m].status \in {"done", "error"}
            => /\ entry'[m].status = entry[m].status
               /\ entry'[m].answer = entry[m].answer
  <1>1. ASSUME CollectorIInv, CollectorNext PROVE Final
    <2> SUFFICES ASSUME NEW m \in Msgs, entry[m].status \in {"done", "error"}
                 PROVE  /\ entry'[m].status = entry[m].status
                        /\ entry'[m].answer = entry[m].answer
      OBVIOUS
    <2>1. entry \in [Msgs -> EntryType] /\ entry[m] \in EntryType /\ ~ Active(entry[m])
      BY <1>1 DEF CollectorIInv, CollectorTypeOK, Active
    <2>2. ASSUME NEW s \in Sessions, NEW bridge \in BOOLEAN, Send(s, bridge)
          PROVE  entry'[m] = entry[m]
      <3>1. accepted \in Nat /\ m # accepted + 1
        <4>1. accepted \in Nat /\ ~ (accepted < m)  BY <1>1 DEF CollectorIInv, CollectorTypeOK, Born
        <4> QED BY <4>1, CollectorBoundsAssumption DEF Msgs
      <3> QED BY <2>1, <2>2, <3>1 DEF Send
    <2>3. ASSUME NEW s \in Sessions, DashboardPrompt(s) PROVE entry'[m] = entry[m]
      BY <2>3 DEF DashboardPrompt
    <2>4. ASSUME NEW s \in Sessions, Delta(s) PROVE entry'[m] = entry[m]
      BY <2>1, <2>4 DEF Delta, Addressee
    <2>5. ASSUME NEW s \in Sessions, Answer(s) PROVE entry'[m] = entry[m]
      BY <2>1, <2>5 DEF Answer, Addressee
    <2>6. ASSUME NEW n \in Msgs, TimeoutFires(n)
          PROVE  /\ entry'[m].status = entry[m].status
                 /\ entry'[m].answer = entry[m].answer
      <3>1. CASE n = m  BY <2>1, <2>6, <3>1 DEF TimeoutFires, EntryType
      <3>2. CASE n # m  BY <2>1, <2>6, <3>2 DEF TimeoutFires
      <3> QED BY <3>1, <3>2
    <2>7. ASSUME NEW n \in Msgs, CollectorCleanupFires(n)
          PROVE  /\ entry'[m].status = entry[m].status
                 /\ entry'[m].answer = entry[m].answer
      BY <2>1, <2>7 DEF CollectorCleanupFires, EntryType
    <2> QED BY <1>1, <2>2, <2>3, <2>4, <2>5, <2>6, <2>7 DEF CollectorNext
  <1>2. ASSUME UNCHANGED collectorVars PROVE Final  BY <1>2 DEF collectorVars
  <1>3. CollectorIInv /\ [CollectorNext]_collectorVars => [Final]_collectorVars  BY <1>1, <1>2
  <1> HIDE DEF Final
  <1>4. CollectorSpec => [][Final]_collectorVars  BY <1>3, AlwaysCollectorIInv, PTL DEF CollectorSpec
  <1> QED BY <1>4 DEF SettledIsFinal, Final

-----------------------------------------------------------------------------
(* Asks (SiriAsk)                                                            *)

AliveTasks == {i \in Tasks : Alive(i)}

\* A task that was not created has no trace.
Traceless ==
    \A i \in Tasks : created < i =>
        /\ process[i] = "none" /\ task[i] = "unknown" /\ reply[i] = "none"
        /\ i \notin expires /\ i \notin old

\* Its process has ended exactly when runClaude has settled.
SettledAtExit ==
    \A i \in Tasks : i <= created =>
        /\ process[i] # "none"
        /\ i \in settled <=> process[i] = "exited"

\* Until then it is not answered, handed over or armed for the cleanup, and only
\* the sweep removes it from the table.
OpenTasks ==
    \A i \in Tasks \ settled :
        /\ i \notin expires
        /\ handed[i] = 0
        /\ reply[i] \in {"none", "pending"}
        /\ i <= created => task[i] = "running" \/ (task[i] = "unknown" /\ i \in old)

\* What has not been answered was neither settled nor swept.
HeldOpen ==
    \A i \in Tasks : i <= created /\ reply[i] = "none" => i \notin settled /\ i \notin old

\* inflight counts the living processes.
CountsProcesses == inflight = Cardinality(AliveTasks) /\ inflight <= MaxInflight

AskIInv ==
    /\ AskTypeOK
    /\ Traceless
    /\ SettledAtExit
    /\ OpenTasks
    /\ HeldOpen
    /\ settled \subseteq 1 .. created
    /\ CountsProcesses
    /\ DelegatedMeansHanded

-----------------------------------------------------------------------------
LEMMA TasksFinite ==
  ASSUME NEW S \in SUBSET Tasks
  PROVE  IsFiniteSet(S) /\ Cardinality(S) \in Nat
  <1>1. IsFiniteSet(Tasks)  BY FS_Interval, AskBoundsAssumption DEF Tasks
  <1> QED BY <1>1, FS_Subset, FS_CardinalityType

LEMMA InitAskIInv == AskInit => AskIInv
  <1> SUFFICES ASSUME AskInit PROVE AskIInv  OBVIOUS
  <1> USE AskBoundsAssumption
  <1>1. AskTypeOK  BY DEF AskInit, AskTypeOK, Tasks
  <1>2. Traceless /\ SettledAtExit /\ OpenTasks /\ HeldOpen /\ settled \subseteq 1 .. created
    BY DEF AskInit, Traceless, SettledAtExit, OpenTasks, HeldOpen, Tasks
  <1>3. CountsProcesses
    <2>1. AliveTasks = {}  BY DEF AskInit, AliveTasks, Alive
    <2> QED BY <2>1, FS_EmptySet DEF AskInit, CountsProcesses
  <1>4. DelegatedMeansHanded  BY DEF AskInit, DelegatedMeansHanded
  <1> QED BY <1>1, <1>2, <1>3, <1>4 DEF AskIInv

\* Steps that end no process keep the count.
LEMMA SameProcesses ==
  ASSUME AskIInv, inflight' = inflight,
         \A i \in Tasks : Alive(i) <=> Alive(i)'
  PROVE  CountsProcesses'
  <1>1. AliveTasks' = AliveTasks  BY DEF AliveTasks
  <1> QED BY <1>1 DEF AskIInv, CountsProcesses

LEMMA AskKeeps ==
  ASSUME AskIInv, Ask
  PROVE  AskIInv'
  <1> USE AskBoundsAssumption
  <1> DEFINE n == created + 1
  <1>1. /\ n \in Tasks /\ created \in Nat /\ inflight < MaxInflight
        /\ created' = n
        /\ inflight' = inflight + 1
        /\ task' = [[t \in Tasks |-> IF t \in old THEN "unknown" ELSE task[t]]
                       EXCEPT ![n] = "running"]
        /\ expires' = expires \ old
        /\ process' = [process EXCEPT ![n] = "running"]
        /\ timer' = [timer EXCEPT ![n] = "limit"]
        /\ UNCHANGED <<old, killed, timedOut, settled, reply, handed>>
    BY DEF Ask, Start, AskIInv, AskTypeOK, Tasks
  <1>2. /\ process[n] = "none" /\ task[n] = "unknown" /\ reply[n] = "none"
        /\ n \notin expires /\ n \notin old /\ n \notin settled
    BY <1>1 DEF AskIInv, Traceless
  <1> HIDE DEF n
  <1>3. /\ task'[n] = "running" /\ process'[n] = "running"
        /\ \A i \in Tasks \ {n} :
              /\ process'[i] = process[i]
              /\ task'[i] = IF i \in old THEN "unknown" ELSE task[i]
    BY <1>1 DEF AskIInv, AskTypeOK
  <1>4. \A i \in Tasks : i <= created' <=> i <= created \/ i = n
    BY <1>1 DEF n, Tasks
  <1>5. AskTypeOK'
    <2>1. created' \in 0 .. MaxTasks /\ inflight' \in Nat  BY <1>1 DEF AskIInv, AskTypeOK, Tasks
    <2>2. task' \in [Tasks -> {"unknown", "running"} \cup Outcomes]
      BY <1>1 DEF AskIInv, AskTypeOK
    <2> QED BY <1>1, <2>1, <2>2 DEF AskIInv, AskTypeOK
  <1>6. Traceless'
    <2>1. \A i \in Tasks : created' < i => created < i /\ i # n  BY <1>1 DEF n, Tasks
    <2> QED BY <1>1, <1>3, <2>1 DEF AskIInv, Traceless
  <1>7. SettledAtExit'  BY <1>1, <1>2, <1>3, <1>4 DEF AskIInv, SettledAtExit
  <1>8. OpenTasks'
    <2> SUFFICES ASSUME NEW i \in Tasks \ settled
                 PROVE  /\ i \notin expires' /\ handed[i] = 0
                        /\ reply[i] \in {"none", "pending"}
                        /\ i <= created' =>
                              task'[i] = "running" \/ (task'[i] = "unknown" /\ i \in old)
      BY <1>1 DEF OpenTasks
    <2> QED BY <1>1, <1>3, <1>4 DEF AskIInv, OpenTasks
  <1>9. HeldOpen'  BY <1>1, <1>2, <1>4 DEF AskIInv, HeldOpen
  <1>10. (settled \subseteq 1 .. created)'  BY <1>1 DEF AskIInv, n
  <1>11. CountsProcesses'
    <2>1. AliveTasks' = AliveTasks \cup {n} /\ n \notin AliveTasks
      BY <1>1, <1>2, <1>3 DEF AliveTasks, Alive
    <2>2. AliveTasks \in SUBSET Tasks  BY DEF AliveTasks
    <2>3. Cardinality(AliveTasks') = Cardinality(AliveTasks) + 1
      BY <2>1, <2>2, TasksFinite, FS_AddElement
    <2>4. inflight \in Nat  BY DEF AskIInv, AskTypeOK
    <2> QED BY <1>1, <2>3, <2>4 DEF AskIInv, CountsProcesses
  <1>12. DelegatedMeansHanded'
    <2>1. \A i \in Tasks : task'[i] = task[i] \/ task'[i] = "unknown" \/ i = n
      BY <1>3
    <2>2. handed[n] = 0  BY <1>1, <1>2 DEF AskIInv, OpenTasks
    <2> QED BY <1>1, <1>2, <1>3, <2>1, <2>2 DEF AskIInv, DelegatedMeansHanded
  <1> QED BY <1>5, <1>6, <1>7, <1>8, <1>9, <1>10, <1>11, <1>12 DEF AskIInv

\* What Settle makes of the table and of the answer.
LEMMA SettleFacts ==
  ASSUME AskIInv, NEW i \in Tasks, i \notin settled, i <= created,
         NEW outcome \in Outcomes, Settle(i, outcome)
  PROVE  /\ settled' = settled \cup {i} /\ inflight' = inflight - 1
         /\ task' \in [Tasks -> {"unknown", "running"} \cup Outcomes]
         /\ reply' \in [Tasks -> {"none", "pending"} \cup Outcomes]
         /\ expires' \subseteq expires \cup {i}
         /\ \A j \in Tasks \ {i} : task'[j] = task[j] /\ reply'[j] = reply[j]
         /\ task'[i] \in {outcome, "unknown"}
         /\ reply'[i] \in {outcome, "pending"}
  <1>1. /\ task \in [Tasks -> {"unknown", "running"} \cup Outcomes]
        /\ reply \in [Tasks -> {"none", "pending"} \cup Outcomes]
    BY DEF AskIInv, AskTypeOK
  <1>2. /\ task[i] = "running" \/ (task[i] = "unknown" /\ i \in old)
        /\ reply[i] \in {"none", "pending"}
        /\ reply[i] = "none" => i \notin old
    BY DEF AskIInv, OpenTasks, HeldOpen
  <1>3. settled' = settled \cup {i} /\ inflight' = inflight - 1
    BY DEF Settle
  <1>4. reply' = [reply EXCEPT ![i] = IF reply[i] = "none" THEN task'[i] ELSE reply[i]]
    BY DEF Settle
  <1>5. CASE task[i] = "running"
    <2>1. task' = [task EXCEPT ![i] = outcome] /\ expires' = expires \cup {i}
      BY <1>5 DEF Settle, Finish
    <2>2. task'[i] = outcome  BY <1>1, <2>1
    <2>3. reply'[i] \in {outcome, "pending"}  BY <1>1, <1>2, <1>4, <2>2
    <2> QED BY <1>1, <1>3, <1>4, <2>1, <2>2, <2>3
  <1>6. CASE task[i] = "unknown" /\ i \in old
    <2>1. UNCHANGED <<task, expires>>  BY <1>6 DEF Settle, Finish
    <2>2. reply[i] = "pending"  BY <1>2, <1>6
    <2> QED BY <1>1, <1>3, <1>4, <1>6, <2>1, <2>2
  <1> QED BY <1>2, <1>5, <1>6

LEMMA ProcessExitsKeeps ==
  ASSUME AskIInv, NEW i \in Tasks, ProcessExits(i)
  PROVE  AskIInv'
  <1> USE AskBoundsAssumption
  <1>1. /\ process[i] \in {"running", "dying"}
        /\ process' = [process EXCEPT ![i] = "exited"]
        /\ timer' = [timer EXCEPT ![i] = IF timer[i] = "limit" THEN "off" ELSE timer[i]]
        /\ UNCHANGED <<created, old, killed, timedOut>>
    BY DEF ProcessExits
  <1>2. i <= created /\ i \notin settled
    <2>1. i <= created
      <3>1. ~ (created < i)  BY <1>1 DEF AskIInv, Traceless
      <3>2. i \in Nat /\ created \in Nat  BY DEF AskIInv, AskTypeOK, Tasks
      <3> QED BY <3>1, <3>2
    <2> QED BY <1>1, <2>1 DEF AskIInv, SettledAtExit
  <1>3. PICK outcome \in Outcomes :
           /\ Settle(i, outcome)
           /\ \/ outcome = "delegated" /\ timedOut[i]
                 /\ handed' = [handed EXCEPT ![i] = handed[i] + 1]
              \/ outcome # "delegated" /\ UNCHANGED handed
    BY DEF ProcessExits, HandOver, Outcomes
  <1>4. /\ settled' = settled \cup {i} /\ inflight' = inflight - 1
        /\ task' \in [Tasks -> {"unknown", "running"} \cup Outcomes]
        /\ reply' \in [Tasks -> {"none", "pending"} \cup Outcomes]
        /\ expires' \subseteq expires \cup {i}
        /\ \A j \in Tasks \ {i} : task'[j] = task[j] /\ reply'[j] = reply[j]
        /\ task'[i] \in {outcome, "unknown"}
        /\ reply'[i] \in {outcome, "pending"}
    BY <1>2, <1>3, SettleFacts
  <1>5. handed[i] = 0  BY <1>2 DEF AskIInv, OpenTasks
  <1>6. /\ handed'[i] = IF outcome = "delegated" THEN 1 ELSE 0
        /\ outcome = "delegated" => timedOut[i]
        /\ \A j \in Tasks \ {i} : handed'[j] = handed[j]
        /\ handed' \in [Tasks -> 0 .. 1]
    BY <1>3, <1>5 DEF AskIInv, AskTypeOK
  <1>7. /\ process'[i] = "exited" /\ \A j \in Tasks \ {i} : process'[j] = process[j]
    BY <1>1 DEF AskIInv, AskTypeOK
  <1>8. AliveTasks' = AliveTasks \ {i} /\ i \in AliveTasks
    BY <1>1, <1>7 DEF AliveTasks, Alive
  <1>9. Cardinality(AliveTasks') = Cardinality(AliveTasks) - 1 /\ Cardinality(AliveTasks') \in Nat
    <2>1. AliveTasks \in SUBSET Tasks /\ AliveTasks' \in SUBSET Tasks  BY DEF AliveTasks
    <2> QED BY <1>8, <2>1, TasksFinite, FS_RemoveElement
  <1>10. CountsProcesses' /\ inflight' \in Nat
    <2>1. inflight \in Nat  BY DEF AskIInv, AskTypeOK
    <2> QED BY <1>4, <1>9, <2>1 DEF AskIInv, CountsProcesses
  <1>11. AskTypeOK'
    <2>1. timer' \in [Tasks -> {"off", "limit", "kill"}]  BY <1>1 DEF AskIInv, AskTypeOK
    <2>2. process' \in [Tasks -> {"none", "running", "dying", "exited"}]
      BY <1>1 DEF AskIInv, AskTypeOK
    <2>3. expires' \subseteq Tasks /\ settled' \subseteq Tasks  BY <1>4 DEF AskIInv, AskTypeOK
    <2> QED BY <1>1, <1>4, <1>6, <1>10, <2>1, <2>2, <2>3 DEF AskIInv, AskTypeOK
  <1>12. Traceless'
    <2>1. created \in Nat /\ i \in Nat  BY DEF AskIInv, AskTypeOK, Tasks
    <2>2. \A j \in Tasks : created < j => j # i  BY <1>2, <2>1
    <2> QED BY <1>1, <1>4, <1>7, <2>2 DEF AskIInv, Traceless
  <1>13. SettledAtExit'  BY <1>1, <1>4, <1>7 DEF AskIInv, SettledAtExit
  <1>14. OpenTasks'  BY <1>1, <1>4, <1>6 DEF AskIInv, OpenTasks
  <1>15. HeldOpen'
    <2>1. reply'[i] # "none"  BY <1>4 DEF Outcomes
    <2> QED BY <1>1, <1>4, <2>1 DEF AskIInv, HeldOpen
  <1>16. (settled \subseteq 1 .. created)'  BY <1>1, <1>2, <1>4 DEF AskIInv, Tasks
  <1>17. DelegatedMeansHanded'
    <2> SUFFICES ASSUME NEW j \in Tasks
                 PROVE  /\ task'[j] = "delegated" \/ reply'[j] = "delegated" => handed'[j] = 1
                        /\ handed'[j] = 1 =>
                              timedOut[j] /\ task'[j] \notin {"done", "error", "running"}
      BY <1>1 DEF DelegatedMeansHanded
    <2>1. CASE j = i  BY <1>4, <1>6, <2>1
    <2>2. CASE j # i  BY <1>4, <1>6, <2>2 DEF AskIInv, DelegatedMeansHanded
    <2> QED BY <2>1, <2>2
  <1> QED BY <1>10, <1>11, <1>12, <1>13, <1>14, <1>15, <1>16, <1>17 DEF AskIInv

LEMMA OverflowsKeeps ==
  ASSUME AskIInv, NEW i \in Tasks, Overflows(i)
  PROVE  AskIInv'
  <1>1. AskTypeOK'  BY DEF Overflows, AskIInv, AskTypeOK
  <1>2. Traceless' /\ SettledAtExit' /\ OpenTasks' /\ HeldOpen'
        /\ (settled \subseteq 1 .. created)' /\ DelegatedMeansHanded'
    BY DEF Overflows, AskIInv, Traceless, SettledAtExit, OpenTasks, HeldOpen,
           DelegatedMeansHanded
  <1>3. CountsProcesses'  BY SameProcesses DEF Overflows, Alive
  <1> QED BY <1>1, <1>2, <1>3 DEF AskIInv

LEMMA LimitPassesKeeps ==
  ASSUME AskIInv, NEW i \in Tasks, LimitPasses(i)
  PROVE  AskIInv'
  <1>1. AskTypeOK'  BY DEF LimitPasses, AskIInv, AskTypeOK
  <1>2. Traceless' /\ SettledAtExit' /\ OpenTasks' /\ HeldOpen'
        /\ (settled \subseteq 1 .. created)'
    BY DEF LimitPasses, AskIInv, Traceless, SettledAtExit, OpenTasks, HeldOpen
  <1>3. DelegatedMeansHanded'
    <2>1. \A j \in Tasks : timedOut[j] => timedOut'[j]  BY DEF LimitPasses, AskIInv, AskTypeOK
    <2> QED BY <2>1 DEF LimitPasses, AskIInv, DelegatedMeansHanded
  <1>4. CountsProcesses'  BY SameProcesses DEF LimitPasses, Alive
  <1> QED BY <1>1, <1>2, <1>3, <1>4 DEF AskIInv

LEMMA KillTimerFiresKeeps ==
  ASSUME AskIInv, NEW i \in Tasks, KillTimerFires(i)
  PROVE  AskIInv'
  <1>1. AskTypeOK'  BY DEF KillTimerFires, AskIInv, AskTypeOK
  <1>2. \A j \in Tasks :
           process'[j] = process[j] \/ (process[j] = "running" /\ process'[j] = "dying")
    BY DEF KillTimerFires, AskIInv, AskTypeOK
  <1>3. UNCHANGED <<created, inflight, task, expires, old, timedOut, settled, reply, handed>>
    BY DEF KillTimerFires
  <1>4. Traceless' /\ SettledAtExit' /\ OpenTasks' /\ HeldOpen'
        /\ (settled \subseteq 1 .. created)' /\ DelegatedMeansHanded'
    BY <1>2, <1>3 DEF AskIInv, Traceless, SettledAtExit, OpenTasks, HeldOpen,
                      DelegatedMeansHanded
  <1>5. CountsProcesses'  BY <1>2, <1>3, SameProcesses DEF Alive
  <1> QED BY <1>1, <1>4, <1>5 DEF AskIInv

LEMMA HandoffKeeps ==
  ASSUME AskIInv, NEW i \in Tasks, Handoff(i)
  PROVE  AskIInv'
  <1>1. /\ UNCHANGED <<created, inflight, task, expires, old, procVars, handed>>
        /\ i <= created /\ reply[i] = "none"
        /\ reply' = [reply EXCEPT ![i] = "pending"]
    BY DEF Handoff
  <1>2. reply'[i] = "pending" /\ \A j \in Tasks \ {i} : reply'[j] = reply[j]
    BY <1>1 DEF AskIInv, AskTypeOK
  <1>3. AskTypeOK'  BY <1>1 DEF AskIInv, AskTypeOK, procVars
  <1>4. Traceless'
    <2>1. created \in Nat /\ i \in Nat  BY AskBoundsAssumption DEF AskIInv, AskTypeOK, Tasks
    <2>2. \A j \in Tasks : created < j => j # i  BY <1>1, <2>1
    <2> QED BY <1>1, <1>2, <2>2 DEF AskIInv, Traceless, procVars
  <1>5. SettledAtExit' /\ OpenTasks' /\ HeldOpen' /\ (settled \subseteq 1 .. created)'
    BY <1>1, <1>2 DEF AskIInv, SettledAtExit, OpenTasks, HeldOpen, procVars
  <1>6. DelegatedMeansHanded'  BY <1>1, <1>2 DEF AskIInv, DelegatedMeansHanded, procVars
  <1>7. CountsProcesses'  BY <1>1, SameProcesses DEF Alive, procVars
  <1> QED BY <1>3, <1>4, <1>5, <1>6, <1>7 DEF AskIInv

LEMMA TaskCleanupKeeps ==
  ASSUME AskIInv, NEW i \in Tasks, TaskCleanupFires(i)
  PROVE  AskIInv'
  <1>1. /\ UNCHANGED <<created, inflight, old, procVars, reply, handed>>
        /\ i \in expires /\ expires' = expires \ {i}
        /\ task' = [task EXCEPT ![i] = "unknown"]
    BY DEF TaskCleanupFires
  <1>2. i \in settled  BY <1>1 DEF AskIInv, OpenTasks
  <1>3. task'[i] = "unknown" /\ \A j \in Tasks \ {i} : task'[j] = task[j]
    BY <1>1 DEF AskIInv, AskTypeOK
  <1>4. AskTypeOK'  BY <1>1 DEF AskIInv, AskTypeOK, procVars
  <1>5. Traceless' /\ SettledAtExit' /\ HeldOpen' /\ (settled \subseteq 1 .. created)'
    BY <1>1, <1>3 DEF AskIInv, Traceless, SettledAtExit, HeldOpen, procVars
  <1>6. OpenTasks'  BY <1>1, <1>2, <1>3 DEF AskIInv, OpenTasks, procVars
  <1>7. DelegatedMeansHanded'  BY <1>1, <1>3 DEF AskIInv, DelegatedMeansHanded, procVars
  <1>8. CountsProcesses'  BY <1>1, SameProcesses DEF Alive, procVars
  <1> QED BY <1>4, <1>5, <1>6, <1>7, <1>8 DEF AskIInv

LEMMA GrowsOldKeeps ==
  ASSUME AskIInv, NEW i \in Tasks, GrowsOld(i)
  PROVE  AskIInv'
  <1>1. /\ UNCHANGED <<created, inflight, task, expires, procVars, reply, handed>>
        /\ i \in 1 .. created /\ reply[i] # "none" /\ old' = old \cup {i}
    BY DEF GrowsOld
  <1>2. AskTypeOK'  BY <1>1 DEF AskIInv, AskTypeOK, procVars
  <1>3. Traceless'
    <2>1. created \in Nat  BY AskBoundsAssumption DEF AskIInv, AskTypeOK
    <2>2. \A j \in Tasks : created < j => j # i  BY <1>1, <2>1 DEF Tasks
    <2> QED BY <1>1, <2>2 DEF AskIInv, Traceless, procVars
  <1>4. SettledAtExit' /\ OpenTasks' /\ HeldOpen' /\ (settled \subseteq 1 .. created)'
    BY <1>1 DEF AskIInv, SettledAtExit, OpenTasks, HeldOpen, procVars
  <1>5. DelegatedMeansHanded'  BY <1>1 DEF AskIInv, DelegatedMeansHanded, procVars
  <1>6. CountsProcesses'  BY <1>1, SameProcesses DEF Alive, procVars
  <1> QED BY <1>2, <1>3, <1>4, <1>5, <1>6 DEF AskIInv

LEMMA NextAskIInv == AskIInv /\ [AskNext]_askVars => AskIInv'
  <1> SUFFICES ASSUME AskIInv, [AskNext]_askVars PROVE AskIInv'  OBVIOUS
  <1>1. CASE UNCHANGED askVars
    <2>1. \A i \in Tasks : Alive(i) <=> Alive(i)'  BY <1>1 DEF askVars, procVars, Alive
    <2>2. CountsProcesses'  BY <1>1, <2>1, SameProcesses DEF askVars
    <2> QED BY <1>1, <2>2 DEF askVars, procVars, AskIInv, AskTypeOK, Traceless, SettledAtExit,
                              OpenTasks, HeldOpen, DelegatedMeansHanded
  <1>2. CASE Ask  BY <1>2, AskKeeps
  <1>3. ASSUME NEW i \in Tasks, ProcessExits(i) PROVE AskIInv'  BY <1>3, ProcessExitsKeeps
  <1>4. ASSUME NEW i \in Tasks, Overflows(i) PROVE AskIInv'  BY <1>4, OverflowsKeeps
  <1>5. ASSUME NEW i \in Tasks, LimitPasses(i) PROVE AskIInv'  BY <1>5, LimitPassesKeeps
  <1>6. ASSUME NEW i \in Tasks, KillTimerFires(i) PROVE AskIInv'  BY <1>6, KillTimerFiresKeeps
  <1>7. ASSUME NEW i \in Tasks, Handoff(i) PROVE AskIInv'  BY <1>7, HandoffKeeps
  <1>8. ASSUME NEW i \in Tasks, TaskCleanupFires(i) PROVE AskIInv'  BY <1>8, TaskCleanupKeeps
  <1>9. ASSUME NEW i \in Tasks, GrowsOld(i) PROVE AskIInv'  BY <1>9, GrowsOldKeeps
  <1> QED BY <1>1, <1>2, <1>3, <1>4, <1>5, <1>6, <1>7, <1>8, <1>9 DEF AskNext

LEMMA AlwaysAskIInv == AskSpec => []AskIInv
  BY InitAskIInv, NextAskIInv, PTL DEF AskSpec

-----------------------------------------------------------------------------
(* Theorems                                                                 *)

\* The table, the processes and the answers keep their types; in particular no
\* ask is ever answered with the status of a task that is unknown.
THEOREM AskTypeCorrect == AskSpec => []AskTypeOK
  <1>1. AskIInv => AskTypeOK  BY DEF AskIInv
  <1> QED BY <1>1, AlwaysAskIInv, PTL

\* At most MAX_INFLIGHT processes are alive: each place is given back once.
THEOREM ProcessesAreFew == AskSpec => []FewProcesses
  <1>1. AskIInv => FewProcesses
    BY DEF AskIInv, CountsProcesses, AliveTasks, FewProcesses
  <1> QED BY <1>1, AlwaysAskIInv, PTL

\* A client that was told to poll finds its task, unless ten minutes have passed.
THEOREM PollFindsTheTask == AskSpec => []PromiseIsKept
  <1>1. ASSUME AskIInv PROVE PromiseIsKept
    <2> SUFFICES ASSUME NEW i \in Tasks \ (settled \cup old), reply[i] = "pending"
                 PROVE  task[i] = "running"
      BY DEF PromiseIsKept
    <2>1. i <= created
      <3>1. ~ (created < i)  BY <1>1 DEF AskIInv, Traceless
      <3>2. i \in Nat /\ created \in Nat
        BY <1>1, AskBoundsAssumption DEF AskIInv, AskTypeOK, Tasks
      <3> QED BY <3>1, <3>2
    <2> QED BY <1>1, <2>1 DEF AskIInv, OpenTasks
  <1> QED BY <1>1, AlwaysAskIInv, PTL

\* "delegated" is said exactly of the tasks that were handed over.
THEOREM DelegationIsTrue == AskSpec => []DelegatedMeansHanded
  <1>1. AskIInv => DelegatedMeansHanded  BY DEF AskIInv
  <1> QED BY <1>1, AlwaysAskIInv, PTL

\* No late exit, sweep or new ask changes the outcome of a task.
THEOREM OutcomeStays == AskSpec => OutcomeIsFinal
  <1> DEFINE Final ==
        \A i \in Tasks :
          i <= created /\ task[i] # "running" => task'[i] \in {task[i], "unknown"}
  <1>1. ASSUME AskIInv, AskNext PROVE Final
    <2> SUFFICES ASSUME NEW i \in Tasks, i <= created, task[i] # "running"
                 PROVE  task'[i] \in {task[i], "unknown"}
      OBVIOUS
    <2>1. task \in [Tasks -> {"unknown", "running"} \cup Outcomes]  BY <1>1 DEF AskIInv, AskTypeOK
    <2>2. CASE Ask
      <3>1. i # created + 1  BY <1>1, AskBoundsAssumption DEF AskIInv, AskTypeOK, Tasks
      <3> QED BY <2>1, <2>2, <3>1 DEF Ask, Start
    <2>3. ASSUME NEW j \in Tasks, NEW outcome, Finish(j, outcome)
          PROVE  task'[i] \in {task[i], "unknown"}
      BY <2>1, <2>3 DEF Finish
    <2>4. ASSUME NEW j \in Tasks, ProcessExits(j)
          PROVE  task'[i] \in {task[i], "unknown"}
      BY <2>3, <2>4 DEF ProcessExits, HandOver, Settle
    <2>5. ASSUME NEW j \in Tasks,
                 \/ Overflows(j) \/ LimitPasses(j) \/ KillTimerFires(j)
                 \/ Handoff(j) \/ TaskCleanupFires(j) \/ GrowsOld(j)
          PROVE  task'[i] \in {task[i], "unknown"}
      BY <2>1, <2>5 DEF Overflows, LimitPasses, KillTimerFires, Handoff, TaskCleanupFires,
                        GrowsOld
    <2> QED BY <1>1, <2>2, <2>4, <2>5 DEF AskNext
  <1>2. ASSUME UNCHANGED askVars PROVE Final  BY <1>2 DEF askVars
  <1>3. AskIInv /\ [AskNext]_askVars => [Final]_askVars  BY <1>1, <1>2
  <1> HIDE DEF Final
  <1>4. AskSpec => [][Final]_askVars  BY <1>3, AlwaysAskIInv, PTL DEF AskSpec
  <1> QED BY <1>4 DEF OutcomeIsFinal, Final

-----------------------------------------------------------------------------
(* Short requests (VoiceFastPath)                                            *)

\* What the abstraction of an utterance looks like; assumed by the theorems.
ClausesOK ==
    Clauses \in [Utterances -> Seq([verbs : SUBSET {"on", "off"}, says : SUBSET Names])]

AskType == [stage : Stages, said : Utterances \cup {None},
            steps : Seq([name : Names, entity : Entities, intent : {"on", "off"}]),
            done : Seq(BOOLEAN), entity : Entities \cup {None}]
PlannedSteps == [name : Names, entity : Entities, intent : {"on", "off"}]

\* How far a request has come: before the plan, in it, handed on, or answered.
ProgressOK ==
    \A a \in Asks :
        /\ asks[a].stage # "new" => asks[a].said \in Utterances
        /\ asks[a].stage \in {"new", "planning"} => asks[a].steps = <<>> /\ asks[a].done = <<>>
        /\ asks[a].stage = "calling" => Len(asks[a].done) < Len(asks[a].steps)
        /\ asks[a].stage \in {"model", "refused", "learning"} =>
               \/ asks[a].steps = <<>> /\ asks[a].done = <<>>
               \/ Len(asks[a].steps) = 1 /\ asks[a].done = <<FALSE>>
        /\ asks[a].stage = "answered" => Len(asks[a].done) = Len(asks[a].steps)

\* Times never run backwards, and what the cache stands for was read after its times.
CacheOK ==
    cache # None =>
        /\ \A l \in Layers : cache.stamps[l] <= stamp[l]
        /\ cache.stamps = stamp => cache.merged = Merge(files)

\* While a request is in loadMappings, a name that a cache it is about to hit lacks has
\* not been learned since.
ReadingOK ==
    reading # None =>
        /\ \A l \in Layers : reading.stamps[l] <= stamp[l]
        /\ cache # None /\ cache.stamps = reading.stamps =>
               \A n \in Names : cache.merged[n] = None => files["learned"][n] = None

FastPathIInv == FastPathTypeOK /\ ReportsAreTrue /\ ProgressOK /\ CacheOK /\ ReadingOK

-----------------------------------------------------------------------------
LEMMA MergeType ==
    ASSUME NEW fs \in [Layers -> Tables]
    PROVE  Merge(fs) \in Tables
BY DEF Merge, Layers, Tables

LEMMA StepType ==
    ASSUME NEW clause, clause.says \subseteq Names, NEW table \in Tables,
           PlanStep(clause, table) # NoStep
    PROVE  PlanStep(clause, table) \in PlannedSteps
<1> DEFINE best == Longest(Known(clause, table))
           name == MatchName(clause, table)
<1>1. /\ name # None /\ PlanStep(clause, table).name = name
      /\ PlanStep(clause, table) = [name |-> name, entity |-> table[name],
            intent |-> IF "off" \in clause.verbs THEN "off" ELSE "on"]
  BY DEF PlanStep
<1>2. name \in best
  BY <1>1 DEF MatchName
<1>3. name \in Names /\ table[name] # None
  BY <1>2 DEF Longest, Known
<1>4. table[name] \in Entities
  BY <1>3 DEF Tables
<1> HIDE DEF name, best
<1> QED BY <1>1, <1>3, <1>4 DEF PlannedSteps

LEMMA PlanType ==
    ASSUME ClausesOK, NEW u \in Utterances, NEW table \in Tables
    PROVE  PlanSteps(u, table) \in Seq(PlannedSteps)
<1> DEFINE steps == Planned(u, table)
           n == Len(Clauses[u])
<1>1. n \in Nat /\ \A i \in 1..n : Clauses[u][i].says \subseteq Names
  <2> DEFINE Clause == [verbs : SUBSET {"on", "off"}, says : SUBSET Names]
  <2>1. Clauses[u] \in Seq(Clause)
    BY DEF ClausesOK
  <2>2. \A c \in Clause : c.says \subseteq Names
    OBVIOUS
  <2> HIDE DEF Clause
  <2> QED BY <2>1, <2>2
<1>2. steps = [i \in 1..n |-> PlanStep(Clauses[u][i], table)]
  BY DEF Planned
<1>3. CASE PlanSteps(u, table) = <<>>
  BY <1>3
<1>4. CASE PlanSteps(u, table) # <<>>
  <2>1. PlanSteps(u, table) = steps /\ \A i \in 1..Len(steps) : steps[i] # NoStep
    BY <1>4 DEF PlanSteps
  <2>2. Len(steps) = n
    BY <1>1, <1>2
  <2>3. \A i \in 1..n : steps[i] = PlanStep(Clauses[u][i], table) /\ steps[i] # NoStep
    BY <1>2, <2>1, <2>2
  <2>4. \A i \in 1..n : steps[i] \in PlannedSteps
    BY <1>1, <2>3, StepType
  <2> HIDE DEF steps, n
  <2>5. steps \in [1..n -> PlannedSteps]
    BY <1>2, <2>3, <2>4
  <2> QED BY <1>1, <2>1, <2>5
<1> QED BY <1>3, <1>4

-----------------------------------------------------------------------------
LEMMA InitOK == FastPathInit => FastPathIInv
<1> SUFFICES ASSUME FastPathInit PROVE FastPathIInv OBVIOUS
<1>1. FastPathTypeOK
  BY DEF FastPathInit, FastPathTypeOK, Tables, NewAsk, Stages, Layers
<1>2. \A a \in Asks : asks[a].stage = "new" /\ asks[a].steps = <<>> /\ asks[a].done = <<>>
                      /\ 1..Len(asks[a].done) = {}
  BY DEF FastPathInit, NewAsk
<1>3. ReportsAreTrue /\ ProgressOK
  BY <1>2 DEF ReportsAreTrue, ProgressOK
<1>4. CacheOK /\ ReadingOK
  BY DEF FastPathInit, CacheOK, ReadingOK
<1> QED BY <1>1, <1>3, <1>4 DEF FastPathIInv

\* A request that moves on is the only one that changes.
LEMMA OneMoves ==
    ASSUME FastPathTypeOK, NEW a \in Asks, NEW r \in AskType, asks' = [asks EXCEPT ![a] = r]
    PROVE  /\ asks' \in [Asks -> AskType] /\ asks'[a] = r
           /\ \A b \in Asks : b # a => asks'[b] = asks[b]
BY DEF FastPathTypeOK, AskType

\* What is proved of the requests that stay as they are, and of the one that moves.
LEMMA OneMovesOK ==
    ASSUME ReportsAreTrue, ProgressOK, NEW a \in Asks, UNCHANGED executed,
           \A b \in Asks : b # a => asks'[b] = asks[b],
           \A i \in 1..Len(asks'[a].done) : asks'[a].done[i] => i \in executed[a],
           asks'[a].said \in Utterances,
           asks'[a].stage \in {"new", "planning"} => asks'[a].steps = <<>> /\ asks'[a].done = <<>>,
           asks'[a].stage = "calling" => Len(asks'[a].done) < Len(asks'[a].steps),
           asks'[a].stage \in {"model", "refused", "learning"} =>
               \/ asks'[a].steps = <<>> /\ asks'[a].done = <<>>
               \/ Len(asks'[a].steps) = 1 /\ asks'[a].done = <<FALSE>>,
           asks'[a].stage = "answered" => Len(asks'[a].done) = Len(asks'[a].steps)
    PROVE  ReportsAreTrue' /\ ProgressOK'
<1>1. ReportsAreTrue'
  <2> SUFFICES ASSUME NEW b \in Asks, NEW i \in 1..Len(asks'[b].done), asks'[b].done[i]
               PROVE  i \in executed[b]
    BY DEF ReportsAreTrue
  <2>1. CASE b = a
    BY <2>1
  <2>2. CASE b # a
    BY <2>2 DEF ReportsAreTrue
  <2> QED BY <2>1, <2>2
<1>2. ProgressOK'
  BY DEF ProgressOK
<1> QED BY <1>1, <1>2

LEMMA LoadedType ==
    ASSUME FastPathTypeOK, reading # None
    PROVE  Loaded \in Tables
<1>1. Merge(files) \in Tables
  BY MergeType DEF FastPathTypeOK
<1> QED BY <1>1 DEF Loaded, CacheHit, FastPathTypeOK

\* Load keeps the cache honest when nobody writes in the same step.
LEMMA LoadCache ==
    ASSUME FastPathTypeOK, CacheOK, ReadingOK, reading # None, Load, UNCHANGED <<files, stamp>>
    PROVE  CacheOK' /\ ReadingOK'
<1>1. ReadingOK'
  BY DEF Load, ReadingOK
<1>2. CASE CacheHit
  BY <1>1, <1>2 DEF Load, CacheOK
<1>3. CASE ~CacheHit
  BY <1>1, <1>3 DEF Load, Loaded, CacheOK, ReadingOK, Merge
<1> QED BY <1>2, <1>3

LEMMA LoadCacheType ==
    ASSUME FastPathTypeOK, reading # None, Load
    PROVE  /\ cache' # None => /\ cache' = [stamps |-> cache'.stamps, merged |-> cache'.merged]
                               /\ cache'.stamps \in [Layers -> Nat] /\ cache'.merged \in Tables
           /\ reading' = None
<1>1. Loaded \in Tables
  BY LoadedType
<1> QED BY <1>1 DEF Load, FastPathTypeOK

\* A write: the cache and a load under way stay behind the new time.
LEMMA WriteCache ==
    ASSUME FastPathTypeOK, CacheOK, ReadingOK, NEW l \in Layers,
           stamp' = [stamp EXCEPT ![l] = @ + 1], UNCHANGED <<cache, reading>>,
           \A n \in Names : files["learned"][n] = None => files'["learned"][n] = None
    PROVE  CacheOK' /\ ReadingOK'
<1>1. /\ stamp \in [Layers -> Nat] /\ stamp' \in [Layers -> Nat]
      /\ stamp'[l] = stamp[l] + 1 /\ \A k \in Layers : stamp[k] <= stamp'[k]
  BY DEF FastPathTypeOK
<1>2. CacheOK'
  <2> SUFFICES ASSUME cache # None
               PROVE  (\A k \in Layers : cache.stamps[k] <= stamp'[k]) /\ cache.stamps # stamp'
    BY DEF CacheOK
  <2>1. cache.stamps \in [Layers -> Nat] /\ \A k \in Layers : cache.stamps[k] <= stamp[k]
    BY DEF FastPathTypeOK, CacheOK
  <2> QED BY <1>1, <2>1
<1>3. ReadingOK'
  <2> SUFFICES ASSUME reading # None
               PROVE  /\ \A k \in Layers : reading.stamps[k] <= stamp'[k]
                      /\ cache # None /\ cache.stamps = reading.stamps =>
                           \A n \in Names : cache.merged[n] = None => files'["learned"][n] = None
    BY DEF ReadingOK
  <2>1. reading.stamps \in [Layers -> Nat] /\ \A k \in Layers : reading.stamps[k] <= stamp[k]
    BY DEF FastPathTypeOK, ReadingOK
  <2> QED BY <1>1, <2>1 DEF ReadingOK
<1> QED BY <1>2, <1>3

-----------------------------------------------------------------------------
\* One lemma for each action.
\* The requests' part of FastPathTypeOK.
LEMMA AsksType == FastPathTypeOK => asks \in [Asks -> AskType]
BY DEF FastPathTypeOK, AskType

LEMMA TypeOfRest ==
    ASSUME FastPathTypeOK, UNCHANGED <<files, stamp, cache, reading, executed>>, asks' \in [Asks -> AskType]
    PROVE  FastPathTypeOK'
BY DEF FastPathTypeOK, AskType

LEMMA AskOK ==
    ASSUME FastPathIInv, NEW a \in Asks, NEW u \in Utterances, AskFor(a, u)
    PROVE  FastPathIInv'
<1> DEFINE r == [asks[a] EXCEPT !.stage = "planning", !.said = u]
<1>1. asks[a] \in AskType /\ asks[a].stage = "new" /\ UNCHANGED <<files, stamp, cache, reading, executed>>
  BY AsksType DEF FastPathIInv, AskFor
<1>2. /\ r \in AskType /\ r.stage = "planning" /\ r.said = u
      /\ r.steps = asks[a].steps /\ r.done = asks[a].done
  BY <1>1 DEF AskType, Stages
<1>3. asks' = [asks EXCEPT ![a] = r]
  BY DEF AskFor
<1> HIDE DEF r
<1>4. asks' \in [Asks -> AskType] /\ asks'[a] = r /\ \A b \in Asks : b # a => asks'[b] = asks[b]
  BY <1>2, <1>3, OneMoves DEF FastPathIInv
<1>5. FastPathTypeOK'
  BY <1>1, <1>4, TypeOfRest DEF FastPathIInv
<1>6. asks[a].steps = <<>> /\ asks[a].done = <<>>
  BY <1>1 DEF FastPathIInv, ProgressOK
<1>7. \A i \in 1..Len(r.done) : r.done[i] => i \in executed[a]
  BY <1>2 DEF FastPathIInv, ReportsAreTrue
<1>8. ReportsAreTrue' /\ ProgressOK'
  BY <1>1, <1>2, <1>4, <1>6, <1>7, OneMovesOK DEF FastPathIInv
<1>9. CacheOK' /\ ReadingOK'
  BY <1>1 DEF FastPathIInv, CacheOK, ReadingOK
<1> QED BY <1>5, <1>8, <1>9 DEF FastPathIInv

LEMMA StatOK ==
    ASSUME FastPathIInv, NEW a \in Asks, Stat(a)
    PROVE  FastPathIInv'
<1> USE DEF FastPathIInv, Stat
<1>1. FastPathTypeOK'
  BY DEF FastPathTypeOK
<1>2. ReportsAreTrue' /\ ProgressOK'
  BY DEF ReportsAreTrue, ProgressOK
<1>3. CacheOK'
  BY DEF CacheOK
<1>4. ReadingOK'
  <2>1. stamp \in [Layers -> Nat]
    BY DEF FastPathTypeOK
  <2>2. reading'.stamps = stamp
    OBVIOUS
  <2>3. cache # None /\ cache.stamps = stamp =>
          \A n \in Names : cache.merged[n] = None => files["learned"][n] = None
    BY DEF CacheOK, Merge
  <2> QED BY <2>1, <2>2, <2>3 DEF ReadingOK
<1> QED BY <1>1, <1>2, <1>3, <1>4

LEMMA PlanOK ==
    ASSUME ClausesOK, FastPathIInv, NEW a \in Asks, Plan(a)
    PROVE  FastPathIInv'
<1> DEFINE steps == PlanSteps(asks[a].said, Loaded)
<1>1. PICK next \in Onward :
        asks' = [asks EXCEPT ![a].steps = steps,
                             ![a].stage = IF steps # <<>> THEN "calling" ELSE next]
  BY DEF Plan
<1>2. /\ asks[a].stage = "planning" /\ reading # None /\ Load
      /\ UNCHANGED <<files, stamp, executed>> /\ asks[a] \in AskType
  BY AsksType DEF Plan, FastPathIInv
<1>3. asks[a].steps = <<>> /\ asks[a].done = <<>> /\ asks[a].said \in Utterances
  BY <1>2 DEF FastPathIInv, ProgressOK
<1>4. steps \in Seq(PlannedSteps)
  BY <1>2, <1>3, LoadedType, PlanType DEF FastPathIInv
<1> HIDE DEF steps
<1> DEFINE r == [asks[a] EXCEPT !.steps = steps, !.stage = IF steps # <<>> THEN "calling" ELSE next]
<1>5. /\ r \in AskType /\ r.steps = steps /\ r.said = asks[a].said /\ r.done = asks[a].done
      /\ r.stage = IF steps # <<>> THEN "calling" ELSE next
  BY <1>2, <1>4 DEF AskType, PlannedSteps, Stages, Onward
<1>6. asks' = [asks EXCEPT ![a] = r]
  BY <1>1
<1> HIDE DEF r
<1>7. asks' \in [Asks -> AskType] /\ asks'[a] = r /\ \A b \in Asks : b # a => asks'[b] = asks[b]
  BY <1>5, <1>6, OneMoves DEF FastPathIInv
<1>8. FastPathTypeOK'
  <2>1. /\ cache' # None => /\ cache' = [stamps |-> cache'.stamps, merged |-> cache'.merged]
                             /\ cache'.stamps \in [Layers -> Nat] /\ cache'.merged \in Tables
        /\ reading' = None
    BY <1>2, LoadCacheType DEF FastPathIInv
  <2> QED BY <1>2, <1>7, <2>1 DEF FastPathTypeOK, AskType, FastPathIInv
<1>9. ReportsAreTrue' /\ ProgressOK'
  <2>1. steps # <<>> => 0 < Len(steps)
    BY <1>4
  <2>2. Len(<<>>) = 0
    OBVIOUS
  <2>3. \A i \in 1..Len(r.done) : r.done[i] => i \in executed[a]
    BY <1>3, <1>5, <2>2
  <2>4. r.stage \in {"calling", "model", "refused"}
    BY <1>5 DEF Onward
  <2> QED BY <1>2, <1>3, <1>5, <1>7, <2>1, <2>2, <2>3, <2>4, OneMovesOK DEF FastPathIInv, Onward
<1>10. CacheOK' /\ ReadingOK'
  BY <1>2, LoadCache DEF FastPathIInv
<1> QED BY <1>8, <1>9, <1>10 DEF FastPathIInv

LEMMA ExecuteOK ==
    ASSUME FastPathIInv, NEW a \in Asks, NEW i \in Sent(asks[a]), Execute(a, i)
    PROVE  FastPathIInv'
<1> USE DEF FastPathIInv, Execute
<1>1. i \in Nat
  BY AsksType DEF Sent, AskType
<1>2. /\ executed' \in [Asks -> SUBSET Nat]
      /\ \A b \in Asks : executed[b] \subseteq executed'[b]
  BY <1>1 DEF FastPathTypeOK
<1>3. FastPathTypeOK'
  BY <1>2 DEF FastPathTypeOK
<1>4. ReportsAreTrue'
  BY <1>2 DEF ReportsAreTrue
<1>5. ProgressOK'
  BY DEF ProgressOK
<1>6. CacheOK' /\ ReadingOK'
  BY DEF CacheOK, ReadingOK
<1> QED BY <1>3, <1>4, <1>5, <1>6

LEMMA CallEndsOK ==
    ASSUME FastPathIInv, NEW a \in Asks, NEW ok \in BOOLEAN, CallEnds(a, ok)
    PROVE  FastPathIInv'
<1> DEFINE done == asks[a].done
           steps == asks[a].steps
           last == Len(done) + 1 = Len(steps)
<1>1. PICK next \in Onward :
        asks' = [asks EXCEPT
            ![a].done = Append(done, ok),
            ![a].stage = IF ~last THEN "calling"
                         ELSE IF Len(steps) = 1 /\ ~ok THEN next ELSE "answered"]
  BY DEF CallEnds
<1>2. /\ asks[a].stage = "calling" /\ UNCHANGED <<files, stamp, cache, reading, executed>>
      /\ ok => Len(done) + 1 \in executed[a]
      /\ asks[a] \in AskType
  BY AsksType DEF CallEnds, FastPathIInv
<1>3. asks[a].said \in Utterances /\ Len(done) < Len(steps)
  BY <1>2 DEF FastPathIInv, ProgressOK
<1>4. done \in Seq(BOOLEAN) /\ steps \in Seq(PlannedSteps)
  BY <1>2 DEF AskType, PlannedSteps
<1>5. \A i \in 1..Len(done) : done[i] => i \in executed[a]
  BY DEF FastPathIInv, ReportsAreTrue
<1> DEFINE stage == IF ~last THEN "calling"
                    ELSE IF Len(steps) = 1 /\ ~ok THEN next ELSE "answered"
           r == [asks[a] EXCEPT !.done = Append(done, ok), !.stage = stage]
<1>6. asks' = [asks EXCEPT ![a] = r]
  BY <1>1
<1>7. /\ r \in AskType /\ r.steps = steps /\ r.said = asks[a].said /\ r.done = Append(done, ok)
      /\ r.stage = IF ~last THEN "calling"
                   ELSE IF Len(steps) = 1 /\ ~ok THEN next ELSE "answered"
  <2>1. Append(done, ok) \in Seq(BOOLEAN)
    BY <1>4
  <2>2. stage \in Stages
    BY DEF Stages, Onward
  <2> HIDE DEF done, stage
  <2>3. /\ r \in AskType /\ r.steps = asks[a].steps /\ r.said = asks[a].said
        /\ r.done = Append(done, ok) /\ r.stage = stage
    BY <1>2, <2>1, <2>2 DEF AskType
  <2> QED BY <2>3 DEF stage
<1> HIDE DEF r, done, steps
<1>8. /\ Len(Append(done, ok)) = Len(done) + 1
      /\ \A i \in 1..Len(done) : Append(done, ok)[i] = done[i]
      /\ Append(done, ok)[Len(done) + 1] = ok
      /\ Len(done) \in Nat /\ Len(steps) \in Nat
  BY <1>4
<1>9. asks' \in [Asks -> AskType] /\ asks'[a] = r /\ \A b \in Asks : b # a => asks'[b] = asks[b]
  BY <1>6, <1>7, OneMoves DEF FastPathIInv
<1>10. FastPathTypeOK'
  BY <1>2, <1>9, TypeOfRest DEF FastPathIInv
<1>11. \A i \in 1..Len(r.done) : r.done[i] => i \in executed[a]
  <2> SUFFICES ASSUME NEW i \in 1..(Len(done) + 1), Append(done, ok)[i]
               PROVE  i \in executed[a]
    BY <1>7, <1>8
  <2>1. i \in 1..Len(done) \/ i = Len(done) + 1
    BY <1>8
  <2> QED BY <1>2, <1>5, <1>8, <2>1
<1>12. Len(steps) = 1 /\ last /\ ~ok => Append(done, ok) = <<FALSE>>
  <2> SUFFICES ASSUME Len(steps) = 1, last, ~ok
               PROVE  Append(done, ok) = <<FALSE>>
    OBVIOUS
  <2>1. Len(done) = 0
    BY <1>8 DEF last
  <2>2. done = <<>>
    BY <1>4, <2>1, EmptySeq
  <2>3. Append(<<>>, FALSE) = <<FALSE>>
    OBVIOUS
  <2>4. Append(done, ok) = Append(<<>>, FALSE)
    BY <2>2, Zenon
  <2> QED BY <2>3, <2>4
<1>13. ReportsAreTrue' /\ ProgressOK'
  <2>1. r.stage = "calling" => Len(r.done) < Len(r.steps)
    BY <1>3, <1>7, <1>8 DEF last, Onward
  <2>2. r.stage = "answered" => Len(r.done) = Len(r.steps)
    BY <1>7, <1>8 DEF last, Onward
  <2>3. r.stage \in Onward => Len(r.steps) = 1 /\ r.done = <<FALSE>>
    BY <1>7, <1>12 DEF Onward
  <2>4. r.stage \in {"calling", "answered"} \cup Onward
    BY <1>7
  <2> QED BY <1>2, <1>3, <1>7, <1>9, <1>11, <2>1, <2>2, <2>3, <2>4, OneMovesOK DEF FastPathIInv, Onward
<1>14. CacheOK' /\ ReadingOK'
  BY <1>2 DEF FastPathIInv, CacheOK, ReadingOK
<1> QED BY <1>10, <1>13, <1>14 DEF FastPathIInv

LEMMA ModelEndsOK ==
    ASSUME FastPathIInv, NEW a \in Asks, NEW entity \in Entities \cup {None}, ModelEnds(a, entity)
    PROVE  FastPathIInv'
<1> DEFINE r == [asks[a] EXCEPT !.entity = entity,
                   !.stage = IF entity = None THEN "answered" ELSE "learning"]
<1>1. asks[a] \in AskType /\ asks[a].stage = "model" /\ UNCHANGED <<files, stamp, cache, reading, executed>>
  BY AsksType DEF FastPathIInv, ModelEnds
<1>2. /\ r \in AskType /\ r.stage \in {"answered", "learning"} /\ r.said = asks[a].said
      /\ r.steps = asks[a].steps /\ r.done = asks[a].done
  BY <1>1 DEF AskType, Stages
<1>3. asks' = [asks EXCEPT ![a] = r]
  BY DEF ModelEnds
<1> HIDE DEF r
<1>4. asks' \in [Asks -> AskType] /\ asks'[a] = r /\ \A b \in Asks : b # a => asks'[b] = asks[b]
  BY <1>2, <1>3, OneMoves DEF FastPathIInv
<1>5. FastPathTypeOK'
  BY <1>1, <1>4, TypeOfRest DEF FastPathIInv
<1>6. /\ asks[a].said \in Utterances
      /\ \/ asks[a].steps = <<>> /\ asks[a].done = <<>>
         \/ Len(asks[a].steps) = 1 /\ asks[a].done = <<FALSE>>
  BY <1>1 DEF FastPathIInv, ProgressOK
<1>7. \A i \in 1..Len(r.done) : r.done[i] => i \in executed[a]
  BY <1>2 DEF FastPathIInv, ReportsAreTrue
<1>8. Len(r.done) = Len(r.steps)
  <2>1. Len(<<>>) = 0 /\ Len(<<FALSE>>) = 1
    OBVIOUS
  <2> QED BY <1>2, <1>6, <2>1
<1>9. ReportsAreTrue' /\ ProgressOK'
  BY <1>1, <1>2, <1>4, <1>6, <1>7, <1>8, OneMovesOK DEF FastPathIInv
<1>10. CacheOK' /\ ReadingOK'
  BY <1>1 DEF FastPathIInv, CacheOK, ReadingOK
<1> QED BY <1>5, <1>9, <1>10 DEF FastPathIInv

LEMMA LearnOK ==
    ASSUME FastPathIInv, NEW a \in Asks, Learn(a)
    PROVE  FastPathIInv'
<1> DEFINE r == [asks[a] EXCEPT !.stage = "answered"]
           noun == Noun[asks[a].said]
<1>1. /\ asks[a] \in AskType /\ asks[a].stage = "learning" /\ reading # None /\ Load
      /\ UNCHANGED executed
  BY AsksType DEF FastPathIInv, Learn
<1>2. /\ r \in AskType /\ r.stage = "answered" /\ r.said = asks[a].said
      /\ r.steps = asks[a].steps /\ r.done = asks[a].done
  BY <1>1 DEF AskType, Stages
<1>3. asks' = [asks EXCEPT ![a] = r]
  BY DEF Learn
<1>4. \/ UNCHANGED <<files, stamp>>
      \/ /\ files' = [files EXCEPT !["learned"][noun] = asks[a].entity]
         /\ stamp' = [stamp EXCEPT !["learned"] = @ + 1]
  BY DEF Learn
<1> HIDE DEF r, noun
<1>5. asks' \in [Asks -> AskType] /\ asks'[a] = r /\ \A b \in Asks : b # a => asks'[b] = asks[b]
  BY <1>2, <1>3, OneMoves DEF FastPathIInv
<1>6. /\ cache' # None => /\ cache' = [stamps |-> cache'.stamps, merged |-> cache'.merged]
                           /\ cache'.stamps \in [Layers -> Nat] /\ cache'.merged \in Tables
      /\ reading' = None
  BY <1>1, LoadCacheType DEF FastPathIInv
<1>7. FastPathTypeOK'
  <2>1. /\ files \in [Layers -> Tables] /\ stamp \in [Layers -> Nat]
        /\ asks[a].entity \in Entities \cup {None}
    BY <1>1 DEF FastPathIInv, FastPathTypeOK, AskType
  <2>2. stamp' \in [Layers -> Nat]
    BY <1>4, <2>1
  <2>3. [files["learned"] EXCEPT ![noun] = asks[a].entity] \in Tables
    BY <2>1 DEF Layers, Tables
  <2>4. files' \in [Layers -> Tables]
    BY <1>4, <2>1, <2>3
  <2> QED BY <1>1, <1>5, <1>6, <2>2, <2>4 DEF FastPathTypeOK, AskType, FastPathIInv
<1>8. ReportsAreTrue' /\ ProgressOK'
  <2>1. /\ asks[a].said \in Utterances
        /\ \/ asks[a].steps = <<>> /\ asks[a].done = <<>>
           \/ Len(asks[a].steps) = 1 /\ asks[a].done = <<FALSE>>
    BY <1>1 DEF FastPathIInv, ProgressOK
  <2>2. \A i \in 1..Len(r.done) : r.done[i] => i \in executed[a]
    BY <1>2 DEF FastPathIInv, ReportsAreTrue
  <2>3. Len(r.done) = Len(r.steps)
    <3>1. Len(<<>>) = 0 /\ Len(<<FALSE>>) = 1
      OBVIOUS
    <3> QED BY <1>2, <2>1, <3>1
  <2> QED BY <1>1, <1>2, <1>5, <2>1, <2>2, <2>3, OneMovesOK DEF FastPathIInv
<1>9. CacheOK' /\ ReadingOK'
  <2>1. CASE UNCHANGED <<files, stamp>>
    BY <1>1, <2>1, LoadCache DEF FastPathIInv
  <2>2. CASE stamp' = [stamp EXCEPT !["learned"] = @ + 1]
    <3>1. /\ stamp \in [Layers -> Nat] /\ stamp' \in [Layers -> Nat]
          /\ stamp'["learned"] = stamp["learned"] + 1 /\ \A k \in Layers : stamp[k] <= stamp'[k]
      BY <2>2 DEF FastPathIInv, FastPathTypeOK, Layers
    <3>2. reading.stamps \in [Layers -> Nat] /\ \A k \in Layers : reading.stamps[k] <= stamp[k]
      BY <1>1 DEF FastPathIInv, FastPathTypeOK, ReadingOK
    <3>3. cache'.stamps = reading.stamps
      BY <1>1 DEF Load, CacheHit
    <3>4. cache'.stamps # stamp' /\ \A k \in Layers : cache'.stamps[k] <= stamp'[k]
      BY <3>1, <3>2, <3>3 DEF Layers
    <3> QED BY <1>6, <3>4 DEF CacheOK, ReadingOK
  <2> QED BY <1>4, <2>1, <2>2
<1> QED BY <1>7, <1>8, <1>9 DEF FastPathIInv

LEMMA RewriteOK ==
    ASSUME FastPathIInv, NEW l \in Layers, NEW table \in Tables, Rewrite(l, table)
    PROVE  FastPathIInv'
<1>1. FastPathTypeOK'
  <2>1. files' \in [Layers -> Tables] /\ stamp' \in [Layers -> Nat]
    BY DEF FastPathIInv, Rewrite, FastPathTypeOK
  <2> QED BY <2>1 DEF FastPathIInv, Rewrite, FastPathTypeOK
<1>2. ReportsAreTrue' /\ ProgressOK'
  BY DEF FastPathIInv, Rewrite, ReportsAreTrue, ProgressOK
<1>3. files'["learned"] = files["learned"]
  BY DEF FastPathIInv, Rewrite, FastPathTypeOK, Layers
<1>4. CacheOK' /\ ReadingOK'
  BY <1>3, WriteCache DEF FastPathIInv, Rewrite
<1> QED BY <1>1, <1>2, <1>4 DEF FastPathIInv

LEMMA UnlearnOK ==
    ASSUME FastPathIInv, NEW names \in SUBSET Names, Unlearn(names)
    PROVE  FastPathIInv'
<1> DEFINE table == [n \in Names |-> IF n \in names THEN None ELSE files["learned"][n]]
<1>1. /\ files' = [files EXCEPT !["learned"] = table] /\ stamp' = [stamp EXCEPT !["learned"] = @ + 1]
      /\ UNCHANGED <<cache, reading, asks, executed>>
  BY DEF Unlearn
<1>2. "learned" \in Layers /\ table \in Tables
  BY DEF FastPathIInv, FastPathTypeOK, Layers, Tables
<1>3. \A n \in Names : files["learned"][n] = None => table[n] = None
  OBVIOUS
<1> HIDE DEF table
<1>4. FastPathTypeOK'
  <2>1. files' \in [Layers -> Tables] /\ stamp' \in [Layers -> Nat]
    BY <1>1, <1>2 DEF FastPathIInv, FastPathTypeOK
  <2> QED BY <1>1, <2>1 DEF FastPathIInv, FastPathTypeOK
<1>5. ReportsAreTrue' /\ ProgressOK'
  BY <1>1 DEF FastPathIInv, ReportsAreTrue, ProgressOK
<1>6. files'["learned"] = table
  BY <1>1, <1>2 DEF FastPathIInv, FastPathTypeOK
<1>7. CacheOK' /\ ReadingOK'
  BY <1>1, <1>2, <1>3, <1>6, WriteCache DEF FastPathIInv
<1> QED BY <1>4, <1>5, <1>7 DEF FastPathIInv

LEMMA NextOK ==
    ASSUME ClausesOK
    PROVE  FastPathIInv /\ [FastPathNext]_fastPathVars => FastPathIInv'
<1> SUFFICES ASSUME FastPathIInv, [FastPathNext]_fastPathVars PROVE FastPathIInv' OBVIOUS
<1>1. CASE UNCHANGED fastPathVars
  BY <1>1 DEF FastPathIInv, fastPathVars, FastPathTypeOK, ReportsAreTrue, ProgressOK, CacheOK, ReadingOK
<1>2. ASSUME NEW a \in Asks, Step(a) PROVE FastPathIInv'
  BY <1>2, AskOK, StatOK, PlanOK, LearnOK, ExecuteOK, CallEndsOK, ModelEndsOK DEF Step
<1>3. ASSUME NEW l \in Layers, NEW table \in Tables, Rewrite(l, table) PROVE FastPathIInv'
  BY <1>3, RewriteOK
<1>4. ASSUME NEW names \in SUBSET Names, Unlearn(names) PROVE FastPathIInv'
  BY <1>4, UnlearnOK
<1> QED BY <1>1, <1>2, <1>3, <1>4 DEF FastPathNext

LEMMA IInvAlways ==
    ASSUME ClausesOK
    PROVE  FastPathSpec => []FastPathIInv
BY InitOK, NextOK, PTL DEF FastPathSpec

-----------------------------------------------------------------------------
(* The tables, the cache and the requests are well typed, whatever is said,  *)
(* whoever writes the files and however calls end.                           *)
THEOREM FastPathTypeCorrect ==
    ASSUME ClausesOK
    PROVE  FastPathSpec => []FastPathTypeOK
<1>1. FastPathIInv => FastPathTypeOK
  BY DEF FastPathIInv
<1> QED BY <1>1, IInvAlways, PTL

(* What the fast path reports as done has been done (fast-path.ts:228-250).  *)
THEOREM ReportsTrue ==
    ASSUME ClausesOK
    PROVE  FastPathSpec => []ReportsAreTrue
<1>1. FastPathIInv => ReportsAreTrue
  BY DEF FastPathIInv
<1> QED BY <1>1, IInvAlways, PTL

(* Nothing the fast path has begun is done again by the model or left half   *)
(* done, but for a single step whose answer is lost (fast-path.ts:219-233).  *)
THEOREM NeverDoneTwice ==
    ASSUME ClausesOK
    PROVE  FastPathSpec => []HandedOverUndone
<1>1. Len(<<>>) = 0
  OBVIOUS
<1>2. FastPathIInv => HandedOverUndone
  BY <1>1 DEF FastPathIInv, ProgressOK, HandedOverUndone
<1> QED BY <1>2, IInvAlways, PTL

(* A cache that is hit holds what the files hold (fast-path.ts:83-104).      *)
THEOREM CacheNeverStale ==
    ASSUME ClausesOK
    PROVE  FastPathSpec => []CacheIsCurrent
<1>1. FastPathIInv => CacheIsCurrent
  BY DEF FastPathIInv, CacheOK, CacheIsCurrent
<1> QED BY <1>1, IInvAlways, PTL

(* Learning changes no name that was known (fast-path-learn.ts:115-128).     *)
THEOREM LearningIsHarmless ==
    ASSUME ClausesOK
    PROVE  FastPathSpec => LearningShadowsNothing
<1>1. ASSUME FastPathIInv, NEW a \in Asks, Learn(a), NEW n \in Names, Merge(files)[n] # None
      PROVE  Merge(files')[n] = Merge(files)[n]
  <2> DEFINE noun == Noun[asks[a].said]
  <2>1. CASE UNCHANGED files
    BY <2>1 DEF Merge
  <2>2. CASE files' = [files EXCEPT !["learned"][noun] = asks[a].entity] /\ Loaded[noun] = None
    <3> HIDE DEF noun
    <3>1. /\ files'["manual"] = files["manual"] /\ files'["auto"] = files["auto"]
          /\ n # noun => files'["learned"][n] = files["learned"][n]
      BY <2>2 DEF FastPathIInv, FastPathTypeOK, Layers, Tables
    <3>2. CASE n # noun
      BY <3>1, <3>2 DEF Merge
    <3>3. CASE n = noun
      <4>1. files["learned"][n] = None
        <5>1. CASE CacheHit
          BY <1>1, <2>2, <3>3, <5>1 DEF FastPathIInv, ReadingOK, Loaded, CacheHit, Learn
        <5>2. CASE ~CacheHit
          BY <1>1, <2>2, <3>3, <5>2 DEF Loaded
        <5> QED BY <5>1, <5>2
      <4> QED BY <1>1, <3>1, <4>1 DEF Merge
    <3> QED BY <3>2, <3>3
  <2> QED BY <1>1, <2>1, <2>2 DEF Learn
<1>2. FastPathIInv /\ [FastPathNext]_fastPathVars =>
        [\A a \in Asks : Learn(a) =>
           \A n \in Names : Merge(files)[n] # None => Merge(files')[n] = Merge(files)[n]]_fastPathVars
  BY <1>1
<1> QED BY <1>2, IInvAlways, PTL DEF FastPathSpec, LearningShadowsNothing
=============================================================================
