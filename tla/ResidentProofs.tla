--------------------------- MODULE ResidentProofs ---------------------------
(* Proofs about resident sessions, for any sessions, tokens, configurations  *)
(* and cap: how long they and their messages are kept, and whom their        *)
(* messages without a request are pushed to.                                 *)
EXTENDS SessionRetention, FiniteSetTheorems, ResidentPush, AssistantPage, TLAPS

-----------------------------------------------------------------------------
(* Retention (SessionRetention)                                              *)

RetentionConstantsOK ==
    /\ Days \in Nat /\ Cap \in Nat /\ MaxTime \in Nat /\ MaxId \in Nat
    /\ Configs \subseteq SUBSET ChatKeys

\* The time of a session is not older than any of its messages.
ActivityFollowsMessages ==
    /\ \A c \in ChatKeys : active[c] <= now
    /\ \A m \in messages : m.ts <= now /\ (m.chat \in stored => m.ts <= active[m.chat])

UniqueIds == \A m, n \in messages : m.id = n.id => m = n

RetentionIInv ==
    /\ RetentionTypeOK
    /\ RegistryInTable
    /\ ActivityFollowsMessages
    /\ UniqueIds
    /\ IsFiniteSet(messages)

\* A key configured for a resident session is made into three segments that start with the
\* bridge, whatever it is, and a key of that form is left as it is (registry.ts:26-34).
THEOREM ResidentKeyIsCompliant ==
    ASSUME NEW S, NEW bridge \in S, NEW k \in Seq(S)
    PROVE  LET r == ResidentSessionKey(bridge, k)
           IN  Len(r) = 3 /\ r[1] = bridge /\ ResidentSessionKey(bridge, r) = r
<1> DEFINE r == ResidentSessionKey(bridge, k)
<1>1. CASE Len(k) = 3 /\ k[1] = bridge
  BY <1>1 DEF ResidentSessionKey
<1>2. CASE ~(Len(k) = 3 /\ k[1] = bridge)
  <2>1. PICK safe : r = <<bridge, safe, safe>>
    BY <1>2 DEF ResidentSessionKey
  <2>2. Len(r) = 3 /\ r[1] = bridge
    BY <2>1
  <2> QED  BY <2>2 DEF ResidentSessionKey
<1> QED  BY <1>1, <1>2

\* When one message of a chat goes with Cap newer ones there, so do all older ones.
LEMMA OlderGoToo ==
    ASSUME RetentionIInv, RetentionConstantsOK, NEW m \in messages, NEW n \in messages,
           m.chat = n.chat, m \notin Trimmed, n \in Trimmed
    PROVE  Newer(n, m)
<1>1. m \in Message /\ n \in Message
  BY DEF RetentionIInv, RetentionTypeOK
<1>2. /\ m.ts \in Nat /\ n.ts \in Nat /\ m.id \in Nat /\ n.id \in Nat
      /\ m # n /\ m.id # n.id
  BY <1>1 DEF Message, Ids, RetentionConstantsOK, RetentionIInv, UniqueIds
<1>3. SUFFICES ASSUME Newer(m, n) PROVE FALSE
  BY <1>2 DEF Newer
<1>4. NewerInChat(m) \subseteq NewerInChat(n)
  <2> SUFFICES ASSUME NEW x \in NewerInChat(m) PROVE x \in NewerInChat(n)
    OBVIOUS
  <2>1. x \in messages /\ x.chat = m.chat /\ Newer(x, m)
    BY DEF NewerInChat
  <2>2. x.ts \in Nat /\ x.id \in Nat
    BY <2>1 DEF RetentionIInv, RetentionTypeOK, Message, Ids, RetentionConstantsOK
  <2>3. Newer(x, n)
    BY <1>2, <1>3, <2>1, <2>2 DEF Newer
  <2> QED  BY <2>1, <2>3 DEF NewerInChat
<1>5. IsFiniteSet(NewerInChat(n))
  BY FS_Subset DEF NewerInChat, RetentionIInv
<1>6. Cardinality(NewerInChat(m)) <= Cardinality(NewerInChat(n))
  BY <1>4, <1>5, FS_Subset
<1>7. Cardinality(NewerInChat(m)) \in Nat /\ Cardinality(NewerInChat(n)) \in Nat
  BY <1>4, <1>5, FS_Subset, FS_CardinalityType
<1>8. m.chat \in flagged /\ ~(Cardinality(NewerInChat(m)) < Cap)
  BY DEF Trimmed
<1>9. Cardinality(NewerInChat(n)) < Cap
  BY <1>8 DEF Trimmed
<1> QED  BY <1>6, <1>7, <1>8, <1>9 DEF RetentionConstantsOK

LEMMA RetentionStarts == ASSUME RetentionConstantsOK, RetentionInit PROVE RetentionIInv
<1>1. IsFiniteSet(messages)
  BY FS_EmptySet DEF RetentionInit
<1>2. RetentionTypeOK
  <2>1. now \in 0..MaxTime /\ active \in [ChatKeys -> 0..MaxTime]
    BY DEF RetentionInit, RetentionConstantsOK
  <2>2. up \in BOOLEAN /\ residents \subseteq ChatKeys /\ stored \subseteq ChatKeys
        /\ flagged \subseteq stored /\ messages \subseteq Message
    BY DEF RetentionInit
  <2> QED  BY <2>1, <2>2 DEF RetentionTypeOK
<1> QED
  BY <1>1, <1>2 DEF RetentionInit, RetentionIInv, RegistryInTable, ActivityFollowsMessages, UniqueIds, RetentionTypeOK,
     RetentionConstantsOK

\* What every step says of the two action properties.
StepProperties ==
    /\ \A c \in stored \ stored' : \A m \in messages' : m.chat = c => m.ts + Days < now
    /\ \A m \in messages \ messages', n \in messages' : n.chat = m.chat => Newer(n, m)

\* A message that is saved now, in a chat whose time becomes now.
LEMMA FreshKeeps ==
    ASSUME RetentionConstantsOK, RetentionIInv, NEW c \in ChatKeys, NEW id \in Ids, Fresh(c, id)
    PROVE  /\ messages' \subseteq Message /\ IsFiniteSet(messages') /\ UniqueIds'
           /\ messages \subseteq messages'
           /\ \A m \in messages' : m \in messages \/ (m.chat = c /\ m.ts = now)
<1> DEFINE new == [chat |-> c, ts |-> now, id |-> id]
<1>1. new \in Message /\ new.id = id /\ new.chat = c /\ new.ts = now
  BY DEF Message, RetentionIInv, RetentionTypeOK
<1>2. messages' = messages \cup {new} /\ \A m \in messages : m.id # id
  BY DEF Fresh
<1>3. IsFiniteSet(messages')
  BY <1>2, FS_AddElement DEF RetentionIInv
<1> HIDE DEF new
<1>4. UniqueIds'
  BY <1>1, <1>2 DEF UniqueIds, RetentionIInv
<1> QED  BY <1>1, <1>2, <1>3, <1>4 DEF RetentionIInv, RetentionTypeOK

LEMMA StepKeeps ==
    ASSUME RetentionConstantsOK, RetentionIInv, [RetentionNext]_retentionVars
    PROVE  RetentionIInv' /\ (RetentionNext => StepProperties)
<1> USE DEF RetentionIInv
<1>0. now \in Nat /\ \A c \in ChatKeys : active[c] \in Nat
  BY DEF RetentionTypeOK, RetentionConstantsOK
<1>a. messages' = messages => \A m \in messages \ messages' : FALSE
  OBVIOUS
<1>1. ASSUME NEW c \in ChatKeys, Create(c)
      PROVE  RetentionIInv' /\ StepProperties
  <2>1. active' \in [ChatKeys -> 0..MaxTime]
        /\ \A x \in ChatKeys : active'[x] = IF x = c THEN now ELSE active[x]
    BY <1>1 DEF Create, RetentionTypeOK
  <2>2. RetentionTypeOK'
    BY <1>1, <2>1 DEF Create, RetentionTypeOK
  <2>3. ActivityFollowsMessages'
    BY <1>0, <1>1, <2>1 DEF Create, ActivityFollowsMessages, RetentionTypeOK, Message
  <2> QED
    BY <1>1, <2>2, <2>3 DEF Create, RegistryInTable, UniqueIds, StepProperties
<1>2. ASSUME NEW c \in ChatKeys, Delete(c) \/ ClearHistory(c)
      PROVE  RetentionIInv' /\ StepProperties
  <2>1. /\ messages' = {m \in messages : m.chat # c}
        /\ UNCHANGED <<now, up, residents, active, flagged>>
        /\ stored' \in {stored, stored \ {c}} /\ (stored' # stored => c \notin flagged)
    BY <1>2 DEF Delete, ClearHistory
  <2>2. IsFiniteSet(messages') /\ messages' \subseteq messages
    BY <2>1, FS_Subset
  <2>3. RetentionTypeOK'
    BY <2>1, <2>2 DEF RetentionTypeOK
  <2>4. ActivityFollowsMessages' /\ UniqueIds' /\ RegistryInTable'
    BY <2>1, <2>2 DEF ActivityFollowsMessages, UniqueIds, RegistryInTable
  <2>5. StepProperties
    BY <2>1 DEF StepProperties
  <2> QED  BY <2>2, <2>3, <2>4, <2>5
<1>3. ASSUME NEW c \in ChatKeys, NEW id \in Ids, Save(c, id)
      PROVE  RetentionIInv' /\ StepProperties
  <2>0. Fresh(c, id)
    BY <1>3 DEF Save
  <2>1. active' \in [ChatKeys -> 0..MaxTime]
        /\ \A x \in ChatKeys : active'[x] = IF x = c /\ c \in stored THEN now ELSE active[x]
    BY <1>3 DEF Save, Bumped, RetentionTypeOK
  <2>2. RetentionTypeOK'
    BY <1>3, <2>0, <2>1, FreshKeeps DEF Save, RetentionTypeOK
  <2>3. ActivityFollowsMessages'
    BY <1>0, <1>3, <2>0, <2>1, FreshKeeps DEF Save, ActivityFollowsMessages, RetentionTypeOK, Message
  <2> QED
    BY <1>3, <2>0, <2>2, <2>3, FreshKeeps DEF Save, RegistryInTable, StepProperties
<1>4. ASSUME NEW c \in ChatKeys, NEW id \in Ids, AssistantSend(c, id)
      PROVE  RetentionIInv' /\ StepProperties
  <2>0. Fresh(c, id)
    BY <1>4 DEF AssistantSend
  <2>1. active' \in [ChatKeys -> 0..MaxTime]
        /\ \A x \in ChatKeys : active'[x] = IF x = c THEN now ELSE active[x]
    BY <1>4 DEF AssistantSend, RetentionTypeOK
  <2>2. RetentionTypeOK'
    BY <1>4, <2>0, <2>1, FreshKeeps DEF AssistantSend, RetentionTypeOK
  <2>3. ActivityFollowsMessages'
    BY <1>0, <1>4, <2>0, <2>1, FreshKeeps
       DEF AssistantSend, ActivityFollowsMessages, RetentionTypeOK, Message
  <2> QED
    BY <1>4, <2>0, <2>2, <2>3, FreshKeeps DEF AssistantSend, RegistryInTable, StepProperties
<1>5. ASSUME NEW m \in messages, SaveAgain(m)
      PROVE  RetentionIInv' /\ StepProperties
  <2>1. m.chat \in ChatKeys
    BY DEF RetentionTypeOK, Message
  <2>2. active' \in [ChatKeys -> 0..MaxTime]
        /\ \A x \in ChatKeys : active'[x] = IF x = m.chat /\ x \in stored THEN now ELSE active[x]
    BY <1>5, <2>1 DEF SaveAgain, Bumped, RetentionTypeOK
  <2>3. RetentionTypeOK'
    BY <1>5, <2>2 DEF SaveAgain, RetentionTypeOK
  <2>4. ActivityFollowsMessages'
    BY <1>0, <1>5, <2>2 DEF SaveAgain, ActivityFollowsMessages, RetentionTypeOK, Message
  <2> QED
    BY <1>5, <2>3, <2>4 DEF SaveAgain, RegistryInTable, UniqueIds, StepProperties
<1>6. ASSUME NEW config \in Configs, Start(config)
      PROVE  RetentionIInv' /\ StepProperties
  <2>1. active' \in [ChatKeys -> 0..MaxTime]
        /\ \A x \in ChatKeys : active'[x] = IF x \in config \ stored THEN now ELSE active[x]
    BY <1>6 DEF Start, RetentionTypeOK
  <2>2. RetentionTypeOK'
    BY <1>6, <2>1 DEF Start, RetentionTypeOK, RetentionConstantsOK
  <2>3. ActivityFollowsMessages'
    BY <1>0, <1>6, <2>1 DEF Start, ActivityFollowsMessages, RetentionTypeOK, Message
  <2> QED
    BY <1>6, <2>2, <2>3 DEF Start, RegistryInTable, UniqueIds, StepProperties
<1>7. ASSUME Cleanup
      PROVE  RetentionIInv' /\ StepProperties
  <2>1. messages' = Trimmed /\ messages' \subseteq messages /\ IsFiniteSet(messages')
    BY <1>7, FS_Subset DEF Cleanup, Trimmed
  <2>2. RetentionTypeOK'
    BY <1>7, <2>1 DEF Cleanup, Idle, RetentionTypeOK
  <2>3. ActivityFollowsMessages' /\ UniqueIds' /\ RegistryInTable'
    BY <1>7, <2>1 DEF Cleanup, ActivityFollowsMessages, UniqueIds, RegistryInTable
  <2>4. ASSUME NEW c \in stored \ stored', NEW m \in messages', m.chat = c
        PROVE  m.ts + Days < now
    <3>1. active[c] + Days < now
      BY <1>7, <2>4 DEF Cleanup, Idle
    <3>2. m.ts <= active[c] /\ m.ts \in Nat
      BY <2>1, <2>4 DEF ActivityFollowsMessages, RetentionTypeOK, Message
    <3>3. c \in ChatKeys
      BY <2>4 DEF RetentionTypeOK
    <3> QED  BY <1>0, <3>1, <3>2, <3>3 DEF RetentionConstantsOK
  <2>5. StepProperties
    BY <2>1, <2>4, OlderGoToo DEF StepProperties
  <2> QED  BY <2>1, <2>2, <2>3, <2>5
<1>8. CASE Stop \/ Tick \/ UNCHANGED retentionVars
  <2>1. /\ UNCHANGED <<residents, stored, active, flagged, messages>>
        /\ now' \in {now, now + 1} /\ now' \in 0..MaxTime
        /\ up' \in {up, FALSE}
    <3>1. CASE Stop
      BY <3>1 DEF Stop, RetentionTypeOK
    <3>2. CASE Tick
      BY <1>0, <3>2 DEF Tick, RetentionTypeOK, RetentionConstantsOK
    <3>3. CASE UNCHANGED retentionVars
      BY <3>3 DEF retentionVars, RetentionTypeOK
    <3> QED  BY <1>8, <3>1, <3>2, <3>3
  <2>2. RetentionTypeOK'
    BY <2>1 DEF RetentionTypeOK
  <2>3. ActivityFollowsMessages'
    BY <1>0, <2>1 DEF ActivityFollowsMessages, RetentionTypeOK, Message
  <2>4. RegistryInTable' /\ UniqueIds' /\ IsFiniteSet(messages')
    <3>1. up' => up
      BY <2>1 DEF RetentionTypeOK
    <3>2. UniqueIds' /\ IsFiniteSet(messages')
      BY <2>1 DEF UniqueIds
    <3> QED  BY <2>1, <3>1, <3>2 DEF RegistryInTable
  <2>5. stored \ stored' = {} /\ messages \ messages' = {}
    BY <2>1
  <2> QED
    BY <2>2, <2>3, <2>4, <2>5 DEF StepProperties
<1> QED
  BY <1>1, <1>2, <1>3, <1>4, <1>5, <1>6, <1>7, <1>8 DEF RetentionNext

LEMMA RetentionInductive == ASSUME RetentionConstantsOK PROVE RetentionSpec => []RetentionIInv
<1>1. RetentionInit => RetentionIInv  BY RetentionStarts
<1>2. RetentionIInv /\ [RetentionNext]_retentionVars => RetentionIInv'  BY StepKeeps
<1> QED  BY <1>1, <1>2, PTL DEF RetentionSpec

\* The types of the tables hold in every reachable state.
THEOREM RetentionTypeCorrect == ASSUME RetentionConstantsOK PROVE RetentionSpec => []RetentionTypeOK
<1>1. RetentionIInv => RetentionTypeOK  BY DEF RetentionIInv
<1> QED  BY <1>1, RetentionInductive, PTL

\* While the server runs, the sessions marked resident are those its registry names
\* (registry.ts:74-81, sessions-cleanup.ts:17-24, api/sessions.ts:22-31).
THEOREM ResidentsAreKept == ASSUME RetentionConstantsOK PROVE RetentionSpec => []RegistryInTable
<1>1. RetentionIInv => RegistryInTable  BY DEF RetentionIInv
<1> QED  BY <1>1, RetentionInductive, PTL

\* No session goes while one of its messages is younger than the threshold
\* (sessions-cleanup.ts:15-39, messages.ts:53-56).
THEOREM RecentSessionsAreKept == ASSUME RetentionConstantsOK PROVE RetentionSpec => RecentSessionsStay
<1>1. RetentionIInv /\ [RetentionNext]_retentionVars =>
        [\A c \in stored \ stored' : \A m \in messages' : m.chat = c => m.ts + Days < now]_retentionVars
  BY StepKeeps DEF StepProperties
<1> QED  BY <1>1, RetentionInductive, PTL DEF RetentionSpec, RecentSessionsStay

\* What is taken from a chat is its oldest part (sessions-cleanup.ts:46-72).
THEOREM OldestMessagesGoFirst == ASSUME RetentionConstantsOK PROVE RetentionSpec => OldestGoFirst
<1>1. RetentionIInv /\ [RetentionNext]_retentionVars =>
        [\A m \in messages \ messages', n \in messages' : n.chat = m.chat => Newer(n, m)]_retentionVars
  BY StepKeeps DEF StepProperties
<1> QED  BY <1>1, RetentionInductive, PTL DEF RetentionSpec, OldestGoFirst

-----------------------------------------------------------------------------
(* Push notices (ResidentPush)                                               *)

PushConstantsOK ==
    /\ MaxEndpoint \in Nat
    /\ NoToken \notin Tokens
    /\ Owner \in [Chats -> Tokens \cup {NoToken}] /\ AssistantToken \in Tokens \cup {NoToken}
    /\ "resident-proactive" \notin Chats

\* Endpoints are handed out in order, and none comes back.
EndpointsInOrder ==
    /\ sub <= issued /\ sub \notin gone
    /\ \A r \in requests : r.endpoint <= issued
    /\ \A e \in gone : e <= issued

\* The one request of the toggle under way, until the server has handled it.
OwnRequest ==
    /\ \A r, q \in requests : r.own /\ q.own => r = q
    /\ \A r \in requests : r.own =>
         /\ wait # "none" /\ r.kind = wait /\ r.token = login
         /\ answered = FALSE
         /\ sub # 0 => r.endpoint = sub

\* No other request can change what the toggle is about to find, or has found.
NoOtherRequest ==
    ~muddled /\ (wait # "none" \/ confirmed # "none") =>
        \A r \in requests : r.endpoint = sub => r.own

HandledIsInTable ==
    ~muddled /\ answered /\ sub # 0 =>
        /\ wait = "on" => row[sub] = login
        /\ wait = "off" => row[sub] # login

Rest ==
    /\ EndpointsInOrder
    /\ OwnRequest
    /\ NoOtherRequest
    /\ HandledIsInTable
    /\ confirmed # "none" => wait = "none"
    /\ ConfirmedOnIsKnown
    /\ ConfirmedOffIsSilent

PushIInv == PushTypeOK /\ Rest

LEMMA PushStarts == ASSUME PushConstantsOK, PushInit PROVE PushIInv
<1>1. /\ sub \in 0..MaxEndpoint /\ issued \in 0..MaxEndpoint /\ gone \subseteq Endpoints
      /\ requests \subseteq Post /\ outgoing \subseteq Push /\ recent \subseteq Chats
  BY DEF PushInit, PushConstantsOK
<1>2. /\ row \in [Endpoints -> Tokens \cup {NoToken}]
      /\ shown \in [Tags -> Chats \cup {NoChat}]
  BY DEF PushInit
<1>3. PushTypeOK
  BY <1>1, <1>2 DEF PushInit, PushTypeOK
<1>4. Rest
  BY DEF PushInit, Rest, EndpointsInOrder, OwnRequest, NoOtherRequest, HandledIsInTable,
     ConfirmedOnIsKnown, ConfirmedOffIsSilent
<1> QED  BY <1>3, <1>4 DEF PushIInv

\* What happens to the server's pushes and to the notifications leaves the rest alone.
LEMMA RestStays ==
    ASSUME Rest, UNCHANGED <<browser, row>>
    PROVE  Rest'
BY DEF browser, Rest, EndpointsInOrder, OwnRequest, NoOtherRequest, HandledIsInTable,
   ConfirmedOnIsKnown, ConfirmedOffIsSilent

LEMMA DisownedRequests ==
    ASSUME PushTypeOK
    PROVE  /\ Disowned \subseteq Post
           /\ \A q \in Disowned : q.own = FALSE /\ \E r \in requests : r.endpoint = q.endpoint
<1> SUFFICES ASSUME NEW r \in requests
             PROVE  LET q == [r EXCEPT !.own = FALSE]
                    IN  q \in Post /\ q.own = FALSE /\ r.endpoint = q.endpoint
  BY DEF Disowned
<1>1. r \in Post
  BY DEF PushTypeOK
<1> QED  BY <1>1 DEF Post

LEMMA AskedRequests ==
    ASSUME PushTypeOK, NEW kind \in {"on", "off"}, NEW e \in Endpoints
    PROVE  /\ Asked(kind, e) \subseteq Post
           /\ \A r \in Asked(kind, e) :
                r \in requests \/ ( /\ r.kind = kind /\ r.endpoint = e
                                    /\ r.token = login /\ r.own = TRUE )
           /\ \A r, q \in Asked(kind, e) : r \notin requests /\ q \notin requests => r = q
<1> DEFINE new == [kind |-> kind, endpoint |-> e, token |-> login, own |-> TRUE]
<1>1. new \in Post /\ new.kind = kind /\ new.endpoint = e /\ new.token = login /\ new.own = TRUE
  BY DEF Post, PushTypeOK
<1>2. Asked(kind, e) = requests \cup {new}
  BY DEF Asked
<1> HIDE DEF new
<1> QED  BY <1>1, <1>2 DEF PushTypeOK

LEMMA ToggleOnKeeps == ASSUME PushConstantsOK, PushIInv, ToggleOn PROVE PushIInv'
<1> USE DEF PushIInv
<1> DEFINE e == IF sub # 0 THEN sub ELSE issued + 1
<1>0. sub \in Nat /\ issued \in Nat /\ MaxEndpoint \in Nat
  BY DEF PushTypeOK, PushConstantsOK
<1>1. /\ sub' = e /\ requests' = Asked("on", e)
      /\ issued' = IF sub # 0 THEN issued ELSE e
      /\ muddled' = (sub # 0 /\ (muddled \/ OnItsWay(sub)))
      /\ wait = "none" /\ wait' = "on" /\ answered' = FALSE /\ confirmed' = "none"
      /\ UNCHANGED <<login, gone, pushOn, row, recent, outgoing, notices>>
      /\ sub # 0 \/ issued < MaxEndpoint
  BY DEF ToggleOn
<1>2. e \in Endpoints /\ e # 0 /\ e <= issued' /\ issued <= issued' /\ issued' \in 0..MaxEndpoint
  BY <1>0, <1>1 DEF Endpoints, EndpointsInOrder, Rest, PushTypeOK
<1>3. e \notin gone
  BY <1>0, <1>1 DEF EndpointsInOrder, Rest, PushTypeOK, Endpoints
<1>4. \A r \in requests : r.own = FALSE /\ r.endpoint \in Nat
  BY <1>1 DEF OwnRequest, Rest, PushTypeOK, Post, Endpoints
<1>5. ~muddled' => \A r \in requests : r.endpoint # e
  <2>1. CASE sub # 0
    BY <1>1, <2>1 DEF OnItsWay
  <2>2. CASE sub = 0
    <3>1. e = issued + 1 /\ \A r \in requests : r.endpoint <= issued
      BY <2>2 DEF EndpointsInOrder, Rest
    <3> QED  BY <1>0, <1>4, <3>1
  <2> QED  BY <2>1, <2>2
<1> HIDE DEF e
<1>6. PushTypeOK'
  <2>1. requests' \subseteq Post
    BY <1>1, <1>2, AskedRequests
  <2>2. sub' \in 0..MaxEndpoint
    BY <1>1, <1>2 DEF Endpoints
  <2>3. muddled' \in BOOLEAN
    BY <1>1
  <2> QED  BY <1>1, <1>2, <2>1, <2>2, <2>3 DEF PushTypeOK, notices
<1>7. EndpointsInOrder'
  <2>1. \A r \in requests' : r.endpoint <= issued'
    <3>1. \A r \in requests : r.endpoint <= issued
      BY DEF EndpointsInOrder, Rest
    <3>2. \A r \in requests : r.endpoint <= issued'
      BY <1>0, <1>2, <1>4, <3>1
    <3>3. \A r \in requests' : r \in requests \/ r.endpoint = e
      BY <1>1, <1>2, AskedRequests
    <3> QED  BY <1>2, <3>2, <3>3
  <2>2. \A x \in gone' : x <= issued'
    BY <1>0, <1>1, <1>2 DEF EndpointsInOrder, Rest, PushTypeOK, Endpoints
  <2> QED  BY <1>1, <1>2, <1>3, <2>1, <2>2 DEF EndpointsInOrder
<1>8. OwnRequest'
  BY <1>1, <1>2, <1>4, AskedRequests DEF OwnRequest
<1>9. NoOtherRequest'
  BY <1>1, <1>2, <1>5, AskedRequests DEF NoOtherRequest
<1> QED
  BY <1>1, <1>6, <1>7, <1>8, <1>9 DEF Rest, HandledIsInTable, ConfirmedOnIsKnown,
     ConfirmedOffIsSilent

LEMMA ToggleOffKeeps == ASSUME PushConstantsOK, PushIInv, ToggleOff PROVE PushIInv'
<1> USE DEF PushIInv
<1>0. sub \in Nat /\ issued \in Nat /\ MaxEndpoint \in Nat
  BY DEF PushTypeOK, PushConstantsOK
<1>1. /\ wait = "none" /\ confirmed' = "none"
      /\ UNCHANGED <<login, issued, row, recent, outgoing, notices>>
  BY DEF ToggleOff
<1>2. \A r \in requests : r.own = FALSE /\ r.endpoint \in Nat /\ r.endpoint # 0
  BY <1>1 DEF OwnRequest, Rest, PushTypeOK, Post, Endpoints
<1>3. CASE sub = 0
  <2>1. UNCHANGED <<sub, gone, requests, muddled, wait, answered>> /\ pushOn' = FALSE
    BY <1>3 DEF ToggleOff
  <2>2. PushTypeOK'
    BY <1>1, <2>1 DEF PushTypeOK, notices
  <2> QED
    BY <1>1, <2>1, <2>2 DEF Rest, EndpointsInOrder, OwnRequest, NoOtherRequest, HandledIsInTable,
       ConfirmedOnIsKnown, ConfirmedOffIsSilent
<1>4. CASE sub # 0
  <2>1. /\ requests' = Asked("off", sub)
        /\ muddled' = (muddled \/ OnItsWay(sub))
        /\ (sub' = 0 /\ gone' = gone \cup {sub}) \/ UNCHANGED <<sub, gone>>
        /\ wait' = "off" /\ answered' = FALSE /\ UNCHANGED pushOn
    BY <1>4 DEF ToggleOff
  <2>2. sub \in Endpoints
    BY <1>0, <1>4 DEF Endpoints, PushTypeOK
  <2>3. ~muddled' => \A r \in requests : r.endpoint # sub
    BY <2>1 DEF OnItsWay
  <2>4. PushTypeOK'
    <3>1. requests' \subseteq Post
      BY <2>1, <2>2, AskedRequests
    <3>2. sub' \in 0..MaxEndpoint /\ gone' \subseteq Endpoints
      <4>1. 0 \in 0..MaxEndpoint /\ gone \subseteq Endpoints /\ sub \in 0..MaxEndpoint
        BY <1>0 DEF PushTypeOK
      <4> QED  BY <2>1, <2>2, <4>1
    <3>3. muddled' \in BOOLEAN
      BY <2>1
    <3> QED  BY <1>1, <2>1, <3>1, <3>2, <3>3 DEF PushTypeOK, notices
  <2>5. EndpointsInOrder'
    <3>1. \A r \in requests' : r.endpoint <= issued
      BY ZenonT(60), <2>1, <2>2, AskedRequests DEF EndpointsInOrder, Rest
    <3>2. 0 \notin gone /\ 0 \notin {sub}
      BY <1>4 DEF PushTypeOK, Endpoints
    <3> QED
      BY <1>0, <1>1, <2>1, <3>1, <3>2 DEF EndpointsInOrder, Rest
  <2>6. OwnRequest'
    BY ZenonT(60), <1>1, <1>2, <2>1, <2>2, AskedRequests DEF OwnRequest
  <2>7. NoOtherRequest'
    <3> SUFFICES ASSUME ~muddled', NEW r \in requests', r.endpoint = sub'
                 PROVE  r.own
      BY DEF NoOtherRequest
    <3>1. sub' # 0
      <4>1. r \in requests \/ r.endpoint = sub
        BY <2>1, <2>2, AskedRequests
      <4> QED  BY <1>2, <1>4, <4>1
    <3>2. r.endpoint = sub
      BY <2>1, <3>1
    <3>3. r \notin requests
      BY <2>3, <3>2
    <3> QED  BY <2>1, <2>2, <3>3, AskedRequests
  <2> QED
    BY <1>1, <2>1, <2>4, <2>5, <2>6, <2>7 DEF Rest, HandledIsInTable, ConfirmedOnIsKnown,
       ConfirmedOffIsSilent
<1> QED  BY <1>3, <1>4

LEMMA ToggleEndsKeeps == ASSUME PushConstantsOK, PushIInv, ToggleEnds PROVE PushIInv'
<1> USE DEF PushIInv
<1>1. PICK ok \in {FALSE, answered} :
        /\ pushOn' = IF wait = "on" THEN pushOn \/ ok ELSE FALSE
        /\ confirmed' = IF (wait = "on" /\ ok /\ sub # 0) \/ (wait = "off" /\ (ok \/ sub = 0))
                        THEN wait ELSE "none"
  BY DEF ToggleEnds
<1>2. /\ wait # "none" /\ wait' = "none" /\ requests' = Disowned
      /\ UNCHANGED <<login, sub, issued, gone, answered, muddled, row, recent, outgoing, notices>>
  BY DEF ToggleEnds
<1>3. ok \in BOOLEAN /\ (ok => answered)
  <2>1. answered \in BOOLEAN
    BY DEF PushTypeOK
  <2>2. CASE ok = FALSE
    BY <2>2
  <2>3. CASE ok = answered
    BY <2>1, <2>3, Zenon
  <2> QED  BY <2>2, <2>3
<1>4. PushTypeOK'
  <2>1. requests' \subseteq Post
    BY <1>2, DisownedRequests
  <2>2. pushOn' \in BOOLEAN
    BY <1>1, <1>3 DEF PushTypeOK
  <2>3. confirmed' \in {"none", "on", "off"}
    BY <1>1 DEF PushTypeOK
  <2> QED  BY <1>2, <2>1, <2>2, <2>3 DEF PushTypeOK, notices
<1>5. EndpointsInOrder'
  BY <1>2, DisownedRequests DEF EndpointsInOrder, Rest
<1>6. OwnRequest'
  BY <1>2, DisownedRequests DEF OwnRequest
<1>7. NoOtherRequest'
  <2> SUFFICES ASSUME ~muddled, confirmed' # "none", NEW q \in requests', q.endpoint = sub
               PROVE  FALSE
    BY <1>2 DEF NoOtherRequest
  <2>1. PICK r \in requests : r.endpoint = sub
    BY <1>2, DisownedRequests
  <2>2. r.own = TRUE /\ r.endpoint # 0
    BY <1>2, <2>1 DEF NoOtherRequest, Rest, PushTypeOK, Post, Endpoints
  <2>3. answered = FALSE
    BY <2>2 DEF OwnRequest, Rest
  <2> QED  BY <1>1, <1>3, <2>1, <2>2, <2>3
<1>8. ConfirmedOnIsKnown'
  BY <1>1, <1>2, <1>3 DEF ConfirmedOnIsKnown, HandledIsInTable, Rest
<1>9. ConfirmedOffIsSilent'
  BY <1>1, <1>2, <1>3 DEF ConfirmedOffIsSilent, HandledIsInTable, Rest
<1> QED
  BY <1>2, <1>4, <1>5, <1>6, <1>7, <1>8, <1>9 DEF Rest, HandledIsInTable

LEMMA LoadedAnewKeeps ==
    ASSUME PushConstantsOK, PushIInv,
           \/ \E t \in Tokens : SwitchToken(t)
           \/ \E p \in {"closed", "starting"} : Reload(p)
    PROVE  PushIInv'
<1> USE DEF PushIInv
<1>1. /\ wait' = "none" /\ pushOn' = FALSE /\ requests' = Disowned
      /\ UNCHANGED <<sub, issued, gone, answered, muddled, row, recent, outgoing, shown>>
      /\ page' \in {"closed", "starting"} /\ request' = NoChat
      /\ login' \in Tokens
      /\ confirmed' = "none" \/ UNCHANGED <<login, confirmed>>
  BY DEF SwitchToken, Reload, PushTypeOK
<1>2. PushTypeOK'
  <2>1. requests' \subseteq Post
    BY <1>1, DisownedRequests
  <2> QED  BY <1>1, <2>1 DEF PushTypeOK
<1>3. EndpointsInOrder' /\ OwnRequest'
  BY <1>1, DisownedRequests DEF EndpointsInOrder, OwnRequest, Rest
<1>4. NoOtherRequest'
  <2> SUFFICES ASSUME ~muddled, confirmed # "none", NEW q \in requests', q.endpoint = sub
               PROVE  FALSE
    BY <1>1 DEF NoOtherRequest
  <2>1. PICK r \in requests : r.endpoint = sub
    BY <1>1, DisownedRequests
  <2>2. r.own
    BY <2>1 DEF NoOtherRequest, Rest
  <2> QED  BY <2>2 DEF OwnRequest, Rest
<1>5. ConfirmedOnIsKnown' /\ ConfirmedOffIsSilent' /\ HandledIsInTable'
  BY <1>1 DEF ConfirmedOnIsKnown, ConfirmedOffIsSilent, HandledIsInTable, Rest
<1> QED  BY <1>1, <1>2, <1>3, <1>4, <1>5 DEF Rest

LEMMA SmallBrowserStepsKeep ==
    ASSUME PushConstantsOK, PushIInv,
           SettingsOpen \/ Expires \/ (\E r \in requests : Lost(r))
    PROVE  PushIInv'
<1> USE DEF PushIInv
<1>1. CASE SettingsOpen
  <2>1. PushTypeOK'
    BY <1>1 DEF SettingsOpen, PushTypeOK, notices
  <2> QED
    BY <1>1, <2>1 DEF SettingsOpen, Rest, EndpointsInOrder, OwnRequest, NoOtherRequest,
       HandledIsInTable, ConfirmedOnIsKnown, ConfirmedOffIsSilent
<1>2. CASE Expires
  <2>1. sub \in Nat /\ sub \in Endpoints /\ 0 \notin Endpoints /\ 0 \in 0..MaxEndpoint
    BY <1>2 DEF Expires, PushTypeOK, Endpoints, PushConstantsOK
  <2>2. PushTypeOK'
    BY <1>2, <2>1 DEF Expires, PushTypeOK, notices
  <2>3. EndpointsInOrder'
    BY <1>2, <2>1 DEF Expires, EndpointsInOrder, Rest, PushTypeOK
  <2>4. \A r \in requests : r.endpoint # 0
    BY <2>1 DEF PushTypeOK, Post
  <2> QED
    BY <1>2, <2>2, <2>3, <2>4 DEF Expires, Rest, OwnRequest, NoOtherRequest,
       HandledIsInTable, ConfirmedOnIsKnown, ConfirmedOffIsSilent
<1>3. CASE \E r \in requests : Lost(r)
  <2>1. /\ requests' \subseteq requests
        /\ UNCHANGED <<login, sub, issued, gone, pushOn, wait, answered, confirmed, muddled, row,
                       recent, outgoing, notices>>
    BY <1>3 DEF Lost
  <2>2. PushTypeOK'
    BY <2>1 DEF PushTypeOK, notices
  <2> QED
    BY <2>1, <2>2 DEF Rest, EndpointsInOrder, OwnRequest, NoOtherRequest,
       HandledIsInTable, ConfirmedOnIsKnown, ConfirmedOffIsSilent
<1> QED  BY <1>1, <1>2, <1>3

LEMMA HandleKeeps ==
    ASSUME PushConstantsOK, PushIInv, NEW r \in requests, Handle(r)
    PROVE  PushIInv'
<1> USE DEF PushIInv
<1>1. /\ requests' = requests \ {r}
      /\ answered' = (answered \/ r.own)
      /\ row' = [row EXCEPT ![r.endpoint] = IF r.kind = "on" THEN r.token
                                           ELSE IF row[r.endpoint] = r.token THEN NoToken
                                           ELSE row[r.endpoint]]
      /\ UNCHANGED <<login, sub, issued, gone, pushOn, wait, confirmed, muddled, recent, outgoing,
                     notices>>
  BY DEF Handle, RowsAfter
<1>2. r \in Post /\ r.endpoint \in Endpoints /\ r.token \in Tokens /\ r.kind \in {"on", "off"}
      /\ r.own \in BOOLEAN
  BY DEF PushTypeOK, Post
<1>3. \A x \in Endpoints : row'[x] =
        IF x # r.endpoint THEN row[x]
        ELSE IF r.kind = "on" THEN r.token
        ELSE IF row[x] = r.token THEN NoToken ELSE row[x]
  BY <1>1, <1>2 DEF PushTypeOK
<1>4. PushTypeOK'
  <2>1. row' \in [Endpoints -> Tokens \cup {NoToken}]
    BY <1>1, <1>2 DEF PushTypeOK
  <2>2. answered' \in BOOLEAN
    BY <1>1
  <2> QED  BY <1>1, <2>1, <2>2 DEF PushTypeOK, notices
<1>5. EndpointsInOrder' /\ NoOtherRequest'
  BY <1>1 DEF EndpointsInOrder, NoOtherRequest, Rest
<1>6. OwnRequest'
  <2>1. ASSUME NEW q \in requests', q.own PROVE answered' = FALSE
    <3>1. q \in requests /\ q # r /\ answered = FALSE
      BY <1>1, <2>1 DEF OwnRequest, Rest
    <3>2. ~r.own
      BY <2>1, <3>1 DEF OwnRequest, Rest
    <3> QED  BY <1>1, <1>2, <3>1, <3>2
  <2> QED  BY <1>1, <2>1 DEF OwnRequest, Rest
<1>7. HandledIsInTable'
  <2> SUFFICES ASSUME ~muddled, answered', sub # 0, wait # "none"
               PROVE  (wait = "on" => row'[sub] = login) /\ (wait = "off" => row'[sub] # login)
    BY <1>1 DEF HandledIsInTable
  <2>0. sub \in Endpoints
    BY DEF PushTypeOK, Endpoints
  <2>1. CASE r.own
    <3>1. r.kind = wait /\ r.token = login /\ r.endpoint = sub
      BY <2>1 DEF OwnRequest, Rest
    <3> QED  BY <1>2, <1>3, <2>0, <3>1 DEF PushConstantsOK
  <2>2. CASE ~r.own
    <3>1. r.endpoint # sub
      BY <2>2 DEF NoOtherRequest, Rest
    <3>2. row'[sub] = row[sub] /\ answered
      BY <1>1, <1>3, <2>0, <2>2, <3>1
    <3> QED  BY <3>2 DEF HandledIsInTable, Rest
  <2> QED  BY <2>1, <2>2
<1>8. ConfirmedOnIsKnown' /\ ConfirmedOffIsSilent'
  <2>1. CASE confirmed = "none" \/ muddled \/ sub = 0
    BY <1>1, <2>1 DEF ConfirmedOnIsKnown, ConfirmedOffIsSilent, Rest
  <2>2. CASE confirmed # "none" /\ ~muddled /\ sub # 0
    <3>1. sub \in Endpoints
      BY <2>2 DEF PushTypeOK, Endpoints
    <3>2. ~r.own
      BY <2>2 DEF OwnRequest, Rest
    <3>3. r.endpoint # sub
      BY <2>2, <3>2 DEF NoOtherRequest, Rest
    <3> QED
      BY <1>1, <1>3, <3>1, <3>3 DEF ConfirmedOnIsKnown, ConfirmedOffIsSilent, Rest
  <2> QED  BY <2>1, <2>2
<1> QED  BY <1>1, <1>4, <1>5, <1>6, <1>7, <1>8 DEF Rest

LEMMA RefusedKeeps ==
    ASSUME PushConstantsOK, PushIInv, NEW p \in outgoing, Refused(p)
    PROVE  PushIInv'
<1> USE DEF PushIInv
<1>1. /\ outgoing' = outgoing \ {p}
      /\ row' = IF p.endpoint \in gone THEN [row EXCEPT ![p.endpoint] = NoToken] ELSE row
      /\ UNCHANGED <<browser, recent, notices>>
  BY DEF Refused
<1>2. row' \in [Endpoints -> Tokens \cup {NoToken}] /\ (sub # 0 => row'[sub] = row[sub])
  <2>1. CASE p.endpoint \notin gone
    BY <1>1, <2>1 DEF PushTypeOK
  <2>2. CASE p.endpoint \in gone
    <3>1. p.endpoint # sub /\ (sub # 0 => sub \in Endpoints)
      BY <2>2 DEF EndpointsInOrder, Rest, PushTypeOK, Endpoints
    <3>2. row' = [row EXCEPT ![p.endpoint] = NoToken]
      BY <1>1, <2>2
    <3> QED  BY <3>1, <3>2 DEF PushTypeOK
  <2> QED  BY <2>1, <2>2
<1>3. PushTypeOK'
  BY <1>1, <1>2 DEF PushTypeOK, browser, notices
<1> QED
  BY <1>1, <1>2, <1>3 DEF browser, Rest, EndpointsInOrder, OwnRequest, NoOtherRequest,
     HandledIsInTable, ConfirmedOnIsKnown, ConfirmedOffIsSilent

LEMMA SentAreTyped ==
    ASSUME PushTypeOK, NEW t, NEW tag \in Tags, NEW c \in Chats
    PROVE  SentTo(t, tag, c) \subseteq Push
BY DEF SentTo, Push, PushTypeOK

LEMMA ServerKeeps ==
    ASSUME PushConstantsOK, PushIInv,
           \/ Restart \/ PageListens \/ Opened
           \/ \E c \in Chats :
                UserSends(c) \/ WindowPasses(c) \/ ResidentReply(c) \/ AssistantNotify(c)
           \/ \E p \in outgoing : Delivered(p)
           \/ \E tag \in Tags : Click(tag)
    PROVE  PushIInv'
<1> USE DEF PushIInv
<1>1. CASE Restart \/ PageListens \/ Opened
  BY <1>1, RestStays DEF Restart, PageListens, Opened, PushTypeOK, browser, notices
<1>2. ASSUME NEW c \in Chats, UserSends(c) \/ WindowPasses(c)
      PROVE  PushIInv'
  BY <1>2, RestStays DEF UserSends, WindowPasses, PushTypeOK, browser, notices
<1>3. ASSUME NEW c \in Chats, ResidentReply(c) \/ AssistantNotify(c)
      PROVE  PushIInv'
  <2>1. outgoing' \subseteq Push /\ UNCHANGED <<browser, row, recent, notices>>
    <3>1. "resident-proactive" \in Tags /\ c \in Tags
      BY DEF Tags
    <3> QED  BY <1>3, <3>1, SentAreTyped DEF ResidentReply, AssistantNotify, PushTypeOK
  <2> QED  BY <2>1, RestStays DEF PushTypeOK, browser, notices
<1>4. ASSUME NEW p \in outgoing, Delivered(p)
      PROVE  PushIInv'
  <2>1. shown' \in [Tags -> Chats \cup {NoChat}]
    BY <1>4 DEF Delivered, PushTypeOK, Push
  <2> QED  BY <1>4, <2>1, RestStays DEF Delivered, PushTypeOK, browser
<1>5. ASSUME NEW tag \in Tags, Click(tag)
      PROVE  PushIInv'
  <2>1. shown' \in [Tags -> Chats \cup {NoChat}] /\ shown[tag] \in Chats \cup {NoChat}
    BY <1>5 DEF Click, PushTypeOK
  <2> QED  BY <1>5, <2>1, RestStays DEF Click, PushTypeOK, browser
<1> QED  BY <1>1, <1>2, <1>3, <1>4, <1>5

LEMMA PushInductive == ASSUME PushConstantsOK PROVE PushSpec => []PushIInv
<1>1. PushInit => PushIInv
  BY PushStarts
<1>2. ASSUME PushIInv, PushNext PROVE PushIInv'
  BY <1>2, ToggleOnKeeps, ToggleOffKeeps, ToggleEndsKeeps, LoadedAnewKeeps, SmallBrowserStepsKeep,
     HandleKeeps, RefusedKeeps, ServerKeeps DEF PushNext
<1>3. ASSUME PushIInv, UNCHANGED pushVars PROVE PushIInv'
  BY <1>3, RestStays DEF pushVars, PushIInv, PushTypeOK, browser, notices
<1>4. PushIInv /\ [PushNext]_pushVars => PushIInv'
  BY <1>2, <1>3
<1> QED  BY <1>1, <1>4, PTL DEF PushSpec

\* The types of the browser's, the server's and the page's state hold in every reachable state.
THEOREM PushTypeCorrect == ASSUME PushConstantsOK PROVE PushSpec => []PushTypeOK
<1>1. PushIInv => PushTypeOK  BY DEF PushIInv
<1> QED  BY <1>1, PushInductive, PTL

\* A subscription that was confirmed stays in the server's table under the page's token
\* (push.ts:27-45, web-push-service.ts:60-74).
THEOREM SubscriptionIsKept == ASSUME PushConstantsOK PROVE PushSpec => []ConfirmedOnIsKnown
<1>1. PushIInv => ConfirmedOnIsKnown  BY DEF PushIInv, Rest
<1> QED  BY <1>1, PushInductive, PTL

\* A switch that was turned off and confirmed keeps the token's pushes away from the browser
\* (push.ts:65-75, push-subscriptions.ts:45-51).
THEOREM SwitchedOffIsSilent == ASSUME PushConstantsOK PROVE PushSpec => []ConfirmedOffIsSilent
<1>1. PushIInv => ConfirmedOffIsSilent  BY DEF PushIInv, Rest
<1> QED  BY <1>1, PushInductive, PTL

\* A proactive reply of a resident session is pushed to the browser its owner has switched
\* on (index.ts:380-397).
THEOREM ProactiveRepliesArePushed == ASSUME PushConstantsOK PROVE PushSpec => ProactiveReplyIsPushed
<1> DEFINE Pushed ==
      \A c \in Chats :
         ResidentReply(c) /\ c \notin recent /\ Owner[c] = login /\ confirmed = "on" /\ ~muddled
           => \E p \in outgoing' : p.endpoint = sub /\ p.chat = c
<1>1. ASSUME PushIInv PROVE Pushed
  <2> SUFFICES ASSUME NEW c \in Chats, ResidentReply(c), c \notin recent, Owner[c] = login,
                      confirmed = "on", ~muddled
               PROVE  \E p \in outgoing' : p.endpoint = sub /\ p.chat = c
    OBVIOUS
  <2>1. sub \in Endpoints /\ row[sub] = login /\ login # NoToken
    BY <1>1 DEF PushIInv, Rest, ConfirmedOnIsKnown, PushTypeOK, Endpoints, PushConstantsOK
  <2>2. outgoing' = SentTo(login, "resident-proactive", c)
    BY DEF ResidentReply
  <2> DEFINE p == [endpoint |-> sub, tag |-> "resident-proactive", chat |-> c]
  <2>3. p \in outgoing'
    BY <2>1, <2>2 DEF SentTo
  <2> QED  BY <2>3
<1>2. PushIInv /\ [PushNext]_pushVars => [Pushed]_pushVars
  BY <1>1
<1> QED  BY <1>2, PushInductive, PTL DEF PushSpec, ProactiveReplyIsPushed

-----------------------------------------------------------------------------
(* The badge of the resident session                                         *)

UnreadNext ==
    \/ Reply
    \/ \E t \in Tabs :
        \/ HearCount(t) \/ View(t) \/ Peek(t) \/ Leave(t) \/ ServeRead(t) \/ ReadFails(t)
        \/ GoOffline(t) \/ GoOnline(t) \/ ServeList(t) \/ TakeList(t) \/ ListFails(t)

\* Why a dashboard that shows no badge will show one.
WillHear(t) ==
    \/ inbox[t] # <<>> \/ reads[t] > 0 \/ t \notin online
    \/ asked[t] = "asked" \/ (asked[t] = "answered" /\ listed[t] > 0)

Positive == Nat \ {0}

CountsOK ==
    /\ unread \in Nat
    /\ reads \in [Tabs -> Nat] /\ badge \in [Tabs -> Nat] /\ listed \in [Tabs -> Nat]
    /\ inbox \in [Tabs -> Seq(Positive)] /\ asked \in [Tabs -> {"no", "asked", "answered"}]

ToldOrWillHear == \A t \in Tabs \ unaware : unread > 0 => badge[t] > 0 \/ WillHear(t)

UnreadInv == CountsOK /\ ToldOrWillHear

LEMMA StepsOfUnread == [Next]_vars => UnreadNext \/ UNCHANGED unreadVars
<1> SUFFICES ASSUME [Next]_vars PROVE UnreadNext \/ UNCHANGED unreadVars
  BY SMTT(30)
<1>1. CASE \E k \in ItemChats :
              \/ BackendSends(k) \/ AgentReplies(k) \/ Collect(k)
              \/ OpenChat(k) \/ ServeHistory(k) \/ TakeHistory(k) \/ LoadFails(k)
              \/ Discuss(k) \/ ServeCreate(k) \/ Created(k) \/ CreateFails(k)
              \/ \E c \in Deliverables : BackendFinishes(c, k)
              \/ \E n \in 1..written[k] : TakePush(k, n)
  BY ZenonT(60), <1>1 DEF BackendSends, AgentReplies, Collect, OpenChat, ServeHistory, TakeHistory,
     LoadFails, Discuss, ServeCreate, Created, CreateFails, BackendFinishes, TakePush
<1>2. CASE \/ Flush \/ GracePasses
           \/ \E r \in refreshes : ServeRefresh(r) \/ TakeRefresh(r) \/ RefreshFails(r)
           \/ \E p \in pulls : ServePull(p) \/ TakePull(p) \/ PullFails(p)
  BY <1>2 DEF Flush, GracePasses, ServeRefresh, TakeRefresh, RefreshFails, ServePull, TakePull,
     PullFails
<1>3. CASE \E t \in Tabs : ServeSessions(t) \/ TakeSessions(t) \/ Disconnect(t)
  BY <1>3 DEF ServeSessions, TakeSessions, Disconnect, UnreadNext
<1>4. CASE Event /\ Reply /\ UNCHANGED <<boardVars, chatVars, listVars>>
  BY <1>4 DEF UnreadNext
<1>5. CASE (\E t \in Tabs : Counts(t)) /\ UNCHANGED <<boardVars, chatVars, listVars>>
  BY <1>5 DEF UnreadNext, Counts
<1>6. CASE ((\E c \in Cards : CardSteps(c)) \/ BoardSteps) /\ UNCHANGED <<unreadVars, chatVars, listVars>>
  BY <1>6
<1>7. CASE UNCHANGED vars
  BY <1>7 DEF vars
<1> QED  BY <1>1, <1>2, <1>3, <1>4, <1>5, <1>6, <1>7 DEF Next

LEMMA CountsKept == CountsOK /\ UnreadNext => CountsOK'
<1> SUFFICES ASSUME CountsOK, UnreadNext PROVE CountsOK'
  OBVIOUS
<1> USE DEF CountsOK
<1>1. CASE Reply
  <2>1. unread' \in Nat /\ unread' \in Positive
    BY <1>1 DEF Reply, Positive
  <2>2. \A t \in Tabs : inbox'[t] \in Seq(Positive)
    BY <1>1, <2>1 DEF Reply
  <2>3. inbox' = [t \in Tabs |-> inbox'[t]]
    BY <1>1 DEF Reply
  <2> QED  BY <1>1, <2>1, <2>2, <2>3 DEF Reply
<1>2. ASSUME NEW t \in Tabs, HearCount(t) PROVE CountsOK'
  <2>1. Head(inbox[t]) \in Nat /\ Tail(inbox[t]) \in Seq(Positive)
    BY <1>2 DEF HearCount, Positive
  <2>2. inbox' \in [Tabs -> Seq(Positive)]
    BY <1>2, <2>1 DEF HearCount
  <2>3. reads' \in [Tabs -> Nat] /\ badge' \in [Tabs -> Nat]
    <3>1. reads[t] + 1 \in Nat
      OBVIOUS
    <3>2. CASE t \in viewing
      <4>1. reads' = [reads EXCEPT ![t] = @ + 1] /\ badge' = [badge EXCEPT ![t] = 0]
        BY <1>2, <3>2 DEF HearCount
      <4>2. reads \in [Tabs -> Nat] /\ badge \in [Tabs -> Nat]
        OBVIOUS
      <4> HIDE DEF CountsOK
      <4>3. reads' \in [Tabs -> Nat]
        BY <4>1, <4>2, <3>1
      <4> QED  BY <4>1, <4>2, <4>3
    <3>3. CASE t \notin viewing
      BY <1>2, <2>1, <3>3 DEF HearCount
    <3> QED  BY <3>2, <3>3
  <2> QED  BY <1>2, <2>2, <2>3 DEF HearCount
<1>3. ASSUME NEW t \in Tabs, View(t) \/ Peek(t) \/ Leave(t) \/ ServeRead(t) \/ ReadFails(t)
      PROVE  CountsOK'
  <2>1. inbox' = inbox /\ asked' = asked /\ listed' = listed /\ unread' \in Nat
    BY <1>3 DEF View, Peek, Leave, ServeRead, ReadFails
  <2>2. badge' \in [Tabs -> Nat]
    <3>1. badge' = badge \/ badge' = [badge EXCEPT ![t] = 0]
      BY <1>3 DEF View, Peek, Leave, ServeRead, ReadFails
    <3>2. badge \in [Tabs -> Nat]
      OBVIOUS
    <3> HIDE DEF CountsOK
    <3> QED  BY <3>1, <3>2
  <2>3. reads' \in [Tabs -> Nat]
    <3>1. reads[t] + 1 \in Nat /\ (reads[t] > 0 => reads[t] - 1 \in Nat)
      OBVIOUS
    <3>2. CASE View(t)
      BY <3>1, <3>2 DEF View
    <3>3. CASE Peek(t) \/ Leave(t)
      BY <3>3 DEF Peek, Leave
    <3>4. CASE ServeRead(t) \/ ReadFails(t)
      BY <3>1, <3>4 DEF ServeRead, ReadFails
    <3> QED  BY <1>3, <3>2, <3>3, <3>4
  <2> QED  BY <2>1, <2>2, <2>3
<1>4. ASSUME NEW t \in Tabs, GoOffline(t) \/ GoOnline(t) PROVE CountsOK'
  <2>1. <<>> \in Seq(Positive)
    OBVIOUS
  <2> QED  BY <1>4, <2>1 DEF GoOffline, GoOnline
<1>5. ASSUME NEW t \in Tabs, ServeList(t) \/ TakeList(t) \/ ListFails(t) PROVE CountsOK'
  <2>1. inbox' = inbox /\ reads' = reads /\ unread' = unread
    BY <1>5 DEF ServeList, TakeList, ListFails
  <2>2. badge' \in [Tabs -> Nat]
    BY <1>5 DEF ServeList, TakeList, ListFails
  <2>3. listed' \in [Tabs -> Nat]
    BY <1>5 DEF ServeList, TakeList, ListFails
  <2>4. asked' \in [Tabs -> {"no", "asked", "answered"}]
    BY <1>5 DEF ServeList, TakeList, ListFails
  <2> QED  BY <2>1, <2>2, <2>3, <2>4
<1> QED  BY <1>1, <1>2, <1>3, <1>4, <1>5 DEF UnreadNext

LEMMA HearingKept == CountsOK /\ ToldOrWillHear /\ UnreadNext => ToldOrWillHear'
<1> SUFFICES ASSUME CountsOK, ToldOrWillHear, UnreadNext,
                    NEW u \in Tabs \ unaware', unread' > 0
             PROVE  badge'[u] > 0 \/ WillHear(u)'
  BY DEF ToldOrWillHear
<1>0. /\ unread \in Nat /\ reads \in [Tabs -> Nat] /\ badge \in [Tabs -> Nat]
      /\ listed \in [Tabs -> Nat] /\ inbox \in [Tabs -> Seq(Positive)] /\ DOMAIN asked = Tabs
  BY DEF CountsOK
<1>1. u \notin unaware /\ unread > 0 => badge[u] > 0 \/ WillHear(u)
  BY DEF ToldOrWillHear
<1>2. CASE Reply
  <2>1. CASE u \in online
    <3>1. inbox'[u] = Append(inbox[u], unread')
      BY <1>2, <2>1 DEF Reply
    <3>2. inbox[u] \in Seq(Positive) /\ unread' \in Positive
      BY <1>0, <1>2 DEF Reply, Positive
    <3>3. Append(inbox[u], unread') # <<>>
      BY <3>2
    <3> QED  BY <3>1, <3>3 DEF WillHear
  <2>2. CASE u \notin online
    BY <1>2, <2>2 DEF Reply, WillHear
  <2> QED  BY <2>1, <2>2
<1>3. ASSUME NEW t \in Tabs, HearCount(t) PROVE badge'[u] > 0 \/ WillHear(u)'
  <2>1. t = u => Head(inbox[t]) > 0
    <3>1. Head(inbox[t]) \in Positive
      BY <1>0, <1>3 DEF HearCount
    <3> QED  BY <3>1 DEF Positive
  <2>2. /\ t = u => reads'[t] > 0 \/ badge'[t] > 0
        /\ t # u => badge'[u] = badge[u] /\ reads'[u] = reads[u] /\ inbox'[u] = inbox[u]
                   /\ (u \in unaware' <=> u \in unaware)
    <3> HIDE DEF CountsOK
    <3>1. CASE t \in viewing
      <4>1. reads'[t] = reads[t] + 1 /\ reads[t] \in Nat
        BY <1>0, <1>3, <3>1 DEF HearCount
      <4> QED  BY <1>3, <1>0, <3>1, <4>1 DEF HearCount
    <3>2. CASE t \notin viewing
      <4>1. PICK own \in {0, 1} : badge' = [badge EXCEPT ![t] = Head(inbox[t]) + own]
        BY <1>3, <3>2 DEF HearCount
      <4>2. t = u => badge'[t] > 0
        <5>1. Head(inbox[t]) \in Positive
          BY <1>0, <1>3 DEF HearCount
        <5> QED  BY <1>0, <4>1, <5>1 DEF Positive
      <4>3. t # u => badge'[u] = badge[u]
        BY <1>0, <4>1
      <4> QED  BY <1>3, <1>0, <3>2, <4>2, <4>3 DEF HearCount
    <3> QED  BY <3>1, <3>2
  <2> QED  BY <1>1, <1>3, <2>2 DEF HearCount, WillHear
<1>4. ASSUME NEW t \in Tabs, View(t) \/ Peek(t) \/ Leave(t) PROVE badge'[u] > 0 \/ WillHear(u)'
  <2>1. CASE t # u
    BY <1>0, <1>1, <1>4, <2>1 DEF View, Peek, Leave, WillHear
  <2>2. CASE t = u /\ View(t)
    BY <1>0, <2>2 DEF View, WillHear
  <2>3. CASE t = u /\ (Peek(t) \/ Leave(t))
    BY <1>0, <1>1, <2>3 DEF Peek, Leave, WillHear
  <2> QED  BY <1>4, <2>1, <2>2, <2>3
<1>5. ASSUME NEW t \in Tabs, ServeRead(t) \/ ReadFails(t) PROVE badge'[u] > 0 \/ WillHear(u)'
  BY <1>0, <1>1, <1>5 DEF ServeRead, ReadFails, WillHear
<1>6. ASSUME NEW t \in Tabs, GoOffline(t) \/ GoOnline(t) PROVE badge'[u] > 0 \/ WillHear(u)'
  BY <1>0, <1>1, <1>6 DEF GoOffline, GoOnline, WillHear
<1>7. ASSUME NEW t \in Tabs, ServeList(t) \/ TakeList(t) \/ ListFails(t)
      PROVE  badge'[u] > 0 \/ WillHear(u)'
  BY <1>0, <1>1, <1>7 DEF ServeList, TakeList, ListFails, WillHear
<1> QED  BY <1>2, <1>3, <1>4, <1>5, <1>6, <1>7 DEF UnreadNext

LEMMA UnreadKept == UnreadInv /\ [Next]_vars => UnreadInv'
<1>1. UnreadInv /\ UNCHANGED unreadVars => UnreadInv'
  BY DEF UnreadInv, CountsOK, ToldOrWillHear, WillHear, unreadVars
<1> QED  BY <1>1, CountsKept, HearingKept, StepsOfUnread DEF UnreadInv

LEMMA UnreadStarts == Init => UnreadInv
<1> SUFFICES ASSUME Init PROVE UnreadInv
  OBVIOUS
<1>1. CountsOK
  BY DEF Init, UnreadInit, CountsOK
<1> QED  BY <1>1 DEF Init, UnreadInit, UnreadInv, ToldOrWillHear

(* A reply nobody has read has a badge on every connected dashboard that has *)
(* heard all, whoever reads, is offline or asks for counts meanwhile         *)
(* (App.tsx:575-597, hydrateFromServer.ts:178-182).                          *)
THEOREM UnreadIsNoticed == Spec => []UnreadReachesEveryTab
<1>1. ASSUME UnreadInv, NEW t \in Tabs, Settled(t), unread > 0
      PROVE  badge[t] > 0 \/ t \in viewing \cup unaware
  BY <1>1 DEF UnreadInv, ToldOrWillHear, Settled, WillHear
<1>2. UnreadInv => UnreadReachesEveryTab
  BY <1>1 DEF UnreadReachesEveryTab
<1> QED  BY <1>2, UnreadStarts, UnreadKept, PTL DEF Spec

-----------------------------------------------------------------------------
(* The board                                                                 *)

BoardNext ==
    \/ \E c \in Cards : AddCard(c) \/ CloseCard(c) \/ CloseFails(c) \/ ServeClose(c) \/ ReloadAfter(c)
    \/ \E a \in Askers : BoardFails(a) \/ ServeBoard(a) \/ TakeBoard(a)
    \/ /\ \E a \in Timers : Asks(a)
       /\ UNCHANGED <<open, closed, board, hidden, posts, sent, overtaken>>

\* What the request of a dismissed deliverable has come to.
Dismissal(c) ==
    /\ posts[c] # "no" => c \in hidden
    /\ posts[c] \in {"stored", "reload"} => c \in closed
    /\ posts[c] = "reload" => c \notin sent[c]
    /\ c \in closed /\ posts[c] = "no" => c \notin board /\ \A a \in Askers : c \notin sent[a]

BoardInv ==
    /\ BoardTypeOK
    /\ open \cap closed = {}
    /\ \A c \in Cards : posts[c] = "reload" <=> gets[c] # "no"
    /\ \A a \in Askers : gets[a] # "answered" => sent[a] = {}
    /\ \A c \in Deliverables \ overtaken : Dismissal(c)

LEMMA StepsOfBoard == [Next]_vars => BoardNext \/ UNCHANGED boardVars
<1> SUFFICES ASSUME [Next]_vars PROVE BoardNext \/ UNCHANGED boardVars
  OBVIOUS
<1>1. CASE \E k \in ItemChats :
              \/ BackendSends(k) \/ AgentReplies(k) \/ Collect(k)
              \/ OpenChat(k) \/ ServeHistory(k) \/ TakeHistory(k) \/ LoadFails(k)
              \/ Discuss(k) \/ ServeCreate(k) \/ Created(k) \/ CreateFails(k)
              \/ \E n \in 1..written[k] : TakePush(k, n)
  BY <1>1 DEF BackendSends, AgentReplies, Collect, OpenChat, ServeHistory, TakeHistory, LoadFails,
     Discuss, ServeCreate, Created, CreateFails, TakePush
<1>2. CASE \E k \in ItemChats, c \in Deliverables : BackendFinishes(c, k)
  BY <1>2 DEF BackendFinishes, BoardNext, Cards
<1>3. CASE Flush
  BY <1>3 DEF Flush, BoardNext
<1>4. CASE \/ GracePasses
           \/ \E r \in refreshes : ServeRefresh(r) \/ TakeRefresh(r) \/ RefreshFails(r)
           \/ \E p \in pulls : ServePull(p) \/ TakePull(p) \/ PullFails(p)
  BY <1>4 DEF GracePasses, ServeRefresh, TakeRefresh, RefreshFails, ServePull, TakePull, PullFails
<1>5. CASE \E t \in Tabs : ServeSessions(t) \/ TakeSessions(t) \/ Disconnect(t)
  BY <1>5 DEF ServeSessions, TakeSessions, Disconnect
<1>6. CASE Reply /\ UNCHANGED boardVars
  BY <1>6
<1>7. CASE (\E t \in Tabs : Counts(t)) /\ UNCHANGED boardVars
  BY <1>7
<1>8. CASE \E c \in Cards : CardSteps(c)
  BY <1>8 DEF CardSteps, BoardNext
<1>9. CASE BoardSteps
  BY <1>9 DEF BoardSteps, PollBoard, BoardNext
<1>10. CASE UNCHANGED vars
  BY <1>10 DEF vars
<1> QED  BY SMTT(30), <1>1, <1>2, <1>3, <1>4, <1>5, <1>6, <1>7, <1>8, <1>9, <1>10 DEF Next

LEMMA BoardTypesKept == BoardTypeOK /\ BoardNext => BoardTypeOK'
<1> SUFFICES ASSUME BoardTypeOK, BoardNext PROVE BoardTypeOK'
  OBVIOUS
<1> USE DEF BoardTypeOK
<1>1. ASSUME NEW c \in Cards, AddCard(c) \/ CloseCard(c) \/ CloseFails(c) PROVE BoardTypeOK'
  BY <1>1 DEF AddCard, CloseCard, CloseFails
<1>2. ASSUME NEW c \in Cards, ServeClose(c) \/ ReloadAfter(c) PROVE BoardTypeOK'
  BY <1>2 DEF ServeClose, ReloadAfter, Asks, Askers
<1>3. ASSUME NEW a \in Askers, BoardFails(a) \/ TakeBoard(a) PROVE BoardTypeOK'
  <2>1. ReloadOver(a) /\ board' \subseteq Cards /\ overtaken' \subseteq Cards /\ UNCHANGED <<open, closed>>
    BY <1>3 DEF BoardFails, TakeBoard
  <2> QED  BY <2>1 DEF ReloadOver
<1>4. ASSUME NEW a \in Askers, ServeBoard(a) PROVE BoardTypeOK'
  BY <1>4 DEF ServeBoard
<1>5. CASE /\ \E a \in Timers : Asks(a)
           /\ UNCHANGED <<open, closed, board, hidden, posts, sent, overtaken>>
  BY <1>5 DEF Asks
<1> QED  BY <1>1, <1>2, <1>3, <1>4, <1>5 DEF BoardNext

LEMMA BoardKept == BoardInv /\ BoardNext => BoardInv'
<1> SUFFICES ASSUME BoardInv, BoardNext PROVE BoardInv'
  OBVIOUS
<1>0. BoardTypeOK'
  BY BoardTypesKept DEF BoardInv
<1>1. Deliverables \subseteq Cards /\ Cards \subseteq Askers
  BY DEF Cards, Askers
<1> USE AskersAssumption DEF BoardInv, Dismissal
<1>2. ASSUME NEW d \in Cards, AddCard(d) PROVE BoardInv'
  BY <1>0, <1>1, <1>2 DEF AddCard
<1>3. ASSUME NEW d \in Cards, CloseCard(d) PROVE BoardInv'
  BY <1>0, <1>1, <1>3 DEF CloseCard, Visible, BoardTypeOK
<1>4. ASSUME NEW d \in Cards, CloseFails(d) PROVE BoardInv'
  BY <1>0, <1>1, <1>4 DEF CloseFails, BoardTypeOK
<1>5. ASSUME NEW d \in Cards, ServeClose(d) PROVE BoardInv'
  BY <1>0, <1>1, <1>5 DEF ServeClose, BoardTypeOK
<1>6. ASSUME NEW d \in Cards, ReloadAfter(d) PROVE BoardInv'
  BY <1>0, <1>1, <1>6 DEF ReloadAfter, Asks, BoardTypeOK
<1>7. ASSUME NEW a \in Askers, BoardFails(a) PROVE BoardInv'
  BY <1>0, <1>1, <1>7 DEF BoardFails, ReloadOver, BoardTypeOK
<1>8. ASSUME NEW a \in Askers, ServeBoard(a) PROVE BoardInv'
  BY <1>0, <1>1, <1>8 DEF ServeBoard, BoardTypeOK
<1>9. ASSUME NEW a \in Askers, TakeBoard(a) PROVE BoardInv'
  BY <1>0, <1>1, <1>9 DEF TakeBoard, ReloadOver, BoardTypeOK
<1>10. CASE /\ \E a \in Timers : Asks(a)
            /\ UNCHANGED <<open, closed, board, hidden, posts, sent, overtaken>>
  <2>1. PICK a \in Timers : gets[a] = "no" /\ gets' = [gets EXCEPT ![a] = "asked"]
    BY <1>10 DEF Asks
  <2>2. a \in Askers \ Cards /\ DOMAIN gets = Askers
    BY DEF Askers, BoardTypeOK
  <2> QED  BY <1>0, <1>1, <1>10, <2>1, <2>2
<1> QED  BY <1>2, <1>3, <1>4, <1>5, <1>6, <1>7, <1>8, <1>9, <1>10 DEF BoardNext

LEMMA BoardStarts == Init => BoardInv
BY DEF Init, BoardInit, BoardInv, BoardTypeOK, Dismissal, Cards, Askers

LEMMA BoardKeptByAll == BoardInv /\ [Next]_vars => BoardInv'
<1>1. BoardInv /\ UNCHANGED boardVars => BoardInv'
  BY DEF BoardInv, BoardTypeOK, Dismissal, boardVars
<1> QED  BY <1>1, BoardKept, StepsOfBoard

(* A deliverable that was dismissed stays away, unless a request fails or an *)
(* older board is on its way, for any cards, askers and polls                *)
(* (useAssistantBoard.ts:107-126).                                           *)
THEOREM DismissedIsGone == Spec => []DismissedStaysAway
<1>1. BoardInv => DismissedStaysAway
  BY DEF BoardInv, Dismissal, DismissedStaysAway, Visible
<1> QED  BY <1>1, BoardStarts, BoardKeptByAll, PTL DEF Spec

-----------------------------------------------------------------------------
(* The sessions and the chats of the page                                    *)

Runs == [stage : {"asked", "answered"}, keys : SUBSET ItemChats, rows : SUBSET ItemChats]
PullRuns == [stage : {"asked", "answered"}, chat : ItemChats, rest : SUBSET ItemChats,
             after : Nat, upto : Nat]

PageTypesOK ==
    /\ rows \subseteq ItemChats /\ list \subseteq ItemChats /\ listedRows \subseteq ItemChats
    /\ fresh \subseteq ItemChats /\ told \subseteq ItemChats /\ batch \subseteq ItemChats
    /\ refreshes \subseteq Runs /\ pulls \subseteq PullRuns
    /\ written \in [ItemChats -> Nat] /\ history \in [ItemChats -> Nat]
    /\ mark \in [ItemChats -> Nat] /\ prompts \in [ItemChats -> Nat]
    /\ unseen \in [ItemChats -> SUBSET Nat] /\ passed \in [ItemChats -> SUBSET Nat]
    /\ pushes \subseteq ItemChats \X Nat
    /\ loading \in [ItemChats -> {"no", "asked", "answered"}]
    /\ creating \in [ItemChats -> {"no", "sent", "stored"}]
    /\ loaded \subseteq ItemChats /\ lost \subseteq ItemChats /\ missed \subseteq ItemChats

\* A session the page has prompted is listed, and no list on its way forgets it.
Prompted(k) ==
    /\ prompts[k] = 1 /\ creating[k] = "no"
    /\ k \in list /\ k \in rows
    /\ k \in fresh \/ \A r \in refreshes : r.stage = "answered" => k \in r.rows

ListInv ==
    \A k \in ItemChats :
        /\ creating[k] = "stored" => k \in rows
        /\ k \notin lost /\ prompts[k] > 0 => Prompted(k)

\* An event or a run that has yet to ask for the chat.
WillBePulled(k) ==
    \/ k \in told \cup batch
    \/ \E r \in refreshes : k \in r.keys
    \/ \E p \in pulls : k \in p.rest

\* No watermark, history or pull is ahead of what is written.
ReadOK ==
    /\ \A k \in ItemChats : mark[k] <= written[k] /\ history[k] <= written[k]
    /\ \A k \in ItemChats : \A m \in unseen[k] : m <= written[k]
    /\ \A p \in pulls : p.after <= mark[p.chat] /\ p.upto <= written[p.chat]
    /\ \A k \in loaded : loading[k] = "no"

\* What the chat lacks has been asked for, or will be while the watermark is below it.
Brought(k) ==
    \A m \in unseen[k] \ passed[k] : AskedFor(k, m) \/ (mark[k] < m /\ WillBePulled(k))

ChatInv == ReadOK /\ \A k \in ItemChats \ missed : Brought(k)

\* The types of the runs and of what they become.
LEMMA RunFields ==
    ASSUME PageTypesOK
    PROVE  /\ \A r \in refreshes : /\ r.stage \in {"asked", "answered"}
                                   /\ r.keys \subseteq ItemChats /\ r.rows \subseteq ItemChats
           /\ \A p \in pulls : /\ p.stage \in {"asked", "answered"} /\ p.chat \in ItemChats
                               /\ p.rest \subseteq ItemChats /\ p.after \in Nat /\ p.upto \in Nat
BY DEF PageTypesOK, Runs, PullRuns

LEMMA NewRun == \A keys \in SUBSET ItemChats : Refresh(keys) \in Runs
BY SMTT(30) DEF Runs, Refresh

LEMMA Served ==
    ASSUME PageTypesOK, NEW r \in refreshes
    PROVE  LET new == [r EXCEPT !.stage = "answered", !.rows = rows]
           IN  new \in Runs /\ new.stage = "answered" /\ new.keys = r.keys /\ new.rows = rows
<1>1. r \in Runs /\ rows \subseteq ItemChats
  BY DEF PageTypesOK
<1> QED  BY <1>1 DEF Runs

LEMMA ServedPull ==
    ASSUME PageTypesOK, NEW p \in pulls
    PROVE  LET new == [p EXCEPT !.stage = "answered", !.upto = written[p.chat]]
           IN  /\ new \in PullRuns /\ new.stage = "answered" /\ new.upto = written[p.chat]
               /\ new.chat = p.chat /\ new.rest = p.rest /\ new.after = p.after
<1>1. p \in PullRuns /\ p.chat \in ItemChats /\ written \in [ItemChats -> Nat]
  BY DEF PageTypesOK, PullRuns
<1>2. written[p.chat] \in Nat
  BY <1>1
<1> QED  BY <1>1, <1>2 DEF PullRuns

\* The runs after one has gone on: it asks for one chat and keeps the others, but for those
\* it skips.
Onward(others, keys, skipped) ==
    /\ pulls' \subseteq PullRuns /\ others \subseteq pulls' /\ skipped \cap loaded = {}
    /\ \A q \in pulls' \ others : q.chat \in ItemChats /\ q.after = mark[q.chat] /\ q.upto = 0
    /\ \A k \in keys \ skipped : \E q \in pulls' :
        \/ q.chat = k /\ q.stage = "asked" /\ q.after = mark[k]
        \/ k \in q.rest

LEMMA GoingOn ==
    ASSUME PageTypesOK, NEW others \in SUBSET PullRuns, NEW keys \in SUBSET ItemChats,
           NEW skipped \in SUBSET keys, GoesOn(others, keys, skipped)
    PROVE  Onward(others, keys, skipped)
<1>1. CASE skipped = keys
  BY <1>1 DEF GoesOn, Onward
<1>2. CASE skipped # keys
  <2>1. PICK k \in (keys \ skipped) \cap loaded :
            pulls' = others \cup {Pull(k, keys \ (skipped \cup {k}))}
    BY <1>2 DEF GoesOn
  <2> DEFINE new == Pull(k, keys \ (skipped \cup {k}))
  <2>2. /\ new.stage = "asked" /\ new.chat = k /\ new.rest = keys \ (skipped \cup {k})
        /\ new.after = mark[k] /\ new.upto = 0
    BY DEF Pull
  <2>3. new \in PullRuns
    <3>1. k \in ItemChats /\ mark[k] \in Nat /\ keys \ (skipped \cup {k}) \in SUBSET ItemChats
      BY DEF PageTypesOK
    <3> QED  BY <3>1 DEF Pull, PullRuns
  <2>4. skipped \cap loaded = {}
    BY DEF GoesOn
  <2>5. k \in ItemChats
    BY DEF PageTypesOK
  <2>6. pulls' = others \cup {new}
    BY <2>1
  <2> HIDE DEF new
  <2>7. ASSUME NEW j \in keys \ skipped
        PROVE  (new.chat = j /\ new.stage = "asked" /\ new.after = mark[j]) \/ j \in new.rest
    BY <2>2
  <2> QED  BY <2>2, <2>3, <2>4, <2>5, <2>6, <2>7 DEF Onward
<1> QED  BY <1>1, <1>2

\* Steps of the badge and of the board alone.
Elsewhere == UNCHANGED <<chatVars, listVars>>

\* A run that waits for the list goes on, whether it has got it or not.
ListOver(r) ==
    /\ refreshes' = refreshes \ {r}
    /\ \E skipped \in SUBSET r.keys :
        GoesOn(pulls, r.keys, skipped) /\ missed' = missed \cup Late(skipped)
    /\ UNCHANGED <<told, batch, viewVars, rowVars>>

LEMMA StepsOfPage ==
    ASSUME [Next]_vars
    PROVE  \/ Elsewhere
           \/ \E k \in ItemChats :
                \/ BackendSends(k) \/ AgentReplies(k) \/ Collect(k)
                \/ OpenChat(k) \/ ServeHistory(k) \/ TakeHistory(k) \/ LoadFails(k)
                \/ Discuss(k) \/ ServeCreate(k) \/ Created(k) \/ CreateFails(k)
                \/ \E c \in Deliverables : BackendFinishes(c, k)
                \/ \E n \in 1..written[k] : TakePush(k, n)
           \/ Flush \/ GracePasses
           \/ \E r \in refreshes : ServeRefresh(r) \/ TakeRefresh(r) \/ RefreshFails(r)
           \/ \E p \in pulls : ServePull(p) \/ TakePull(p) \/ PullFails(p)
           \/ \E t \in Tabs : ServeSessions(t) \/ TakeSessions(t) \/ Disconnect(t)
BY DEF Next, vars, Elsewhere

LEMMA PageTypesKept == PageTypesOK /\ [Next]_vars => PageTypesOK'
<1> SUFFICES ASSUME PageTypesOK, [Next]_vars PROVE PageTypesOK'
  OBVIOUS
<1>1. CASE Elsewhere
  BY <1>1 DEF Elsewhere, chatVars, runVars, viewVars, rowVars, listVars, PageTypesOK
<1>2. ASSUME NEW k \in ItemChats, BackendSends(k) PROVE PageTypesOK'
  <2>1. unseen' \in [ItemChats -> SUBSET Nat]
    <3>1. written[k] + 1 \in Nat /\ unseen' = [unseen EXCEPT ![k] = unseen[k] \cup {written[k] + 1}]
      BY <1>2 DEF BackendSends, PageTypesOK
    <3> QED  BY <3>1 DEF PageTypesOK
  <2> QED  BY <1>2, <2>1 DEF BackendSends, Tell, Untold, viewVars, PageTypesOK
<1>3. ASSUME NEW k \in ItemChats, AgentReplies(k) PROVE PageTypesOK'
  BY <1>3 DEF AgentReplies, runVars, viewVars, listVars, PageTypesOK
<1>4. ASSUME NEW k \in ItemChats, NEW c \in Deliverables, BackendFinishes(c, k) PROVE PageTypesOK'
  BY <1>4 DEF BackendFinishes, Tell, Untold, viewVars, rowVars, listVars, PageTypesOK
<1>5. ASSUME NEW k \in ItemChats, NEW n \in 1..written[k], TakePush(k, n) PROVE PageTypesOK'
  <2>1. mark' \in [ItemChats -> Nat]
    BY <1>5 DEF TakePush, Highest, PageTypesOK
  <2>2. passed' \in [ItemChats -> SUBSET Nat]
    <3> DEFINE more == {m \in unseen[k] : mark[k] < m /\ m <= n /\ ~AskedFor(k, m)}
    <3>1. passed' = [passed EXCEPT ![k] = passed[k] \cup more] /\ more \subseteq Nat
      BY <1>5 DEF TakePush, PageTypesOK
    <3> HIDE DEF more
    <3> QED  BY <3>1 DEF PageTypesOK
  <2> QED  BY <1>5, <2>1, <2>2 DEF TakePush, runVars, listVars, PageTypesOK
<1>6. ASSUME NEW k \in ItemChats, Collect(k) \/ OpenChat(k) \/ ServeHistory(k) \/ LoadFails(k)
      PROVE  PageTypesOK'
  BY <1>6 DEF Collect, OpenChat, ServeHistory, LoadFails, runVars, viewVars, rowVars, listVars,
     PageTypesOK
<1>7. ASSUME NEW k \in ItemChats, TakeHistory(k) PROVE PageTypesOK'
  <2>1. unseen' \in [ItemChats -> SUBSET Nat]
    <3> DEFINE less == {m \in unseen[k] : m > history[k]}
    <3>1. unseen' = [unseen EXCEPT ![k] = less] /\ less \subseteq Nat
      BY <1>7 DEF TakeHistory, PageTypesOK
    <3> HIDE DEF less
    <3> QED  BY <3>1 DEF PageTypesOK
  <2> QED  BY <1>7, <2>1 DEF TakeHistory, Highest, runVars, listVars, PageTypesOK
<1>8. ASSUME NEW k \in ItemChats, Discuss(k) \/ ServeCreate(k) \/ Created(k) \/ CreateFails(k)
      PROVE  PageTypesOK'
  BY <1>8 DEF Discuss, ServeCreate, Created, CreateFails, chatVars, runVars, viewVars, rowVars,
     PageTypesOK
<1>9. CASE Flush
  <2>1. refreshes' \subseteq Runs
    <3>1. Refresh(batch) \in Runs /\ refreshes' = refreshes \cup {Refresh(batch)}
      BY <1>9, NewRun DEF Flush, PageTypesOK
    <3> QED  BY <3>1 DEF PageTypesOK
  <2> QED  BY <1>9, <2>1 DEF Flush, viewVars, rowVars, listVars, PageTypesOK
<1>10. CASE GracePasses
  BY <1>10 DEF GracePasses, chatVars, runVars, viewVars, rowVars, PageTypesOK
<1>11. ASSUME NEW r \in refreshes, ServeRefresh(r) PROVE PageTypesOK'
  <2>1. refreshes' \subseteq Runs
    BY <1>11, Served DEF ServeRefresh, PageTypesOK
  <2> QED  BY <1>11, <2>1 DEF ServeRefresh, viewVars, rowVars, listVars, PageTypesOK
<1>12. ASSUME NEW r \in refreshes, TakeRefresh(r) \/ RefreshFails(r) PROVE PageTypesOK'
  <2>1. ListOver(r)
    BY <1>12 DEF TakeRefresh, RefreshFails, ListOver
  <2>2. PICK skipped \in SUBSET r.keys :
            GoesOn(pulls, r.keys, skipped) /\ missed' = missed \cup Late(skipped)
    BY <2>1 DEF ListOver
  <2>3. pulls \in SUBSET PullRuns /\ r.keys \in SUBSET ItemChats /\ r.rows \subseteq ItemChats
    BY RunFields DEF PageTypesOK
  <2>4. pulls' \subseteq PullRuns
    BY <2>2, <2>3, GoingOn DEF Onward
  <2>5. missed' \subseteq ItemChats /\ list' \subseteq ItemChats
    BY <1>12, <2>2, <2>3 DEF Late, TakeRefresh, RefreshFails, listVars, PageTypesOK
  <2>6. UNCHANGED <<rows, listedRows, fresh, prompts, creating, lost>>
    BY <1>12 DEF TakeRefresh, RefreshFails, listVars
  <2> QED  BY <2>1, <2>4, <2>5, <2>6 DEF ListOver, viewVars, rowVars, PageTypesOK
<1>13. ASSUME NEW p \in pulls, ServePull(p) PROVE PageTypesOK'
  <2>1. pulls' \subseteq PullRuns
    BY <1>13, ServedPull DEF ServePull, PageTypesOK
  <2> QED  BY <1>13, <2>1 DEF ServePull, viewVars, rowVars, listVars, PageTypesOK
<1>14. ASSUME NEW p \in pulls, TakePull(p) \/ PullFails(p) PROVE PageTypesOK'
  <2>1. PICK skipped \in SUBSET p.rest :
            /\ GoesOn(pulls \ {p}, p.rest, skipped)
            /\ missed' \subseteq missed \cup {p.chat} \cup Late(skipped)
    BY <1>14 DEF TakePull, PullFails
  <2>2. /\ pulls \ {p} \in SUBSET PullRuns /\ p.rest \in SUBSET ItemChats /\ p.chat \in ItemChats
        /\ p.upto \in Nat
    BY RunFields DEF PageTypesOK
  <2>3. pulls' \subseteq PullRuns
    BY <2>1, <2>2, GoingOn DEF Onward
  <2>4. missed' \subseteq ItemChats
    BY <2>1, <2>2 DEF Late, PageTypesOK
  <2>5. mark' \in [ItemChats -> Nat]
    BY <1>14, <2>2 DEF TakePull, PullFails, viewVars, Highest, PageTypesOK
  <2>6. unseen' \in [ItemChats -> SUBSET Nat]
    <3> DEFINE less == {m \in unseen[p.chat] : m <= p.after \/ m > p.upto}
    <3>1. unseen' = unseen \/ unseen' = [unseen EXCEPT ![p.chat] = less]
      BY <1>14 DEF TakePull, PullFails, rowVars
    <3>2. less \subseteq Nat
      BY <2>2 DEF PageTypesOK
    <3> HIDE DEF less
    <3> QED  BY <2>2, <3>1, <3>2 DEF PageTypesOK
  <2>7. UNCHANGED <<told, batch, refreshes, loading, history, loaded, written, pushes, passed, listVars>>
    BY <1>14 DEF TakePull, PullFails, viewVars, rowVars
  <2> QED  BY <2>3, <2>4, <2>5, <2>6, <2>7 DEF listVars, PageTypesOK
<1>15. ASSUME NEW t \in Tabs, ServeSessions(t) \/ TakeSessions(t) PROVE PageTypesOK'
  BY <1>15 DEF ServeSessions, TakeSessions, chatVars, runVars, viewVars, rowVars, PageTypesOK
<1>16. ASSUME NEW t \in Tabs, Disconnect(t) PROVE PageTypesOK'
  <2>1. told' \subseteq told /\ missed' \subseteq missed \cup told /\ pushes' \subseteq pushes
    BY <1>16 DEF Disconnect
  <2> QED  BY <1>16, <2>1 DEF Disconnect, viewVars, listVars, PageTypesOK
<1> QED
  BY <1>1, <1>2, <1>3, <1>4, <1>5, <1>6, <1>7, <1>8, <1>9, <1>10, <1>11, <1>12, <1>13, <1>14,
     <1>15, <1>16, StepsOfPage

LEMMA PageStarts == Init => PageTypesOK /\ ListInv /\ ChatInv
BY DEF Init, PageTypesOK, ListInv, ChatInv, ReadOK, Brought

LEMMA ListKept == PageTypesOK /\ ListInv /\ [Next]_vars => ListInv'
<1> SUFFICES ASSUME PageTypesOK, ListInv, [Next]_vars PROVE ListInv'
  OBVIOUS
<1>0. prompts \in [ItemChats -> Nat] /\ creating \in [ItemChats -> {"no", "sent", "stored"}]
  BY DEF PageTypesOK
<1>1. CASE UNCHANGED <<refreshes, listVars>>
  BY <1>1 DEF listVars, ListInv, Prompted
<1>2. ASSUME NEW k \in ItemChats, BackendSends(k) PROVE ListInv'
  BY <1>2 DEF BackendSends, ListInv, Prompted
<1>3. ASSUME NEW k \in ItemChats,
             \/ AgentReplies(k) \/ Collect(k) \/ OpenChat(k) \/ ServeHistory(k)
             \/ TakeHistory(k) \/ LoadFails(k)
             \/ \E c \in Deliverables : BackendFinishes(c, k)
             \/ \E n \in 1..written[k] : TakePush(k, n)
      PROVE  ListInv'
  BY <1>1, <1>3 DEF AgentReplies, Collect, OpenChat, ServeHistory, TakeHistory, LoadFails,
     BackendFinishes, TakePush, runVars
<1>4. ASSUME NEW k \in ItemChats, Discuss(k) \/ CreateFails(k) PROVE ListInv'
  BY <1>0, <1>4 DEF Discuss, CreateFails, chatVars, runVars, ListInv, Prompted
<1>5. ASSUME NEW k \in ItemChats, ServeCreate(k) PROVE ListInv'
  BY <1>0, <1>5 DEF ServeCreate, chatVars, runVars, ListInv, Prompted
<1>6. ASSUME NEW k \in ItemChats, Created(k) PROVE ListInv'
  <2>1. k \in rows /\ (k \notin lost => prompts[k] = 0)
    BY <1>0, <1>6 DEF Created, ListInv, Prompted
  <2> QED  BY <1>0, <1>6, <2>1 DEF Created, chatVars, runVars, ListInv, Prompted
<1>7. ASSUME NEW p \in pulls, ServePull(p) \/ TakePull(p) \/ PullFails(p) PROVE ListInv'
  BY <1>1, <1>7 DEF ServePull, TakePull, PullFails
<1>8. CASE Flush
  <2>1. Refresh(batch).stage # "answered"
    BY DEF Refresh
  <2> QED  BY <1>8, <2>1 DEF Flush, listVars, ListInv, Prompted
<1>9. CASE GracePasses
  BY <1>9 DEF GracePasses, chatVars, runVars, ListInv, Prompted
<1>10. ASSUME NEW r \in refreshes, ServeRefresh(r) PROVE ListInv'
  <2>1. UNCHANGED listVars /\ \A q \in refreshes' \ refreshes : q.rows = rows
    BY <1>10, Served DEF ServeRefresh
  <2> QED  BY <2>1 DEF listVars, ListInv, Prompted
<1>11. ASSUME NEW r \in refreshes, TakeRefresh(r) PROVE ListInv'
  <2>1. /\ refreshes' = refreshes \ {r}
        /\ r.stage = "answered" /\ list' = r.rows \cup (list \cap fresh)
        /\ UNCHANGED <<rows, fresh, creating, prompts, lost>>
    BY <1>11 DEF TakeRefresh
  <2> QED  BY <2>1 DEF ListInv, Prompted
<1>12. ASSUME NEW r \in refreshes, RefreshFails(r) PROVE ListInv'
  <2>1. refreshes' = refreshes \ {r} /\ UNCHANGED listVars
    BY <1>12 DEF RefreshFails
  <2> QED  BY <2>1 DEF listVars, ListInv, Prompted
<1>13. ASSUME NEW t \in Tabs, ServeSessions(t) \/ Disconnect(t) PROVE ListInv'
  BY <1>13 DEF ServeSessions, Disconnect, chatVars, runVars, listVars, ListInv, Prompted
<1>14. ASSUME NEW t \in Tabs, TakeSessions(t) PROVE ListInv'
  BY <1>14 DEF TakeSessions, chatVars, runVars, ListInv, Prompted
<1>15. CASE Elsewhere
  BY <1>1, <1>15 DEF Elsewhere, chatVars, runVars
<1> QED
  BY <1>2, <1>3, <1>4, <1>5, <1>6, <1>7, <1>8, <1>9, <1>10, <1>11, <1>12, <1>13, <1>14, <1>15,
     StepsOfPage

(* The opening prompt of an item is sent once, unless hydration drops its    *)
(* session, however many lists, retries and creations overlap                *)
(* (useItemDiscussion.ts:30-47, assistantEvents.ts:74-78).                   *)
THEOREM PromptsAreSentOnce == Spec => []PromptedOnce
<1>1. PageTypesOK /\ ListInv => PromptedOnce
  BY DEF PageTypesOK, ListInv, Prompted, PromptedOnce
<1> QED  BY <1>1, PageStarts, PageTypesKept, ListKept, PTL DEF Spec

LEMMA ChatKept == PageTypesOK /\ ChatInv /\ [Next]_vars => ChatInv'
<1> SUFFICES ASSUME PageTypesOK, ChatInv, [Next]_vars PROVE ChatInv'
  OBVIOUS
<1>0. /\ written \in [ItemChats -> Nat] /\ history \in [ItemChats -> Nat] /\ mark \in [ItemChats -> Nat]
      /\ unseen \in [ItemChats -> SUBSET Nat] /\ passed \in [ItemChats -> SUBSET Nat]
      /\ loading \in [ItemChats -> {"no", "asked", "answered"}] /\ loaded \subseteq ItemChats
      /\ \A r \in refreshes : r.keys \subseteq ItemChats
      /\ \A p \in pulls : /\ p.chat \in ItemChats /\ p.rest \subseteq ItemChats
                          /\ p.after \in Nat /\ p.upto \in Nat
                          /\ p.stage \in {"asked", "answered"}
  BY RunFields DEF PageTypesOK
<1>00. ReadOK /\ \A k \in ItemChats \ missed : Brought(k)
  BY DEF ChatInv
<1>1. CASE UNCHANGED chatVars
  BY <1>1 DEF chatVars, runVars, viewVars, rowVars, ChatInv, ReadOK, Brought, AskedFor, WillBePulled
<1>2. ASSUME NEW k \in ItemChats, BackendSends(k) PROVE ChatInv'
  <2>1. /\ written' = [written EXCEPT ![k] = @ + 1]
        /\ unseen' = [unseen EXCEPT ![k] = @ \cup {written[k] + 1}]
        /\ UNCHANGED <<batch, refreshes, pulls, loading, history, loaded, mark, passed>>
        /\ told \subseteq told' /\ missed \subseteq missed' /\ k \in told' \cup missed'
    BY <1>2 DEF BackendSends, Tell, Untold, viewVars
  <2>2. ReadOK'
    BY <1>0, <1>00, <2>1 DEF ReadOK
  <2>3. ASSUME NEW j \in ItemChats \ missed' PROVE Brought(j)'
    <3>1. CASE j = k
      <4>1. mark'[k] < written[k] + 1 /\ WillBePulled(k)'
        BY <1>0, <1>00, <2>1, <3>1 DEF ReadOK, WillBePulled
      <4>2. ASSUME NEW m \in unseen'[k] \ passed'[k]
            PROVE  AskedFor(k, m)' \/ (mark'[k] < m /\ WillBePulled(k)')
        <5>1. CASE m = written[k] + 1
          BY <4>1, <5>1
        <5>2. CASE m \in unseen[k] \ passed[k]
          <6>1. AskedFor(k, m) => AskedFor(k, m)'
            BY <2>1 DEF AskedFor
          <6> QED  BY <1>00, <2>1, <3>1, <4>1, <5>2, <6>1 DEF Brought
        <5> QED  BY <1>0, <2>1, <4>2, <5>1, <5>2
      <4> QED  BY <3>1, <4>2 DEF Brought
    <3>2. CASE j # k
      BY <1>0, <1>00, <2>1, <3>2 DEF Brought, AskedFor, WillBePulled
    <3> QED  BY <3>1, <3>2
  <2> QED  BY <2>2, <2>3 DEF ChatInv
<1>3. ASSUME NEW k \in ItemChats, AgentReplies(k) PROVE ChatInv'
  <2>1. /\ written' = [written EXCEPT ![k] = @ + 1]
        /\ UNCHANGED <<told, batch, refreshes, pulls, loading, history, loaded, mark, unseen, passed,
                       missed>>
    BY <1>3 DEF AgentReplies, runVars, viewVars
  <2>2. ReadOK'
    BY <1>0, <1>00, <2>1 DEF ReadOK
  <2>3. ASSUME NEW j \in ItemChats \ missed' PROVE Brought(j)'
    BY <1>00, <2>1 DEF Brought, AskedFor, WillBePulled
  <2> QED  BY <2>2, <2>3 DEF ChatInv
<1>4. ASSUME NEW k \in ItemChats, NEW c \in Deliverables, BackendFinishes(c, k) PROVE ChatInv'
  <2>1. /\ told \subseteq told' /\ missed \subseteq missed'
        /\ UNCHANGED <<batch, refreshes, pulls, loading, history, loaded, mark, written, unseen, passed>>
    BY <1>4 DEF BackendFinishes, Tell, Untold, viewVars, rowVars
  <2>2. ReadOK'
    BY <1>00, <2>1 DEF ReadOK
  <2>3. ASSUME NEW j \in ItemChats \ missed' PROVE Brought(j)'
    BY <1>00, <2>1 DEF Brought, AskedFor, WillBePulled
  <2> QED  BY <2>2, <2>3 DEF ChatInv
<1>5. ASSUME NEW k \in ItemChats, NEW n \in 1..written[k], TakePush(k, n) PROVE ChatInv'
  <2>1. /\ mark' = [mark EXCEPT ![k] = Highest(mark[k], n)]
        /\ passed' = [passed EXCEPT ![k] = passed[k] \cup
                        {m \in unseen[k] : mark[k] < m /\ m <= n /\ ~AskedFor(k, m)}]
        /\ UNCHANGED <<told, batch, refreshes, pulls, loading, history, loaded, written, unseen, missed>>
    BY <1>5 DEF TakePush, runVars
  <2>2. n \in Nat /\ n <= written[k]
    BY <1>0
  <2>3. ReadOK'
    BY <1>0, <1>00, <2>1, <2>2 DEF ReadOK, Highest
  <2>4. ASSUME NEW j \in ItemChats \ missed' PROVE Brought(j)'
    <3>1. WillBePulled(j) => WillBePulled(j)'
      BY <2>1 DEF WillBePulled
    <3>2. \A m : AskedFor(j, m) => AskedFor(j, m)'
      BY <2>1 DEF AskedFor
    <3>3. ASSUME NEW m \in unseen'[j] \ passed'[j]
          PROVE  AskedFor(j, m)' \/ (mark'[j] < m /\ WillBePulled(j)')
      <4>1. m \in Nat /\ m \in unseen[j] /\ m \notin passed[j]
        BY <1>0, <2>1, <3>3
      <4>2. AskedFor(j, m) \/ (mark[j] < m /\ WillBePulled(j))
        BY <1>00, <2>1, <4>1 DEF Brought
      <4>3. CASE j = k /\ ~AskedFor(k, m)
        <5>1. ~(mark[k] < m /\ m <= n)
          BY <1>0, <2>1, <3>3, <4>1, <4>3
        <5>2. mark'[k] < m
          BY <1>0, <2>1, <2>2, <4>1, <4>2, <4>3, <5>1 DEF Highest
        <5> QED  BY <3>1, <4>2, <4>3, <5>2
      <4>4. CASE j # k
        BY <1>0, <2>1, <3>1, <3>2, <4>2, <4>4
      <4> QED  BY <3>2, <4>3, <4>4
    <3> QED  BY <3>3 DEF Brought
  <2> QED  BY <2>3, <2>4 DEF ChatInv
<1>6. ASSUME NEW k \in ItemChats, Collect(k) PROVE ChatInv'
  <2>1. /\ told' = told \ {k} /\ batch' = batch \cup {k}
        /\ UNCHANGED <<refreshes, pulls, loading, history, loaded, mark, written, unseen, passed, missed>>
    BY <1>6 DEF Collect, viewVars, rowVars
  <2>2. ReadOK'
    BY <1>00, <2>1 DEF ReadOK
  <2>3. ASSUME NEW j \in ItemChats \ missed' PROVE Brought(j)'
    BY <1>00, <2>1 DEF Brought, AskedFor, WillBePulled
  <2> QED  BY <2>2, <2>3 DEF ChatInv
<1>7. ASSUME NEW k \in ItemChats, OpenChat(k) \/ LoadFails(k) PROVE ChatInv'
  <2>1. /\ \A j \in ItemChats \ {k} : loading'[j] = loading[j] /\ history'[j] = history[j]
        /\ k \notin loaded /\ loading'[k] # "answered" /\ history'[k] \in {history[k], 0}
        /\ loading' \in [ItemChats -> {"no", "asked", "answered"}]
        /\ UNCHANGED <<told, batch, refreshes, pulls, loaded, mark, written, unseen, passed, missed>>
    BY <1>0, <1>00, <1>7 DEF OpenChat, LoadFails, runVars, rowVars, ReadOK
  <2>2. ReadOK'
    BY <1>0, <1>00, <2>1 DEF ReadOK
  <2>3. ASSUME NEW j \in ItemChats \ missed' PROVE Brought(j)'
    BY <1>00, <2>1 DEF Brought, AskedFor, WillBePulled
  <2> QED  BY <2>2, <2>3 DEF ChatInv
<1>8. ASSUME NEW k \in ItemChats, ServeHistory(k) PROVE ChatInv'
  <2>1. /\ loading[k] = "asked" /\ loading' = [loading EXCEPT ![k] = "answered"]
        /\ history' = [history EXCEPT ![k] = written[k]] /\ missed' = missed \ {k}
        /\ UNCHANGED <<told, batch, refreshes, pulls, loaded, mark, written, unseen, passed>>
    BY <1>8 DEF ServeHistory, runVars, rowVars
  <2>2. k \notin loaded
    BY <1>00, <2>1 DEF ReadOK
  <2>3. ReadOK'
    BY <1>0, <1>00, <2>1, <2>2 DEF ReadOK
  <2>4. Brought(k)'
    BY <1>0, <1>00, <2>1, <2>2 DEF Brought, AskedFor, ReadOK
  <2>5. ASSUME NEW j \in ItemChats \ missed', j # k PROVE Brought(j)'
    BY <1>0, <1>00, <2>1, <2>5 DEF Brought, AskedFor, WillBePulled
  <2> QED  BY <2>3, <2>4, <2>5 DEF ChatInv
<1>9. ASSUME NEW k \in ItemChats, TakeHistory(k) PROVE ChatInv'
  <2>1. /\ loading[k] = "answered" /\ loading' = [loading EXCEPT ![k] = "no"]
        /\ history' = [history EXCEPT ![k] = 0] /\ loaded' = loaded \cup {k}
        /\ mark' = [mark EXCEPT ![k] = Highest(mark[k], history[k])]
        /\ unseen' = [unseen EXCEPT ![k] = {m \in unseen[k] : m > history[k]}]
        /\ UNCHANGED <<told, batch, refreshes, pulls, written, passed, missed>>
    BY <1>9 DEF TakeHistory, runVars
  <2>2. ReadOK'
    BY <1>0, <1>00, <2>1 DEF ReadOK, Highest
  <2>3. ASSUME NEW j \in ItemChats \ missed' PROVE Brought(j)'
    <3>1. WillBePulled(j) => WillBePulled(j)'
      BY <2>1 DEF WillBePulled
    <3>2. CASE j = k
      <4>1. ASSUME NEW m \in unseen'[k] \ passed'[k]
            PROVE  AskedFor(k, m)' \/ (mark'[k] < m /\ WillBePulled(k)')
        <5>1. m \in Nat /\ m \in unseen[k] \ passed[k] /\ m > history[k]
          BY <1>0, <2>1, <4>1
        <5>2. AskedFor(k, m) \/ (mark[k] < m /\ WillBePulled(k))
          BY <1>00, <2>1, <3>2, <5>1 DEF Brought
        <5>3. AskedFor(k, m) => AskedFor(k, m)'
          BY <1>0, <2>1, <5>1 DEF AskedFor
        <5>4. mark[k] < m => mark'[k] < m
          BY <1>0, <2>1, <5>1 DEF Highest
        <5> QED  BY <3>1, <3>2, <5>2, <5>3, <5>4
      <4> QED  BY <3>2, <4>1 DEF Brought
    <3>3. CASE j # k
      BY <1>0, <1>00, <2>1, <3>1, <3>3 DEF Brought, AskedFor
    <3> QED  BY <3>2, <3>3
  <2> QED  BY <2>2, <2>3 DEF ChatInv
<1>10. ASSUME NEW k \in ItemChats, Discuss(k) \/ ServeCreate(k) \/ Created(k) \/ CreateFails(k)
       PROVE  ChatInv'
  BY <1>1, <1>10 DEF Discuss, ServeCreate, Created, CreateFails
<1>11. CASE Flush
  <2>1. /\ refreshes' = refreshes \cup {Refresh(batch)} /\ batch' = {}
        /\ UNCHANGED <<told, pulls, loading, history, loaded, mark, written, unseen, passed, missed>>
    BY <1>11 DEF Flush, viewVars, rowVars
  <2>2. Refresh(batch).keys = batch
    BY DEF Refresh
  <2>3. ReadOK'
    BY <1>00, <2>1 DEF ReadOK
  <2>4. ASSUME NEW j \in ItemChats \ missed' PROVE Brought(j)'
    <3>1. WillBePulled(j) => WillBePulled(j)'
      BY <2>1, <2>2 DEF WillBePulled
    <3> QED  BY <1>00, <2>1, <3>1 DEF Brought, AskedFor
  <2> QED  BY <2>3, <2>4 DEF ChatInv
<1>12. ASSUME NEW r \in refreshes, ServeRefresh(r) PROVE ChatInv'
  <2> DEFINE new == [r EXCEPT !.stage = "answered", !.rows = rows]
  <2>1. /\ refreshes' = (refreshes \ {r}) \cup {new} /\ new.keys = r.keys
        /\ UNCHANGED <<told, batch, pulls, loading, history, loaded, mark, written, unseen, passed,
                       missed>>
    BY <1>12, Served DEF ServeRefresh, viewVars, rowVars
  <2> HIDE DEF new
  <2>2. ReadOK'
    BY <1>00, <2>1 DEF ReadOK
  <2>3. ASSUME NEW j \in ItemChats \ missed' PROVE Brought(j)'
    <3>1. WillBePulled(j) => WillBePulled(j)'
      BY <2>1 DEF WillBePulled
    <3> QED  BY <1>00, <2>1, <3>1 DEF Brought, AskedFor
  <2> QED  BY <2>2, <2>3 DEF ChatInv
<1>13. ASSUME NEW r \in refreshes, TakeRefresh(r) \/ RefreshFails(r) PROVE ChatInv'
  <2>1. ListOver(r)
    BY <1>13 DEF TakeRefresh, RefreshFails, ListOver
  <2>2. PICK skipped \in SUBSET r.keys :
            GoesOn(pulls, r.keys, skipped) /\ missed' = missed \cup Late(skipped)
    BY <2>1 DEF ListOver
  <2>3. /\ refreshes' = refreshes \ {r}
        /\ UNCHANGED <<told, batch, loading, history, loaded, mark, written, unseen, passed>>
    BY <2>1 DEF ListOver, viewVars, rowVars
  <2>4. pulls \in SUBSET PullRuns /\ r.keys \in SUBSET ItemChats
    BY <1>0 DEF PageTypesOK
  <2>5. /\ pulls \subseteq pulls' /\ skipped \cap loaded = {}
        /\ \A q \in pulls' \ pulls : q.chat \in ItemChats /\ q.after = mark[q.chat] /\ q.upto = 0
        /\ \A k \in r.keys \ skipped : \E q \in pulls' :
                \/ q.chat = k /\ q.stage = "asked" /\ q.after = mark[k]
                \/ k \in q.rest
    <3>1. Onward(pulls, r.keys, skipped)
      BY <2>2, <2>4, GoingOn
    <3> QED  BY <3>1 DEF Onward
  <2>6. ReadOK'
    BY <1>0, <1>00, <2>3, <2>5 DEF ReadOK
  <2>7. ASSUME NEW j \in ItemChats \ missed', NEW m \in unseen'[j] \ passed'[j]
        PROVE  AskedFor(j, m)' \/ (mark'[j] < m /\ WillBePulled(j)')
    <3>1. AskedFor(j, m) \/ (mark[j] < m /\ WillBePulled(j))
      BY <1>00, <2>2, <2>3, <2>7 DEF Brought
    <3>2. AskedFor(j, m) => AskedFor(j, m)'
      BY <2>3, <2>5 DEF AskedFor
    <3>3. WillBePulled(j) /\ j \notin r.keys => WillBePulled(j)'
      BY <2>3, <2>5 DEF WillBePulled
    <3>4. CASE j \in skipped
      <4>1. j \notin loaded' /\ loading'[j] # "answered"
        BY <2>2, <2>3, <2>5, <2>7, <3>4 DEF Late
      <4> QED  BY <4>1 DEF AskedFor
    <3>5. CASE j \in r.keys \ skipped /\ mark[j] < m
      <4>1. PICK q \in pulls' :
                \/ q.chat = j /\ q.stage = "asked" /\ q.after = mark[j]
                \/ j \in q.rest
        BY <2>5, <3>5
      <4>2. AskedFor(j, m)' \/ WillBePulled(j)'
        BY <3>5, <4>1 DEF AskedFor, WillBePulled
      <4> QED  BY <2>3, <3>5, <4>2
    <3> QED  BY <2>3, <3>1, <3>2, <3>3, <3>4, <3>5
  <2> QED  BY <2>6, <2>7 DEF ChatInv, Brought
<1>14. ASSUME NEW p \in pulls, ServePull(p) PROVE ChatInv'
  <2> DEFINE new == [p EXCEPT !.stage = "answered", !.upto = written[p.chat]]
  <2>1. /\ pulls' = (pulls \ {p}) \cup {new} /\ new.chat = p.chat /\ new.rest = p.rest
        /\ new.after = p.after /\ new.upto = written[p.chat] /\ p.stage = "asked"
        /\ UNCHANGED <<told, batch, refreshes, loading, history, loaded, mark, written, unseen, passed,
                       missed>>
    BY <1>14, ServedPull DEF ServePull, viewVars, rowVars
  <2> HIDE DEF new
  <2>2. ReadOK'
    BY <1>0, <1>00, <2>1 DEF ReadOK
  <2>3. ASSUME NEW j \in ItemChats \ missed' PROVE Brought(j)'
    <3>1. WillBePulled(j) => WillBePulled(j)'
      BY <2>1 DEF WillBePulled
    <3>2. ASSUME NEW m \in unseen[j], AskedFor(j, m) PROVE AskedFor(j, m)'
      <4>1. m <= written[j]
        BY <1>00 DEF ReadOK
      <4> QED  BY <2>1, <3>2, <4>1 DEF AskedFor
    <3> QED  BY <1>00, <2>1, <3>1, <3>2 DEF Brought
  <2> QED  BY <2>2, <2>3 DEF ChatInv
<1>15. ASSUME NEW p \in pulls, TakePull(p) PROVE ChatInv'
  <2>1. /\ mark' = [mark EXCEPT ![p.chat] = Highest(mark[p.chat], p.upto)]
        /\ unseen' = [unseen EXCEPT ![p.chat] =
                        {m \in unseen[p.chat] : m <= p.after \/ m > p.upto}]
        /\ UNCHANGED <<told, batch, refreshes, loading, history, loaded, written, passed>>
    BY <1>15 DEF TakePull
  <2>2. PICK skipped \in SUBSET p.rest :
            GoesOn(pulls \ {p}, p.rest, skipped) /\ missed' = missed \cup Late(skipped)
    BY <1>15 DEF TakePull
  <2>3. pulls \ {p} \in SUBSET PullRuns /\ p.rest \in SUBSET ItemChats
    BY <1>0 DEF PageTypesOK
  <2>4. /\ pulls \ {p} \subseteq pulls' /\ skipped \cap loaded = {}
        /\ \A q \in pulls' \ (pulls \ {p}) : q.chat \in ItemChats /\ q.after = mark[q.chat] /\ q.upto = 0
        /\ \A k \in p.rest \ skipped : \E q \in pulls' :
                \/ q.chat = k /\ q.stage = "asked" /\ q.after = mark[k]
                \/ k \in q.rest
    <3>1. Onward(pulls \ {p}, p.rest, skipped)
      BY <2>2, <2>3, GoingOn
    <3> QED  BY <3>1 DEF Onward
  <2>5. /\ p.chat \in ItemChats /\ p.after \in Nat /\ p.upto \in Nat
        /\ p.after <= mark[p.chat] /\ p.upto <= written[p.chat]
    BY <1>0, <1>00 DEF ReadOK
  <2>6. \A j \in ItemChats : mark[j] <= mark'[j] /\ mark'[j] <= written[j] /\ mark'[j] \in Nat
    BY <1>0, <1>00, <2>1, <2>5 DEF ReadOK, Highest
  <2>7. \A j \in ItemChats : unseen'[j] \subseteq unseen[j]
    BY <1>0, <2>1, <2>5
  <2>8. ReadOK'
    <3>1. ASSUME NEW q \in pulls' PROVE q.after <= mark'[q.chat] /\ q.upto <= written'[q.chat]
      <4>1. CASE q \in pulls
        BY <1>0, <1>00, <2>1, <2>6, <4>1 DEF ReadOK
      <4>2. CASE q \notin pulls
        BY <1>0, <2>1, <2>4, <2>6, <4>2
      <4> QED  BY <4>1, <4>2
    <3> QED  BY <1>0, <1>00, <2>1, <2>6, <2>7, <3>1 DEF ReadOK
  <2>9. ASSUME NEW j \in ItemChats \ missed', NEW m \in unseen'[j] \ passed'[j]
        PROVE  AskedFor(j, m)' \/ (mark'[j] < m /\ WillBePulled(j)')
    <3>1. m \in Nat /\ m \in unseen[j] \ passed[j]
      BY <1>0, <2>1, <2>7, <2>9
    <3>2. AskedFor(j, m) \/ (mark[j] < m /\ WillBePulled(j))
      BY <1>00, <2>2, <2>9, <3>1 DEF Brought
    <3>3. j = p.chat => m <= p.after \/ m > p.upto
      BY <1>0, <2>1, <2>5, <2>9
    <3>4. AskedFor(j, m) => AskedFor(j, m)'
      <4>1. CASE j \notin loaded /\ (loading[j] = "answered" => m <= history[j])
        BY <2>1, <4>1 DEF AskedFor
      <4>2. ASSUME NEW q \in pulls, q.chat = j, q.after < m, q.stage = "answered" => m <= q.upto
            PROVE  AskedFor(j, m)'
        <5>1. q # p
          BY <1>15, <2>5, <3>1, <3>3, <4>2 DEF TakePull
        <5>2. q \in pulls'
          BY <2>4, <5>1
        <5> QED  BY <4>2, <5>2 DEF AskedFor
      <4> QED  BY <4>1, <4>2 DEF AskedFor
    <3>5. mark[j] < m => mark'[j] < m
      BY <1>0, <2>1, <2>5, <3>1, <3>3 DEF Highest
    <3>6. WillBePulled(j) /\ j \notin p.rest => WillBePulled(j)'
      BY <2>1, <2>4 DEF WillBePulled
    <3>7. CASE j \in skipped
      <4>1. j \notin loaded' /\ loading'[j] # "answered"
        BY <2>1, <2>2, <2>4, <2>9, <3>7 DEF Late
      <4> QED  BY <4>1 DEF AskedFor
    <3>8. CASE j \in p.rest \ skipped /\ mark[j] < m
      <4>1. PICK q \in pulls' :
                \/ q.chat = j /\ q.stage = "asked" /\ q.after = mark[j]
                \/ j \in q.rest
        BY <2>4, <3>8
      <4>2. AskedFor(j, m)' \/ WillBePulled(j)'
        BY <3>8, <4>1 DEF AskedFor, WillBePulled
      <4> QED  BY <3>5, <3>8, <4>2
    <3> QED  BY <3>2, <3>4, <3>5, <3>6, <3>7, <3>8
  <2> QED  BY <2>8, <2>9 DEF ChatInv, Brought
<1>16. ASSUME NEW p \in pulls, PullFails(p) PROVE ChatInv'
  <2>1. UNCHANGED <<told, batch, refreshes, loading, history, loaded, mark, written, unseen, passed>>
    BY <1>16 DEF PullFails, viewVars, rowVars
  <2>2. PICK skipped \in SUBSET p.rest :
            /\ GoesOn(pulls \ {p}, p.rest, skipped)
            /\ missed' = missed \cup {p.chat} \cup Late(skipped)
    BY <1>16 DEF PullFails
  <2>3. pulls \ {p} \in SUBSET PullRuns /\ p.rest \in SUBSET ItemChats
    BY <1>0 DEF PageTypesOK
  <2>4. /\ pulls \ {p} \subseteq pulls' /\ skipped \cap loaded = {}
        /\ \A q \in pulls' \ (pulls \ {p}) : q.chat \in ItemChats /\ q.after = mark[q.chat] /\ q.upto = 0
        /\ \A k \in p.rest \ skipped : \E q \in pulls' :
                \/ q.chat = k /\ q.stage = "asked" /\ q.after = mark[k]
                \/ k \in q.rest
    <3>1. Onward(pulls \ {p}, p.rest, skipped)
      BY <2>2, <2>3, GoingOn
    <3> QED  BY <3>1 DEF Onward
  <2>5. ReadOK'
    <3>1. ASSUME NEW q \in pulls' PROVE q.after <= mark'[q.chat] /\ q.upto <= written'[q.chat]
      <4>1. CASE q \in pulls
        BY <1>00, <2>1, <4>1 DEF ReadOK
      <4>2. CASE q \notin pulls
        BY <1>0, <2>1, <2>4, <4>2
      <4> QED  BY <4>1, <4>2
    <3> QED  BY <1>00, <2>1, <3>1 DEF ReadOK
  <2>6. ASSUME NEW j \in ItemChats \ missed', NEW m \in unseen'[j] \ passed'[j]
        PROVE  AskedFor(j, m)' \/ (mark'[j] < m /\ WillBePulled(j)')
    <3>1. j # p.chat /\ j \notin missed /\ m \in unseen[j] \ passed[j]
      BY <2>1, <2>2, <2>6
    <3>2. AskedFor(j, m) \/ (mark[j] < m /\ WillBePulled(j))
      BY <1>00, <3>1 DEF Brought
    <3>3. AskedFor(j, m) => AskedFor(j, m)'
      BY <2>1, <2>4, <3>1 DEF AskedFor
    <3>4. WillBePulled(j) /\ j \notin p.rest => WillBePulled(j)'
      BY <2>1, <2>4 DEF WillBePulled
    <3>5. CASE j \in skipped
      <4>1. j \notin loaded' /\ loading'[j] # "answered"
        BY <2>1, <2>2, <2>4, <2>6, <3>5 DEF Late
      <4> QED  BY <4>1 DEF AskedFor
    <3>6. CASE j \in p.rest \ skipped /\ mark[j] < m
      <4>1. PICK q \in pulls' :
                \/ q.chat = j /\ q.stage = "asked" /\ q.after = mark[j]
                \/ j \in q.rest
        BY <2>4, <3>6
      <4>2. AskedFor(j, m)' \/ WillBePulled(j)'
        BY <3>6, <4>1 DEF AskedFor, WillBePulled
      <4> QED  BY <2>1, <3>6, <4>2
    <3> QED  BY <2>1, <3>2, <3>3, <3>4, <3>5, <3>6
  <2> QED  BY <2>5, <2>6 DEF ChatInv, Brought
<1>17. CASE GracePasses
  BY <1>1, <1>17 DEF GracePasses
<1>18. ASSUME NEW t \in Tabs, ServeSessions(t) \/ TakeSessions(t) PROVE ChatInv'
  BY <1>1, <1>18 DEF ServeSessions, TakeSessions
<1>19. ASSUME NEW t \in Tabs, Disconnect(t) PROVE ChatInv'
  <2>1. /\ \/ told' = {} /\ missed' = missed \cup told
           \/ told' = told /\ missed' = missed
        /\ UNCHANGED <<batch, refreshes, pulls, loading, history, loaded, mark, written, unseen, passed>>
    BY <1>19 DEF Disconnect, viewVars
  <2>2. ReadOK'
    BY <1>00, <2>1 DEF ReadOK
  <2>3. ASSUME NEW j \in ItemChats \ missed' PROVE Brought(j)'
    BY <1>00, <2>1 DEF Brought, AskedFor, WillBePulled
  <2> QED  BY <2>2, <2>3 DEF ChatInv
<1>20. CASE Elsewhere
  BY <1>1, <1>20 DEF Elsewhere
<1> QED
  BY <1>2, <1>3, <1>4, <1>5, <1>6, <1>7, <1>8, <1>9, <1>10, <1>11, <1>12, <1>13, <1>14, <1>15,
     <1>16, <1>17, <1>18, <1>19, <1>20, StepsOfPage

(* What the backend writes into a chat the page has loaded is shown once its *)
(* events are handled, in whatever bursts they come, whichever requests fail *)
(* and however often the agent answers, but for a message an answer got      *)
(* ahead of (assistantEvents.ts:43-60, 102-130, message.ts:63-72).           *)
THEOREM WritesAreShown == Spec => []WritesArePulled
<1>1. PageTypesOK /\ ChatInv => WritesArePulled
  BY DEF PageTypesOK, ChatInv, Brought, AskedFor, WillBePulled, WritesArePulled
<1> QED  BY <1>1, PageStarts, PageTypesKept, ChatKept, PTL DEF Spec

-----------------------------------------------------------------------------
(* Types of the whole page                                                   *)

OthersOK ==
    /\ online \subseteq Tabs /\ viewing \subseteq Tabs /\ unaware \subseteq Tabs
    /\ events \in 0..MaxEvents

LEMMA OthersKept == OthersOK /\ [Next]_vars => OthersOK'
<1> SUFFICES ASSUME OthersOK, [Next]_vars PROVE OthersOK'
  OBVIOUS
<1>1. /\ online' \subseteq Tabs /\ viewing' \subseteq Tabs /\ unaware' \subseteq Tabs
  <2>1. CASE UNCHANGED unreadVars
    BY <2>1 DEF OthersOK, unreadVars
  <2>2. CASE UnreadNext
    BY <2>2 DEF OthersOK, UnreadNext, Reply, HearCount, View, Peek, Leave, ServeRead, ReadFails,
       GoOffline, GoOnline, ServeList, TakeList, ListFails
  <2> QED  BY <2>1, <2>2, StepsOfUnread
<1>2. events' \in 0..MaxEvents
  <2>1. Event \/ UNCHANGED events
    BY ZenonT(60) DEF Next, vars, BackendSends, AgentReplies, Collect, OpenChat, ServeHistory,
       TakeHistory, LoadFails, Discuss, ServeCreate, Created, CreateFails, BackendFinishes, TakePush,
       Flush, GracePasses, ServeRefresh, TakeRefresh, RefreshFails, ServePull, TakePull, PullFails,
       ServeSessions, TakeSessions, Disconnect, Counts, CardSteps, BoardSteps
  <2> QED  BY SMTT(30), <2>1, PageAssumption DEF OthersOK, Event
<1> QED  BY <1>1, <1>2 DEF OthersOK

(* Every variable of the page has its type: the counts, the board and the    *)
(* chats stay within what the tables hold (useAssistantBoard.ts,             *)
(* assistantEvents.ts, App.tsx:575-597).                                     *)
THEOREM PageTypeCorrect == Spec => []TypeOK
<1>1. Init => OthersOK
  BY PageAssumption DEF Init, UnreadInit, OthersOK
<1>2. UnreadInv /\ BoardInv /\ PageTypesOK /\ OthersOK => TypeOK
  <2> SUFFICES ASSUME UnreadInv, BoardInv, PageTypesOK, OthersOK PROVE TypeOK
    OBVIOUS
  <2>1. inbox \in [Tabs -> Seq(Nat)]
    <3>1. inbox \in [Tabs -> Seq(Positive)]
      BY DEF UnreadInv, CountsOK
    <3>2. ASSUME NEW q \in Seq(Positive) PROVE q \in Seq(Nat)
      <4>1. Len(q) \in Nat /\ q \in [1..Len(q) -> Positive]
        BY <3>2
      <4>2. q \in [1..Len(q) -> Nat]
        BY <4>1 DEF Positive
      <4> QED  BY <4>1, <4>2
    <3> QED  BY <3>1, <3>2
  <2>2. UnreadTypeOK
    BY <2>1 DEF UnreadInv, CountsOK, OthersOK, UnreadTypeOK
  <2>3. BoardTypeOK
    BY DEF BoardInv
  <2> QED  BY <2>2, <2>3 DEF PageTypesOK, OthersOK, TypeOK, Runs, PullRuns
<1> QED
  BY <1>1, <1>2, UnreadStarts, UnreadKept, BoardStarts, BoardKeptByAll, PageStarts, PageTypesKept,
     OthersKept, PTL DEF Spec
=============================================================================
