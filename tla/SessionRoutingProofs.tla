------------------------- MODULE SessionRoutingProofs -------------------------
(* Proofs about SessionRouting, for any sessions and bounds.  Frames, the    *)
(* user, hydration and reloads interleave freely.                            *)
EXTENDS SessionRouting, FiniteSetTheorems, WellFoundedInduction, TLAPS

-----------------------------------------------------------------------------
(* Sequences.  Induction over the natural numbers comes from the well-founded*)
(* order of the finite sets 1..n.                                            *)

\* A set of natural numbers has a least one.
LEMMA Least == ASSUME NEW T \in SUBSET Nat, NEW N \in T PROVE \E n \in T : \A m \in T : n <= m
<1> DEFINE F == {1..n : n \in T \cap 0..N}
<1>1. IsFiniteSet(1..N)
  BY FS_Interval
<1>2. IsWellFoundedOn(StrictSubsetOrdering(1..N), FiniteSubsetsOf(1..N))
  BY <1>1, FS_StrictSubsetOrderingWellFounded
<1>3. F \subseteq FiniteSubsetsOf(1..N)
  <2>1. \A n \in T \cap 0..N : 1..n \in SUBSET (1..N) /\ IsFiniteSet(1..n)
    BY FS_Interval
  <2> QED BY <2>1 DEF FiniteSubsetsOf
<1>4. 1..N \in F
  OBVIOUS
<1>5. PICK x \in F : \A y \in F : <<y, x>> \notin StrictSubsetOrdering(1..N)
  <2> HIDE DEF F
  <2> QED  BY <1>2, <1>3, <1>4, WFMin
<1>6. PICK n \in T \cap 0..N : x = 1..n
  BY <1>5
<1>7. ASSUME NEW m \in T, m < n PROVE FALSE
  <2>1. 1..m \in F /\ 1..m \subseteq x /\ 1..m # x /\ 1..m \in SUBSET (1..N) /\ x \in SUBSET (1..N)
    <3>1. n \in x /\ n \notin 1..m
      BY <1>6, <1>7
    <3> QED  BY <1>6, <1>7, <3>1
  <2>2. <<1..m, x>> \in StrictSubsetOrdering(1..N)
    BY <2>1 DEF StrictSubsetOrdering
  <2> QED  BY <2>1, <2>2, <1>5
<1> QED  BY <1>7

\* Induction, about a set.
LEMMA Counting == 
    ASSUME NEW S, 0 \in S, \A n \in S \cap Nat : n + 1 \in S
    PROVE  Nat \subseteq S
<1> SUFFICES ASSUME NEW k \in Nat \ S PROVE FALSE
  OBVIOUS
<1>1. PICK n \in Nat \ S : \A m \in Nat \ S : n <= m
  <2>1. Nat \ S \in SUBSET Nat
    OBVIOUS
  <2> DEFINE T == Nat \ S
  <2>2. T \in SUBSET Nat /\ k \in T
    OBVIOUS
  <2>3. \E n \in T : \A m \in T : n <= m
    <3> HIDE DEF T
    <3> QED  BY <2>2, Least
  <2> QED  BY <2>3
<1>2. n # 0 /\ n - 1 \in Nat /\ n - 1 \in S /\ (n - 1) + 1 = n
  BY <1>1
<1> QED  BY <1>1, <1>2


\* The part of q without s that ends at i, from the part that ends before it.
Step(g, q, s, i) == IF i = 0 THEN <<>> ELSE IF q[i] = s THEN g[i - 1] ELSE Append(g[i - 1], q[i])
IsFilter(g, q, s, n) == g = [i \in 0..n |-> Step(g, q, s, i)]

LEMMA FilterExists ==
    ASSUME NEW X, NEW q \in Seq(X), NEW s
    PROVE  \E g : IsFilter(g, q, s, Len(q))
<1> DEFINE S == {n \in Nat : \E g : IsFilter(g, q, s, n)}
<1>1. 0 \in S
  <2> DEFINE g == [i \in 0..0 |-> <<>>]
  <2>1. g = [i \in 0..0 |-> Step(g, q, s, i)]
    BY DEF Step
  <2> QED  BY <2>1 DEF IsFilter
<1>2. ASSUME NEW n \in S \cap Nat PROVE n + 1 \in S
  <2>1. PICK g : g = [i \in 0..n |-> Step(g, q, s, i)]
    BY DEF IsFilter
  <2> DEFINE h == [i \in 0..(n + 1) |-> Step(g, q, s, i)]
  <2>2. \A i \in 0..n : h[i] = g[i]
    <3>1. \A i \in 0..n : g[i] = Step(g, q, s, i) 
      BY <2>1
    <3>2. \A i \in 0..n : h[i] = Step(g, q, s, i) 
      OBVIOUS
    <3> QED  BY <3>1, <3>2
  <2>3. \A i \in 0..(n + 1) : Step(h, q, s, i) = Step(g, q, s, i)
    <3> SUFFICES ASSUME NEW i \in 0..(n + 1) PROVE Step(h, q, s, i) = Step(g, q, s, i)
      OBVIOUS
    <3>1. i = 0 \/ h[i - 1] = g[i - 1]
      <4>1. i = 0 \/ i - 1 \in 0..n
        OBVIOUS
      <4> HIDE DEF h
      <4> QED  BY <2>2, <4>1
    <3> HIDE DEF h
    <3> QED  BY <3>1 DEF Step
  <2>4. IsFilter(h, q, s, n + 1)
    BY <2>3 DEF IsFilter
  <2>5. n + 1 \in Nat
    OBVIOUS
  <2> HIDE DEF h
  <2> QED  BY <2>4, <2>5
<1>3. Len(q) \in S
  <2> HIDE DEF S
  <2>1. Nat \subseteq S 
    BY <1>1, <1>2, Counting
  <2> QED  BY <2>1
<1> QED  BY <1>3

\* The filter of the list keeps exactly the other sessions.
LEMMA Filtered == 
    ASSUME NEW X, NEW q \in Seq(X), NEW s
    PROVE  Without(q, s) \in Seq(X) /\ ToSet(Without(q, s)) = ToSet(q) \ {s}
<1> DEFINE g == CHOOSE g : g = [i \in 0..Len(q) |-> 
            IF i = 0 THEN <<>> ELSE IF q[i] = s THEN g[i - 1] ELSE Append(g[i - 1], q[i])]
<1>1. Without(q, s) = g[Len(q)]
  BY SMTT(30) DEF Without
<1>2. g = [i \in 0..Len(q) |-> Step(g, q, s, i)]
  <2> DEFINE P(h) == h = [i \in 0..Len(q) |-> 
            IF i = 0 THEN <<>> ELSE IF q[i] = s THEN h[i - 1] ELSE Append(h[i - 1], q[i])]
  <2>1. PICK h : h = [i \in 0..Len(q) |-> Step(h, q, s, i)]
    BY FilterExists DEF IsFilter
  <2>2. P(h)
    BY <2>1 DEF Step
  <2>3. P(CHOOSE k : P(k))
    <3> HIDE DEF P
    <3> QED  BY <2>2
  <2> QED  BY <2>3 DEF Step
<1> HIDE DEF g
<1>g. \A i \in 0..Len(q) : g[i] = Step(g, q, s, i)
  BY <1>2
<1>l. Len(q) \in Nat /\ \A i \in 1..Len(q) : q[i] \in X
  OBVIOUS
<1> DEFINE S == {n \in Nat : n <= Len(q) => 
       g[n] \in Seq(X) /\ ToSet(g[n]) = {q[i] : i \in 1..n} \ {s}}
<1>3. 0 \in S
  <2>1. g[0] = <<>>
    BY <1>g, <1>l DEF Step
  <2>2. ToSet(<<>>) = {} /\ <<>> \in Seq(X) /\ {q[i] : i \in 1..0} = {}
    BY DEF ToSet
  <2> QED  BY <2>1, <2>2
<1>4. ASSUME NEW n \in S \cap Nat PROVE n + 1 \in S
  <2> SUFFICES ASSUME n + 1 <= Len(q) PROVE g[n + 1] \in Seq(X) /\ ToSet(g[n + 1]) = {q[i] : i \in 1..(n+1)} \ {s}
    OBVIOUS
  <2>1. g[n] \in Seq(X) /\ ToSet(g[n]) = {q[i] : i \in 1..n} \ {s}
    BY <1>l
  <2>2. g[n + 1] = IF q[n + 1] = s THEN g[n] ELSE Append(g[n], q[n + 1])
    <3>1. n + 1 \in 0..Len(q) /\ n + 1 # 0 /\ (n + 1) - 1 = n
      BY <1>l
    <3> HIDE DEF S
    <3> QED  BY <1>g, <3>1 DEF Step
  <2>3. q[n + 1] \in X
    BY <1>l
  <2>4. {q[i] : i \in 1..(n+1)} = {q[i] : i \in 1..n} \cup {q[n + 1]}
    OBVIOUS
  <2> HIDE DEF S
  <2>5. CASE q[n + 1] = s
    BY <2>1, <2>2, <2>4, <2>5
  <2>6. CASE q[n + 1] # s
    <3>1. ToSet(Append(g[n], q[n + 1])) = ToSet(g[n]) \cup {q[n + 1]}
      <4> DEFINE a == Append(g[n], q[n + 1])
      <4>1. /\ DOMAIN a = 1..(Len(g[n]) + 1) /\ a[Len(g[n]) + 1] = q[n + 1]
            /\ \A i \in 1..Len(g[n]) : a[i] = g[n][i]
            /\ DOMAIN g[n] = 1..Len(g[n]) /\ Len(g[n]) \in Nat
        BY <2>1
      <4> HIDE DEF a
      <4> QED  BY <4>1 DEF ToSet
    <3> QED  BY <2>1, <2>2, <2>3, <2>4, <2>6, <3>1
  <2> QED  BY <2>5, <2>6
<1>5. Len(q) \in S
  <2> HIDE DEF S
  <2>1. Nat \subseteq S 
    BY <1>3, <1>4, Counting
  <2> QED  BY <2>1, <1>l
<1>6. ToSet(q) = {q[i] : i \in 1..Len(q)}
  BY DEF ToSet
<1>7. g[Len(q)] \in Seq(X) /\ ToSet(g[Len(q)]) = {q[i] : i \in 1..Len(q)} \ {s}
  BY <1>5, <1>l
<1> HIDE DEF S
<1> QED  BY <1>1, <1>6, <1>7

LEMMA Appended ==
    ASSUME NEW X, NEW q \in Seq(X), NEW e \in X
    PROVE  Append(q, e) \in Seq(X) /\ ToSet(Append(q, e)) = ToSet(q) \cup {e} /\ Append(q, e) # <<>>
<1> DEFINE a == Append(q, e)
<1>1. /\ a \in Seq(X) /\ DOMAIN a = 1..(Len(q) + 1) /\ a[Len(q) + 1] = e
      /\ \A i \in 1..Len(q) : a[i] = q[i]
      /\ DOMAIN q = 1..Len(q) /\ Len(q) \in Nat /\ a # <<>>
  OBVIOUS
<1> HIDE DEF a
<1>2. ToSet(a) = ToSet(q) \cup {e}
  BY <1>1 DEF ToSet
<1> QED  BY <1>1, <1>2 DEF a

\* The first session of a list is listed.
LEMMA FirstIsListed ==
    ASSUME NEW X, NEW q \in Seq(X), q # <<>>
    PROVE  q[1] \in ToSet(q) /\ q[1] \in X
BY DEF ToSet

LEMMA NoneListed == ToSet(<<>>) = {}
BY DEF ToSet

LEMMA ListedAreElements == \A X : \A q \in Seq(X) : ToSet(q) \subseteq X
BY DEF ToSet

-----------------------------------------------------------------------------
(* Types                                                                     *)

\* The table and the lists.  The table is finite, so its rows can be listed.
ListsOK ==
    /\ rows \subseteq Sessions /\ IsFiniteSet(rows)
    /\ hydrate.rows \in Seq(Sessions) /\ list \in Seq(Sessions)

KeysOK ==
    /\ active \in Targets \cup {None} /\ sticky \in Targets \cup {None}
    /\ typing \subseteq Targets /\ working \subseteq Targets /\ reveal \subseteq Targets
    /\ turn \in [Sessions -> {"no", "quiet", "typing"}]

OthersOK ==
    /\ deleting \subseteq Sessions /\ used \subseteq Sessions /\ creating \subseteq Sessions
    /\ events \in 0..MaxEvents
    /\ hydrate.stage \in {"no", "answered", "loading"} /\ ready \in BOOLEAN
    /\ exchanged \subseteq Sessions /\ created \subseteq Sessions
    /\ foreign \subseteq Kinds \X Targets
    /\ exposed \in BOOLEAN /\ muddled \subseteq Targets

\* What a frame can be.
FrameKinds(o, keyed) ==
    \/ Progress(o, keyed) \/ Preview(o, keyed) \/ Text(o, keyed) \/ Settles(o, keyed) \/ Card(o, keyed)
    \/ TypingStart(o, keyed) \/ TypingStop(o, keyed) \/ Error(o)

LEMMA FrameIsOfAKind ==
    ASSUME NEW o, NEW keyed, Frame(o, keyed)
    PROVE  /\ FrameKinds(o, keyed)
           /\ UNCHANGED <<server, creating, hydrate, ready, events, used, created, exposed>>
BY DEF Frame, FrameKinds

LEMMA FramesKeepTheList ==
    ASSUME NEW o, NEW keyed, FrameKinds(o, keyed)
    PROVE  UNCHANGED <<list, active>>
BY DEF FrameKinds, Progress, Preview, Text, Settles, Card, TypingStart, TypingStop, Error

LEMMA ListsKept == ListsOK /\ [Next]_vars => ListsOK'
<1> SUFFICES ASSUME ListsOK, [Next]_vars PROVE ListsOK'
  OBVIOUS
<1> USE DEF ListsOK
<1>1. ASSUME NEW o \in Sessions, NEW keyed \in BOOLEAN, Frame(o, keyed) PROVE ListsOK'
  BY <1>1, FrameIsOfAKind, FramesKeepTheList DEF server
<1>2. ASSUME NEW s \in Sessions, FramesLost(s) \/ OwnTurn(s) \/ Switch(s) \/ CreateFails(s) PROVE ListsOK'
  BY <1>2 DEF FramesLost, OwnTurn, Switch, CreateFails, server, page
<1>3. ASSUME NEW s \in Targets, RevealEnds(s) PROVE ListsOK'
  BY <1>3 DEF RevealEnds, server
<1>4. CASE Send
  BY <1>4 DEF Send, server
<1>5. ASSUME NEW s \in Sessions, AskCreate(s) PROVE ListsOK'
  <2>1. IsFiniteSet(rows \cup {s})
    BY FS_AddElement
  <2> QED  BY <1>5, <2>1 DEF AskCreate, RowsWith, page
<1>6. ASSUME NEW s \in Sessions, Create(s) PROVE ListsOK'
  BY <1>6, Appended DEF Create, server
<1>7. ASSUME NEW s \in Sessions, Delete(s) PROVE ListsOK'
  BY <1>7, Filtered DEF Delete
<1>8. ASSUME NEW s \in Sessions, ServeDelete(s) PROVE ListsOK'
  BY <1>8, FS_Subset DEF ServeDelete, page
<1>9. CASE Manifest
  <2>1. Cardinality(rows) \in Nat
    BY FS_CardinalityType
  <2>2. ASSUME NEW q \in ListedRows PROVE q \in Seq(Sessions)
    BY <2>1 DEF ListedRows, SetToSeqs
  <2> QED  BY <1>9, <2>2 DEF Manifest, server, page
<1>10. CASE TakeSessions \/ HydrateEnds \/ Reload
  <2>1. rows' = rows /\ list' \in {list, hydrate.rows, <<>>}
    BY <1>10 DEF TakeSessions, HydrateEnds, Reload, server
  <2>2. hydrate'.rows = <<>>
    BY <1>10 DEF TakeSessions, HydrateEnds, Reload, Idle
  <2>3. <<>> \in Seq(Sessions)
    OBVIOUS
  <2> QED  BY <2>1, <2>2, <2>3
<1>11. CASE UNCHANGED vars
  BY <1>11 DEF vars, server, page
<1> QED
  BY <1>1, <1>2, <1>3, <1>4, <1>5, <1>6, <1>7, <1>8, <1>9, <1>10, <1>11 DEF Next

LEMMA RoutedAreKeys ==
    ASSUME ListsOK, KeysOK, NEW o \in Sessions, NEW keyed \in BOOLEAN, NEW s \in Routed(o, keyed)
    PROVE  s \in Targets /\ Guess \in Targets
BY FirstIsListed DEF Routed, Guess, ListsOK, KeysOK, Targets

LEMMA KeysKept == ListsOK /\ KeysOK /\ [Next]_vars => KeysOK'
<1> SUFFICES ASSUME ListsOK, KeysOK, [Next]_vars PROVE KeysOK'
  OBVIOUS
<1>0. Sessions \subseteq Targets /\ Default \in Targets /\ ToSet(list) \subseteq Sessions
  BY ListedAreElements DEF Targets, ListsOK
<1>1. ASSUME NEW o \in Sessions, NEW keyed \in BOOLEAN, Frame(o, keyed) PROVE KeysOK'
  <2>1. turn' \in [Sessions -> {"no", "quiet", "typing"}]
    BY <1>1 DEF Frame, KeysOK
  <2>2. active' = active
    BY <1>1, FrameIsOfAKind, FramesKeepTheList
  <2>3. /\ sticky' \in {sticky, o}
        /\ \E s \in Targets : /\ typing' \subseteq typing \cup {s}
                              /\ working' \subseteq working \cup {s}
                              /\ reveal' \subseteq reveal \cup {s}
    <3>1. Guess \in Targets
      BY FirstIsListed DEF Guess, ListsOK, KeysOK, Targets
    <3>2. CASE Error(o)
      BY <3>1, <3>2 DEF Error
    <3>3. CASE Card(o, keyed)
      <4>1. (IF keyed THEN o ELSE IF active # None THEN active ELSE Default) \in Targets
        BY <1>0 DEF KeysOK
      <4> QED  BY <3>3, <4>1 DEF Card, CompletedUnlessTyping
    <3>4. CASE \/ Progress(o, keyed) \/ Preview(o, keyed) \/ Text(o, keyed) \/ Settles(o, keyed)
               \/ TypingStart(o, keyed) \/ TypingStop(o, keyed)
      <4>1. \A s \in Routed(o, keyed) : s \in Targets
        BY RoutedAreKeys
      <4> QED
        BY <3>4, <4>1 DEF Progress, Preview, Text, Settles, TypingStart, TypingStop, Notes,
           CompletedUnlessTyping
    <3> QED  BY <1>1, <3>2, <3>3, <3>4, FrameIsOfAKind DEF FrameKinds
  <2> QED  BY <1>0, <2>1, <2>2, <2>3 DEF KeysOK
<1>2. ASSUME NEW s \in Sessions,
             FramesLost(s) \/ OwnTurn(s) \/ Switch(s) \/ CreateFails(s) \/ AskCreate(s) \/ ServeDelete(s)
      PROVE  KeysOK'
  BY <1>0, <1>2 DEF FramesLost, OwnTurn, Switch, CreateFails, AskCreate, ServeDelete, page, KeysOK
<1>3. ASSUME NEW s \in Targets, RevealEnds(s) PROVE KeysOK'
  BY <1>3 DEF RevealEnds, CompletedUnlessTyping, KeysOK
<1>4. CASE Send
  BY <1>0, <1>4 DEF Send, KeysOK
<1>5. ASSUME NEW s \in Sessions, Create(s) PROVE KeysOK'
  BY <1>0, <1>5 DEF Create, KeysOK
<1>6. ASSUME NEW s \in Sessions, Delete(s) PROVE KeysOK'
  <2>1. Without(list, s) # <<>> => Without(list, s)[1] \in Sessions
    BY Filtered, FirstIsListed DEF ListsOK
  <2> QED  BY <1>0, <1>6, <2>1 DEF Delete, KeysOK
<1>7. CASE Manifest \/ TakeSessions
  BY <1>7 DEF Manifest, TakeSessions, page, KeysOK
<1>8. CASE HydrateEnds
  <2>1. Focus \in Targets
    BY <1>0, FirstIsListed DEF Focus, ListsOK
  <2> QED  BY <1>8, <2>1 DEF HydrateEnds, KeysOK
<1>9. CASE Reload
  BY <1>9 DEF Reload, KeysOK
<1>10. CASE UNCHANGED vars
  BY <1>10 DEF vars, page, KeysOK
<1> QED
  BY <1>1, <1>2, <1>3, <1>4, <1>5, <1>6, <1>7, <1>8, <1>9, <1>10 DEF Next

LEMMA Starts == Init => ListsOK /\ KeysOK /\ OthersOK
<1> SUFFICES ASSUME Init PROVE ListsOK /\ KeysOK /\ OthersOK
  OBVIOUS
<1>1. ListsOK
  <2>1. <<>> \in Seq(Sessions) /\ hydrate.rows = <<>>
    BY DEF Init, Idle
  <2> QED  BY <2>1, SessionsAssumption DEF Init, ListsOK
<1>2. KeysOK
  BY DEF Init, KeysOK
<1>3. OthersOK
  <2>1. hydrate.stage = "no"
    BY DEF Init, Idle
  <2>2. ready \in BOOLEAN /\ exposed \in BOOLEAN
    BY Zenon DEF Init
  <2>3. events \in 0..MaxEvents
    BY SessionsAssumption DEF Init
  <2>4. deleting \subseteq Sessions /\ used \subseteq Sessions /\ creating \subseteq Sessions
    BY SessionsAssumption DEF Init
  <2> QED  BY <2>1, <2>2, <2>3, <2>4, SessionsAssumption DEF Init, OthersOK
<1> QED  BY <1>1, <1>2, <1>3

LEMMA ShownIsTyped ==
    ASSUME OthersOK, NEW k \in Kinds, NEW s \in Targets, NEW o
    PROVE  Shown(k, s, o) \subseteq Kinds \X Targets
BY DEF Shown

LEMMA PurgedIsTyped == OthersOK => \A s : Purged(s) \subseteq Kinds \X Targets
BY DEF Purged, OthersOK

LEMMA OthersKept == ListsOK /\ KeysOK /\ OthersOK /\ [Next]_vars => OthersOK'
<1> SUFFICES ASSUME ListsOK, KeysOK, OthersOK, [Next]_vars PROVE OthersOK'
  OBVIOUS
<1>0. Sessions \subseteq Targets /\ ToSet(list) \subseteq Sessions
  BY ListedAreElements DEF Targets, ListsOK
<1>c. Counted => events' \in 0..MaxEvents
  BY SessionsAssumption DEF Counted, OthersOK
<1>1. ASSUME NEW o \in Sessions, NEW keyed \in BOOLEAN, Frame(o, keyed) PROVE OthersOK'
  <2>1. UNCHANGED <<server, creating, hydrate, ready, events, used, created, exposed>>
    BY <1>1, FrameIsOfAKind
  <2>2. /\ exchanged' \subseteq exchanged \cup {o}
        /\ \E s \in Targets : /\ \E k \in Kinds : foreign' \subseteq foreign \cup Shown(k, s, o)
                              /\ muddled' \subseteq muddled \cup {s, o}
    <3>1. Guess \in Targets
      BY FirstIsListed DEF Guess, ListsOK, KeysOK, Targets
    <3>2. CASE Error(o)
      BY <3>1, <3>2 DEF Error, Misplaced, Kinds
    <3>3. CASE Card(o, keyed)
      <4>1. (IF keyed THEN o ELSE IF active # None THEN active ELSE Default) \in Targets
        BY <1>0 DEF KeysOK, Targets
      <4> QED  BY <3>3, <4>1 DEF Card, Misplaced, Kinds
    <3>4. CASE \/ Progress(o, keyed) \/ Preview(o, keyed) \/ Text(o, keyed) \/ Settles(o, keyed)
               \/ TypingStart(o, keyed) \/ TypingStop(o, keyed)
      <4>1. \A s \in Routed(o, keyed) : s \in Targets
        BY RoutedAreKeys
      <4> QED
        BY <3>4, <4>1 DEF Progress, Preview, Text, Settles, TypingStart, TypingStop, Notes,
           Misplaced, Kinds
    <3> QED  BY <1>1, <3>2, <3>3, <3>4, FrameIsOfAKind DEF FrameKinds
  <2>3. foreign' \subseteq Kinds \X Targets
    BY <2>2, ShownIsTyped DEF OthersOK
  <2> QED  BY <1>0, <2>1, <2>2, <2>3 DEF server, OthersOK
<1>2. ASSUME NEW s \in Sessions, FramesLost(s) \/ OwnTurn(s) \/ Switch(s) \/ CreateFails(s)
      PROVE  OthersOK'
  BY <1>0, <1>c, <1>2 DEF FramesLost, OwnTurn, Switch, CreateFails, server, page, history, OthersOK
<1>3. ASSUME NEW s \in Sessions, AskCreate(s) \/ ServeDelete(s) PROVE OthersOK'
  BY <1>0, <1>3 DEF AskCreate, ServeDelete, page, history, OthersOK
<1>4. ASSUME NEW s \in Targets, RevealEnds(s) PROVE OthersOK'
  BY <1>4 DEF RevealEnds, server, history, OthersOK
<1>5. CASE Send
  BY <1>0, <1>5 DEF Send, server, OthersOK
<1>6. ASSUME NEW s \in Sessions, Create(s) PROVE OthersOK'
  BY <1>0, <1>6, PurgedIsTyped DEF Create, server, OthersOK
<1>7. ASSUME NEW s \in Sessions, Delete(s) PROVE OthersOK'
  BY <1>0, <1>c, <1>7, PurgedIsTyped DEF Delete, OthersOK
<1>8. CASE Manifest
  <2>1. events' \in 0..MaxEvents
    BY <1>c, <1>8 DEF Manifest, OthersOK
  <2>2. hydrate'.stage = "answered"
    BY <1>8 DEF Manifest
  <2> QED  BY <1>8, <2>1, <2>2 DEF Manifest, server, page, history, OthersOK
<1>9. CASE TakeSessions \/ HydrateEnds
  <2>1. hydrate'.stage \in {"no", "loading"}
    BY <1>9 DEF TakeSessions, HydrateEnds, Idle
  <2>2. ready' \in {ready, TRUE} /\ ready \in BOOLEAN
    BY <1>9 DEF TakeSessions, HydrateEnds, OthersOK
  <2>3. ready' \in BOOLEAN
    BY <2>2, Zenon
  <2> QED  BY <1>9, <2>1, <2>3 DEF TakeSessions, HydrateEnds, server, history, OthersOK
<1>10. CASE Reload
  <2>1. working \subseteq Targets
    BY DEF KeysOK
  <2> QED  BY <1>0, <1>c, <1>10, <2>1 DEF Reload, Idle, server, OthersOK
<1>11. CASE UNCHANGED vars
  BY <1>11 DEF vars, server, page, history, OthersOK
<1> QED
  BY <1>1, <1>2, <1>3, <1>4, <1>5, <1>6, <1>7, <1>8, <1>9, <1>10, <1>11 DEF Next

(* Every variable of the dashboard's sessions has its type, for any sessions *)
(* and any number of turns and reloads (session.ts, sessionRouting.ts).      *)
THEOREM RoutingTypeCorrect == Spec => []TypeOK
<1>1. ListsOK /\ KeysOK /\ OthersOK => TypeOK
  BY DEF ListsOK, KeysOK, OthersOK, TypeOK
<1> QED  BY <1>1, Starts, ListsKept, KeysKept, OthersKept, PTL DEF Spec

-----------------------------------------------------------------------------
(* The active session                                                        *)

(* Once hydration is over the active session is one of the list, for any     *)
(* sessions and any overlap of creations, deletions and lists                *)
(* (hydrateFromServer.ts:64-85, session.ts:355-385).                         *)
THEOREM ActiveStaysListed == Spec => []ActiveIsListed
<1>1. Init => ActiveIsListed
  BY DEF Init, ActiveIsListed
<1>2. ListsOK /\ ActiveIsListed /\ [Next]_vars => ActiveIsListed'
  <2> SUFFICES ASSUME ListsOK, ActiveIsListed, [Next]_vars PROVE ActiveIsListed'
    OBVIOUS
  <2>0. CASE UNCHANGED <<hydrate, list, active>>
    BY <2>0 DEF ActiveIsListed
  <2>1. ASSUME NEW o \in Sessions, NEW keyed \in BOOLEAN, Frame(o, keyed) PROVE ActiveIsListed'
    BY <2>0, <2>1, FrameIsOfAKind, FramesKeepTheList
  <2>2. ASSUME NEW s \in Sessions,
               FramesLost(s) \/ OwnTurn(s) \/ CreateFails(s) \/ AskCreate(s) \/ ServeDelete(s)
        PROVE  ActiveIsListed'
    BY <2>0, <2>2 DEF FramesLost, OwnTurn, CreateFails, AskCreate, ServeDelete, page
  <2>3. CASE Send \/ \E s \in Targets : RevealEnds(s)
    BY <2>0, <2>3 DEF Send, RevealEnds
  <2>4. ASSUME NEW s \in Sessions, Switch(s) PROVE ActiveIsListed'
    BY <2>4 DEF Switch, ActiveIsListed
  <2>5. ASSUME NEW s \in Sessions, Create(s) PROVE ActiveIsListed'
    <3>1. ToSet(list') = ToSet(list) \cup {s} /\ active' = s
      BY <2>5, Appended DEF Create, ListsOK
    <3> QED  BY <3>1 DEF ActiveIsListed
  <2>6. ASSUME NEW s \in Sessions, Delete(s) PROVE ActiveIsListed'
    <3>1. list' \in Seq(Sessions) /\ ToSet(list') = ToSet(list) \ {s}
      BY <2>6, Filtered DEF Delete, ListsOK
    <3>2. list' # <<>> => list'[1] \in ToSet(list')
      BY <3>1, FirstIsListed
    <3>3. list' # <<>> => list # <<>>
      <4>1. list' # <<>> => ToSet(list) # {}
        BY <3>1, <3>2
      <4> QED  BY <4>1, NoneListed
    <3>4. /\ active' = IF active # s THEN active ELSE IF list' # <<>> THEN list'[1] ELSE None
          /\ hydrate' = hydrate
      BY <2>6 DEF Delete
    <3> QED  BY <3>1, <3>2, <3>3, <3>4 DEF ActiveIsListed
  <2>7. CASE Manifest \/ TakeSessions
    BY <2>7 DEF Manifest, TakeSessions, ActiveIsListed
  <2>8. CASE HydrateEnds
    <3>1. list # <<>> => Focus \in ToSet(list)
      BY FirstIsListed DEF Focus, ListsOK
    <3> QED  BY <2>8, <3>1 DEF HydrateEnds, ActiveIsListed
  <2>9. CASE Reload
    BY <2>9 DEF Reload, ActiveIsListed
  <2>10. CASE UNCHANGED vars
    BY <2>0, <2>10 DEF vars, page
  <2> QED
    BY <2>1, <2>2, <2>3, <2>4, <2>5, <2>6, <2>7, <2>8, <2>9, <2>10 DEF Next
<1> QED  BY <1>1, <1>2, Starts, ListsKept, PTL DEF Spec

-----------------------------------------------------------------------------
(* The phases                                                                *)

\* Besides the property: a session whose agent types is shown as typing.
Reasons ==
    \A s \in Sessions \ muddled :
        /\ turn[s] = "typing" => s \in typing
        /\ s \in working => turn[s] # "no" \/ s \in typing \/ s \in reveal

LEMMA FrameReasons ==
    ASSUME KeysOK, Reasons, NEW o \in Sessions, NEW keyed \in BOOLEAN, Frame(o, keyed)
    PROVE  Reasons'
<1>0. turn \in [Sessions -> {"no", "quiet", "typing"}]
  BY DEF KeysOK
<1>1. CASE (Progress(o, keyed) \/ Preview(o, keyed)) /\ UNCHANGED turn
  <2>1. turn[o] # "no"
    BY DEF Frame
  <2> QED  BY <1>1, <2>1 DEF Progress, Preview, Misplaced, Reasons
<1>2. CASE /\ Text(o, keyed) \/ Settles(o, keyed) \/ Card(o, keyed)
           /\ \/ UNCHANGED turn
              \/ turn[o] = "quiet" /\ turn' = [turn EXCEPT ![o] = "no"]
  <2>1. typing' = typing /\ reveal \subseteq reveal' /\ muddled \subseteq muddled'
    BY <1>2 DEF Text, Settles, Card
  <2>2. \A s \in Sessions \ muddled' :
            s \in working' => (s \in working /\ s # o) \/ s \in typing' \/ s \in reveal'
    BY <1>2 DEF Text, Settles, Card, CompletedUnlessTyping, Misplaced
  <2>3. \A s \in Sessions \ {o} : turn'[s] = turn[s]
    BY <1>0, <1>2
  <2>4. turn'[o] = "typing" => turn[o] = "typing"
    BY <1>0, <1>2
  <2> QED  BY <2>1, <2>2, <2>3, <2>4 DEF Reasons
<1>3. CASE turn[o] = "quiet" /\ TypingStart(o, keyed) /\ turn' = [turn EXCEPT ![o] = "typing"]
  BY <1>0, <1>3 DEF TypingStart, Misplaced, Reasons
<1>4. CASE turn[o] = "typing" /\ TypingStop(o, keyed) /\ turn' = [turn EXCEPT ![o] = "no"]
  BY <1>0, <1>4 DEF TypingStop, Misplaced, Reasons
<1>5. CASE Error(o) /\ turn' = [turn EXCEPT ![o] = "no"]
  BY <1>0, <1>5 DEF Error, Misplaced, Reasons
<1> QED  BY <1>1, <1>2, <1>3, <1>4, <1>5 DEF Frame

LEMMA ReasonsKept == KeysOK /\ Reasons /\ [Next]_vars => Reasons'
<1> SUFFICES ASSUME KeysOK, Reasons, [Next]_vars PROVE Reasons'
  OBVIOUS
<1>0. turn \in [Sessions -> {"no", "quiet", "typing"}]
  BY DEF KeysOK
<1>1. CASE UNCHANGED <<typing, working, reveal, turn, muddled>>
  BY <1>1 DEF Reasons
<1>2. ASSUME NEW o \in Sessions, NEW keyed \in BOOLEAN, Frame(o, keyed) PROVE Reasons'
  BY <1>2, FrameReasons
<1>3. ASSUME NEW s \in Sessions, FramesLost(s) \/ OwnTurn(s) PROVE Reasons'
  BY <1>0, <1>3 DEF FramesLost, OwnTurn, page, history, Reasons
<1>4. ASSUME NEW s \in Sessions, Switch(s) \/ CreateFails(s) \/ AskCreate(s) \/ ServeDelete(s)
      PROVE  Reasons'
  BY <1>1, <1>4 DEF Switch, CreateFails, AskCreate, ServeDelete, page, history
<1>5. ASSUME NEW s \in Targets, RevealEnds(s) PROVE Reasons'
  BY <1>5 DEF RevealEnds, CompletedUnlessTyping, history, Reasons
<1>6. CASE Send
  BY <1>0, <1>6 DEF Send, Reasons
<1>7. ASSUME NEW s \in Sessions, Create(s) \/ Delete(s) PROVE Reasons'
  <2>1. working' \subseteq working /\ UNCHANGED <<typing, reveal, turn, muddled>>
    BY <1>7 DEF Create, Delete
  <2> QED  BY <2>1 DEF Reasons
<1>8. CASE Manifest \/ TakeSessions \/ HydrateEnds
  BY <1>1, <1>8 DEF Manifest, TakeSessions, HydrateEnds, page, history
<1>9. CASE Reload
  BY <1>9 DEF Reload, Reasons
<1>10. CASE UNCHANGED vars
  BY <1>1, <1>10 DEF vars, page, history
<1> QED
  BY <1>2, <1>3, <1>4, <1>5, <1>6, <1>7, <1>8, <1>9, <1>10 DEF Next

(* A session is shown as working only while the agent works for it, types or *)
(* a reply is revealed, unless frames were lost (App.tsx:322-388, 473-483).  *)
THEOREM WorkingMeansWork == Spec => []WorkingHasAReason
<1>1. Init => Reasons
  BY DEF Init, Reasons
<1>2. Reasons => WorkingHasAReason
  BY DEF Reasons, WorkingHasAReason
<1> QED  BY <1>1, <1>2, Starts, ListsKept, KeysKept, ReasonsKept, PTL DEF Spec

-----------------------------------------------------------------------------
(* Sessions created here                                                     *)

\* What is not routed, or is shown in its own session, or in one that is not fresh, adds
\* no content that is routed.
LEMMA NotRoutedShown ==
    ASSUME NEW k, NEW s, NEW o, k # "routed" \/ s = o \/ s \notin created \ exchanged
    PROVE  \A f \in Shown(k, s, o) : f[1] # "routed"
BY DEF Shown

LEMMA PurgedIsLess == \A s : Purged(s) \subseteq foreign
BY DEF Purged

\* A fresh session neither types nor is the sticky one, and while there is one, there is
\* a sticky session that keyless frames go to instead.
Attributed ==
    \/ exposed
    \/ /\ \A f \in foreign : f[1] # "routed"
       /\ (created \ exchanged) \cap typing = {}
       /\ sticky \notin created \ exchanged
       /\ created \ exchanged # {} => sticky # None

LEMMA FrameAttributed ==
    ASSUME OthersOK, Attributed, NEW o \in Sessions, NEW keyed \in BOOLEAN, Frame(o, keyed)
    PROVE  Attributed'
<1>1. created' = created /\ exposed' = exposed
  BY FrameIsOfAKind
<1>2. CASE exposed
  BY <1>1, <1>2 DEF Attributed
<1>3. CASE ~exposed
  <2> DEFINE fresh == created \ exchanged
  <2>0. /\ \A f \in foreign : f[1] # "routed"
        /\ fresh \cap typing = {} /\ sticky \notin fresh /\ (fresh # {} => sticky # None)
    BY <1>3 DEF Attributed
  <2>1. CASE Error(o)
    <3>1. foreign' = foreign \cup Shown("error", Guess, o)
      BY <2>1 DEF Error
    <3>2. \A f \in foreign' : f[1] # "routed"
      BY <2>0, <3>1, NotRoutedShown
    <3> QED  BY <1>1, <2>0, <2>1, <3>2 DEF Error, Attributed
  <2>2. CASE Card(o, keyed)
    <3>1. \E s : foreign' = foreign \cup Shown("card", s, o)
      BY <2>2 DEF Card
    <3>2. \A f \in foreign' : f[1] # "routed"
      BY <2>0, <3>1, NotRoutedShown
    <3> QED  BY <1>1, <2>0, <2>2, <3>2 DEF Card, Attributed
  <2>3. CASE \/ Progress(o, keyed) \/ Preview(o, keyed) \/ Text(o, keyed) \/ Settles(o, keyed)
             \/ TypingStart(o, keyed) \/ TypingStop(o, keyed)
    <3>1. /\ Notes(o, keyed)
          /\ \E s \in Routed(o, keyed) : /\ typing' \subseteq typing \cup {s}
                                         /\ foreign' \subseteq foreign \cup Shown("routed", s, o)
      BY <2>3 DEF Progress, Preview, Text, Settles, TypingStart, TypingStop
    <3>2. CASE keyed
      <4>1. /\ sticky' = o /\ exchanged' = exchanged \cup {o} /\ typing' \subseteq typing \cup {o}
            /\ foreign' \subseteq foreign \cup Shown("routed", o, o)
        BY <3>1, <3>2 DEF Notes, Routed
      <4>2. o # None
        BY SessionsAssumption
      <4>3. \A f \in foreign' : f[1] # "routed"
        BY <2>0, <4>1, NotRoutedShown
      <4> QED  BY <1>1, <2>0, <4>1, <4>2, <4>3 DEF Attributed
    <3>3. CASE ~keyed
      <4>1. \A s \in Routed(o, keyed) : s \notin fresh
        BY <2>0, <3>3 DEF Routed
      <4>2. sticky' = sticky /\ exchanged' = exchanged
        BY <3>1, <3>3 DEF Notes
      <4>3. \A f \in foreign' : f[1] # "routed"
        BY <2>0, <3>1, <4>1, NotRoutedShown
      <4> QED  BY <1>1, <2>0, <3>1, <4>1, <4>2, <4>3 DEF Attributed
    <3> QED  BY <3>2, <3>3
  <2> QED  BY <2>1, <2>2, <2>3, FrameIsOfAKind DEF FrameKinds
<1> QED  BY <1>2, <1>3

LEMMA AttributedKept == ListsOK /\ OthersOK /\ Attributed /\ [Next]_vars => Attributed'
<1> SUFFICES ASSUME ListsOK, OthersOK, Attributed, [Next]_vars PROVE Attributed'
  OBVIOUS
<1>1. CASE UNCHANGED <<sticky, typing, exchanged, foreign, created, exposed>>
  BY <1>1 DEF Attributed
<1>2. ASSUME NEW o \in Sessions, NEW keyed \in BOOLEAN, Frame(o, keyed) PROVE Attributed'
  BY <1>2, FrameAttributed
<1>3. ASSUME NEW s \in Sessions,
             \/ FramesLost(s) \/ OwnTurn(s) \/ Switch(s) \/ CreateFails(s) \/ AskCreate(s)
             \/ ServeDelete(s)
      PROVE  Attributed'
  BY <1>1, <1>3 DEF FramesLost, OwnTurn, Switch, CreateFails, AskCreate, ServeDelete, page, history
<1>4. ASSUME NEW s \in Targets, RevealEnds(s) PROVE Attributed'
  BY <1>1, <1>4 DEF RevealEnds, history
<1>5. CASE Send
  <2>1. /\ sticky' = active /\ exchanged' = exchanged \cup {active}
        /\ UNCHANGED <<typing, foreign, created, exposed>>
    BY <1>5 DEF Send
  <2>2. active # None
    BY <1>5, SessionsAssumption, ListedAreElements DEF Send, ListsOK
  <2> QED  BY <2>1, <2>2 DEF Attributed
<1>6. ASSUME NEW s \in Sessions, Create(s) PROVE Attributed'
  <2>1. CASE exposed'
    BY <2>1 DEF Attributed
  <2>2. CASE ~exposed'
    <3>1. ~exposed /\ s \notin typing /\ sticky # s /\ (sticky = None => active \notin {None, s})
      BY <1>6, <2>2 DEF Create, OthersOK
    <3>2. /\ sticky' = IF sticky = None /\ active # s THEN active ELSE sticky
          /\ foreign' \subseteq foreign /\ created' = created \cup {s}
          /\ UNCHANGED <<typing, exchanged>>
      BY <1>6, PurgedIsLess DEF Create
    <3> QED  BY <3>1, <3>2 DEF Attributed
  <2> QED  BY <2>1, <2>2
<1>7. ASSUME NEW s \in Sessions, Delete(s) PROVE Attributed'
  <2>1. /\ sticky' = (IF sticky = s THEN None ELSE sticky) /\ exposed' = (exposed \/ sticky = s)
        /\ foreign' \subseteq foreign /\ UNCHANGED <<typing, exchanged, created>>
    BY <1>7, PurgedIsLess DEF Delete
  <2> QED  BY <2>1 DEF Attributed
<1>8. CASE Manifest \/ TakeSessions \/ HydrateEnds
  BY <1>1, <1>8 DEF Manifest, TakeSessions, HydrateEnds, page, history
<1>9. CASE Reload
  BY <1>9 DEF Reload, Attributed
<1>10. CASE UNCHANGED vars
  BY <1>1, <1>10 DEF vars, page, history
<1> QED
  BY <1>2, <1>3, <1>4, <1>5, <1>6, <1>7, <1>8, <1>9, <1>10 DEF Next

(* No routed frame shows anything of another conversation in a session the   *)
(* user has just created, for any sessions and any number of turns, unless   *)
(* one of the exceptions the property names has happened                     *)
(* (sessionActions.ts:78-87, App.tsx:206-244).                               *)
THEOREM RoutedFramesStay == Spec => []RoutedFramesStayHome
<1>1. Init => Attributed
  BY DEF Init, Attributed
<1>2. Attributed => RoutedFramesStayHome
  BY DEF Attributed, RoutedFramesStayHome
<1> QED  BY <1>1, <1>2, Starts, ListsKept, KeysKept, OthersKept, AttributedKept, PTL DEF Spec
=============================================================================
