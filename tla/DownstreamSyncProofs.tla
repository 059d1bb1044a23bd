------------------------ MODULE DownstreamSyncProofs ------------------------
(***************************************************************************)
(* Theorems about DownstreamSync, for every set of chats, every page size, *)
(* every number of replies and backfills and every combination of faults.  *)
(***************************************************************************)
EXTENDS DownstreamSync, FiniteSetTheorems, WellFoundedInduction, TLAPS

-----------------------------------------------------------------------------
(* The largest number of a finite set, and the smallest of any set.         *)

LEMMA MaxExists ==
  ASSUME NEW S \in SUBSET Nat, IsFiniteSet(S), S # {}
  PROVE  /\ Max(S) \in S
         /\ \A x \in S : x <= Max(S)
  <1> DEFINE F == {{y \in S : y >= x} : x \in S}
  <1>1. IsWellFoundedOn(StrictSubsetOrdering(S), FiniteSubsetsOf(S))
    BY FS_StrictSubsetOrderingWellFounded
  <1>2. F \subseteq FiniteSubsetsOf(S)
    BY FS_Subset DEF FiniteSubsetsOf
  <1>3. F # {}
    OBVIOUS
  <1>4. PICK u \in F : \A v \in F : <<v, u>> \notin StrictSubsetOrdering(S)
    <2> HIDE DEF F
    <2> QED BY <1>1, <1>2, <1>3, WFMin
  <1>5. PICK x \in S : u = {y \in S : y >= x}
    BY <1>4
  <1>6. ASSUME NEW y \in S, y > x PROVE FALSE
    <2> DEFINE v == {z \in S : z >= y}
    <2>1. v \in F
      OBVIOUS
    <2>2. x \in Nat /\ y \in Nat
      BY <1>5, <1>6
    <2>3. v \subseteq u /\ x \in u /\ x \notin v
      <3>1. \A z \in v : z \in Nat /\ z >= x
        BY <1>6, <2>2
      <3>2. v \subseteq u
        BY <1>5, <3>1
      <3>3. x \in u
        BY <1>5, <2>2
      <3>4. x \notin v
        BY <1>6, <2>2
      <3> QED BY <3>2, <3>3, <3>4
    <2>4. <<v, u>> \in StrictSubsetOrdering(S)
      BY <1>5, <2>3 DEF StrictSubsetOrdering
    <2> QED BY <1>4, <2>1, <2>4
  <1>7. x \in S /\ \A y \in S : x >= y
    BY <1>5, <1>6
  <1>8. Max(S) \in S /\ \A y \in S : Max(S) >= y
    BY <1>7 DEF Max
  <1> QED BY <1>8

\* The watermark after a merge.
LEMMA MaxOfRows ==
  ASSUME NEW a \in Nat, NEW rs \in SUBSET Row, IsFiniteSet(rs)
  PROVE  /\ Max({a} \cup SeqsOf(rs)) \in Nat
         /\ a <= Max({a} \cup SeqsOf(rs))
         /\ \A r \in rs : r.seq <= Max({a} \cup SeqsOf(rs))
         /\ \/ Max({a} \cup SeqsOf(rs)) = a
            \/ \E r \in rs : Max({a} \cup SeqsOf(rs)) = r.seq
  <1> DEFINE f == [r \in rs |-> r.seq]
             S == {a} \cup SeqsOf(rs)
  <1>1. f \in Surjection(rs, SeqsOf(rs))
    BY DEF Surjection, SeqsOf
  <1>2. IsFiniteSet(SeqsOf(rs))
    BY <1>1, FS_Surjection
  <1>3. IsFiniteSet(S)
    BY <1>2, FS_Singleton, FS_Union
  <1>4. S \in SUBSET Nat /\ S # {} /\ a \in S /\ \A r \in rs : r.seq \in S
    BY DEF SeqsOf, Row
  <1>5. Max(S) \in S /\ \A x \in S : x <= Max(S)
    <2> HIDE DEF S
    <2> QED BY <1>3, <1>4, MaxExists
  <1> HIDE DEF S
  <1>6. Max(S) \in Nat /\ a <= Max(S) /\ \A r \in rs : r.seq <= Max(S)
    BY <1>4, <1>5
  <1>7. Max(S) = a \/ \E r \in rs : Max(S) = r.seq
    BY <1>5 DEF S, SeqsOf
  <1> QED BY <1>6, <1>7 DEF S

\* The watermark after an append: of one row, and of two.
LEMMA MaxOfOne ==
  ASSUME NEW a \in Nat, NEW b \in Nat
  PROVE  /\ Max({a, b}) \in Nat /\ a <= Max({a, b}) /\ b <= Max({a, b})
         /\ Max({a, b}) \in {a, b}
  <1>1. IsFiniteSet({a, b})
    <2>1. IsFiniteSet({a}) /\ IsFiniteSet({b})
      BY FS_Singleton
    <2>2. IsFiniteSet({a} \cup {b})
      BY <2>1, FS_Union
    <2>3. {a, b} = {a} \cup {b}
      OBVIOUS
    <2> QED BY <2>2, <2>3
  <1>2. Max({a, b}) \in {a, b} /\ \A x \in {a, b} : x <= Max({a, b})
    BY <1>1, MaxExists
  <1> QED BY <1>2

LEMMA MaxOfTwo ==
  ASSUME NEW a \in Nat, NEW b \in Nat, NEW c \in Nat
  PROVE  /\ Max({a, b, c}) \in Nat
         /\ a <= Max({a, b, c}) /\ b <= Max({a, b, c}) /\ c <= Max({a, b, c})
         /\ Max({a, b, c}) \in {a, b, c}
  <1>1. IsFiniteSet({a, b, c})
    <2>1. IsFiniteSet({a}) /\ IsFiniteSet({b}) /\ IsFiniteSet({c})
      BY FS_Singleton
    <2>2. IsFiniteSet({a} \cup {b})
      BY <2>1, FS_Union
    <2>3. IsFiniteSet(({a} \cup {b}) \cup {c})
      BY <2>1, <2>2, FS_Union
    <2>4. {a, b, c} = ({a} \cup {b}) \cup {c}
      OBVIOUS
    <2> QED BY <2>3, <2>4
  <1>2. Max({a, b, c}) \in {a, b, c} /\ \A x \in {a, b, c} : x <= Max({a, b, c})
    BY <1>1, MaxExists
  <1> QED BY <1>2

LEMMA LeastExists ==
  ASSUME NEW S \in SUBSET Nat, NEW n \in S
  PROVE  \E x \in S : \A y \in S : x <= y
  <1>1. PICK x \in S : \A y \in S : <<y, x>> \notin OpToRel(<, Nat)
    BY NatLessThanWellFounded, WFMin
  <1>2. \A y \in S : ~ (y < x)
    BY <1>1 DEF OpToRel
  <1> QED BY <1>2

-----------------------------------------------------------------------------
(* Paging.                                                                  *)

\* An empty page means that no row is left, and so does a last page for every
\* row that is not in it; of the rows before the last one of a page, it has all.
LEMMA PageFacts ==
  ASSUME NEW c, NEW after \in Nat, rows \in SUBSET Row, IsFiniteSet(rows)
  PROVE  /\ PageAfter(c, after) \subseteq RowsOf(c)
         /\ IsFiniteSet(PageAfter(c, after))
         /\ \A r \in RowsOf(c) : r.seq > after =>
              /\ (\E p \in PageAfter(c, after) : r.seq <= p.seq) => r \in PageAfter(c, after)
              /\ PageAfter(c, after) = {} \/ ~ HasMore(c, after) => r \in PageAfter(c, after)
  <1> DEFINE rest == {r \in RowsOf(c) : r.seq > after}
             before(r) == {s \in RowsOf(c) : s.seq > after /\ s.seq < r.seq}
  <1>1. rest \subseteq rows /\ RowsOf(c) \subseteq rows /\ IsFiniteSet(RowsOf(c)) /\ IsFiniteSet(rest)
    BY FS_Subset DEF RowsOf
  <1>2. ASSUME NEW r PROVE IsFiniteSet(before(r)) /\ Cardinality(before(r)) \in Nat
    <2>1. before(r) \in SUBSET RowsOf(c)
      OBVIOUS
    <2> QED BY <1>1, <2>1, FS_Subset, FS_CardinalityType
  <1>3. \A r : r \in PageAfter(c, after) <=>
                  r \in RowsOf(c) /\ r.seq > after /\ Cardinality(before(r)) < PageSize
    BY DEF PageAfter
  <1>4. PageAfter(c, after) \subseteq RowsOf(c)
    BY <1>3
  <1>5. IsFiniteSet(PageAfter(c, after))
    BY <1>1, <1>4, FS_Subset
  <1>6. PageSize \in Nat \ {0}
    BY PageAssumption
  <1>7. \A r \in RowsOf(c) : r.seq \in Nat
    BY <1>1 DEF Row
  <1>8. ASSUME NEW r \in RowsOf(c), r.seq > after, NEW p \in PageAfter(c, after), r.seq <= p.seq
        PROVE  r \in PageAfter(c, after)
    <2>1. before(r) \in SUBSET before(p)
      <3>1. p.seq \in Nat
        BY <1>3, <1>7
      <3>2. \A s \in before(r) : s \in before(p)
        BY <1>7, <1>8, <3>1
      <3> QED BY <3>2
    <2>2. Cardinality(before(r)) <= Cardinality(before(p))
      <3> HIDE DEF before
      <3> QED BY <1>2, <2>1, FS_Subset
    <2>3. Cardinality(before(p)) < PageSize
      BY <1>3
    <2> HIDE DEF before
    <2> QED BY <1>2, <1>3, <1>6, <1>8, <2>2, <2>3
  <1>9. ASSUME NEW r \in RowsOf(c), r.seq > after, PageAfter(c, after) = {}
        PROVE  FALSE
    <2> DEFINE S == {s.seq : s \in rest}
    <2>1. S \in SUBSET Nat /\ r.seq \in S
      BY <1>7, <1>9
    <2>2. PICK x \in S : \A y \in S : x <= y
      <3> HIDE DEF S
      <3> QED BY <2>1, LeastExists
    <2>3. PICK s \in rest : s.seq = x
      BY <2>2
    <2>4. before(s) = {}
      <3>1. \A z \in before(s) : z.seq \in S /\ z.seq \in Nat /\ z.seq < x
        BY <1>7, <2>3
      <3>2. x \in Nat
        BY <2>1, <2>2
      <3>3. \A z : z \notin before(s)
        <4> HIDE DEF before, S
        <4> QED BY <2>2, <3>1, <3>2
      <3> QED BY <3>3
    <2>5. Cardinality(before(s)) = 0
      BY <2>4, FS_EmptySet
    <2> QED BY <1>3, <1>6, <1>9, <2>3, <2>5
  <1>10. ASSUME NEW r \in RowsOf(c), r.seq > after, ~ HasMore(c, after)
         PROVE  r \in PageAfter(c, after)
    <2>1. Cardinality(rest) \in Nat /\ Cardinality(rest) <= PageSize
      <3>1. Cardinality(rest) \in Nat
        BY <1>1, FS_CardinalityType
      <3>2. ~ (Cardinality(rest) > PageSize)
        BY <1>10 DEF HasMore
      <3> HIDE DEF rest
      <3> QED BY <1>6, <3>1, <3>2
    <2>2. before(r) \in SUBSET rest /\ r \in rest /\ r \notin before(r)
      BY <1>7, <1>10
    <2>3. Cardinality(before(r)) < Cardinality(rest)
      <3> HIDE DEF before, rest
      <3> QED BY <1>1, <1>2, <2>1, <2>2, FS_Subset
    <2> HIDE DEF before, rest
    <2> QED BY <1>2, <1>3, <1>6, <1>10, <2>1, <2>3
  <1> HIDE DEF rest, before
  <1> QED BY <1>4, <1>5, <1>8, <1>9, <1>10

-----------------------------------------------------------------------------
(* Type correctness, with the shape of every record.                        *)

FetchRec == [state : {"none", "asked", "served"}, rows : SUBSET Row]
RunRec == [state : {"idle", "asked", "served"}, todo : SUBSET Chats, chat : Chats \cup {"none"},
           after : Nat, page : SUBSET Row, more : BOOLEAN, fresh : BOOLEAN]

ServerShape ==
    /\ rows \in SUBSET Row /\ IsFiniteSet(rows)
    /\ nextSeq \in Nat \ {0}
    /\ replies \in 0 .. MaxReplies
LinkShape ==
    /\ socket \in {"open", "down"}
    /\ opened \in BOOLEAN
PushShape == push \in Seq(Row)
PageShape ==
    /\ copies \in [Chats -> [Ids -> Nat]]
    /\ mark \in [Chats -> Nat]
    /\ loaded \in SUBSET Chats
    /\ reveal \in [Chats -> Row \cup {NoRow}]
FetchShape ==
    /\ history \in [Chats -> FetchRec]
    /\ \A c \in Chats : IsFiniteSet(history[c].rows)
RunShape ==
    /\ run \in [Runs -> RunRec]
    /\ \A i \in Runs : /\ IsFiniteSet(run[i].page)
                       /\ run[i].state # "idle" => run[i].chat \in Chats
RestShape ==
    /\ request \in [Chats -> {"none", "clear", "delete"}]
    /\ owed \in SUBSET Chats /\ gaveUp \in SUBSET Chats /\ disturbed \in SUBSET Chats
    /\ faults \in 0 .. MaxFaults
Shape ==
    /\ ServerShape /\ LinkShape /\ PushShape /\ PageShape /\ FetchShape /\ RunShape /\ RestShape

LEMMA RowFacts ==
  /\ NoRow \notin Row
  /\ \A r \in Row : r.id \in Ids /\ r.chat \in Chats /\ r.seq \in Nat /\ r.id # 0
  /\ \A r \in Row \cup {NoRow} : r.seq \in Nat
  BY DEF Row, NoRow, Ids

LEMMA FirstPush ==
  ASSUME PushShape, push # <<>>
  PROVE  /\ Head(push) = push[1] /\ push[1] \in Row /\ 1 \in 1..Len(push)
         /\ Tail(push) \in Seq(Row) /\ Len(Tail(push)) = Len(push) - 1
         /\ \A k \in 1..Len(Tail(push)) : Tail(push)[k] = push[k + 1] /\ k + 1 \in 1..Len(push)
  BY DEF PushShape

\* What the page does to the list and the watermark of a chat: rows are
\* appended ...
AddsRows(c, rs) ==
    /\ \A d \in Chats : d # c => copies'[d] = copies[d] /\ mark'[d] = mark[d]
    /\ \A i \in Ids : copies'[c][i] = copies[c][i] + (IF i \in {r.id : r \in rs} THEN 1 ELSE 0)
    /\ mark[c] <= mark'[c] /\ \A r \in rs : r.seq <= mark'[c]
    /\ mark'[c] = mark[c] \/ \E r \in rs : mark'[c] = r.seq
    /\ disturbed \subseteq disturbed' /\ disturbed' \subseteq disturbed \cup {c}
    /\ rs # {} /\ c \notin disturbed' => c \notin owed /\ request[c] = "none"

\* ... or merged.
MergesRows(c, rs) ==
    /\ \A d \in Chats : d # c => copies'[d] = copies[d] /\ mark'[d] = mark[d]
    /\ \A i \in Ids : copies'[c][i] = IF copies[c][i] > 0 \/ i \in {r.id : r \in rs} THEN 1 ELSE 0
    /\ mark[c] <= mark'[c] /\ \A r \in rs : r.seq <= mark'[c]
    /\ mark'[c] = mark[c] \/ \E r \in rs : mark'[c] = r.seq

LEMMA AddDoes ==
  ASSUME PageShape, disturbed \in SUBSET Chats, NEW c \in Chats, NEW r \in Row, AddMessage(c, r)
  PROVE  /\ AddsRows(c, {r})
         /\ copies' \in [Chats -> [Ids -> Nat]] /\ mark' \in [Chats -> Nat]
         /\ disturbed' \in SUBSET Chats
  <1>1. r.id \in Ids /\ r.seq \in Nat /\ mark[c] \in Nat /\ copies[c] \in [Ids -> Nat]
        /\ \A i \in Ids : copies[c][i] \in Nat
    BY RowFacts DEF PageShape
  <1> DEFINE m == Max({mark[c], r.seq})
  <1>2. m \in Nat /\ mark[c] <= m /\ r.seq <= m /\ m \in {mark[c], r.seq}
    BY <1>1, MaxOfOne
  <1>3. mark' = [mark EXCEPT ![c] = m] /\ copies' = [copies EXCEPT ![c][r.id] = @ + 1]
        /\ disturbed' = IF Disturbs(c) THEN disturbed \cup {c} ELSE disturbed
    BY DEF AddMessage
  <1> HIDE DEF m
  <1>4. mark' \in [Chats -> Nat] /\ mark'[c] = m /\ \A d \in Chats : d # c => mark'[d] = mark[d]
    BY <1>2, <1>3 DEF PageShape
  <1>5. /\ copies' \in [Chats -> [Ids -> Nat]]
        /\ \A d \in Chats : d # c => copies'[d] = copies[d]
        /\ \A i \in Ids : copies'[c][i] = copies[c][i] + (IF i \in {x.id : x \in {r}} THEN 1 ELSE 0)
    BY <1>1, <1>3 DEF PageShape
  <1>6. /\ disturbed' \in SUBSET Chats /\ disturbed \subseteq disturbed'
        /\ disturbed' \subseteq disturbed \cup {c}
        /\ c \notin disturbed' => c \notin owed /\ request[c] = "none"
    BY <1>3 DEF Disturbs
  <1>7. mark[c] <= mark'[c] /\ r.seq <= mark'[c] /\ (mark'[c] = mark[c] \/ mark'[c] = r.seq)
    BY <1>2, <1>4
  <1> QED BY <1>4, <1>5, <1>6, <1>7 DEF AddsRows

LEMMA MergeDoes ==
  ASSUME PageShape, NEW c \in Chats, NEW rs \in SUBSET Row, IsFiniteSet(rs), MergeMessages(c, rs)
  PROVE  /\ MergesRows(c, rs)
         /\ copies' \in [Chats -> [Ids -> Nat]] /\ mark' \in [Chats -> Nat]
  <1>1. mark[c] \in Nat /\ copies[c] \in [Ids -> Nat] /\ \A i \in Ids : copies[c][i] \in Nat
    BY DEF PageShape
  <1> DEFINE m == Max({mark[c]} \cup SeqsOf(rs))
  <1>2. m \in Nat /\ mark[c] <= m /\ (\A r \in rs : r.seq <= m)
        /\ (m = mark[c] \/ \E r \in rs : m = r.seq)
    BY <1>1, MaxOfRows
  <1>3. mark' = [mark EXCEPT ![c] = m]
        /\ copies' = [copies EXCEPT ![c] =
                    [i \in Ids |-> IF copies[c][i] > 0 \/ i \in {r.id : r \in rs} THEN 1 ELSE 0]]
    BY DEF MergeMessages, PageShape
  <1> HIDE DEF m
  <1>4. mark' \in [Chats -> Nat] /\ mark'[c] = m /\ \A d \in Chats : d # c => mark'[d] = mark[d]
    BY <1>2, <1>3 DEF PageShape
  <1>5. /\ copies' \in [Chats -> [Ids -> Nat]]
        /\ \A d \in Chats : d # c => copies'[d] = copies[d]
        /\ \A i \in Ids : copies'[c][i] = IF copies[c][i] > 0 \/ i \in {r.id : r \in rs} THEN 1 ELSE 0
    BY <1>1, <1>3 DEF PageShape
  <1> QED BY <1>2, <1>4, <1>5 DEF MergesRows

\* A push is handled, or the reveal of a row ends: of the row that was being
\* revealed and the one that is pushed, one may go on being revealed and the
\* other or both are appended.
Shows(c, rs, v) ==
    /\ AddsRows(c, rs)
    /\ reveal' = [reveal EXCEPT ![c] = v]

LEMMA RevealDoes ==
  ASSUME PageShape, RestShape, NEW c \in Chats, RevealEnds(c)
  PROVE  /\ reveal[c] \in Row /\ Shows(c, {reveal[c]}, NoRow)
         /\ PageShape' /\ disturbed' \in SUBSET Chats
  <1>1. reveal[c] \in Row /\ AddMessage(c, reveal[c]) /\ reveal' = [reveal EXCEPT ![c] = NoRow]
        /\ loaded' = loaded
    BY DEF RevealEnds, PageShape
  <1>2. reveal' \in [Chats -> Row \cup {NoRow}]
    BY <1>1 DEF PageShape
  <1> QED BY <1>1, <1>2, AddDoes DEF Shows, PageShape, RestShape

LEMMA DeliverDoes ==
  ASSUME PageShape, RestShape, PushShape, NEW mode, Deliver(mode),
         push[1].id # reveal[push[1].chat].id
  PROVE  /\ push # <<>>
         /\ \E v \in {NoRow, push[1], reveal[push[1].chat]} :
              Shows(push[1].chat, {push[1], reveal[push[1].chat]} \ {NoRow, v}, v)
  <1> DEFINE r == push[1]
             c == r.chat
             q == reveal[c]
  <1>1. push # <<>> /\ r = Head(push) /\ r \in Row /\ c \in Chats /\ r # NoRow
    BY FirstPush, RowFacts DEF Deliver
  <1>2. q \in Row \cup {NoRow} /\ r.id # q.id /\ r # q /\ disturbed \in SUBSET Chats
    BY <1>1 DEF PageShape, RestShape
  <1>3. r.id \in Ids /\ r.seq \in Nat /\ q.seq \in Nat /\ mark[c] \in Nat
        /\ copies[c] \in [Ids -> Nat] /\ \A i \in Ids : copies[c][i] \in Nat
    BY SMTT(30), <1>1, <1>2, RowFacts DEF PageShape
  <1>q. \/ /\ reveal' = [reveal EXCEPT ![c] = r]
           /\ IF q = NoRow THEN UNCHANGED <<copies, mark, disturbed>> ELSE AddMessage(c, q)
        \/ /\ reveal' = [reveal EXCEPT ![c] = NoRow]
           /\ IF q = NoRow
              THEN AddMessage(c, r)
              ELSE /\ copies' = [copies EXCEPT ![c][q.id] = @ + 1, ![c][r.id] = @ + 1]
                   /\ mark' = [mark EXCEPT ![c] = Max({@, q.seq, r.seq})]
                   /\ disturbed' = IF Disturbs(c) THEN disturbed \cup {c} ELSE disturbed
        \/ /\ AddMessage(c, r)
           /\ reveal' = reveal
    BY <1>1 DEF Deliver
  <1> HIDE DEF r, c, q
  <1>4. CASE reveal' = [reveal EXCEPT ![c] = r] /\ q = NoRow /\ UNCHANGED <<copies, mark, disturbed>>
    <2>1. AddsRows(c, {})
      BY <1>3, <1>4 DEF AddsRows
    <2>2. {r, q} \ {NoRow, r} = {}
      BY <1>4
    <2>3. Shows(c, {r, q} \ {NoRow, r}, r)
      BY <1>4, <2>1, <2>2 DEF Shows
    <2> QED BY <1>1, <2>3 DEF r, c, q
  <1>5. CASE reveal' = [reveal EXCEPT ![c] = r] /\ q # NoRow /\ AddMessage(c, q)
    <2>1. AddsRows(c, {q})
      BY <1>1, <1>2, <1>5, AddDoes
    <2>2. {r, q} \ {NoRow, r} = {q}
      BY <1>2, <1>5
    <2>3. Shows(c, {r, q} \ {NoRow, r}, r)
      BY <1>5, <2>1, <2>2 DEF Shows
    <2> QED BY <1>1, <2>3 DEF r, c, q
  <1>6. CASE reveal' = [reveal EXCEPT ![c] = NoRow] /\ q = NoRow /\ AddMessage(c, r)
    <2>1. AddsRows(c, {r})
      BY <1>1, <1>2, <1>6, AddDoes
    <2>2. {r, q} \ {NoRow, NoRow} = {r}
      BY <1>1, <1>6
    <2>3. Shows(c, {r, q} \ {NoRow, NoRow}, NoRow)
      BY <1>6, <2>1, <2>2 DEF Shows
    <2> QED BY <1>1, <2>3 DEF r, c, q
  <1>7. CASE /\ reveal' = [reveal EXCEPT ![c] = NoRow]
             /\ q # NoRow
             /\ copies' = [copies EXCEPT ![c][q.id] = @ + 1, ![c][r.id] = @ + 1]
             /\ mark' = [mark EXCEPT ![c] = Max({@, q.seq, r.seq})]
             /\ disturbed' = IF Disturbs(c) THEN disturbed \cup {c} ELSE disturbed
    <2> DEFINE m == Max({mark[c], q.seq, r.seq})
    <2>1. m \in Nat /\ mark[c] <= m /\ q.seq <= m /\ r.seq <= m /\ m \in {mark[c], q.seq, r.seq}
      BY <1>3, MaxOfTwo
    <2>2. mark' = [mark EXCEPT ![c] = m]
      BY <1>7
    <2> HIDE DEF m
    <2>3. mark'[c] = m /\ \A d \in Chats : d # c => mark'[d] = mark[d]
      BY <1>1, <2>2 DEF PageShape
    <2>4. q.id \in Ids
      BY <1>2, <1>7, RowFacts
    <2>5. /\ \A d \in Chats : d # c => copies'[d] = copies[d]
          /\ \A i \in Ids : copies'[c][i] = IF i = q.id THEN copies[c][i] + 1
                                            ELSE IF i = r.id THEN copies[c][i] + 1 ELSE copies[c][i]
      BY <1>1, <1>2, <1>3, <1>7, <2>4 DEF PageShape
    <2>6. \A i \in Ids : copies'[c][i]
                          = copies[c][i] + (IF i \in {x.id : x \in {r, q}} THEN 1 ELSE 0)
      BY <1>3, <2>5
    <2>7. /\ disturbed \subseteq disturbed' /\ disturbed' \subseteq disturbed \cup {c}
          /\ c \notin disturbed' => c \notin owed /\ request[c] = "none"
      BY <1>7 DEF Disturbs
    <2>8. AddsRows(c, {r, q})
      BY <2>1, <2>3, <2>5, <2>6, <2>7 DEF AddsRows
    <2>9. {r, q} \ {NoRow, NoRow} = {r, q}
      BY <1>1, <1>7
    <2>10. Shows(c, {r, q} \ {NoRow, NoRow}, NoRow)
      BY <1>7, <2>8, <2>9 DEF Shows
    <2> QED BY <1>1, <2>10 DEF r, c, q
  <1>8. CASE AddMessage(c, r) /\ reveal' = reveal
    <2>1. AddsRows(c, {r})
      BY <1>1, <1>2, <1>8, AddDoes
    <2>2. {r, q} \ {NoRow, q} = {r}
      BY <1>1, <1>2
    <2>3. reveal' = [reveal EXCEPT ![c] = q]
      BY <1>1, <1>8 DEF q, PageShape
    <2>4. Shows(c, {r, q} \ {NoRow, q}, q)
      BY <2>1, <2>2, <2>3 DEF Shows
    <2> QED BY <1>1, <2>4 DEF r, c, q
  <1> QED BY <1>q, <1>4, <1>5, <1>6, <1>7, <1>8

-----------------------------------------------------------------------------
(* Which steps change what.                                                 *)

LEMMA ServerChanges ==
  ASSUME [Next]_vars
  PROVE  \/ UNCHANGED <<rows, nextSeq, replies>>
         \/ Crash
         \/ \E c \in Chats : Reply(c) \/ DeleteRows(c) \/ AskClear(c)
  <1>1. ServerNext => \/ UNCHANGED <<rows, nextSeq, replies>>
                      \/ Crash
                      \/ \E c \in Chats : Reply(c) \/ DeleteRows(c)
    BY ZenonT(60) DEF ServerNext, ServeHistory, DeleteFails, ServePage, serverVars
  <1>2. PageNext => \/ UNCHANGED <<rows, nextSeq, replies>>
                    \/ \E c \in Chats : AskClear(c)
    BY DEF PageNext, Drop, Open, Deliver, PageArrives, PageFails, RevealEnds, AskHistory,
           HistoryArrives, HistoryFails, ClearMessages, PurgeChat, serverVars
  <1> QED BY <1>1, <1>2 DEF Next, vars, serverVars

LEMMA LinkChanges ==
  ASSUME [Next]_vars
  PROVE  \/ UNCHANGED <<socket, push, opened>>
         \/ Crash \/ Drop \/ Open
         \/ \E c \in Chats : Reply(c)
         \/ \E mode \in {"reveal", "flush", "direct"} : Deliver(mode)
  <1>1. ServerNext => \/ UNCHANGED <<socket, push, opened>>
                      \/ Crash
                      \/ \E c \in Chats : Reply(c)
    BY DEF ServerNext, ServeHistory, DeleteFails, DeleteRows, ServePage, linkVars
  <1>2. PageNext => \/ UNCHANGED <<socket, push, opened>>
                    \/ Drop \/ Open
                    \/ \E mode \in {"reveal", "flush", "direct"} : Deliver(mode)
    BY DEF PageNext, PageArrives, PageFails, RevealEnds, AskHistory, AskClear,
           HistoryArrives, HistoryFails, ClearMessages, PurgeChat, linkVars
  <1> QED BY <1>1, <1>2 DEF Next, vars, linkVars

LEMMA PageChanges ==
  ASSUME [Next]_vars
  PROVE  \/ UNCHANGED <<copies, mark, loaded, reveal>>
         \/ \E mode \in {"reveal", "flush", "direct"} : Deliver(mode)
         \/ \E c \in Chats : \/ RevealEnds(c) \/ HistoryArrives(c) \/ HistoryFails(c)
                             \/ ClearMessages(c) \/ PurgeChat(c)
         \/ \E i \in Runs : PageArrives(i)
  <1>1. ServerNext => UNCHANGED <<copies, mark, loaded, reveal>>
    BY DEF ServerNext, Crash, Reply, ServeHistory, DeleteFails, DeleteRows, ServePage, pageVars
  <1>2. PageNext => \/ UNCHANGED <<copies, mark, loaded, reveal>>
                    \/ \E mode \in {"reveal", "flush", "direct"} : Deliver(mode)
                    \/ \E c \in Chats : \/ RevealEnds(c) \/ HistoryArrives(c) \/ HistoryFails(c)
                                        \/ ClearMessages(c) \/ PurgeChat(c)
                    \/ \E i \in Runs : PageArrives(i)
    BY DEF PageNext, Drop, Open, PageFails, AskHistory, AskClear, pageVars
  <1> QED BY <1>1, <1>2 DEF Next, vars, pageVars

LEMMA FetchChanges ==
  ASSUME [Next]_vars
  PROVE  \/ UNCHANGED history
         \/ \E c \in Chats : \/ ServeHistory(c) \/ AskHistory(c)
                             \/ HistoryArrives(c) \/ HistoryFails(c)
  <1>1. ServerNext => UNCHANGED history \/ \E c \in Chats : ServeHistory(c)
    BY ZenonT(60) DEF ServerNext, Crash, Reply, DeleteFails, DeleteRows, ServePage
  <1>2. PageNext => \/ UNCHANGED history
                    \/ \E c \in Chats : AskHistory(c) \/ HistoryArrives(c) \/ HistoryFails(c)
    BY DEF PageNext, Drop, Open, Deliver, PageArrives, PageFails, RevealEnds, AskClear,
           ClearMessages, PurgeChat
  <1> QED BY <1>1, <1>2 DEF Next, vars

LEMMA RunChanges ==
  ASSUME [Next]_vars
  PROVE  \/ UNCHANGED run
         \/ Crash \/ Drop \/ Open
         \/ \E i \in Runs : ServePage(i) \/ PageArrives(i) \/ PageFails(i)
  <1>1. ServerNext => UNCHANGED run \/ Crash \/ \E i \in Runs : ServePage(i)
    BY DEF ServerNext, Reply, ServeHistory, DeleteFails, DeleteRows
  <1>2. PageNext => \/ UNCHANGED run
                    \/ Drop \/ Open
                    \/ \E i \in Runs : PageArrives(i) \/ PageFails(i)
    BY DEF PageNext, Deliver, RevealEnds, AskHistory, HistoryArrives, HistoryFails, AskClear,
           ClearMessages, PurgeChat
  <1> QED BY <1>1, <1>2 DEF Next, vars

LEMMA RestChanges ==
  ASSUME [Next]_vars
  PROVE  \/ UNCHANGED <<request, owed, disturbed>>
         \/ Crash \/ Drop
         \/ \E mode \in {"reveal", "flush", "direct"} : Deliver(mode)
         \/ \E c \in Chats : \/ DeleteRows(c) \/ DeleteFails(c) \/ RevealEnds(c)
                             \/ HistoryArrives(c) \/ HistoryFails(c)
                             \/ AskClear(c) \/ ClearMessages(c) \/ PurgeChat(c)
         \/ \E i \in Runs : PageArrives(i)
  <1>1. ServerNext => \/ UNCHANGED <<request, owed, disturbed>>
                      \/ Crash
                      \/ \E c \in Chats : DeleteRows(c) \/ DeleteFails(c)
    BY DEF ServerNext, Reply, ServeHistory, ServePage, gapVars
  <1>2. PageNext => \/ UNCHANGED <<request, owed, disturbed>>
                    \/ Drop
                    \/ \E mode \in {"reveal", "flush", "direct"} : Deliver(mode)
                    \/ \E c \in Chats : \/ RevealEnds(c) \/ HistoryArrives(c) \/ HistoryFails(c)
                                        \/ AskClear(c) \/ ClearMessages(c) \/ PurgeChat(c)
                    \/ \E i \in Runs : PageArrives(i)
    BY DEF PageNext, Open, PageFails, AskHistory, gapVars
  <1> QED BY <1>1, <1>2 DEF Next, vars, gapVars

-----------------------------------------------------------------------------
(* Every step keeps the types.                                              *)

LEMMA ServerShapeStep ==
  ASSUME ServerShape, [Next]_vars
  PROVE  ServerShape'
  <1>1. CASE UNCHANGED <<rows, nextSeq, replies>>
    BY <1>1 DEF ServerShape
  <1>2. CASE Crash
    <2>1. nextSeq' = Max({0} \cup SeqsOf(rows)) + 1 /\ UNCHANGED <<rows, replies>>
      BY <1>2 DEF Crash
    <2>2. Max({0} \cup SeqsOf(rows)) \in Nat
      BY MaxOfRows DEF ServerShape
    <2> QED BY <2>1, <2>2 DEF ServerShape
  <1>3. ASSUME NEW c \in Chats, Reply(c) PROVE ServerShape'
    <2> DEFINE r == [id |-> replies + 1, chat |-> c, seq |-> nextSeq]
    <2>1. /\ rows' = rows \cup {r} /\ nextSeq' = nextSeq + 1
          /\ replies' = replies + 1 /\ replies < MaxReplies
      BY <1>3 DEF Reply
    <2>2. r \in Row /\ replies' \in 0 .. MaxReplies
      BY <2>1, BoundsAssumption DEF ServerShape, Row, Ids
    <2>3. IsFiniteSet(rows \cup {r})
      BY FS_AddElement DEF ServerShape
    <2> HIDE DEF r
    <2> QED BY <2>1, <2>2, <2>3 DEF ServerShape
  <1>4. ASSUME NEW c \in Chats, DeleteRows(c) \/ AskClear(c) PROVE ServerShape'
    <2>1. rows' \in SUBSET rows /\ UNCHANGED <<nextSeq, replies>>
      BY <1>4 DEF DeleteRows, AskClear
    <2>2. IsFiniteSet(rows')
      BY <2>1, FS_Subset DEF ServerShape
    <2> QED BY <2>1, <2>2 DEF ServerShape
  <1> QED BY <1>1, <1>2, <1>3, <1>4, ServerChanges

LEMMA LinkShapeStep ==
  ASSUME LinkShape, [Next]_vars
  PROVE  LinkShape'
  BY LinkChanges DEF LinkShape, Crash, Drop, SocketLost, Open, Reply, Deliver

\* The push of a reply.
LEMMA ReplyDoes ==
  ASSUME ServerShape, PushShape, NEW c \in Chats, Reply(c)
  PROVE  \E r \in Row :
           /\ r.id = replies + 1 /\ r.chat = c /\ r.seq = nextSeq
           /\ rows' = rows \cup {r}
           /\ replies' = replies + 1 /\ nextSeq' = nextSeq + 1
           /\ push' \in Seq(Row)
           /\ \/ push' = push /\ socket # "open"
              \/ /\ socket = "open" /\ Len(push') = Len(push) + 1 /\ push'[Len(push) + 1] = r
                 /\ \A k \in 1..Len(push) : push'[k] = push[k]
  <1> DEFINE r == [id |-> replies + 1, chat |-> c, seq |-> nextSeq]
  <1>1. /\ rows' = rows \cup {r} /\ nextSeq' = nextSeq + 1
        /\ replies' = replies + 1 /\ replies < MaxReplies
        /\ push' = IF socket = "open" THEN Append(push, r) ELSE push
    BY DEF Reply
  <1>2. r \in Row
    BY <1>1, BoundsAssumption DEF ServerShape, Row, Ids
  <1>3. r.id = replies + 1 /\ r.chat = c /\ r.seq = nextSeq
    OBVIOUS
  <1> HIDE DEF r
  <1>4. push \in Seq(Row)
    BY DEF PushShape
  <1>5. CASE socket = "open"
    <2>1. push' = Append(push, r)
      BY <1>1, <1>5
    <2>2. /\ push' \in Seq(Row) /\ Len(push') = Len(push) + 1 /\ push'[Len(push) + 1] = r
          /\ \A k \in 1..Len(push) : push'[k] = push[k]
      BY <1>2, <1>4, <2>1
    <2> QED BY <1>1, <1>2, <1>3, <1>5, <2>2
  <1>6. CASE socket # "open"
    BY <1>1, <1>2, <1>3, <1>4, <1>6
  <1> QED BY <1>5, <1>6

LEMMA PushShapeStep ==
  ASSUME ServerShape, PushShape, [Next]_vars
  PROVE  PushShape'
  <1>1. CASE UNCHANGED push
    BY <1>1 DEF PushShape
  <1>2. CASE Crash \/ Drop
    <2>1. push' = <<>>
      BY <1>2 DEF Crash, Drop, SocketLost
    <2> QED BY <2>1 DEF PushShape
  <1>3. ASSUME NEW c \in Chats, Reply(c) PROVE PushShape'
    BY <1>3, ReplyDoes DEF PushShape
  <1>4. ASSUME NEW mode, Deliver(mode) PROVE PushShape'
    BY <1>4, FirstPush DEF PushShape, Deliver
  <1>5. CASE Open
    BY <1>5 DEF Open, PushShape
  <1> QED BY <1>1, <1>2, <1>3, <1>4, <1>5, LinkChanges

LEMMA DeliverType ==
  ASSUME PageShape, RestShape, PushShape, NEW mode, Deliver(mode)
  PROVE  PageShape' /\ disturbed' \in SUBSET Chats
  <1> DEFINE r == push[1]
             c == r.chat
             q == reveal[c]
  <1>1. push # <<>> /\ r = Head(push) /\ r \in Row /\ c \in Chats /\ r # NoRow
    BY FirstPush, RowFacts DEF Deliver
  <1>2. q \in Row \cup {NoRow} /\ disturbed \in SUBSET Chats
    BY SMTT(30), <1>1 DEF PageShape, RestShape
  <1>3. loaded' = loaded
    BY SMTT(30) DEF Deliver
  <1>4. \/ AddMessage(c, r) \/ (q # NoRow /\ AddMessage(c, q))
        \/ UNCHANGED <<copies, mark, disturbed>>
        \/ /\ q # NoRow
           /\ copies' = [copies EXCEPT ![c][q.id] = @ + 1, ![c][r.id] = @ + 1]
           /\ mark' = [mark EXCEPT ![c] = Max({@, q.seq, r.seq})]
           /\ disturbed' = IF Disturbs(c) THEN disturbed \cup {c} ELSE disturbed
    BY <1>1 DEF Deliver
  <1>5. reveal' \in [Chats -> Row \cup {NoRow}]
    BY <1>1 DEF Deliver, PageShape
  <1> HIDE DEF r, c, q
  <1>6. CASE AddMessage(c, r) \/ (q # NoRow /\ AddMessage(c, q))
    BY <1>1, <1>2, <1>3, <1>5, <1>6, AddDoes DEF PageShape
  <1>7. CASE UNCHANGED <<copies, mark, disturbed>>
    BY <1>2, <1>3, <1>5, <1>7 DEF PageShape
  <1>8. CASE /\ q # NoRow
             /\ copies' = [copies EXCEPT ![c][q.id] = @ + 1, ![c][r.id] = @ + 1]
             /\ mark' = [mark EXCEPT ![c] = Max({@, q.seq, r.seq})]
             /\ disturbed' = IF Disturbs(c) THEN disturbed \cup {c} ELSE disturbed
    <2>1. q \in Row /\ q.id \in Ids /\ r.id \in Ids /\ mark[c] \in Nat /\ q.seq \in Nat /\ r.seq \in Nat
      BY <1>1, <1>2, <1>8, RowFacts DEF PageShape
    <2>2. copies' \in [Chats -> [Ids -> Nat]]
      BY <1>1, <1>8, <2>1 DEF PageShape
    <2>3. mark' \in [Chats -> Nat]
      <3> DEFINE m == Max({mark[c], q.seq, r.seq})
      <3>1. m \in Nat
        BY <2>1, MaxOfTwo
      <3>2. mark' = [mark EXCEPT ![c] = m]
        BY <1>8
      <3> HIDE DEF m
      <3> QED BY <3>1, <3>2 DEF PageShape
    <2>4. disturbed' \in SUBSET Chats
      BY <1>1, <1>2, <1>8
    <2> QED BY <1>3, <1>5, <2>2, <2>3, <2>4 DEF PageShape
  <1> QED BY <1>4, <1>6, <1>7, <1>8

LEMMA PageShapeStep ==
  ASSUME PageShape, PushShape, FetchShape, RunShape, RestShape, [Next]_vars
  PROVE  PageShape'
  <1>1. CASE UNCHANGED <<copies, mark, loaded, reveal>>
    BY <1>1 DEF PageShape
  <1>2. ASSUME NEW mode, Deliver(mode) PROVE PageShape'
    BY <1>2, DeliverType
  <1>3. ASSUME NEW c \in Chats, RevealEnds(c) PROVE PageShape'
    BY <1>3, RevealDoes
  <1>4. ASSUME NEW c \in Chats, HistoryArrives(c) PROVE PageShape'
    <2>1. history[c].rows \in SUBSET Row /\ IsFiniteSet(history[c].rows)
      BY DEF FetchShape, FetchRec
    <2>2. MergeMessages(c, history[c].rows) /\ loaded' = loaded \cup {c} /\ reveal' = reveal
      BY <1>4 DEF HistoryArrives
    <2> QED BY <2>1, <2>2, MergeDoes DEF PageShape
  <1>5. ASSUME NEW c \in Chats, HistoryFails(c) PROVE PageShape'
    <2>1. {} \in SUBSET Row /\ IsFiniteSet({})
      BY FS_EmptySet
    <2>2. CASE UNCHANGED <<copies, mark, loaded>>
      BY <1>5, <2>2 DEF HistoryFails, PageShape
    <2>3. CASE MergeMessages(c, {}) /\ loaded' = loaded \cup {c}
      <3>1. reveal' = reveal
        BY <1>5 DEF HistoryFails
      <3> QED BY <2>1, <2>3, <3>1, MergeDoes DEF PageShape
    <2> QED BY <1>5, <2>2, <2>3 DEF HistoryFails
  <1>6. ASSUME NEW i \in Runs, PageArrives(i) PROVE PageShape'
    <2>1. CASE MergeMessages(run[i].chat, run[i].page) /\ run[i].chat \in Chats
      <3>1. run[i].page \in SUBSET Row /\ IsFiniteSet(run[i].page)
        BY DEF RunShape, RunRec
      <3>2. UNCHANGED <<loaded, reveal>>
        BY <1>6 DEF PageArrives
      <3> QED BY <2>1, <3>1, <3>2, MergeDoes DEF PageShape
    <2>2. CASE MergeMessages(run[i].chat, run[i].page) /\ run[i].chat \notin Chats
      BY <1>6, <2>2 DEF PageArrives, MergeMessages, PageShape
    <2>3. CASE UNCHANGED <<copies, mark>>
      BY <1>6, <2>3 DEF PageArrives, PageShape
    <2> QED BY <1>6, <2>1, <2>2, <2>3 DEF PageArrives
  <1>7. ASSUME NEW c \in Chats, ClearMessages(c) \/ PurgeChat(c) PROVE PageShape'
    <2>1. copies' = [copies EXCEPT ![c] = [i \in Ids |-> 0]] /\ reveal' = reveal
          /\ mark' \in {mark, [mark EXCEPT ![c] = 0]} /\ loaded' \in {loaded, loaded \ {c}}
      BY <1>7 DEF ClearMessages, PurgeChat
    <2> QED BY <2>1 DEF PageShape
  <1> QED BY <1>1, <1>2, <1>3, <1>4, <1>5, <1>6, <1>7, PageChanges

LEMMA FetchShapeStep ==
  ASSUME ServerShape, FetchShape, [Next]_vars
  PROVE  FetchShape'
  <1>1. CASE UNCHANGED history
    BY <1>1 DEF FetchShape
  <1>2. ASSUME NEW c \in Chats, NEW h \in FetchRec, IsFiniteSet(h.rows),
               history' = [history EXCEPT ![c] = h]
        PROVE  FetchShape'
    BY <1>2 DEF FetchShape
  <1>3. ASSUME NEW c \in Chats, ServeHistory(c) PROVE FetchShape'
    <2> DEFINE h == [state |-> "served", rows |-> RowsOf(c)]
    <2>1. RowsOf(c) \in SUBSET rows /\ RowsOf(c) \in SUBSET Row
      BY DEF RowsOf, ServerShape
    <2>2. IsFiniteSet(RowsOf(c))
      BY <2>1, FS_Subset DEF ServerShape
    <2>3. h \in FetchRec /\ IsFiniteSet(h.rows)
      BY <2>1, <2>2 DEF FetchRec
    <2>4. history' = [history EXCEPT ![c] = h]
      BY <1>3 DEF ServeHistory
    <2> HIDE DEF h
    <2> QED BY <1>2, <2>3, <2>4
  <1>4. ASSUME NEW c \in Chats, AskHistory(c) \/ HistoryArrives(c) \/ HistoryFails(c)
        PROVE  FetchShape'
    <2> DEFINE h == [state |-> "asked", rows |-> {}]
    <2>1. h \in FetchRec /\ NoFetch \in FetchRec /\ IsFiniteSet(h.rows) /\ IsFiniteSet(NoFetch.rows)
      BY FS_EmptySet DEF FetchRec, NoFetch
    <2>2. history' = [history EXCEPT ![c] = h] \/ history' = [history EXCEPT ![c] = NoFetch]
      BY <1>4 DEF AskHistory, HistoryArrives, HistoryFails
    <2> HIDE DEF h, NoFetch
    <2> QED BY <1>2, <2>1, <2>2
  <1> QED BY <1>1, <1>3, <1>4, FetchChanges

\* What becomes of a run that is asked, served, or ends.
RunOK(g) ==
    /\ g \in RunRec /\ IsFiniteSet(g.page)
    /\ g.state # "idle" => g.chat \in Chats

LEMMA NoRunOK == RunOK(NoRun)
  BY FS_EmptySet DEF RunOK, RunRec, NoRun

\* The run that asks for the page of chat c after the watermark.
LEMMA AskDoes ==
  ASSUME NEW g, RunOK(g), NEW todo \in SUBSET Chats, NEW c \in Chats, mark'[c] \in Nat
  PROVE  /\ RunOK(Ask(g, todo, c))
         /\ Ask(g, todo, c).state = "asked" /\ Ask(g, todo, c).chat = c
         /\ Ask(g, todo, c).after = mark'[c] /\ Ask(g, todo, c).fresh = g.fresh
  BY DEF Ask, RunOK, RunRec

\* A run that goes on asks for the page of some chat, or ends.
LEMMA ProceedDoes ==
  ASSUME NEW i \in Runs, RunShape, PageShape', Proceed(i)
  PROVE  \E g : /\ RunOK(g) /\ run' = [run EXCEPT ![i] = g]
                /\ \/ g = NoRun
                   \/ /\ g.state = "asked" /\ g.chat \in Chats /\ g.fresh = run[i].fresh
                      /\ g.after = mark'[g.chat]
  <1>1. RunOK(run[i]) /\ run[i].todo \in SUBSET Chats
    BY DEF RunShape, RunOK, RunRec
  <1>2. CASE run[i].todo = {}
    BY <1>2, NoRunOK DEF Proceed
  <1>3. CASE run[i].todo # {}
    <2>1. PICK c \in run[i].todo : run' = [run EXCEPT ![i] = Ask(run[i], run[i].todo, c)]
      BY <1>3 DEF Proceed
    <2>2. c \in Chats /\ mark'[c] \in Nat
      BY <1>1, <2>1 DEF PageShape
    <2> DEFINE g == Ask(run[i], run[i].todo, c)
    <2>3. /\ RunOK(g) /\ g.state = "asked" /\ g.chat = c
          /\ g.after = mark'[c] /\ g.fresh = run[i].fresh
      BY <1>1, <2>2, AskDoes
    <2>4. run' = [run EXCEPT ![i] = g]
      BY <2>1
    <2> HIDE DEF g
    <2> QED BY <2>2, <2>3, <2>4
  <1> QED BY <1>2, <1>3

LEMMA PageArrivesDoes ==
  ASSUME NEW i \in Runs, RunShape, PageShape', PageArrives(i)
  PROVE  \E g : /\ RunOK(g) /\ run' = [run EXCEPT ![i] = g]
                /\ \/ g = NoRun
                   \/ /\ g.state = "asked" /\ g.chat \in Chats /\ g.fresh = run[i].fresh
                      /\ g.after = mark'[g.chat]
  <1>1. CASE Proceed(i)
    BY <1>1, ProceedDoes
  <1>2. CASE run' = [run EXCEPT ![i] = Ask(run[i], run[i].todo, run[i].chat)]
    <2>1. RunOK(run[i]) /\ run[i].todo \in SUBSET Chats /\ run[i].chat \in Chats
      BY DEF RunShape, RunOK, RunRec, PageArrives
    <2>2. mark'[run[i].chat] \in Nat
      BY <2>1 DEF PageShape
    <2> DEFINE g == Ask(run[i], run[i].todo, run[i].chat)
    <2>3. /\ RunOK(g) /\ g.state = "asked" /\ g.chat = run[i].chat
          /\ g.after = mark'[run[i].chat] /\ g.fresh = run[i].fresh
      BY <2>1, <2>2, AskDoes
    <2>4. run' = [run EXCEPT ![i] = g]
      BY <1>2
    <2> HIDE DEF g
    <2> QED BY <2>1, <2>3, <2>4
  <1> QED BY <1>1, <1>2 DEF PageArrives

LEMMA PageFailsDoes ==
  ASSUME NEW i \in Runs, RunShape, PageShape', PageFails(i)
  PROVE  \E g : /\ RunOK(g) /\ run' = [run EXCEPT ![i] = g]
                /\ \/ g = NoRun
                   \/ /\ g.state = "asked" /\ g.chat \in Chats /\ g.fresh = run[i].fresh
                      /\ g.after = mark'[g.chat]
  <1>1. CASE Proceed(i)
    BY <1>1, ProceedDoes
  <1>2. CASE run' = [run EXCEPT ![i] = NoRun]
    BY <1>2, NoRunOK
  <1> QED BY <1>1, <1>2 DEF PageFails

\* The backfill that starts at a reconnect.
LEMMA OpenDoes ==
  ASSUME RunShape, PageShape, Open
  PROVE  \/ UNCHANGED run
         \/ \E i \in Runs : \E g : /\ RunOK(g) /\ run' = [run EXCEPT ![i] = g]
                                      /\ g.state = "asked" /\ g.chat \in Chats
                                      /\ g.after = mark[g.chat]
  <1> DEFINE known == loaded \cup {c \in Chats : mark[c] > 0}
             Start(c) == [NoRun EXCEPT !.state = "asked", !.todo = known \ {c},
                                       !.chat = c, !.after = mark[c], !.fresh = TRUE]
  <1>1. known \in SUBSET Chats
    BY DEF PageShape
  <1>2. ASSUME NEW i \in Runs, NEW c \in known, run' = [run EXCEPT ![i] = Start(c)]
        PROVE  \E g : /\ RunOK(g) /\ run' = [run EXCEPT ![i] = g]
                      /\ g.state = "asked" /\ g.chat \in Chats /\ g.after = mark[g.chat]
    <2>1. c \in Chats /\ mark[c] \in Nat
      BY <1>1 DEF PageShape
    <2>2. RunOK(Start(c))
      BY <1>1, <2>1, FS_EmptySet DEF RunOK, RunRec, NoRun
    <2>3. Start(c).state = "asked" /\ Start(c).chat = c /\ Start(c).after = mark[c]
      BY DEF NoRun
    <2> HIDE DEF Start, known
    <2> QED BY <1>2, <2>1, <2>2, <2>3
  <1>3. UNCHANGED run \/ \E i \in Runs, c \in known : run' = [run EXCEPT ![i] = Start(c)]
    BY DEF Open
  <1> HIDE DEF Start, known
  <1> QED BY <1>2, <1>3

LEMMA LostDoes ==
  ASSUME RunShape, SocketLost
  PROVE  /\ RunShape'
         /\ \A i \in Runs :
              /\ run'[i].state = run[i].state /\ run'[i].chat = run[i].chat
              /\ run'[i].after = run[i].after /\ run'[i].page = run[i].page
              /\ run'[i].more = run[i].more /\ ~ run'[i].fresh
  BY ZenonT(60) DEF SocketLost, RunShape, RunRec

LEMMA ServePageDoes ==
  ASSUME RunShape, ServerShape, NEW i \in Runs, ServePage(i)
  PROVE  \E g : /\ RunOK(g) /\ run' = [run EXCEPT ![i] = g]
                /\ g.state = "served" /\ g.chat = run[i].chat /\ g.after = run[i].after
                /\ g.page = PageAfter(g.chat, g.after) /\ g.more = HasMore(g.chat, g.after)
                /\ g.fresh = run[i].fresh /\ run[i].state = "asked"
  <1> DEFINE g == [run[i] EXCEPT !.state = "served", !.page = PageAfter(run[i].chat, run[i].after),
                                 !.more = HasMore(run[i].chat, run[i].after)]
  <1>1. run[i] \in RunRec /\ run[i].state = "asked" /\ run[i].chat \in Chats /\ run[i].after \in Nat
    BY DEF RunShape, RunRec, ServePage
  <1>2. run' = [run EXCEPT ![i] = g]
    BY DEF ServePage, RunShape
  <1>3. /\ PageAfter(run[i].chat, run[i].after) \in SUBSET Row
        /\ IsFiniteSet(PageAfter(run[i].chat, run[i].after))
        /\ HasMore(run[i].chat, run[i].after) \in BOOLEAN
    BY <1>1, PageFacts DEF ServerShape, RowsOf, HasMore
  <1>4. RunOK(g)
    BY <1>1, <1>3 DEF RunOK, RunRec
  <1>5. /\ g.state = "served" /\ g.chat = run[i].chat /\ g.after = run[i].after
        /\ g.page = PageAfter(g.chat, g.after) /\ g.more = HasMore(g.chat, g.after)
        /\ g.fresh = run[i].fresh
    BY <1>1 DEF RunRec
  <1> HIDE DEF g
  <1> QED BY <1>1, <1>2, <1>4, <1>5

LEMMA RunShapeStep ==
  ASSUME ServerShape, PageShape, PageShape', RunShape, [Next]_vars
  PROVE  RunShape'
  <1>1. CASE UNCHANGED run
    BY <1>1 DEF RunShape
  <1>2. ASSUME NEW i \in Runs, NEW g, RunOK(g), run' = [run EXCEPT ![i] = g]
        PROVE  RunShape'
    BY <1>2 DEF RunShape, RunOK
  <1>3. CASE Crash \/ Drop
    BY <1>3, LostDoes DEF Crash, Drop
  <1>4. CASE Open
    BY <1>1, <1>2, <1>4, OpenDoes
  <1>5. ASSUME NEW i \in Runs, ServePage(i) PROVE RunShape'
    BY <1>2, <1>5, ServePageDoes
  <1>6. ASSUME NEW i \in Runs, PageArrives(i) PROVE RunShape'
    BY <1>2, <1>6, PageArrivesDoes
  <1>7. ASSUME NEW i \in Runs, PageFails(i) PROVE RunShape'
    BY <1>2, <1>7, PageFailsDoes
  <1> QED BY <1>1, <1>3, <1>4, <1>5, <1>6, <1>7, RunChanges

LEMMA RestShapeStep ==
  ASSUME Shape, [Next]_vars
  PROVE  RestShape'
  <1> USE DEF Shape
  <1>1. faults' \in 0 .. MaxFaults
    <2>1. faults' = faults \/ \E kind : Trouble(kind)
      BY ZenonT(60) DEF Next, vars, ServerNext, PageNext, Crash, Reply, ServeHistory, ServePage, DeleteRows,
             DeleteFails, Drop, Open, Deliver, RevealEnds, AskHistory, HistoryArrives, HistoryFails,
             PageArrives, PageFails, AskClear, ClearMessages, PurgeChat
    <2>2. faults \in 0 .. MaxFaults
      BY DEF RestShape
    <2> QED BY SMTT(30), <2>1, <2>2, BoundsAssumption DEF Trouble
  <1>2. gaveUp' \in SUBSET Chats
    <2>1. gaveUp \in SUBSET Chats
      BY DEF RestShape
    <2>2. \/ gaveUp' = gaveUp \/ gaveUp' = {}
          \/ \E i \in Runs : PageFails(i)
      BY DEF Next, vars, ServerNext, PageNext, Crash, Reply, ServeHistory, ServePage, DeleteRows,
             DeleteFails, Drop, Open, Deliver, RevealEnds, AskHistory, HistoryArrives, HistoryFails,
             PageArrives, AskClear, ClearMessages, PurgeChat, gapVars, SocketLost
    <2>3. ASSUME NEW i \in Runs, PageFails(i) PROVE gaveUp' \in SUBSET Chats
      <3>1. run[i].chat \in Chats /\ run[i].todo \in SUBSET Chats
        BY <2>3 DEF PageFails, RunShape, RunRec
      <3> QED BY <2>1, <2>3, <3>1 DEF PageFails
    <2> QED BY <2>1, <2>2, <2>3
  <1>3. request' \in [Chats -> {"none", "clear", "delete"}] /\ owed' \in SUBSET Chats
        /\ disturbed' \in SUBSET Chats
    <2>0. request \in [Chats -> {"none", "clear", "delete"}] /\ owed \in SUBSET Chats
          /\ disturbed \in SUBSET Chats
      BY DEF RestShape
    <2>1. CASE UNCHANGED <<request, owed, disturbed>>
      BY <2>0, <2>1
    <2>2. CASE Crash \/ Drop
      <3>1. /\ request' = request /\ owed' = Chats
            /\ disturbed' \in {disturbed, Chats}
        BY SMTT(30), <2>2 DEF Crash, Drop, SocketLost
      <3> QED BY <2>0, <3>1
    <2>3. ASSUME NEW mode, Deliver(mode)
          PROVE  UNCHANGED <<request, owed>> /\ disturbed' \in SUBSET Chats
      BY <2>3, DeliverType DEF Deliver, gapVars
    <2>4. ASSUME NEW c \in Chats, RevealEnds(c)
          PROVE  UNCHANGED <<request, owed>> /\ disturbed' \in SUBSET Chats
      BY <2>4, RevealDoes DEF RevealEnds, gapVars
    <2>5. ASSUME NEW c \in Chats, DeleteRows(c) \/ DeleteFails(c) \/ AskClear(c)
                                   \/ ClearMessages(c) \/ PurgeChat(c)
          PROVE  /\ owed' = owed
                 /\ \E a \in {"none", "clear", "delete"} : request' = [request EXCEPT ![c] = a]
                 /\ disturbed' \in {disturbed, disturbed \cup {c}}
      BY <2>5 DEF DeleteRows, DeleteFails, AskClear, ClearMessages, PurgeChat, gapVars
    <2>6. ASSUME NEW c \in Chats, HistoryArrives(c) \/ HistoryFails(c)
          PROVE  UNCHANGED <<request, owed>> /\ disturbed' \in {disturbed, disturbed \cup {c}}
      BY <2>6 DEF HistoryArrives, HistoryFails, gapVars
    <2>7. ASSUME NEW i \in Runs, PageArrives(i)
          PROVE  /\ request' = request /\ owed' \in {owed, owed \ {run[i].chat}}
                 /\ run[i].chat \in Chats
                 /\ disturbed' \in {disturbed, disturbed \cup {run[i].chat}}
      <3>1. run[i].chat \in Chats
        BY <2>7 DEF PageArrives, RunShape
      <3> QED BY <2>7, <3>1 DEF PageArrives
    <2>8. ASSUME NEW c \in Chats, DeleteRows(c) \/ DeleteFails(c) \/ AskClear(c)
                                   \/ ClearMessages(c) \/ PurgeChat(c)
          PROVE  /\ request' \in [Chats -> {"none", "clear", "delete"}] /\ owed' \in SUBSET Chats
                 /\ disturbed' \in SUBSET Chats
      BY <2>0, <2>5, <2>8
    <2> QED BY <2>0, <2>1, <2>2, <2>3, <2>4, <2>6, <2>7, <2>8, RestChanges
  <1> QED BY <1>1, <1>2, <1>3 DEF RestShape

LEMMA ShapeStep ==
  ASSUME Shape, [Next]_vars
  PROVE  Shape'
  <1>1. ServerShape' /\ LinkShape' /\ PushShape'
    BY ServerShapeStep, LinkShapeStep, PushShapeStep DEF Shape
  <1>2. PageShape' /\ FetchShape'
    BY PageShapeStep, FetchShapeStep DEF Shape
  <1>3. RunShape' /\ RestShape'
    BY <1>2, RunShapeStep, RestShapeStep DEF Shape
  <1> QED BY <1>1, <1>2, <1>3 DEF Shape

LEMMA InitShape == Init => Shape
  <1> SUFFICES ASSUME Init PROVE Shape
    OBVIOUS
  <1>1. ServerShape
    BY FS_EmptySet, BoundsAssumption DEF Init, ServerShape
  <1>2. LinkShape /\ PageShape
    BY DEF Init, LinkShape, PageShape, NoRow
  <1>3. PushShape
    BY DEF Init, PushShape
  <1>4. FetchShape
    BY FS_EmptySet DEF Init, FetchShape, FetchRec, NoFetch
  <1>5. RunShape
    BY NoRunOK DEF Init, RunShape, RunOK, NoRun
  <1>6. RestShape
    BY BoundsAssumption DEF Init, RestShape
  <1> QED BY <1>1, <1>2, <1>3, <1>4, <1>5, <1>6 DEF Shape

\* The records of the table, of the requests and of the runs keep their types
\* (messages.ts, store/message.ts, web-adapter.ts), and no set of rows is
\* infinite: the watermark is a maximum, a page an initial part.
THEOREM SyncTypeCorrect == Spec => [](TypeOK /\ Shape)
  <1>1. Shape /\ [Next]_vars => Shape'
    BY ShapeStep
  <1>2. Shape => TypeOK
    <2> SUFFICES ASSUME Shape PROVE TypeOK
      OBVIOUS
    <2>1. \A c \in Chats : history[c].state \in {"none", "asked", "served"} /\ history[c].rows \subseteq Row
      BY DEF Shape, FetchShape, FetchRec
    <2>2. \A i \in Runs : /\ run[i].state \in {"idle", "asked", "served"}
                          /\ run[i].todo \subseteq Chats /\ run[i].page \subseteq Row
      BY DEF Shape, RunShape, RunRec
    <2> QED BY <2>1, <2>2
            DEF Shape, ServerShape, LinkShape, PushShape, PageShape, RestShape, TypeOK
  <1> QED BY <1>1, <1>2, InitShape, PTL DEF Spec

-----------------------------------------------------------------------------
(* A row is appended once, and so rendered at most twice.                   *)

\* A reply is pushed once, and is pushed, revealed or appended, never two of it.
OnceEach ==
    /\ \A k \in 1..Len(push) : push[k].id <= replies
    /\ \A j, k \in 1..Len(push) : push[j].id = push[k].id => j = k
    /\ \A c \in Chats : /\ reveal[c].id <= replies
                        /\ \A k \in 1..Len(push) : push[k].id # reveal[c].id
    /\ \A c, d \in Chats : reveal[c] # NoRow /\ reveal[c].id = reveal[d].id => c = d

\* The row with id i has not been appended.
ToCome(i) ==
    \/ i > replies
    \/ \E k \in 1..Len(push) : push[k].id = i
    \/ \E c \in Chats : reveal[c].id = i

Counted == \A c \in Chats, i \in Ids : copies[c][i] <= 2 /\ (ToCome(i) => copies[c][i] <= 1)

LEMMA PushRows ==
  ASSUME PushShape
  PROVE  /\ Len(push) \in Nat
         /\ \A k \in 1..Len(push) : push[k] \in Row
  BY DEF PushShape

LEMMA OnceEachStep ==
  ASSUME Shape, OnceEach, [Next]_vars
  PROVE  OnceEach'
  <1>a. /\ replies \in Nat /\ Len(push) \in Nat
        /\ \A k \in 1..Len(push) : push[k].id \in Nat /\ push[k].id # 0 /\ push[k].chat \in Chats
        /\ \A c \in Chats : reveal[c] \in Row \cup {NoRow} /\ reveal[c].id \in Nat
        /\ NoRow.id = 0 /\ \A r \in Row : r.id # 0 /\ r.id \in Nat
    BY PushRows, RowFacts DEF Shape, ServerShape, PageShape, Ids, NoRow, Row
  <1>1. CASE UNCHANGED <<replies, push, reveal>>
    BY <1>1 DEF OnceEach
  <1>2. ASSUME NEW c \in Chats, Reply(c) PROVE OnceEach'
    <2>1. PICK r \in Row :
             /\ r.id = replies + 1 /\ replies' = replies + 1
             /\ \/ push' = push
                \/ /\ Len(push') = Len(push) + 1 /\ push'[Len(push) + 1] = r
                   /\ \A k \in 1..Len(push) : push'[k] = push[k]
      BY <1>2, ReplyDoes DEF Shape
    <2>2. reveal' = reveal
      BY <1>2 DEF Reply, pageVars
    <2>3. CASE push' = push
      BY <1>a, <2>1, <2>2, <2>3 DEF OnceEach
    <2>4. CASE /\ Len(push') = Len(push) + 1 /\ push'[Len(push) + 1] = r
               /\ \A k \in 1..Len(push) : push'[k] = push[k]
      <3>1. \A k \in 1..Len(push') : k \in 1..Len(push) \/ k = Len(push) + 1
        BY <1>a, <2>4
      <3>2. \A k \in 1..Len(push') : push'[k].id <= replies'
        BY <1>a, <2>1, <2>4, <3>1 DEF OnceEach
      <3>3. \A j, k \in 1..Len(push') : push'[j].id = push'[k].id => j = k
        BY <1>a, <2>1, <2>4, <3>1 DEF OnceEach
      <3>4. \A d \in Chats : /\ reveal'[d].id <= replies'
                             /\ \A k \in 1..Len(push') : push'[k].id # reveal'[d].id
        BY <1>a, <2>1, <2>2, <2>4, <3>1 DEF OnceEach
      <3> QED BY <2>2, <3>2, <3>3, <3>4 DEF OnceEach
    <2> QED BY <2>1, <2>3, <2>4
  <1>3. CASE Crash \/ Drop
    <2>1. push' = <<>> /\ replies' = replies /\ reveal' = reveal
      BY <1>3 DEF Crash, Drop, SocketLost, serverVars, pageVars
    <2> QED BY <2>1 DEF OnceEach
  <1>4. ASSUME NEW mode, Deliver(mode) PROVE OnceEach'
    <2>0. push # <<>> /\ push' = Tail(push) /\ replies' = replies
      BY <1>4 DEF Deliver, serverVars
    <2>1. /\ 1 \in 1..Len(push) /\ push[1] \in Row /\ push[1].chat \in Chats
          /\ \A k \in 1..Len(push') : push'[k] = push[k + 1] /\ k + 1 \in 1..Len(push) /\ k \in Nat
      BY <1>a, <2>0, FirstPush DEF Shape
    <2> DEFINE c == push[1].chat
    <2>2. PICK v \in {NoRow, push[1], reveal[c]} : reveal' = [reveal EXCEPT ![c] = v]
      <3>1. push[1].id # reveal[c].id
        BY <2>1 DEF OnceEach
      <3> QED BY <1>4, <3>1, DeliverDoes DEF Shape, Shows
    <2>3. \A d \in Chats : reveal'[d] = IF d = c THEN v ELSE reveal[d]
      BY <2>1, <2>2 DEF Shape, PageShape
    <2>4. /\ \A k \in 1..Len(push') : push'[k].id <= replies'
          /\ \A j, k \in 1..Len(push') : push'[j].id = push'[k].id => j = k
      BY <2>0, <2>1 DEF OnceEach
    <2>5. \A d \in Chats : /\ reveal'[d].id <= replies'
                           /\ \A k \in 1..Len(push') : push'[k].id # reveal'[d].id
      <3> TAKE d \in Chats
      <3>1. CASE d # c
        BY <2>0, <2>1, <2>3, <3>1 DEF OnceEach
      <3>2. CASE d = c
        <4>1. reveal'[d] = v
          BY <2>3, <3>2
        <4>2. CASE v = NoRow
          BY <1>a, <2>0, <2>1, <4>1, <4>2
        <4>3. CASE v = push[1]
          <5>1. \A k \in 1..Len(push') : k + 1 # 1
            BY <2>1
          <5> QED BY <2>0, <2>1, <4>1, <4>3, <5>1 DEF OnceEach
        <4>4. CASE v = reveal[c]
          BY <2>0, <2>1, <4>1, <4>4 DEF OnceEach
        <4> QED BY <2>2, <4>2, <4>3, <4>4
      <3> QED BY <3>1, <3>2
    <2>6. \A d, e \in Chats : reveal'[d] # NoRow /\ reveal'[d].id = reveal'[e].id => d = e
      <3> TAKE d, e \in Chats
      <3>1. CASE v = NoRow
        BY <1>a, <2>3, <3>1 DEF OnceEach
      <3>2. CASE v = push[1]
        <4>1. \A x \in Chats : reveal[x].id # v.id
          BY <2>1, <3>2 DEF OnceEach
        <4> QED BY <1>a, <2>3, <4>1 DEF OnceEach
      <3>3. CASE v = reveal[c]
        BY <1>a, <2>3, <3>3 DEF OnceEach
      <3> QED BY <2>2, <3>1, <3>2, <3>3
    <2> QED BY SMTT(30), <2>4, <2>5, <2>6 DEF OnceEach
  <1>5. ASSUME NEW c \in Chats, RevealEnds(c) PROVE OnceEach'
    <2>1. UNCHANGED <<replies, push>> /\ reveal' = [reveal EXCEPT ![c] = NoRow]
      BY <1>5 DEF RevealEnds, serverVars, linkVars
    <2>2. \A d \in Chats : reveal'[d] = IF d = c THEN NoRow ELSE reveal[d]
      BY <2>1 DEF Shape, PageShape
    <2> QED BY <1>a, <2>1, <2>2 DEF OnceEach
  <1>6. CASE Open
    BY <1>1, <1>6 DEF Open, serverVars, pageVars
  <1>7. CASE \E c \in Chats : DeleteRows(c) \/ AskClear(c)
    BY <1>1, <1>7 DEF DeleteRows, AskClear, linkVars, pageVars
  <1>8. CASE \/ \E c \in Chats : HistoryArrives(c) \/ HistoryFails(c) \/ ClearMessages(c) \/ PurgeChat(c)
             \/ \E i \in Runs : PageArrives(i)
    BY <1>1, <1>8 DEF HistoryArrives, HistoryFails, ClearMessages, PurgeChat, PageArrives,
                      linkVars, serverVars
  <1> QED BY <1>1, <1>2, <1>3, <1>4, <1>5, <1>6, <1>7, <1>8, ServerChanges, LinkChanges, PageChanges

\* What is to come of a row after a step, and what is appended by it.
LEMMA CountedAfterAdd ==
  ASSUME Shape, OnceEach, Counted, NEW c \in Chats, NEW rs, AddsRows(c, rs),
         \A r \in rs : ToCome(r.id) /\ ~ ToCome(r.id)',
         \A i \in Ids : ToCome(i)' => ToCome(i)
  PROVE  Counted'
  <1> SUFFICES ASSUME NEW d \in Chats, NEW i \in Ids
               PROVE  copies'[d][i] <= 2 /\ (ToCome(i)' => copies'[d][i] <= 1)
    BY DEF Counted
  <1>1. copies[d][i] \in Nat /\ copies[d][i] <= 2 /\ (ToCome(i) => copies[d][i] <= 1)
    BY DEF Counted, Shape, PageShape
  <1>2. CASE d # c
    BY <1>1, <1>2 DEF AddsRows
  <1>3. CASE d = c /\ i \in {r.id : r \in rs}
    <2>1. ToCome(i) /\ ~ ToCome(i)'
      BY <1>3
    <2>2. copies'[d][i] = copies[d][i] + 1
      BY <1>3 DEF AddsRows
    <2> QED BY <1>1, <2>1, <2>2
  <1>4. CASE d = c /\ i \notin {r.id : r \in rs}
    <2>1. copies'[d][i] = copies[d][i] + 0
      BY <1>4 DEF AddsRows
    <2> QED BY <1>1, <2>1
  <1> QED BY <1>2, <1>3, <1>4

LEMMA CountedStep ==
  ASSUME Shape, Shape', OnceEach, OnceEach', Counted, [Next]_vars
  PROVE  Counted'
  <1>a. /\ replies \in Nat /\ Len(push) \in Nat
        /\ \A k \in 1..Len(push) : push[k].id \in Ids /\ push[k].chat \in Chats
        /\ \A c \in Chats : reveal[c] \in Row \cup {NoRow}
        /\ \A c \in Chats, i \in Ids : copies[c][i] \in Nat
        /\ NoRow.id \notin Ids /\ (\A r \in Row : r.id \in Ids) /\ \A i \in Ids : i \in Nat
    <2>1. NoRow.id \notin Ids /\ \A i \in Ids : i \in Nat
      BY DEF NoRow, Ids
    <2>2. replies \in Nat /\ Len(push) \in Nat
      BY PushRows DEF Shape, ServerShape
    <2>3. \A k \in 1..Len(push) : push[k].id \in Ids /\ push[k].chat \in Chats
      BY PushRows, RowFacts DEF Shape
    <2>4. /\ \A c \in Chats : reveal[c] \in Row \cup {NoRow}
          /\ \A c \in Chats, i \in Ids : copies[c][i] \in Nat
      BY DEF Shape, PageShape
    <2> QED BY <2>1, <2>2, <2>3, <2>4, RowFacts
  <1>1. CASE UNCHANGED <<replies, push, reveal, copies>>
    BY <1>1 DEF Counted, ToCome
  <1>2. ASSUME NEW c \in Chats, Reply(c) PROVE Counted'
    <2>1. PICK r \in Row :
             /\ r.id = replies + 1 /\ replies' = replies + 1
             /\ \/ push' = push
                \/ /\ Len(push') = Len(push) + 1 /\ push'[Len(push) + 1] = r
                   /\ \A k \in 1..Len(push) : push'[k] = push[k]
      BY <1>2, ReplyDoes DEF Shape
    <2>2. UNCHANGED <<reveal, copies>>
      BY <1>2 DEF Reply, pageVars
    <2>3. \A k \in 1..Len(push') : push'[k].id = replies + 1
                                    \/ (k \in 1..Len(push) /\ push'[k] = push[k])
      BY <1>a, <2>1
    <2>4. \A i \in Ids : ToCome(i)' => ToCome(i)
      BY <1>a, <2>1, <2>2, <2>3 DEF ToCome
    <2> QED BY <2>2, <2>4 DEF Counted
  <1>3. CASE Crash \/ Drop
    <2>1. push' = <<>> /\ UNCHANGED <<replies, reveal, copies>>
      BY <1>3 DEF Crash, Drop, SocketLost, serverVars, pageVars
    <2>2. \A i \in Ids : ToCome(i)' => ToCome(i)
      BY <2>1 DEF ToCome
    <2> QED BY <2>1, <2>2 DEF Counted
  <1>4. ASSUME NEW mode, Deliver(mode) PROVE Counted'
    <2>0. push # <<>> /\ push' = Tail(push) /\ replies' = replies
      BY <1>4 DEF Deliver, serverVars
    <2>1. /\ 1 \in 1..Len(push) /\ push[1] \in Row /\ push[1].chat \in Chats
          /\ \A k \in 1..Len(push') : push'[k] = push[k + 1] /\ k + 1 \in 1..Len(push) /\ k + 1 # 1
      BY <1>a, <2>0, FirstPush DEF Shape
    <2> DEFINE r == push[1]
               c == r.chat
               q == reveal[c]
    <2>2. r.id # q.id
      BY <2>1 DEF OnceEach
    <2>3. PICK v \in {NoRow, r, q} : Shows(c, {r, q} \ {NoRow, v}, v)
      BY <1>4, <2>2, DeliverDoes DEF Shape
    <2>4. \A d \in Chats : reveal'[d] = IF d = c THEN v ELSE reveal[d]
      BY <2>1, <2>3 DEF Shape, PageShape, Shows
    <2>5. \A i \in Ids : ToCome(i)' => ToCome(i)
      <3> SUFFICES ASSUME NEW i \in Ids, ToCome(i)' PROVE ToCome(i)
        OBVIOUS
      <3>1. CASE i > replies'
        BY <2>0, <3>1 DEF ToCome
      <3>2. CASE \E k \in 1..Len(push') : push'[k].id = i
        BY <2>1, <3>2 DEF ToCome
      <3>3. CASE \E d \in Chats : reveal'[d].id = i
        <4>1. \/ \E d \in Chats : reveal[d].id = i
              \/ v.id = i
          BY <2>4, <3>3
        <4>2. v.id = i => v # NoRow
          BY <1>a
        <4> QED BY <2>1, <2>3, <4>1, <4>2 DEF ToCome
      <3> QED BY <3>1, <3>2, <3>3 DEF ToCome
    <2>6. \A x \in {r, q} \ {NoRow, v} : ToCome(x.id)
      BY <2>1 DEF ToCome
    <2>7. ASSUME NEW x \in {r, q} \ {NoRow, v}, ToCome(x.id)' PROVE FALSE
      <3>1. x \in Row /\ x.id \in Ids /\ x.id \in Nat /\ x.id <= replies
        BY <1>a, <2>1 DEF OnceEach
      <3>2. ~ (x.id > replies')
        BY <1>a, <2>0, <3>1
      <3>3. ~ \E k \in 1..Len(push') : push'[k].id = x.id
        BY <2>1 DEF OnceEach
      <3>4. ~ \E d \in Chats : reveal'[d].id = x.id
        <4>1. v.id # x.id
          <5>1. CASE v = NoRow
            BY <1>a, <3>1, <5>1
          <5>2. CASE v # NoRow
            BY <2>2, <2>3, <2>7, <5>2
          <5> QED BY <5>1, <5>2
        <4>2. ASSUME NEW d \in Chats, d # c PROVE reveal[d].id # x.id
          <5>1. CASE x = r
            BY <2>1, <5>1 DEF OnceEach
          <5>2. CASE x = q
            BY <2>1, <2>7, <4>2, <5>2 DEF OnceEach
          <5> QED BY <2>7, <5>1, <5>2
        <4> QED BY <2>4, <4>1, <4>2
      <3> QED BY <2>7, <3>2, <3>3, <3>4 DEF ToCome
    <2> QED BY SMTT(30), <2>1, <2>3, <2>5, <2>6, <2>7, CountedAfterAdd DEF Shows
  <1>5. ASSUME NEW c \in Chats, RevealEnds(c) PROVE Counted'
    <2>1. UNCHANGED <<replies, push>> /\ reveal' = [reveal EXCEPT ![c] = NoRow]
      BY <1>5 DEF RevealEnds, serverVars, linkVars
    <2>2. \A d \in Chats : reveal'[d] = IF d = c THEN NoRow ELSE reveal[d]
      BY <2>1 DEF Shape, PageShape
    <2>3. PICK q \in Row : q = reveal[c] /\ AddsRows(c, {q})
      BY <1>5, RevealDoes DEF Shape, Shows
    <2>4. \A i \in Ids : ToCome(i)' => ToCome(i)
      BY <1>a, <2>1, <2>2 DEF ToCome
    <2>5. ToCome(q.id)
      BY <2>3 DEF ToCome
    <2>6. ~ ToCome(q.id)'
      <3>1. q.id \in Ids /\ q.id \in Nat /\ q.id <= replies /\ q # NoRow
        BY <1>a, <2>3, RowFacts DEF OnceEach
      <3>2. ~ (q.id > replies')
        BY <1>a, <2>1, <3>1
      <3>3. ~ \E k \in 1..Len(push') : push'[k].id = q.id
        BY <2>1, <2>3 DEF OnceEach
      <3>4. ~ \E d \in Chats : reveal'[d].id = q.id
        BY <1>a, <2>2, <2>3, <3>1 DEF OnceEach
      <3> QED BY <3>2, <3>3, <3>4 DEF ToCome
    <2> QED BY <2>3, <2>4, <2>5, <2>6, CountedAfterAdd
  <1>6. CASE Open
    BY <1>1, <1>6 DEF Open, serverVars, pageVars
  <1>7. CASE \E c \in Chats : DeleteRows(c) \/ AskClear(c)
    BY <1>1, <1>7 DEF DeleteRows, AskClear, linkVars, pageVars
  <1>8. ASSUME NEW c, UNCHANGED <<replies, push, reveal>>,
               \A d \in Chats, i \in Ids : copies'[d][i] = copies[d][i] \/ copies'[d][i] \in {0, 1}
        PROVE  Counted'
    <2>1. \A i \in Ids : ToCome(i)' <=> ToCome(i)
      BY <1>8 DEF ToCome
    <2> QED BY <1>8, <2>1 DEF Counted
  <1>9. ASSUME NEW c \in Chats, NEW rs \in SUBSET Row, IsFiniteSet(rs), MergeMessages(c, rs)
        PROVE  \A d \in Chats, i \in Ids : copies'[d][i] = copies[d][i] \/ copies'[d][i] \in {0, 1}
    <2>1. MergesRows(c, rs)
      BY <1>9, MergeDoes DEF Shape
    <2> QED BY <2>1 DEF MergesRows
  <1>10. ASSUME NEW c \in Chats, HistoryArrives(c) PROVE Counted'
    <2>1. history[c].rows \in SUBSET Row /\ IsFiniteSet(history[c].rows)
      BY DEF Shape, FetchShape, FetchRec
    <2>2. MergeMessages(c, history[c].rows) /\ UNCHANGED <<replies, push, reveal>>
      BY <1>10 DEF HistoryArrives, serverVars, linkVars
    <2> QED BY <1>8, <1>9, <2>1, <2>2
  <1>11. ASSUME NEW c \in Chats, HistoryFails(c) PROVE Counted'
    <2>1. UNCHANGED copies \/ MergeMessages(c, {})
      BY <1>11 DEF HistoryFails
    <2>2. UNCHANGED <<replies, push, reveal>>
      BY <1>11 DEF HistoryFails, serverVars, linkVars
    <2>3. IsFiniteSet({})
      BY FS_EmptySet
    <2>4. CASE UNCHANGED copies
      BY <1>1, <2>2, <2>4
    <2>5. CASE MergeMessages(c, {})
      BY <1>8, <1>9, <2>2, <2>3, <2>5
    <2> QED BY <2>1, <2>4, <2>5
  <1>12. ASSUME NEW i \in Runs, PageArrives(i) PROVE Counted'
    <2>1. /\ run[i].page \in SUBSET Row /\ IsFiniteSet(run[i].page) /\ run[i].chat \in Chats
      BY <1>12 DEF Shape, RunShape, RunRec, PageArrives
    <2>2. UNCHANGED copies \/ MergeMessages(run[i].chat, run[i].page)
      BY <1>12 DEF PageArrives
    <2>3. UNCHANGED <<replies, push, reveal>>
      BY <1>12 DEF PageArrives, serverVars, linkVars
    <2>4. CASE UNCHANGED copies
      BY <1>1, <2>3, <2>4
    <2>5. CASE MergeMessages(run[i].chat, run[i].page)
      BY <1>8, <1>9, <2>1, <2>3, <2>5
    <2> QED BY <2>2, <2>4, <2>5
  <1>13. ASSUME NEW c \in Chats, ClearMessages(c) \/ PurgeChat(c) PROVE Counted'
    <2>1. UNCHANGED <<replies, push, reveal>> /\ copies' = [copies EXCEPT ![c] = [i \in Ids |-> 0]]
      BY <1>13 DEF ClearMessages, PurgeChat, serverVars, linkVars
    <2>2. \A d \in Chats, i \in Ids : copies'[d][i] = copies[d][i] \/ copies'[d][i] \in {0, 1}
      BY <2>1 DEF Shape, PageShape
    <2> QED BY <1>8, <2>1, <2>2
  <1> QED
    BY <1>1, <1>2, <1>3, <1>4, <1>5, <1>6, <1>7, <1>10, <1>11, <1>12, <1>13,
       ServerChanges, LinkChanges, PageChanges

\* No row is rendered more than twice, for any number of replies, overlapping
\* fetches and backfills, lost connections and restarts: a push is appended
\* once, whatever is there, and every merge leaves one of each id
\* (addMessage and mergeMessages, store/message.ts:63-72 and 205-217).
THEOREM RenderedAtMostTwice == Spec => []AtMostTwice
  <1>1. Init => OnceEach /\ Counted
    <2> SUFFICES ASSUME Init PROVE OnceEach /\ Counted
      OBVIOUS
    <2>1. push = <<>> /\ replies = 0 /\ \A c \in Chats : reveal[c] = NoRow /\ NoRow.id = 0
      BY DEF Init, NoRow
    <2>2. \A c \in Chats, i \in Ids : copies[c][i] = 0
      BY DEF Init
    <2> QED BY <2>1, <2>2 DEF OnceEach, Counted
  <1>2. Shape /\ Shape' /\ OnceEach /\ Counted /\ [Next]_vars => OnceEach' /\ Counted'
    BY OnceEachStep, CountedStep
  <1>3. Counted => AtMostTwice
    BY DEF Counted, AtMostTwice
  <1> QED BY <1>1, <1>2, <1>3, SyncTypeCorrect, PTL DEF Spec

-----------------------------------------------------------------------------
(* What can be missed.                                                      *)

\* What a step does to the list of a chat that is vouched for: nothing; a push is
\* handled, or a reveal ends; rows that were fetched are merged; or it is emptied.
Leaves(c) == copies'[c] = copies[c] /\ mark'[c] = mark[c] /\ reveal'[c] = reveal[c]

Takes(c, rs, v) ==
    /\ AddsRows(c, rs) /\ reveal'[c] = v /\ request' = request
    /\ rs \in SUBSET Row /\ reveal[c] \in {NoRow, v} \cup rs

Delivers(c) ==
    /\ push # <<>> /\ push' = Tail(push) /\ push[1].chat = c
    /\ \E rs, v : /\ Takes(c, rs, v)
                  /\ v \in {NoRow, push[1], reveal[c]}
                  /\ push[1] \in {v} \cup rs /\ rs \subseteq {push[1], reveal[c]}

Reveals(c) ==
    /\ push' = push
    /\ Takes(c, {reveal[c]}, NoRow)

Fetched(c, rs) ==
    \/ history[c].state = "served" /\ rs = history[c].rows
    \/ \E i \in Runs : run[i].state = "served" /\ run[i].chat = c /\ rs = run[i].page

Merges(c) ==
    /\ push' = push
    /\ reveal'[c] = reveal[c] /\ request' = request /\ request[c] = "none"
    /\ \E rs : MergesRows(c, rs) /\ Fetched(c, rs)

Empties(c) ==
    /\ push' = push
    /\ request[c] = "clear" /\ reveal'[c] = reveal[c] /\ mark'[c] = mark[c]

LEMMA PushDelivered ==
  ASSUME Shape, OnceEach, NEW mode, Deliver(mode), NEW c \in Chats
  PROVE  /\ push # <<>> /\ push' = Tail(push) /\ push[1] \in Row
         /\ IF c = push[1].chat THEN Delivers(c) ELSE Leaves(c)
  <1> DEFINE r == push[1]
             d == r.chat
             q == reveal[d]
  <1>1. push # <<>> /\ push' = Tail(push) /\ request' = request
    BY DEF Deliver
  <1>2. r \in Row /\ d \in Chats /\ 1 \in 1..Len(push) /\ r # NoRow
    BY <1>1, FirstPush, RowFacts DEF Shape
  <1>3. q \in Row \cup {NoRow}
    BY <1>2 DEF Shape, PageShape
  <1>4. r.id # q.id
    BY <1>2 DEF OnceEach
  <1>5. PICK v \in {NoRow, r, q} : Shows(d, {r, q} \ {NoRow, v}, v)
    BY <1>4, DeliverDoes DEF Shape
  <1> DEFINE rs == {r, q} \ {NoRow, v}
  <1>6. rs \in SUBSET Row /\ rs \subseteq {r, q} /\ q \in {NoRow, v} \cup rs /\ r \in {v} \cup rs
    BY <1>2, <1>3
  <1>7. AddsRows(d, rs) /\ reveal' = [reveal EXCEPT ![d] = v]
    BY <1>5 DEF Shows
  <1>8. reveal'[d] = v /\ (c # d => reveal'[c] = reveal[c])
    BY <1>2, <1>7 DEF Shape, PageShape
  <1> HIDE DEF rs
  <1>9. CASE c = d
    <2>1. Takes(d, rs, v)
      BY <1>1, <1>6, <1>7, <1>8 DEF Takes
    <2>2. Delivers(d)
      BY <1>1, <1>5, <1>6, <2>1 DEF Delivers
    <2> QED BY <1>1, <1>2, <1>9, <2>2
  <1>10. CASE c # d
    <2>1. Leaves(c)
      BY <1>7, <1>8, <1>10 DEF Leaves, AddsRows
    <2> QED BY <1>1, <1>2, <1>10, <2>1
  <1> QED BY SMTT(30), <1>9, <1>10

LEMMA ListDoes ==
  ASSUME Shape, OnceEach, [Next]_vars, NEW c \in Chats, c \notin disturbed'
  PROVE  Leaves(c) \/ Delivers(c) \/ Reveals(c) \/ Merges(c) \/ Empties(c)
  <1>1. CASE UNCHANGED <<copies, mark, loaded, reveal>>
    BY <1>1 DEF Leaves
  <1>2. ASSUME NEW mode, Deliver(mode) PROVE Leaves(c) \/ Delivers(c)
    BY <1>2, PushDelivered
  <1>3. ASSUME NEW d \in Chats, RevealEnds(d) PROVE Leaves(c) \/ Reveals(c)
    <2>1. reveal[d] \in Row /\ AddsRows(d, {reveal[d]}) /\ reveal' = [reveal EXCEPT ![d] = NoRow]
      BY <1>3, RevealDoes DEF Shape, Shows
    <2>2. reveal'[d] = NoRow /\ (c # d => reveal'[c] = reveal[c])
      BY <2>1 DEF Shape, PageShape
    <2>3. push' = push /\ request' = request
      BY <1>3 DEF RevealEnds, linkVars
    <2>4. CASE c = d
      BY <2>1, <2>2, <2>3, <2>4 DEF Reveals, Takes
    <2>5. CASE c # d
      BY <2>1, <2>2, <2>5 DEF Leaves, AddsRows
    <2> QED BY <2>4, <2>5
  <1>4. ASSUME NEW d \in Chats, HistoryArrives(d) PROVE Leaves(c) \/ Merges(c)
    <2>1. history[d].rows \in SUBSET Row /\ IsFiniteSet(history[d].rows)
      BY DEF Shape, FetchShape, FetchRec
    <2>2. /\ history[d].state = "served" /\ MergeMessages(d, history[d].rows)
          /\ UNCHANGED <<reveal, request, push>>
          /\ request[d] # "none" => d \in disturbed'
      BY <1>4 DEF HistoryArrives, linkVars
    <2>3. MergesRows(d, history[d].rows)
      BY <2>1, <2>2, MergeDoes DEF Shape
    <2>4. CASE c = d
      BY <2>2, <2>3, <2>4 DEF Merges, Fetched
    <2>5. CASE c # d
      BY <2>2, <2>3, <2>5 DEF Leaves, MergesRows
    <2> QED BY <2>4, <2>5
  <1>5. ASSUME NEW d \in Chats, HistoryFails(d) PROVE Leaves(c)
    <2>1. CASE UNCHANGED <<copies, mark, loaded, disturbed>>
      BY <1>5, <2>1 DEF HistoryFails, Leaves
    <2>2. CASE MergeMessages(d, {}) /\ disturbed' = disturbed \cup {d}
      <3>1. IsFiniteSet({})
        BY FS_EmptySet
      <3>2. MergesRows(d, {})
        BY <2>2, <3>1, MergeDoes DEF Shape
      <3>3. c # d /\ reveal' = reveal
        BY <1>5, <2>2 DEF HistoryFails
      <3> QED BY <3>2, <3>3 DEF Leaves, MergesRows
    <2> QED BY <1>5, <2>1, <2>2 DEF HistoryFails
  <1>6. ASSUME NEW i \in Runs, PageArrives(i) PROVE Leaves(c) \/ Merges(c)
    <2> DEFINE d == run[i].chat
    <2>1. run[i].page \in SUBSET Row /\ IsFiniteSet(run[i].page) /\ d \in Chats
      BY <1>6 DEF Shape, RunShape, RunRec, PageArrives
    <2>2. /\ run[i].state = "served" /\ UNCHANGED <<reveal, request, push>>
          /\ request[d] # "none" => d \in disturbed'
      BY <1>6 DEF PageArrives, linkVars
    <2>3. CASE MergeMessages(d, run[i].page)
      <3>1. MergesRows(d, run[i].page)
        BY <2>1, <2>3, MergeDoes DEF Shape
      <3>2. CASE c = d
        BY <2>2, <3>1, <3>2 DEF Merges, Fetched
      <3>3. CASE c # d
        BY <2>2, <3>1, <3>3 DEF Leaves, MergesRows
      <3> QED BY <3>2, <3>3
    <2>4. CASE UNCHANGED <<copies, mark>>
      BY <2>2, <2>4 DEF Leaves
    <2> QED BY <1>6, <2>3, <2>4 DEF PageArrives
  <1>7. ASSUME NEW d \in Chats, ClearMessages(d) PROVE Leaves(c) \/ Empties(c)
    <2>1. /\ request[d] = "clear" /\ copies' = [copies EXCEPT ![d] = [i \in Ids |-> 0]]
          /\ UNCHANGED <<mark, reveal, push>>
      BY <1>7 DEF ClearMessages, linkVars
    <2>2. CASE c = d
      BY <2>1, <2>2 DEF Empties
    <2>3. CASE c # d
      BY <2>1, <2>3 DEF Leaves, Shape, PageShape
    <2> QED BY <2>2, <2>3
  <1>8. ASSUME NEW d \in Chats, PurgeChat(d) PROVE Leaves(c)
    BY <1>8 DEF PurgeChat, Leaves, Shape, PageShape
  <1> QED BY <1>1, <1>2, <1>3, <1>4, <1>5, <1>6, <1>7, <1>8, PageChanges

\* A chat that is disturbed stays it, and a request to clear deletes its rows
\* or disturbs it.
LEMMA DisturbedStays ==
  ASSUME Shape, [Next]_vars
  PROVE  disturbed \subseteq disturbed'
  <1>1. CASE UNCHANGED <<request, owed, disturbed>>
    BY <1>1
  <1>2. CASE Crash \/ Drop
    BY SMTT(30), <1>2 DEF Crash, Drop, Shape, RestShape
  <1>3. ASSUME NEW mode, Deliver(mode) PROVE disturbed \subseteq disturbed'
    BY <1>3 DEF Deliver, AddMessage
  <1>4. ASSUME NEW c \in Chats, RevealEnds(c) PROVE disturbed \subseteq disturbed'
    BY <1>4 DEF RevealEnds, AddMessage
  <1>5. ASSUME NEW c \in Chats, \/ DeleteRows(c) \/ DeleteFails(c)
                                \/ HistoryArrives(c) \/ HistoryFails(c)
                                \/ AskClear(c) \/ ClearMessages(c) \/ PurgeChat(c)
        PROVE  disturbed \subseteq disturbed'
    BY <1>5 DEF DeleteRows, DeleteFails, HistoryArrives, HistoryFails, AskClear, ClearMessages,
                PurgeChat
  <1>6. ASSUME NEW i \in Runs, PageArrives(i) PROVE disturbed \subseteq disturbed'
    BY <1>6 DEF PageArrives
  <1> QED BY <1>1, <1>2, <1>3, <1>4, <1>5, <1>6, RestChanges

LEMMA ClearDoes ==
  ASSUME Shape, [Next]_vars, NEW c \in Chats, c \notin disturbed', request'[c] = "clear"
  PROVE  request[c] = "clear" \/ RowsOf(c)' = {}
  <1>1. CASE request' = request
    BY <1>1
  <1>2. CASE Crash \/ Drop
    BY SMTT(30), <1>2 DEF Crash, Drop
  <1>3. ASSUME NEW mode, Deliver(mode) PROVE request' = request
    BY <1>3 DEF Deliver
  <1>4. ASSUME NEW d \in Chats, RevealEnds(d) \/ HistoryArrives(d) \/ HistoryFails(d)
        PROVE  request' = request
    BY <1>4 DEF RevealEnds, HistoryArrives, HistoryFails
  <1>5. ASSUME NEW d \in Chats, DeleteRows(d) \/ DeleteFails(d) \/ ClearMessages(d) \/ PurgeChat(d)
        PROVE  request[c] = "clear"
    <2>1. request' = [request EXCEPT ![d] = "none"] \/ request' = [request EXCEPT ![d] = "delete"]
      BY <1>5 DEF DeleteRows, DeleteFails, ClearMessages, PurgeChat
    <2> QED BY <2>1 DEF Shape, RestShape
  <1>6. ASSUME NEW d \in Chats, AskClear(d) PROVE request[c] = "clear" \/ RowsOf(c)' = {}
    <2>1. CASE c # d
      BY <1>6, <2>1 DEF AskClear, Shape, RestShape
    <2>2. CASE c = d
      <3>1. rows' = rows \ RowsOf(d)
        BY <1>6, <2>2 DEF AskClear
      <3> QED BY <2>2, <3>1 DEF RowsOf
    <2> QED BY <2>1, <2>2
  <1>7. ASSUME NEW i \in Runs, PageArrives(i) PROVE request' = request
    BY <1>7 DEF PageArrives
  <1> QED BY <1>1, <1>2, <1>3, <1>4, <1>5, <1>6, <1>7, RestChanges

InPush(r) == \E k \in 1..Len(push) : push[k] = r

\* The page has row r, and does not lose it.
Kept(r) ==
    \/ reveal[r.chat] = r
    \/ request[r.chat] # "clear" /\ copies[r.chat][r.id] > 0

\* Row r is one the page must have, or get without asking for it.
Due(r) ==
    \/ r.chat \in loaded
    \/ InPush(r)
    \/ history[r.chat].state = "served" /\ r \notin history[r.chat].rows

SeqsBelow == \A r \in rows : r.seq < nextSeq

\* The rows of a chat are pushed in the order of their seqs, after the one that
\* is revealed.
Ordered(c) ==
    /\ mark[c] < nextSeq
    /\ reveal[c].seq < nextSeq
    /\ \A k \in 1..Len(push) :
         push[k].chat = c =>
           /\ push[k].seq < nextSeq
           /\ reveal[c].seq < push[k].seq
           /\ \A j \in 1..(k-1) : push[j].chat = c => push[j].seq < push[k].seq

\* The watermark passes no row that is due and not there, and such a row is in
\* flight unless a backfill is owed.
NoGap(c) ==
    \A r \in RowsOf(c) :
       Due(r) => /\ r.seq <= mark[c] => Kept(r)
                 /\ InPush(r) \/ Kept(r) \/ c \in owed

\* A history in flight is an initial part of the rows.
HistoryFits(c) ==
    history[c].state = "served" =>
       /\ \A s \in history[c].rows : s.seq < nextSeq
       /\ \A r \in RowsOf(c) \ history[c].rows : \A s \in history[c].rows : s.seq < r.seq

\* A page in flight skips no row, and what comes after the last page of a run
\* that started at the last reconnect is pushed.
RunFits(i) ==
    /\ run[i].state # "idle" /\ run[i].chat \notin disturbed => run[i].after <= mark[run[i].chat]
    /\ run[i].state = "served" /\ run[i].chat \notin disturbed =>
         /\ \A p \in run[i].page : p.seq < nextSeq
         /\ \A r \in RowsOf(run[i].chat) :
               r.seq > run[i].after =>
                 /\ (\E p \in run[i].page : r.seq <= p.seq) => r \in run[i].page
                 /\ (run[i].page = {} \/ ~ run[i].more) /\ run[i].fresh
                      => r \in run[i].page \/ InPush(r) \/ Kept(r)

\* Nothing is in flight without a connection.
LinkFits ==
    /\ socket = "down" => push = <<>> /\ \A i \in Runs : ~ run[i].fresh
    /\ ~ opened => loaded = {} /\ \A c \in Chats : history[c].state = "none"
    /\ opened /\ socket = "down" => owed = Chats

GapInv ==
    /\ SeqsBelow /\ LinkFits
    /\ \A c \in Chats \ disturbed : Ordered(c) /\ NoGap(c) /\ HistoryFits(c)
    /\ \A i \in Runs : RunFits(i)

LEMMA SeqFacts ==
  ASSUME Shape
  PROVE  /\ nextSeq \in Nat /\ Len(push) \in Nat
         /\ \A r \in rows : r \in Row /\ r.seq \in Nat /\ r.chat \in Chats /\ r.id \in Ids
         /\ \A r \in Row : r.seq \in Nat /\ r # NoRow
         /\ \A c \in Chats : mark[c] \in Nat /\ reveal[c].seq \in Nat
         /\ \A c \in Chats, i \in Ids : copies[c][i] \in Nat
         /\ \A k \in 1..Len(push) : push[k].seq \in Nat
         /\ \A c \in Chats : \A s \in history[c].rows : s.seq \in Nat
         /\ \A i \in Runs : run[i].after \in Nat /\ \A p \in run[i].page : p.seq \in Nat
  <1>1. nextSeq \in Nat /\ Len(push) \in Nat /\ \A k \in 1..Len(push) : push[k].seq \in Nat
    BY PushRows, RowFacts DEF Shape, ServerShape
  <1>2. \A r \in rows : r \in Row /\ r.seq \in Nat /\ r.chat \in Chats /\ r.id \in Ids
    BY RowFacts DEF Shape, ServerShape
  <1>3. \A c \in Chats : mark[c] \in Nat /\ reveal[c].seq \in Nat
    BY RowFacts DEF Shape, PageShape
  <1>4. \A c \in Chats, i \in Ids : copies[c][i] \in Nat
    BY DEF Shape, PageShape
  <1>5. \A c \in Chats : \A s \in history[c].rows : s.seq \in Nat
    BY RowFacts DEF Shape, FetchShape, FetchRec
  <1>6. \A i \in Runs : run[i].after \in Nat /\ \A p \in run[i].page : p.seq \in Nat
    BY RowFacts DEF Shape, RunShape, RunRec
  <1> QED BY <1>1, <1>2, <1>3, <1>4, <1>5, <1>6, RowFacts

\* A row the page has is kept by every step that disturbs nothing.
LEMMA KeptStays ==
  ASSUME Shape, OnceEach, [Next]_vars,
         NEW r \in rows, r \in rows', r.chat \notin disturbed', Kept(r)
  PROVE  Kept(r)'
  <1> DEFINE c == r.chat
  <1>1. r \in Row /\ c \in Chats /\ r.id \in Ids /\ r # NoRow /\ copies[c][r.id] \in Nat
    BY SeqFacts
  <1>2. request'[c] = "clear" => request[c] = "clear"
    BY <1>1, ClearDoes DEF RowsOf
  <1>3. SUFFICES reveal'[c] = r \/ (request'[c] # "clear" /\ copies'[c][r.id] > 0)
    BY DEF Kept
  <1>4. reveal[c] = r \/ (request[c] # "clear" /\ copies[c][r.id] > 0)
    BY DEF Kept
  <1>5. CASE Leaves(c)
    BY <1>2, <1>4, <1>5 DEF Leaves
  <1>6. ASSUME NEW rs, NEW v, Takes(c, rs, v)
        PROVE  reveal'[c] = r \/ (request'[c] # "clear" /\ copies'[c][r.id] > 0)
    <2>1. /\ copies'[c][r.id] = copies[c][r.id] + (IF r.id \in {x.id : x \in rs} THEN 1 ELSE 0)
          /\ rs # {} => request[c] = "none"
          /\ reveal'[c] = v /\ request' = request /\ reveal[c] \in {NoRow, v} \cup rs
      BY <1>1, <1>6 DEF Takes, AddsRows
    <2>2. CASE r \in rs
      <3>1. r.id \in {x.id : x \in rs} /\ rs # {}
        BY <2>2
      <3> QED BY <1>1, <2>1, <3>1
    <2>3. CASE reveal[c] = r /\ r \notin rs
      BY <1>1, <2>1, <2>3
    <2>4. CASE request[c] # "clear" /\ copies[c][r.id] > 0
      BY <1>1, <2>1, <2>4
    <2> QED BY <1>4, <2>2, <2>3, <2>4
  <1>7. CASE Merges(c)
    <2>1. reveal'[c] = reveal[c] /\ request'[c] = "none"
      BY <1>7 DEF Merges
    <2>2. PICK rs : MergesRows(c, rs)
      BY <1>7 DEF Merges
    <2>3. copies[c][r.id] > 0 => copies'[c][r.id] = 1
      BY <1>1, <2>2 DEF MergesRows
    <2> QED BY <1>1, <1>4, <2>1, <2>3
  <1>8. CASE Empties(c)
    BY <1>4, <1>8 DEF Empties
  <1> QED BY <1>1, <1>5, <1>6, <1>7, <1>8, ListDoes DEF Delivers, Reveals

\* What happens to the frames in flight.
Loses == push' = <<>> /\ owed' = Chats /\ socket' = "down" /\ \A i \in Runs : ~ run'[i].fresh

LEMMA PushDoes ==
  ASSUME Shape, [Next]_vars
  PROVE  \/ push' = push
         \/ Loses /\ (Crash \/ Drop)
         \/ \E c \in Chats : Reply(c)
         \/ \E mode : Deliver(mode)
  <1>1. ASSUME Crash \/ Drop PROVE Loses
    BY <1>1, LostDoes DEF Loses, Crash, Drop, SocketLost, Shape
  <1>2. Open => push' = push
    BY DEF Open
  <1> QED BY <1>1, <1>2, LinkChanges

LEMMA PushStays ==
  ASSUME Shape, OnceEach, [Next]_vars,
         NEW r \in Row, r.chat \notin disturbed', InPush(r)
  PROVE  InPush(r)' \/ Kept(r)' \/ Loses
  <1>1. PICK k \in 1..Len(push) : push[k] = r
    BY DEF InPush
  <1>2. CASE push' = push
    BY <1>1, <1>2 DEF InPush
  <1>3. ASSUME NEW d \in Chats, Reply(d) PROVE InPush(r)'
    <2>1. /\ Len(push) \in Nat
          /\ push' = push \/ (Len(push') = Len(push) + 1 /\ push'[k] = push[k])
      BY <1>1, <1>3, ReplyDoes, SeqFacts DEF Shape
    <2>2. k \in 1..Len(push') /\ push'[k] = r
      BY <1>1, <2>1
    <2> QED BY <2>2 DEF InPush
  <1>4. ASSUME NEW mode, Deliver(mode) PROVE InPush(r)' \/ Kept(r)'
    <2>0. r.chat \in Chats /\ r # NoRow /\ r.id \in Ids
      BY RowFacts
    <2>1. push # <<>> /\ push' = Tail(push)
      BY <1>4, <2>0, PushDelivered
    <2>2. CASE k # 1
      <3>1. /\ Len(push') = Len(push) - 1 /\ Len(push) \in Nat
            /\ \A j \in 1..Len(push') : push'[j] = push[j + 1]
        BY <2>1, FirstPush, SeqFacts DEF Shape
      <3>2. k - 1 \in 1..Len(push') /\ push'[k - 1] = r
        BY <1>1, <2>2, <3>1
      <3> QED BY <3>2 DEF InPush
    <2>3. CASE k = 1
      <3>1. Delivers(r.chat)
        BY <1>1, <1>4, <2>0, <2>3, PushDelivered
      <3>2. PICK rs, v : Takes(r.chat, rs, v) /\ r \in {v} \cup rs
        BY <1>1, <2>3, <3>1 DEF Delivers
      <3>3. CASE v = r
        BY <3>2, <3>3 DEF Takes, Kept
      <3>4. CASE r \in rs
        <4>1. r.id \in {x.id : x \in rs} /\ rs # {}
          BY <3>4
        <4>2. copies'[r.chat][r.id] = copies[r.chat][r.id] + 1 /\ request'[r.chat] = "none"
          BY <2>0, <3>2, <4>1 DEF Takes, AddsRows
        <4>3. copies[r.chat][r.id] \in Nat
          BY <2>0, SeqFacts
        <4> QED BY <4>2, <4>3 DEF Kept
      <3> QED BY <3>2, <3>3, <3>4
    <2> QED BY <2>2, <2>3
  <1> QED BY <1>2, <1>3, <1>4, PushDoes

\* A row that is new was pushed, unless there is no connection; the rest were
\* there, and are of smaller seq.
LEMMA NewRow ==
  ASSUME Shape, [Next]_vars, NEW r \in rows', r \notin rows
  PROVE  /\ Reply(r.chat) /\ r.seq = nextSeq /\ r \in Row /\ nextSeq' = nextSeq + 1
         /\ InPush(r)' \/ socket # "open"
  <1>1. PICK d \in Chats : Reply(d)
    <2>1. ~ UNCHANGED rows
      OBVIOUS
    <2>2. \A d \in Chats : ~ DeleteRows(d) /\ ~ AskClear(d)
      BY DEF DeleteRows, AskClear
    <2>3. ~ Crash
      BY DEF Crash
    <2> QED BY <2>1, <2>2, <2>3, ServerChanges
  <1>2. PICK x \in Row :
           /\ x.id = replies + 1 /\ x.chat = d /\ x.seq = nextSeq /\ rows' = rows \cup {x}
           /\ nextSeq' = nextSeq + 1
           /\ socket # "open" \/ (Len(push') = Len(push) + 1 /\ push'[Len(push) + 1] = x)
    BY <1>1, ReplyDoes DEF Shape
  <1>3. r = x
    BY <1>2
  <1>4. Len(push) \in Nat
    BY SeqFacts
  <1>5. InPush(r)' \/ socket # "open"
    BY <1>2, <1>3, <1>4 DEF InPush
  <1> QED BY <1>1, <1>2, <1>3, <1>5

LEMMA SeqsGrow ==
  ASSUME Shape, SeqsBelow, [Next]_vars
  PROVE  /\ SeqsBelow'
         /\ nextSeq' < nextSeq => disturbed' = Chats
         /\ nextSeq \in Nat /\ nextSeq' \in Nat
  <1>0. nextSeq \in Nat /\ nextSeq' \in Nat
    BY ServerShapeStep DEF Shape, ServerShape
  <1>1. CASE UNCHANGED <<rows, nextSeq, replies>>
    BY <1>0, <1>1 DEF SeqsBelow
  <1>2. CASE Crash
    <2>1. nextSeq' = Max({0} \cup SeqsOf(rows)) + 1 /\ rows' = rows
          /\ (nextSeq' < nextSeq => disturbed' = Chats)
      BY <1>2 DEF Crash
    <2>2. /\ Max({0} \cup SeqsOf(rows)) \in Nat
          /\ \A r \in rows : r.seq \in Nat /\ r.seq <= Max({0} \cup SeqsOf(rows))
      BY MaxOfRows, SeqFacts DEF Shape, ServerShape
    <2> QED BY <1>0, <2>1, <2>2 DEF SeqsBelow
  <1>3. ASSUME NEW d \in Chats, Reply(d)
        PROVE  SeqsBelow' /\ ~ (nextSeq' < nextSeq)
    BY <1>0, <1>3, ReplyDoes, SeqFacts DEF SeqsBelow, Shape
  <1>4. ASSUME NEW d \in Chats, DeleteRows(d) \/ AskClear(d)
        PROVE  SeqsBelow' /\ ~ (nextSeq' < nextSeq)
    <2>1. rows' \subseteq rows /\ nextSeq' = nextSeq
      BY <1>4 DEF DeleteRows, AskClear
    <2> QED BY <1>0, <2>1 DEF SeqsBelow
  <1> QED BY <1>0, <1>1, <1>2, <1>3, <1>4, ServerChanges

\* What is fetched is of smaller seq than the next row.
LEMMA FetchedBelow ==
  ASSUME Shape, GapInv, NEW c \in Chats, c \notin disturbed, NEW rs, Fetched(c, rs)
  PROVE  \A s \in rs : s.seq < nextSeq
  BY DEF Fetched, GapInv, HistoryFits, RunFits

LEMMA OrderedStep ==
  ASSUME Shape, OnceEach, GapInv, [Next]_vars, NEW c \in Chats, c \notin disturbed'
  PROVE  Ordered(c)' /\ mark[c] <= mark'[c]
  <1>a. c \notin disturbed
    BY DisturbedStays
  <1>b. /\ mark[c] < nextSeq /\ reveal[c].seq < nextSeq
        /\ \A k \in 1..Len(push) :
             push[k].chat = c =>
               /\ push[k].seq < nextSeq /\ reveal[c].seq < push[k].seq
               /\ \A j \in 1..(k-1) : push[j].chat = c => push[j].seq < push[k].seq
    BY <1>a DEF GapInv, Ordered
  <1>c. nextSeq \in Nat /\ nextSeq' \in Nat /\ nextSeq <= nextSeq'
    BY SeqsGrow DEF GapInv
  <1>d. /\ mark[c] \in Nat /\ reveal[c].seq \in Nat /\ Len(push) \in Nat
        /\ \A k \in 1..Len(push) : push[k].seq \in Nat
        /\ NoRow.seq = 0
    BY SeqFacts DEF NoRow
  <1>e. mark'[c] \in Nat
    BY ShapeStep, SeqFacts DEF Shape, PageShape
  <1> DEFINE After(m, v) == mark[c] <= m /\ m < nextSeq' /\ v.seq < nextSeq'
             Sorted == \A k \in 1..Len(push') :
                         push'[k].chat = c =>
                           /\ push'[k].seq < nextSeq'
                           /\ reveal'[c].seq < push'[k].seq
                           /\ \A j \in 1..(k-1) : push'[j].chat = c => push'[j].seq < push'[k].seq
  <1>1. SUFFICES After(mark'[c], reveal'[c]) /\ Sorted
    BY DEF Ordered
  <1>t. ASSUME Len(push') = Len(push) - 1,
               \A k \in 1..Len(push') : push'[k] = push[k + 1] /\ k + 1 \in 1..Len(push)
        PROVE  \A k \in 1..Len(push') :
                 push'[k].chat = c =>
                   /\ push'[k].seq < nextSeq' /\ reveal[c].seq < push'[k].seq
                   /\ \A j \in 1..(k-1) : push'[j].chat = c => push'[j].seq < push'[k].seq
    <2> TAKE k \in 1..Len(push')
    <2> HAVE push'[k].chat = c
    <2>1. push'[k] = push[k + 1] /\ k + 1 \in 1..Len(push) /\ push[k + 1].chat = c
      BY <1>t
    <2>2. push'[k].seq < nextSeq /\ reveal[c].seq < push'[k].seq /\ push'[k].seq \in Nat
      BY <1>b, <1>d, <2>1
    <2>3. ASSUME NEW j \in 1..(k-1), push'[j].chat = c PROVE push'[j].seq < push'[k].seq
      <3>1. j \in 1..Len(push') /\ j + 1 \in 1..((k + 1) - 1)
        BY <1>d, <1>t
      <3>2. push'[j] = push[j + 1] /\ push[j + 1].chat = c
        BY <1>t, <2>3, <3>1
      <3>3. push[j + 1].seq < push[k + 1].seq
        BY <1>b, <2>1, <3>1, <3>2
      <3> QED BY <2>1, <3>2, <3>3
    <2> QED BY <1>c, <2>2, <2>3
  <1>2. CASE Leaves(c)
    <2>1. mark'[c] = mark[c] /\ reveal'[c] = reveal[c]
      BY <1>2 DEF Leaves
    <2>2. After(mark'[c], reveal'[c])
      BY <1>b, <1>c, <1>d, <2>1
    <2>3. CASE push' = push
      BY <1>b, <1>c, <1>d, <2>1, <2>3
    <2>4. ASSUME Loses PROVE Sorted
      <3>1. push' = <<>>
        BY <2>4 DEF Loses
      <3>2. Len(push') = 0
        BY <3>1
      <3> QED BY <3>2
    <2>5. ASSUME NEW d \in Chats, Reply(d) PROVE Sorted
      <3>1. PICK r \in Row :
               /\ r.seq = nextSeq /\ nextSeq' = nextSeq + 1
               /\ \/ push' = push
                  \/ /\ Len(push') = Len(push) + 1 /\ push'[Len(push) + 1] = r
                     /\ \A k \in 1..Len(push) : push'[k] = push[k]
        BY <2>5, ReplyDoes DEF Shape
      <3>2. CASE /\ Len(push') = Len(push) + 1 /\ push'[Len(push) + 1] = r
                 /\ \A k \in 1..Len(push) : push'[k] = push[k]
        <4> SUFFICES ASSUME NEW k \in 1..Len(push'), push'[k].chat = c
                     PROVE  /\ push'[k].seq < nextSeq'
                            /\ reveal'[c].seq < push'[k].seq
                            /\ \A j \in 1..(k-1) : push'[j].chat = c => push'[j].seq < push'[k].seq
          OBVIOUS
        <4>1. CASE k = Len(push) + 1
          <5>1. \A j \in 1..(k-1) : j \in 1..Len(push) /\ push'[j] = push[j]
            BY <1>d, <3>2, <4>1
          <5>2. push'[k] = r
            BY <3>2, <4>1
          <5>3. \A j \in 1..(k-1) : push'[j].chat = c => push'[j].seq < push'[k].seq
            BY <1>b, <3>1, <5>1, <5>2
          <5>4. push'[k].seq < nextSeq' /\ reveal'[c].seq < push'[k].seq
            BY <1>b, <1>c, <2>1, <3>1, <5>2
          <5> QED BY <5>3, <5>4
        <4>2. CASE k \in 1..Len(push)
          <5>1. \A j \in 1..(k-1) : j \in 1..Len(push) /\ push'[j] = push[j]
            BY <1>d, <3>2, <4>2
          <5>2. push'[k] = push[k]
            BY <3>2, <4>2
          <5>3. \A j \in 1..(k-1) : push'[j].chat = c => push'[j].seq < push'[k].seq
            BY <1>b, <4>2, <5>1, <5>2
          <5>4. push[k].seq < nextSeq /\ reveal[c].seq < push[k].seq /\ push[k].seq \in Nat
            BY <1>b, <1>d, <4>2, <5>2
          <5>5. push'[k].seq < nextSeq' /\ reveal'[c].seq < push'[k].seq
            BY <1>c, <2>1, <3>1, <5>2, <5>4
          <5> QED BY <5>3, <5>5
        <4> QED BY <1>d, <3>2, <4>1, <4>2
      <3> QED BY <2>3, <3>1, <3>2
    <2>6. ASSUME NEW mode, Deliver(mode) PROVE Sorted
      <3>1. push # <<>> /\ push' = Tail(push)
        BY <2>6, PushDelivered
      <3>2. /\ Len(push') = Len(push) - 1
            /\ \A k \in 1..Len(push') : push'[k] = push[k + 1] /\ k + 1 \in 1..Len(push)
        BY <3>1, FirstPush DEF Shape
      <3> QED BY <1>t, <2>1, <3>2
    <2> QED BY <2>2, <2>3, <2>4, <2>5, <2>6, PushDoes
  <1>3. ASSUME NEW rs, NEW v, Takes(c, rs, v), v.seq < nextSeq, \A x \in rs : x.seq < nextSeq
        PROVE  After(mark'[c], reveal'[c])
    <2>1. /\ mark[c] <= mark'[c] /\ reveal'[c] = v
          /\ mark'[c] = mark[c] \/ \E x \in rs : mark'[c] = x.seq
          /\ rs \in SUBSET Row
      BY <1>3 DEF Takes, AddsRows
    <2>2. mark'[c] < nextSeq
      BY <1>3, <1>b, <2>1
    <2>3. v.seq < nextSeq'
      <3>1. CASE v \in {NoRow}
        BY <1>c, <1>3, <1>d, <3>1
      <3>2. CASE v # NoRow
        <4>1. reveal'[c].seq \in Nat
          BY ShapeStep, RowFacts DEF Shape, PageShape
        <4> QED BY <1>3, <1>c, <2>1, <4>1
      <3> QED BY <3>1, <3>2
    <2> QED BY <1>c, <1>e, <2>1, <2>2, <2>3
  <1>4. CASE Delivers(c)
    <2>1. push # <<>> /\ push' = Tail(push) /\ push[1].chat = c
      BY <1>4 DEF Delivers
    <2>2. PICK rs, v : /\ Takes(c, rs, v) /\ v \in {NoRow, push[1], reveal[c]}
                       /\ rs \subseteq {push[1], reveal[c]}
      BY <1>4 DEF Delivers
    <2>3. /\ 1 \in 1..Len(push) /\ Len(push') = Len(push) - 1
          /\ \A k \in 1..Len(push') : push'[k] = push[k + 1] /\ k + 1 \in 1..Len(push) /\ 1 \in 1..k
      BY <2>1, FirstPush, <1>d DEF Shape
    <2>4. v.seq < nextSeq /\ \A x \in rs : x.seq < nextSeq
      <3>1. push[1].seq < nextSeq /\ reveal[c].seq < nextSeq
        BY <1>b, <2>1, <2>3
      <3>2. NoRow.seq < nextSeq
        BY <1>b, <1>c, <1>d
      <3> QED BY <2>2, <3>1, <3>2
    <2>5. After(mark'[c], reveal'[c])
      BY <1>3, <2>2, <2>4
    <2>6. reveal'[c] = v
      BY <2>2 DEF Takes
    <2>7. \A k \in 1..Len(push') : push'[k].chat = c => v.seq < push'[k].seq
      <3> TAKE k \in 1..Len(push')
      <3> HAVE push'[k].chat = c
      <3>1. /\ k + 1 \in 1..Len(push) /\ push'[k] = push[k + 1]
            /\ reveal[c].seq < push'[k].seq /\ 1 \in 1..((k + 1) - 1)
        BY <1>b, <2>3
      <3>2. push[1].seq < push'[k].seq
        BY <1>b, <2>1, <3>1
      <3>3. push'[k].seq \in Nat /\ 0 < push'[k].seq
        BY <1>d, <3>1
      <3> QED BY <1>d, <2>2, <3>1, <3>2, <3>3
    <2>8. Sorted
      <3>1. \A k \in 1..Len(push') :
              push'[k].chat = c =>
                /\ push'[k].seq < nextSeq' /\ reveal[c].seq < push'[k].seq
                /\ \A j \in 1..(k-1) : push'[j].chat = c => push'[j].seq < push'[k].seq
        BY <1>t, <2>3
      <3> QED BY <2>6, <2>7, <3>1
    <2> QED BY <2>5, <2>8
  <1>5. CASE Reveals(c)
    <2>1. push' = push /\ Takes(c, {reveal[c]}, NoRow)
      BY <1>5 DEF Reveals
    <2>2. NoRow.seq < nextSeq
      BY <1>b, <1>c, <1>d
    <2>3. After(mark'[c], reveal'[c])
      <3>1. \A x \in {reveal[c]} : x.seq < nextSeq
        BY <1>b
      <3> QED BY <1>3, <2>1, <2>2, <3>1
    <2>4. reveal'[c] = NoRow
      BY <2>1 DEF Takes
    <2> QED BY <1>b, <1>c, <1>d, <2>1, <2>3, <2>4
  <1>6. CASE Merges(c)
    <2>1. push' = push /\ reveal'[c] = reveal[c]
      BY <1>6 DEF Merges
    <2>2. PICK rs : MergesRows(c, rs) /\ Fetched(c, rs)
      BY <1>6 DEF Merges
    <2>3. mark[c] <= mark'[c] /\ mark'[c] < nextSeq
      BY <1>a, <1>b, <2>2, FetchedBelow DEF MergesRows
    <2> QED BY <1>b, <1>c, <1>d, <1>e, <2>1, <2>3
  <1>7. CASE Empties(c)
    <2>1. push' = push /\ reveal'[c] = reveal[c] /\ mark'[c] = mark[c]
      BY <1>7 DEF Empties
    <2> QED BY <1>b, <1>c, <1>d, <2>1
  <1> HIDE DEF After, Sorted
  <1> QED BY <1>2, <1>4, <1>5, <1>6, <1>7, ListDoes

\* The watermark passes a row that is due only with the row.
LEMMA MarkPasses ==
  ASSUME Shape, OnceEach, GapInv, [Next]_vars, NEW r \in rows, r \in rows',
         r.chat \notin disturbed', Due(r), mark[r.chat] < r.seq, r.seq <= mark'[r.chat]
  PROVE  Kept(r)'
  <1> DEFINE c == r.chat
  <1>a. /\ r \in Row /\ c \in Chats /\ r.id \in Ids /\ r \in RowsOf(c) /\ r.seq \in Nat
        /\ mark[c] \in Nat /\ copies[c][r.id] \in Nat /\ c \notin disturbed
    BY SeqFacts, DisturbedStays DEF RowsOf
  <1>b. (InPush(r) \/ Kept(r) \/ c \in owed) /\ Ordered(c) /\ HistoryFits(c)
    BY <1>a DEF GapInv, NoGap
  <1>c. Len(push) \in Nat /\ \A k \in 1..Len(push) : push[k].seq \in Nat
    BY SeqFacts
  <1>1. CASE Kept(r)
    BY <1>1, KeptStays
  <1>2. CASE Leaves(c) \/ Empties(c)
    <2>1. mark'[c] = mark[c]
      BY <1>2 DEF Leaves, Empties
    <2> QED BY <1>a, <2>1
  <1>3. ASSUME NEW rs, NEW v, Takes(c, rs, v), ~ Kept(r)
        PROVE  InPush(r) /\ \E x \in rs : r.seq <= x.seq
    <2>1. \E x \in rs : mark'[c] = x.seq
      BY <1>3, <1>a DEF Takes, AddsRows
    <2>2. c \notin owed
      BY <1>3, <2>1 DEF Takes, AddsRows
    <2> QED BY <1>b, <1>3, <2>1, <2>2
  <1>4. ASSUME Delivers(c), ~ Kept(r) PROVE Kept(r)'
    <2>1. push # <<>> /\ push[1].chat = c
      BY <1>4 DEF Delivers
    <2>2. PICK rs, v : Takes(c, rs, v) /\ rs \subseteq {push[1], reveal[c]}
      BY <1>4 DEF Delivers
    <2>3. PICK x \in rs : r.seq <= x.seq
      BY <1>3, <1>4, <2>2
    <2>4. PICK k \in 1..Len(push) : push[k] = r
      BY <1>3, <1>4, <2>2 DEF InPush
    <2>5. reveal[c].seq < r.seq /\ reveal[c].seq \in Nat
      BY <1>a, <1>b, <2>4, SeqFacts DEF Ordered
    <2>6. x = push[1]
      BY <1>a, <2>2, <2>3, <2>5
    <2>7. k = 1
      <3>1. k # 1 => 1 \in 1..(k-1)
        BY <1>c
      <3>2. k # 1 => push[1].seq < r.seq
        BY <1>b, <2>1, <2>4, <3>1 DEF Ordered
      <3>3. 1 \in 1..Len(push) /\ push[1].seq \in Nat
        BY <1>c, <2>4
      <3> QED BY <1>a, <2>3, <2>6, <3>2, <3>3
    <2>8. r \in rs
      BY <2>3, <2>4, <2>6, <2>7
    <2>9. r.id \in {y.id : y \in rs} /\ rs # {}
      BY <2>8
    <2>10. copies'[c][r.id] = copies[c][r.id] + 1 /\ request'[c] = "none"
      BY <1>a, <2>2, <2>9 DEF Takes, AddsRows
    <2> QED BY <1>a, <2>10 DEF Kept
  <1>5. ASSUME Reveals(c), ~ Kept(r) PROVE FALSE
    <2>1. InPush(r) /\ r.seq <= reveal[c].seq
      BY <1>3, <1>5 DEF Reveals
    <2>2. reveal[c].seq < r.seq /\ reveal[c].seq \in Nat
      BY <1>a, <1>b, <2>1, SeqFacts DEF InPush, Ordered
    <2> QED BY <1>a, <2>1, <2>2
  <1>6. CASE Merges(c)
    <2>1. PICK rs : MergesRows(c, rs) /\ Fetched(c, rs)
      BY <1>6 DEF Merges
    <2>2. PICK x \in rs : mark'[c] = x.seq
      BY <1>a, <2>1 DEF MergesRows
    <2>3. r \in rs
      <3>1. CASE history[c].state = "served" /\ rs = history[c].rows
        <4>1. x.seq \in Nat
          BY <1>a, <2>2, <3>1, SeqFacts
        <4>2. r \notin rs => x.seq < r.seq
          BY <1>a, <1>b, <2>2, <3>1 DEF HistoryFits
        <4> QED BY <1>a, <2>2, <4>1, <4>2
      <3>2. ASSUME NEW i \in Runs, run[i].state = "served", run[i].chat = c, rs = run[i].page
            PROVE  r \in rs
        <4>1. run[i].after <= mark[c] /\ run[i].after \in Nat
          BY <1>a, <3>2, SeqFacts DEF GapInv, RunFits
        <4>2. r.seq > run[i].after
          BY <1>a, <4>1
        <4> QED BY <1>a, <2>2, <3>2, <4>2 DEF GapInv, RunFits
      <3> QED BY <2>1, <3>1, <3>2 DEF Fetched
    <2>4. r.id \in {y.id : y \in rs}
      BY <2>3
    <2>5. copies'[c][r.id] = 1 /\ request'[c] = "none"
      BY <1>a, <1>6, <2>1, <2>4 DEF MergesRows, Merges
    <2> QED BY <2>5 DEF Kept
  <1> QED BY <1>a, <1>1, <1>2, <1>4, <1>5, <1>6, ListDoes

\* A row becomes due when it is pushed, or when the page gets it.
LEMMA DueNew ==
  ASSUME Shape, OnceEach, GapInv, [Next]_vars, NEW r \in rows, r \in rows',
         r.chat \notin disturbed', Due(r)', ~ Due(r)
  PROVE  Kept(r)'
  <1> DEFINE c == r.chat
  <1>a. /\ r \in Row /\ c \in Chats /\ r.id \in Ids /\ r \in RowsOf(c) /\ r.seq < nextSeq
        /\ r.seq \in Nat /\ nextSeq \in Nat /\ copies[c][r.id] \in Nat /\ Len(push) \in Nat
    BY SeqFacts DEF RowsOf, GapInv, SeqsBelow
  <1>b. /\ c \notin loaded /\ ~ InPush(r)
        /\ history[c].state = "served" => r \in history[c].rows
    BY DEF Due
  <1>1. ASSUME InPush(r)' PROVE FALSE
    <2>1. PICK k \in 1..Len(push') : push'[k] = r
      BY <1>1 DEF InPush
    <2>2. push' # push
      BY <1>b, <2>1 DEF InPush
    <2>3. ~ Loses
      BY <2>1 DEF Loses
    <2>4. ASSUME NEW mode, Deliver(mode) PROVE FALSE
      <3>1. push # <<>> /\ push' = Tail(push)
        BY <2>4, <1>a, PushDelivered
      <3>2. push'[k] = push[k + 1] /\ k + 1 \in 1..Len(push)
        BY <2>1, <3>1, FirstPush DEF Shape
      <3> QED BY <1>b, <2>1, <3>2 DEF InPush
    <2>5. ASSUME NEW d \in Chats, Reply(d) PROVE FALSE
      <3>1. PICK x \in Row : /\ x.seq = nextSeq /\ Len(push') = Len(push) + 1
                             /\ push'[Len(push) + 1] = x
                             /\ \A j \in 1..Len(push) : push'[j] = push[j]
        BY <2>2, <2>5, ReplyDoes DEF Shape
      <3>2. k \in 1..Len(push)
        BY <1>a, <2>1, <3>1
      <3> QED BY <1>b, <2>1, <3>1, <3>2 DEF InPush
    <2> QED BY <2>2, <2>3, <2>4, <2>5, PushDoes
  <1>2. CASE c \in loaded'
    <2>1. loaded' # loaded
      BY <1>b, <1>2
    <2>2. HistoryArrives(c)
      <3>1. \A mode : ~ Deliver(mode)
        BY <2>1 DEF Deliver
      <3>2. \A d \in Chats : ~ RevealEnds(d) /\ ~ ClearMessages(d) /\ ~ PurgeChat(d)
        BY <1>2, <1>b DEF RevealEnds, ClearMessages, PurgeChat
      <3>3. \A i \in Runs : ~ PageArrives(i)
        BY <2>1 DEF PageArrives
      <3>4. \A d \in Chats : HistoryFails(d) => c # d
        BY <2>1 DEF HistoryFails
      <3>5. \A d \in Chats : HistoryFails(d) => loaded' \in {loaded, loaded \cup {d}}
        BY DEF HistoryFails
      <3>6. \A d \in Chats : HistoryArrives(d) => loaded' = loaded \cup {d}
        BY DEF HistoryArrives
      <3> QED BY <1>2, <1>b, <2>1, <3>1, <3>2, <3>3, <3>4, <3>5, <3>6, PageChanges
    <2>3. /\ history[c].state = "served" /\ MergeMessages(c, history[c].rows)
          /\ request' = request /\ (request[c] # "none" => c \in disturbed')
      BY <2>2 DEF HistoryArrives
    <2>4. history[c].rows \in SUBSET Row /\ IsFiniteSet(history[c].rows)
      BY <1>a DEF Shape, FetchShape, FetchRec
    <2>5. MergesRows(c, history[c].rows)
      BY <1>a, <2>3, <2>4, MergeDoes DEF Shape
    <2>6. r.id \in {y.id : y \in history[c].rows}
      BY <1>b, <2>3
    <2>7. copies'[c][r.id] = 1
      BY <1>a, <2>5, <2>6 DEF MergesRows
    <2> QED BY <2>3, <2>7 DEF Kept
  <1>3. ASSUME history'[c].state = "served", r \notin history'[c].rows PROVE FALSE
    <2>1. history' # history
      BY <1>b, <1>3
    <2>2. ASSUME NEW d \in Chats, ServeHistory(d) PROVE FALSE
      <3>1. history' = [history EXCEPT ![d] = [state |-> "served", rows |-> RowsOf(d)]]
        BY <2>2 DEF ServeHistory
      <3> QED BY <1>3, <1>a, <1>b, <3>1 DEF Shape, FetchShape
    <2>3. ASSUME NEW d \in Chats, AskHistory(d) \/ HistoryArrives(d) \/ HistoryFails(d) PROVE FALSE
      <3>1. \/ history' = [history EXCEPT ![d] = [state |-> "asked", rows |-> {}]]
            \/ history' = [history EXCEPT ![d] = NoFetch]
        BY <2>3 DEF AskHistory, HistoryArrives, HistoryFails
      <3> QED BY <1>3, <1>a, <1>b, <3>1 DEF Shape, FetchShape, NoFetch
    <2> QED BY <2>1, <2>2, <2>3, FetchChanges
  <1> QED BY <1>1, <1>2, <1>3 DEF Due

\* A chat is paid when a run that started at the last reconnect has its last page.
LEMMA OwedPaid ==
  ASSUME Shape, OnceEach, GapInv, [Next]_vars, NEW c \in Chats, c \in owed, c \notin owed',
         c \notin disturbed', NEW r \in rows, r \in rows', r.chat = c, Due(r)
  PROVE  InPush(r)' \/ Kept(r)'
  <1>a. /\ c \notin disturbed /\ r \in Row /\ r \in RowsOf(c) /\ r.id \in Ids /\ r.seq \in Nat
        /\ mark[c] \in Nat /\ copies[c][r.id] \in Nat
    BY DisturbedStays, SeqFacts DEF RowsOf
  <1>1. PICK i \in Runs : PageArrives(i)
    <2>1. ~ Crash /\ ~ Drop
      BY DEF Crash, Drop, SocketLost
    <2>2. \A mode : ~ Deliver(mode)
      BY DEF Deliver, gapVars
    <2>3. \A d \in Chats : /\ ~ DeleteRows(d) /\ ~ DeleteFails(d) /\ ~ RevealEnds(d)
                           /\ ~ HistoryArrives(d) /\ ~ HistoryFails(d)
                           /\ ~ AskClear(d) /\ ~ ClearMessages(d) /\ ~ PurgeChat(d)
      BY DEF DeleteRows, DeleteFails, RevealEnds, HistoryArrives, HistoryFails, AskClear,
             ClearMessages, PurgeChat, gapVars
    <2> QED BY <2>1, <2>2, <2>3, RestChanges
  <1>2. /\ run[i].state = "served" /\ run[i].chat = c /\ run[i].fresh
        /\ run[i].page = {} \/ ~ run[i].more
        /\ UNCHANGED <<push, request>> /\ request[c] = "none"
        /\ run[i].page # {} => MergeMessages(c, run[i].page)
    BY <1>1 DEF PageArrives, linkVars
  <1>3. ASSUME Kept(r) PROVE Kept(r)'
    BY <1>3, <1>a, KeptStays
  <1>4. run[i].after \in Nat /\ run[i].after <= mark[c]
    BY <1>2, <1>a, SeqFacts DEF GapInv, RunFits
  <1>5. CASE r.seq <= run[i].after
    <2>1. r.seq <= mark[c]
      BY <1>4, <1>5, <1>a
    <2>2. Kept(r)
      BY <1>a, <2>1 DEF GapInv, NoGap
    <2> QED BY <1>3, <2>2
  <1>6. CASE r.seq > run[i].after
    <2>1. r \in run[i].page \/ InPush(r) \/ Kept(r)
      BY <1>2, <1>6, <1>a DEF GapInv, RunFits
    <2>2. InPush(r) => InPush(r)'
      BY <1>2 DEF InPush
    <2>3. ASSUME r \in run[i].page PROVE Kept(r)'
      <3>1. run[i].page \in SUBSET Row /\ IsFiniteSet(run[i].page)
        BY DEF Shape, RunShape, RunRec
      <3>2. MergesRows(c, run[i].page)
        BY <1>2, <2>3, <3>1, MergeDoes DEF Shape
      <3>3. r.id \in {y.id : y \in run[i].page}
        BY <2>3
      <3>4. copies'[c][r.id] = 1 /\ request'[c] = "none"
        BY <1>2, <1>a, <3>2, <3>3 DEF MergesRows
      <3> QED BY <3>4 DEF Kept
    <2> QED BY <1>3, <2>1, <2>2, <2>3
  <1> QED BY <1>4, <1>5, <1>6, <1>a

\* A row that is stored while there is no connection is due only if the chat
\* owes a backfill.
LEMMA NoGapStep ==
  ASSUME Shape, OnceEach, GapInv, [Next]_vars, NEW c \in Chats, c \notin disturbed'
  PROVE  NoGap(c)'
  <1>a. c \notin disturbed /\ NoGap(c) /\ Ordered(c) /\ LinkFits
    BY DisturbedStays DEF GapInv
  <1> SUFFICES ASSUME NEW r \in rows', r.chat = c, Due(r)'
               PROVE  /\ r.seq <= mark'[c] => Kept(r)'
                      /\ InPush(r)' \/ Kept(r)' \/ c \in owed'
    BY DEF NoGap, RowsOf
  <1>1. CASE r \notin rows
    <2>1. Reply(c) /\ r.seq = nextSeq /\ (InPush(r)' \/ socket # "open")
      BY <1>1, NewRow
    <2>2. mark'[c] < nextSeq /\ nextSeq \in Nat /\ mark'[c] \in Nat
      BY <1>a, <2>1, SeqFacts DEF Reply, pageVars, Ordered
    <2>3. ~ InPush(r)' => c \in owed'
      <3>1. UNCHANGED <<socket, opened, loaded, history, owed>>
        BY <2>1 DEF Reply, pageVars, gapVars
      <3>2. ASSUME ~ InPush(r)' PROVE opened /\ socket = "down"
        <4>1. c \in loaded \/ history[c].state = "served"
          BY <3>1, <3>2 DEF Due
        <4>2. opened
          BY <1>a, <4>1 DEF LinkFits
        <4>3. socket = "down"
          BY <2>1, <3>2 DEF Shape, LinkShape
        <4> QED BY <4>2, <4>3
      <3> QED BY <1>a, <3>1, <3>2 DEF LinkFits
    <2> QED BY <2>1, <2>2, <2>3
  <1>2. CASE r \in rows /\ ~ Due(r)
    BY <1>2, DueNew
  <1>3. CASE r \in rows /\ Due(r)
    <2>1. r \in RowsOf(c) /\ r \in Row /\ r.seq \in Nat /\ mark[c] \in Nat
      BY <1>3, SeqFacts DEF RowsOf
    <2>2. (r.seq <= mark[c] => Kept(r)) /\ (InPush(r) \/ Kept(r) \/ c \in owed)
      BY <1>3, <1>a, <2>1 DEF NoGap
    <2>3. Kept(r) => Kept(r)'
      BY <1>3, KeptStays
    <2>4. r.seq <= mark'[c] => Kept(r)'
      <3>1. r.seq <= mark[c] \/ mark[c] < r.seq
        BY <2>1
      <3> QED BY <1>3, <2>2, <2>3, <3>1, MarkPasses
    <2>5. InPush(r) => InPush(r)' \/ Kept(r)' \/ c \in owed'
      BY <2>1, PushStays DEF Loses
    <2>6. c \in owed => InPush(r)' \/ Kept(r)' \/ c \in owed'
      BY <1>3, OwedPaid
    <2> QED BY <2>2, <2>3, <2>4, <2>5, <2>6
  <1> QED BY <1>1, <1>2, <1>3

LEMMA HistoryFitsStep ==
  ASSUME Shape, GapInv, [Next]_vars, NEW c \in Chats, c \notin disturbed'
  PROVE  HistoryFits(c)'
  <1>a. /\ c \notin disturbed /\ HistoryFits(c) /\ SeqsBelow
        /\ nextSeq \in Nat /\ nextSeq' \in Nat /\ nextSeq <= nextSeq'
    BY DisturbedStays, SeqsGrow DEF GapInv
  <1>1. CASE history'[c] = history[c]
    <2> SUFFICES ASSUME history[c].state = "served"
                 PROVE  /\ \A s \in history[c].rows : s.seq < nextSeq'
                        /\ \A r \in RowsOf(c)' \ history[c].rows :
                             \A s \in history[c].rows : s.seq < r.seq
      BY <1>1 DEF HistoryFits
    <2>1. \A s \in history[c].rows : s.seq \in Nat /\ s.seq < nextSeq
      BY <1>a, SeqFacts DEF HistoryFits
    <2>2. ASSUME NEW r \in RowsOf(c)', r \notin history[c].rows
          PROVE  \A s \in history[c].rows : s.seq < r.seq
      <3>1. CASE r \in rows
        BY <1>a, <2>2, <3>1 DEF HistoryFits, RowsOf
      <3>2. CASE r \notin rows
        <4>1. r.seq = nextSeq
          BY <3>2, NewRow DEF RowsOf
        <4> QED BY <2>1, <4>1
      <3> QED BY <3>1, <3>2
    <2> QED BY <1>a, <2>1, <2>2
  <1>2. ASSUME ServeHistory(c) PROVE HistoryFits(c)'
    <2>1. history'[c] = [state |-> "served", rows |-> RowsOf(c)] /\ UNCHANGED <<rows, nextSeq>>
      BY <1>2 DEF ServeHistory, serverVars, Shape, FetchShape
    <2>2. RowsOf(c)' = RowsOf(c) /\ \A s \in RowsOf(c) : s.seq < nextSeq
      BY <1>a, <2>1 DEF RowsOf, SeqsBelow
    <2> QED BY <2>1, <2>2 DEF HistoryFits
  <1>3. ASSUME NEW d \in Chats, d # c, ServeHistory(d) PROVE history'[c] = history[c]
    BY <1>3 DEF ServeHistory, Shape, FetchShape
  <1>4. ASSUME NEW d \in Chats, AskHistory(d) \/ HistoryArrives(d) \/ HistoryFails(d)
        PROVE  history'[c] = history[c] \/ history'[c].state # "served"
    <2>1. \/ history' = [history EXCEPT ![d] = [state |-> "asked", rows |-> {}]]
          \/ history' = [history EXCEPT ![d] = NoFetch]
      BY <1>4 DEF AskHistory, HistoryArrives, HistoryFails
    <2> QED BY <2>1 DEF Shape, FetchShape, NoFetch
  <1>5. CASE history'[c].state # "served"
    BY <1>5 DEF HistoryFits
  <1> QED BY <1>1, <1>2, <1>3, <1>4, <1>5, FetchChanges

\* What becomes of a run.
LEMMA RunDoes ==
  ASSUME Shape, [Next]_vars, NEW i \in Runs
  PROVE  \/ run'[i] = run[i]
         \/ /\ Loses
            /\ run'[i].state = run[i].state /\ run'[i].chat = run[i].chat
            /\ run'[i].after = run[i].after /\ run'[i].page = run[i].page
            /\ run'[i].more = run[i].more
         \/ run'[i].state = "idle" /\ ~ run'[i].fresh
         \/ /\ run'[i].state = "asked" /\ run'[i].chat \in Chats
            /\ run'[i].after = mark'[run'[i].chat]
            /\ run'[i].fresh => run[i].fresh \/ socket' = "open"
         \/ /\ ServePage(i)
            /\ run'[i].state = "served" /\ run'[i].chat = run[i].chat /\ run'[i].after = run[i].after
            /\ run'[i].page = PageAfter(run[i].chat, run[i].after)
            /\ run'[i].more = HasMore(run[i].chat, run[i].after)
            /\ run'[i].fresh = run[i].fresh
  <1>0. PageShape' /\ RunShape
    BY ShapeStep DEF Shape
  <1>1. CASE UNCHANGED run
    BY <1>1
  <1>2. CASE Crash \/ Drop
    <2>1. Loses /\ SocketLost
      BY <1>2, LostDoes DEF Loses, Crash, Drop, SocketLost, Shape
    <2> QED BY <2>1, <1>0, LostDoes
  <1>3. CASE Open
    <2>1. socket' = "open" /\ mark' = mark
      BY <1>3 DEF Open, pageVars
    <2>2. ASSUME NEW j \in Runs, NEW g, run' = [run EXCEPT ![j] = g], g.state = "asked",
                 g.chat \in Chats, g.after = mark[g.chat], run'[i] # run[i]
          PROVE  run'[i].state = "asked" /\ run'[i].chat \in Chats /\ run'[i].after = mark'[run'[i].chat]
      <3>1. run'[i] = g
        BY <1>0, <2>2 DEF RunShape
      <3> QED BY <2>1, <2>2, <3>1
    <2> QED BY <1>0, <1>1, <1>3, <2>1, <2>2, OpenDoes DEF Shape
  <1>4. ASSUME NEW j \in Runs, ServePage(j) PROVE run'[i] = run[i] \/ j = i
    BY <1>0, <1>4 DEF ServePage, RunShape
  <1>5. CASE ServePage(i)
    <2>1. PICK g : /\ run' = [run EXCEPT ![i] = g]
                   /\ g.state = "served" /\ g.chat = run[i].chat /\ g.after = run[i].after
                   /\ g.page = PageAfter(g.chat, g.after) /\ g.more = HasMore(g.chat, g.after)
                   /\ g.fresh = run[i].fresh
      BY <1>0, <1>5, ServePageDoes DEF Shape
    <2>2. run'[i] = g
      BY <1>0, <2>1 DEF RunShape
    <2> QED BY <1>5, <2>1, <2>2
  <1>6. ASSUME NEW j \in Runs, PageArrives(j) \/ PageFails(j)
        PROVE  \/ run'[i] = run[i]
               \/ run'[i].state = "idle" /\ ~ run'[i].fresh
               \/ /\ run'[i].state = "asked" /\ run'[i].chat \in Chats
                  /\ run'[i].after = mark'[run'[i].chat]
                  /\ run'[i].fresh => run[i].fresh
    <2>1. PICK g : /\ run' = [run EXCEPT ![j] = g]
                   /\ \/ g = NoRun
                      \/ /\ g.state = "asked" /\ g.chat \in Chats /\ g.fresh = run[j].fresh
                         /\ g.after = mark'[g.chat]
      BY <1>0, <1>6, PageArrivesDoes, PageFailsDoes
    <2>2. IF j = i THEN run'[i] = g ELSE run'[i] = run[i]
      BY <1>0, <2>1 DEF RunShape
    <2>3. NoRun.state = "idle" /\ ~ NoRun.fresh
      BY DEF NoRun
    <2> HIDE DEF NoRun
    <2> QED BY <2>1, <2>2, <2>3
  <1> QED BY <1>1, <1>2, <1>3, <1>4, <1>5, <1>6, RunChanges

LEMMA RunFitsStep ==
  ASSUME Shape, OnceEach, GapInv, [Next]_vars, NEW i \in Runs
  PROVE  RunFits(i)'
  <1> DEFINE g == run[i]
             h == run'[i]
  <1>a. /\ SeqsBelow /\ SeqsBelow' /\ LinkFits /\ disturbed \subseteq disturbed'
        /\ nextSeq \in Nat /\ nextSeq' \in Nat
        /\ \A c \in Chats \ disturbed' : nextSeq <= nextSeq'
    BY DisturbedStays, SeqsGrow DEF GapInv
  <1>b. /\ g.after \in Nat /\ (\A p \in g.page : p.seq \in Nat)
        /\ g.state # "idle" => g.chat \in Chats
    BY SeqFacts DEF Shape, RunShape
  <1>c. /\ Shape' /\ h.after \in Nat /\ (\A p \in h.page : p.seq \in Nat)
        /\ h.state # "idle" => h.chat \in Chats
    BY ShapeStep, SeqFacts DEF Shape, RunShape, RunRec, Row
  <1>1. ASSUME h.state # "idle", h.chat \notin disturbed'
        PROVE  h.after <= mark'[h.chat]
    <2>1. CASE h.after = mark'[h.chat] /\ h.chat \in Chats
      BY <1>c, <2>1
    <2>2. CASE h.state = g.state /\ h.chat = g.chat /\ h.after = g.after
      <3>1. g.after <= mark[g.chat] /\ g.chat \in Chats
        BY <1>1, <1>a, <1>b, <2>2 DEF GapInv, RunFits
      <3>2. mark[g.chat] <= mark'[g.chat]
        BY <1>1, <2>2, <3>1, OrderedStep
      <3>3. mark[g.chat] \in Nat /\ mark'[g.chat] \in Nat
        BY <1>c, <3>1 DEF Shape, PageShape
      <3> QED BY <1>b, <2>2, <3>1, <3>2, <3>3
    <2>3. CASE ServePage(i) /\ h.chat = g.chat /\ h.after = g.after
      <3>1. mark' = mark /\ disturbed' = disturbed /\ g.state # "idle"
        BY <2>3 DEF ServePage, pageVars
      <3>2. g.after <= mark[g.chat]
        BY <1>1, <2>3, <3>1 DEF GapInv, RunFits
      <3> QED BY <2>3, <3>1, <3>2
    <2> QED BY <1>1, <2>1, <2>2, <2>3, RunDoes
  <1>2. ASSUME h.state = "served", h.chat \notin disturbed'
        PROVE  /\ \A p \in h.page : p.seq < nextSeq'
               /\ \A r \in rows' :
                    r.chat = h.chat /\ r.seq > h.after =>
                      /\ (\E p \in h.page : r.seq <= p.seq) => r \in h.page
                      /\ (h.page = {} \/ ~ h.more) /\ h.fresh => r \in h.page \/ InPush(r)' \/ Kept(r)'
    <2>1. CASE ServePage(i) /\ h.chat = g.chat /\ h.after = g.after
               /\ h.page = PageAfter(g.chat, g.after) /\ h.more = HasMore(g.chat, g.after)
      <3>1. UNCHANGED <<rows, nextSeq>>
        BY <2>1 DEF ServePage, serverVars
      <3>2. \A r \in rows' : r.chat = h.chat => r \in RowsOf(g.chat)
        BY <2>1, <3>1 DEF RowsOf
      <3>3. /\ h.page \subseteq RowsOf(g.chat)
            /\ \A r \in RowsOf(g.chat) : r.seq > g.after =>
                 /\ (\E p \in h.page : r.seq <= p.seq) => r \in h.page
                 /\ h.page = {} \/ ~ h.more => r \in h.page
        BY <1>b, <2>1, PageFacts DEF Shape, ServerShape
      <3>4. \A p \in h.page : p.seq < nextSeq'
        BY <1>a, <3>1, <3>3 DEF SeqsBelow, RowsOf
      <3> QED BY <2>1, <3>2, <3>3, <3>4
    <2>2. CASE /\ h.state = g.state /\ h.chat = g.chat /\ h.after = g.after /\ h.page = g.page
               /\ h.more = g.more /\ (h.fresh => g.fresh /\ ~ Loses)
      <3>1. g.state = "served" /\ g.chat \notin disturbed /\ g.chat \in Chats
        BY <1>2, <1>a, <1>b, <2>2
      <3>2. /\ \A p \in g.page : p.seq < nextSeq
            /\ \A r \in RowsOf(g.chat) :
                 r.seq > g.after =>
                   /\ (\E p \in g.page : r.seq <= p.seq) => r \in g.page
                   /\ (g.page = {} \/ ~ g.more) /\ g.fresh => r \in g.page \/ InPush(r) \/ Kept(r)
        BY <3>1 DEF GapInv, RunFits
      <3>3. \A p \in h.page : p.seq < nextSeq'
        BY <1>2, <1>a, <1>b, <2>2, <3>1, <3>2
      <3>4. ASSUME NEW r \in rows', r.chat = h.chat, r.seq > h.after
            PROVE  /\ (\E p \in h.page : r.seq <= p.seq) => r \in h.page
                   /\ (h.page = {} \/ ~ h.more) /\ h.fresh => r \in h.page \/ InPush(r)' \/ Kept(r)'
        <4>0. r \in rows' /\ r.chat = g.chat
          BY <2>2, <3>4
        <4>1. CASE r \in rows
          <5>1. r \in RowsOf(g.chat) /\ r \in Row
            BY <4>0, <4>1, SeqFacts DEF RowsOf
          <5>2. Kept(r) => Kept(r)'
            BY <1>2, <2>2, <4>0, <4>1, KeptStays
          <5>3. InPush(r) => InPush(r)' \/ Kept(r)' \/ Loses
            BY <1>2, <2>2, <4>0, <5>1, PushStays
          <5> QED BY <2>2, <3>2, <3>4, <5>1, <5>2, <5>3
        <4>2. CASE r \notin rows
          <5>1. r.seq = nextSeq /\ (InPush(r)' \/ socket # "open")
            BY <4>0, <4>2, NewRow
          <5>2. g.fresh => socket = "open"
            BY <1>a DEF LinkFits, Shape, LinkShape
          <5>3. ~ \E p \in h.page : r.seq <= p.seq
            BY <1>a, <1>b, <2>2, <3>2, <5>1
          <5> QED BY <2>2, <5>1, <5>2, <5>3
        <4> QED BY <4>1, <4>2
      <3> QED BY <3>3, <3>4
    <2>3. CASE h = g
      <3>1. Loses => ~ h.fresh
        BY DEF Loses
      <3> QED BY <2>2, <2>3, <3>1
    <2>4. CASE /\ Loses
               /\ h.state = g.state /\ h.chat = g.chat /\ h.after = g.after /\ h.page = g.page
               /\ h.more = g.more
      <3>1. ~ h.fresh
        BY <2>4 DEF Loses
      <3> QED BY <2>2, <2>4, <3>1
    <2> QED BY <1>2, <2>1, <2>3, <2>4, RunDoes
  <1> QED BY <1>1, <1>2 DEF RunFits, RowsOf

LEMMA LinkFitsStep ==
  ASSUME Shape, LinkFits, [Next]_vars
  PROVE  LinkFits'
  <1>a. socket \in {"open", "down"} /\ opened \in BOOLEAN /\ owed \in SUBSET Chats
    BY DEF Shape, LinkShape, RestShape
  <1>s. UNCHANGED <<socket, opened>> \/ socket' = "open" \/ Loses
    <2>1. Open => socket' = "open"
      BY DEF Open
    <2>2. Crash \/ Drop => Loses
      BY LostDoes DEF Loses, Crash, Drop, SocketLost, Shape
    <2>3. ASSUME NEW c \in Chats, Reply(c) PROVE UNCHANGED <<socket, opened>>
      BY SMTT(30), <2>3 DEF Reply
    <2>4. ASSUME NEW mode, Deliver(mode) PROVE UNCHANGED <<socket, opened>>
      BY <2>4 DEF Deliver
    <2> QED BY <2>1, <2>2, <2>3, <2>4, LinkChanges
  <1>1. socket' = "down" => socket = "down" \/ Loses
    BY <1>a, <1>s
  <1>2. socket' = "down" => push' = <<>>
    <2>1. CASE Loses
      BY <2>1 DEF Loses
    <2>2. ASSUME socket = "down", socket' = "down", ~ Loses PROVE push' = <<>>
      <3>1. push = <<>>
        BY <2>2 DEF LinkFits
      <3>2. \A mode : ~ Deliver(mode)
        BY <3>1 DEF Deliver
      <3>3. \A c \in Chats : Reply(c) => push' = push
        BY <2>2 DEF Reply
      <3> QED BY <2>2, <3>1, <3>2, <3>3, PushDoes
    <2> QED BY <1>1, <2>1, <2>2
  <1>3. ASSUME socket' = "down", NEW i \in Runs PROVE ~ run'[i].fresh
    <2>1. CASE Loses
      BY <2>1 DEF Loses
    <2>2. CASE ~ Loses
      <3>1. ~ run[i].fresh
        BY SMTT(30), <1>1, <1>3, <2>2 DEF LinkFits
      <3> QED BY <1>3, <2>2, <3>1, RunDoes
    <2> QED BY <2>1, <2>2
  <1>4. opened => opened'
    BY LinkChanges DEF Crash, Drop, Open, Reply, Deliver
  <1>5. ~ opened' => loaded' = {}
    <2> SUFFICES ASSUME ~ opened, loaded = {}, \A c \in Chats : history[c].state = "none"
                 PROVE  loaded' = {}
      BY <1>4 DEF LinkFits
    <2>1. \A c \in Chats : ~ HistoryArrives(c) /\ ~ HistoryFails(c)
      BY DEF HistoryArrives, HistoryFails
    <2> QED BY <2>1, PageChanges DEF Deliver, RevealEnds, ClearMessages, PurgeChat, PageArrives
  <1>6. ~ opened' => \A c \in Chats : history'[c].state = "none"
    <2> SUFFICES ASSUME ~ opened, \A c \in Chats : history[c].state = "none"
                 PROVE  history' = history
      BY <1>4 DEF LinkFits
    <2>1. \A c \in Chats : ~ HistoryArrives(c) /\ ~ HistoryFails(c) /\ ~ ServeHistory(c) /\ ~ AskHistory(c)
      BY DEF HistoryArrives, HistoryFails, ServeHistory, AskHistory
    <2> QED BY <2>1, FetchChanges
  <1>7. opened' /\ socket' = "down" => owed' = Chats
    <2>1. CASE Loses
      BY <2>1 DEF Loses
    <2>2. ASSUME opened', socket' = "down", ~ Loses PROVE owed' = Chats
      <3>1. socket = "down"
        BY <1>1, <2>2
      <3>2. opened
        BY <2>2, <1>s
      <3>3. owed = Chats /\ \A i \in Runs : ~ run[i].fresh
        BY <3>1, <3>2 DEF LinkFits
      <3>4. \A i \in Runs : PageArrives(i) => owed' = owed
        BY <3>3 DEF PageArrives
      <3>5. ~ Crash /\ ~ Drop
        BY <2>2, LostDoes DEF Loses, Crash, Drop, SocketLost, Shape
      <3> QED BY <3>3, <3>4, <3>5, RestChanges
              DEF Deliver, DeleteRows, DeleteFails, RevealEnds, HistoryArrives, HistoryFails,
                  AskClear, ClearMessages, PurgeChat, gapVars
    <2> QED BY <2>1, <2>2
  <1> QED BY <1>2, <1>3, <1>5, <1>6, <1>7 DEF LinkFits

LEMMA GapStep ==
  ASSUME Shape, OnceEach, GapInv, [Next]_vars
  PROVE  GapInv'
  <1>1. SeqsBelow' /\ LinkFits'
    BY SeqsGrow, LinkFitsStep DEF GapInv
  <1>2. \A c \in Chats \ disturbed' : Ordered(c)' /\ NoGap(c)' /\ HistoryFits(c)'
    BY OrderedStep, NoGapStep, HistoryFitsStep
  <1>3. \A i \in Runs : RunFits(i)'
    BY RunFitsStep
  <1> QED BY <1>1, <1>2, <1>3 DEF GapInv

LEMMA GapInit ==
  ASSUME Init
  PROVE  OnceEach /\ GapInv
  <1>1. /\ rows = {} /\ push = <<>> /\ nextSeq = 1 /\ replies = 0 /\ ~ opened /\ loaded = {}
        /\ \A c \in Chats : /\ reveal[c] = NoRow /\ mark[c] = 0 /\ history[c] = NoFetch
        /\ \A i \in Runs : run[i] = NoRun
        /\ NoRow.id = 0 /\ NoRow.seq = 0
        /\ NoFetch.state = "none" /\ NoRun.state = "idle" /\ ~ NoRun.fresh
    BY DEF Init, NoRow, NoFetch, NoRun
  <1> HIDE DEF NoRow, NoFetch, NoRun
  <1>2. OnceEach
    BY <1>1 DEF OnceEach
  <1>3. SeqsBelow /\ LinkFits
    BY <1>1 DEF SeqsBelow, LinkFits
  <1>4. \A c \in Chats : Ordered(c) /\ NoGap(c) /\ HistoryFits(c)
    BY <1>1 DEF Ordered, NoGap, HistoryFits, RowsOf
  <1>5. \A i \in Runs : RunFits(i)
    BY <1>1 DEF RunFits
  <1> QED BY <1>2, <1>3, <1>4, <1>5 DEF GapInv

\* A chat that is loaded, has been caught up since the last drop and is not
\* disturbed lacks no message, for any number of replies, page size, chats,
\* overlapping backfills and drops and restarts in the middle of one
\* (backfillChat, web-adapter.ts:168-193): the watermark passes no row without it, so a page
\* after the watermark starts no later than the first row that is missing.
THEOREM NothingIsSkipped == Spec => []NothingElseMissed
  <1>1. Init => OnceEach /\ GapInv
    BY GapInit
  <1>2. Shape /\ OnceEach /\ GapInv /\ [Next]_vars => OnceEach' /\ GapInv'
    BY OnceEachStep, GapStep
  <1>3. Shape /\ GapInv => NothingElseMissed
    <2> SUFFICES ASSUME Shape, GapInv, NEW c \in loaded \ (owed \cup disturbed),
                        NEW r \in RowsOf(c)
                 PROVE  Arriving(r)
      BY DEF NothingElseMissed, ShowsAll
    <2>1. c \in Chats /\ r.chat = c /\ r.id \in Ids
      BY SeqFacts DEF Shape, PageShape, RowsOf
    <2>2. InPush(r) \/ Kept(r)
      BY <2>1 DEF GapInv, NoGap, Due
    <2>3. InPush(r) => r \in Range(push)
      <3>1. push \in Seq(Row) /\ DOMAIN push = 1..Len(push)
        BY DEF Shape, PushShape
      <3> QED BY <3>1 DEF InPush, Range
    <2> QED BY <2>2, <2>3 DEF Kept, Arriving
  <1> QED BY <1>1, <1>2, <1>3, SyncTypeCorrect, PTL DEF Spec
=============================================================================
