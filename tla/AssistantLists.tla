--------------------------- MODULE AssistantLists ---------------------------
(* The lists the assistant page draws: web/lib/assistantBoard.ts.  Items by  *)
(* date, deliverables by topic, threads by what they still need.             *)
(*                                                                           *)
(* A date is a day's number and a time of day a number; an item's date is    *)
(* <<>> or <<day>>, its time likewise.  A session key is the sequence of its *)
(* segments.  Instants are counted in minutes.                               *)
EXTENDS Integers, Sequences
LOCAL INSTANCE SequencesExt
LOCAL INSTANCE FiniteSetsExt
LOCAL INSTANCE TLC

PriorityRank(item) == CASE item.priority = "high" -> 0
                        [] item.priority = "low"  -> 2
                        [] OTHER -> 1

\* Stable: items of one priority stay in the order they came in.
ByPriority(list) ==
    LET Level(r) == SelectSeq(list, LAMBDA item: PriorityRank(item) = r)
    IN  Level(0) \o Level(1) \o Level(2)

\* An item without a time comes after those that have one.
ByTimeThenId(a, b) ==
    IF a.time = b.time THEN a.id < b.id
    ELSE b.time = <<>> \/ (a.time # <<>> /\ a.time[1] < b.time[1])

NextWeekDates(today) == [i \in 1..7 |-> today + i]

\* The board.  An event without a date or in the past is in none of the groups.
GroupBoard(items, today) ==
    LET Dated(item) == item.kind # "waiting" /\ item.date # <<>>
        On(day) == SortSeq(SelectSeq(items, LAMBDA item: Dated(item) /\ item.date[1] = day),
                           ByTimeThenId)
        DateFirst(a, b) == a.date[1] < b.date[1] \/ (a.date = b.date /\ a.id < b.id)
        DateThenTime(a, b) == a.date[1] < b.date[1] \/ (a.date = b.date /\ ByTimeThenId(a, b))
        IdFirst(a, b) == a.id < b.id
        OldestFirst(a, b) == a.createdAt < b.createdAt \/ (a.createdAt = b.createdAt /\ a.id < b.id)
    IN  [today   |-> On(today),
         overdue |-> SortSeq(SelectSeq(items, LAMBDA item:
                        Dated(item) /\ item.date[1] < today /\ item.kind = "todo"), DateFirst),
         week    |-> SelectSeq([i \in 1..7 |-> [date |-> today + i, items |-> On(today + i)]],
                               LAMBDA day: day.items # <<>>),
         farther |-> ByPriority(SortSeq(SelectSeq(items, LAMBDA item:
                        Dated(item) /\ item.date[1] > today + 7), DateThenTime)),
         waiting |-> ByPriority(SortSeq(SelectSeq(items, LAMBDA item:
                        item.kind = "waiting"), OldestFirst)),
         undated |-> ByPriority(SortSeq(SelectSeq(items, LAMBDA item:
                        item.kind = "todo" /\ item.date = <<>>), IdFirst))]

DELIVERABLE_GROUP_MAX == 5

\* A deliverable's own topic, else its item's title, else its thread's; "" and
\* the name of the last group itself count as none.
LabelOf(d) ==
    LET named == SelectSeq(<<d.topic, d.itemTitle, d.threadTitle>>, LAMBDA t: t # "")
    IN  IF named = <<>> \/ named[1] = "other" THEN <<>> ELSE <<named[1]>>

MakeGroup(label, list) ==
    [label |-> label, deliverables |-> list,
     unseen |-> Len(SelectSeq(list, LAMBDA d: d.status = "new")),
     newest |-> Max({d.createdAt : d \in ToSet(list)})]

\* The groups with the newest work first, at most max of them, then the rest.
GroupDeliverables(ds, max) ==
    LET first == SelectSeq([i \in DOMAIN ds |-> i], LAMBDA i:
                    LabelOf(ds[i]) # <<>> /\ \A j \in 1..i - 1 : LabelOf(ds[j]) # LabelOf(ds[i]))
        topics == [g \in DOMAIN first |-> MakeGroup(LabelOf(ds[first[g]])[1],
                      SelectSeq(ds, LAMBDA d: LabelOf(d) = LabelOf(ds[first[g]])))]
        order == SortSeq([g \in DOMAIN topics |-> g], LAMBDA g, h:
                    \/ topics[g].newest > topics[h].newest
                    \/ topics[g].newest = topics[h].newest /\ g < h)
        kept == [g \in 1..Min({max, Len(topics)}) |-> topics[order[g]]]
        rest == SelectSeq(ds, LAMBDA d:
                    LabelOf(d) = <<>> \/ \A g \in DOMAIN kept : kept[g].label # LabelOf(d)[1])
    IN  IF rest = <<>> THEN kept ELSE Append(kept, MakeGroup("other", rest))

DeliverableStatusLabel(status) ==
    IF status \in {"seen", "used", "dismissed"} THEN status ELSE "new"

\* An item's own session first, else the first thread that points at it.
ThreadForItem(threads, itemId) ==
    LET own == SelectInSeq(threads, LAMBDA t: t.sessionKey = <<"item", itemId>>)
        any == SelectInSeq(threads, LAMBDA t: t.itemId = itemId)
    IN  IF own # 0 THEN {threads[own]} ELSE IF any # 0 THEN {threads[any]} ELSE {}

\* Either key may lack the segments in front.
IsChildOf(parent, residentKey) ==
    parent # <<>> /\ (IsSuffix(parent, residentKey) \/ IsSuffix(residentKey, parent))

ElapsedLabel(minutes) ==
    CASE minutes < 1 -> <<"just started">>
      [] minutes \in 1..59 -> <<minutes, "min">>
      [] minutes \in 60..1439 /\ minutes % 60 = 0 -> <<minutes \div 60, "h">>
      [] minutes \in 60..1439 /\ minutes % 60 # 0 -> <<minutes \div 60, "h", minutes % 60, "min">>
      [] OTHER -> <<minutes \div 1440, "d">>

DONE_WINDOW == 1440

\* Stuck threads, running ones, then those done within a day that the resident
\* dispatched or the planner drafted; within each the latest first.
ProgressRows(threads, residentKey, now) ==
    LET Shown(t) == \/ t.status \in {"stuck", "running"}
                    \/ /\ t.status = "done"
                       /\ t.updatedAt >= now - DONE_WINDOW
                       /\ IsChildOf(t.parent, residentKey) \/ t.createdBy = "planner"
        rank == [stuck |-> 0, running |-> 1, done |-> 2]
        When(t) == IF t.status = "done" \/ t.createdAt = <<>> THEN t.updatedAt ELSE t.createdAt[1]
        Before(i, j) ==
            LET a == threads[i]  b == threads[j] IN
            \/ rank[a.status] < rank[b.status]
            \/ rank[a.status] = rank[b.status] /\ When(a) > When(b)
            \/ rank[a.status] = rank[b.status] /\ When(a) = When(b) /\ i < j
        rows == SortSeq(SelectSeq([i \in DOMAIN threads |-> i], LAMBDA i: Shown(threads[i])), Before)
    IN  [r \in DOMAIN rows |-> threads[rows[r]]]

ThreadSourceLabel(t, residentKey) ==
    CASE IsChildOf(t.parent, residentKey) -> "resident"
      [] ~IsChildOf(t.parent, residentKey) /\ t.createdBy = "planner" -> "planner"
      [] OTHER -> IF t.createdBy = "web" \/ (t.parent = <<>> /\ t.sessionKey[1] = "item")
                  THEN "discussion" ELSE "subsession"

(***************************************************************************)
(* Checks over small lists.                                                 *)
(***************************************************************************)
\* No item of the board is drawn twice, and none is left out but an event that
\* has no date or is over: an overdue or undated task never disappears.
ASSUME EveryItemOnce ==
    \A a, b \in [kind : {"todo", "event", "waiting"}, date : {<<>>} \cup {<<n>> : n \in {-1, 0, 1, 7, 8}},
                 time : {<<>>, <<9>>}, createdAt : {-1}, priority : {"high", "low"}] :
        LET items == <<a @@ [id |-> 1], b @@ [id |-> 2]>>
            g == GroupBoard(items, 0)
            drawn == g.today \o g.overdue \o FlattenSeq([n \in DOMAIN g.week |-> g.week[n].items])
                        \o g.farther \o g.waiting \o g.undated
        IN  /\ IsInjective(drawn)
            /\ ToSet(drawn) = {item \in ToSet(items) :
                  ~(item.kind = "event" /\ (item.date = <<>> \/ item.date[1] < 0))}

\* The week's groups are days of the strip nextWeekDates draws, in its order.
ASSUME WeekIsTheStrip ==
    \A days \in [1..3 -> 0..9] :
        LET items == [i \in 1..3 |-> [id |-> i, kind |-> "event", date |-> <<days[i]>>,
                                      time |-> <<>>, createdAt |-> 0, priority |-> "normal"]]
            week == GroupBoard(items, 0).week
            strip == NextWeekDates(0)
        IN  /\ {week[n].date : n \in DOMAIN week} = {days[i] : i \in 1..3} \cap ToSet(strip)
            /\ \A m, n \in DOMAIN week : m < n => week[m].date < week[n].date

\* Every deliverable is in exactly one group, however many topics there are,
\* in the order it came in, and there are at most max groups beside the last.
ASSUME EveryDeliverableOnce ==
    \A topics \in [1..4 -> {"", "x", "y", "z", "other"}], times \in [1..4 -> 1..2] :
        LET ds == [i \in 1..4 |-> [id |-> i, topic |-> topics[i], itemTitle |-> "",
                      threadTitle |-> "z", createdAt |-> times[i], status |-> "new"]]
            groups == GroupDeliverables(ds, 2)
            all == FlattenSeq([g \in DOMAIN groups |-> groups[g].deliverables])
        IN  /\ IsInjective(all)
            /\ ToSet(all) = ToSet(ds)
            /\ Len(SelectSeq(groups, LAMBDA g: g.label # "other")) <= 2
            /\ \A g \in DOMAIN groups : \A m, n \in DOMAIN groups[g].deliverables :
                  m < n => groups[g].deliverables[m].id < groups[g].deliverables[n].id

\* The topic that has the newest work is never the one folded into the rest.
ASSUME NewestTopicIsKept ==
    \A topics \in [1..4 -> {"x", "y", "z"}], times \in [1..4 -> 1..3] :
        LET ds == [i \in 1..4 |-> [id |-> i, topic |-> topics[i], itemTitle |-> "",
                      threadTitle |-> "", createdAt |-> times[i], status |-> "seen"]]
            groups == GroupDeliverables(ds, 2)
        IN  \A i \in 1..4 : (\A j \in 1..4 : times[i] > times[j] \/ i = j) =>
                groups[1].label = topics[i]

\* Two residents' boards never claim one thread that names its parent in full:
\* only a parent given without its first segments can be read both ways.
ASSUME OneResidentClaims ==
    LET keys == UNION {[1..n -> {"p", "q"}] : n \in 2..3} IN
        \A parent \in UNION {[1..n -> {"p", "q"}] : n \in 1..4}, k1, k2 \in keys :
            /\ Len(k1) = Len(k2) /\ k1 # k2
            /\ IsChildOf(parent, k1) /\ IsChildOf(parent, k2)
            => Len(parent) < Len(k1)

\* The time shown is never more than has passed, and less by under one unit.
ASSUME ElapsedIsRoundedDown ==
    \A minutes \in 1..3000 :
        LET label == ElapsedLabel(minutes)
            unit == CASE label[2] = "min" -> 1 [] label[2] = "h" -> 60 [] OTHER -> 1440
            shown == label[1] * unit + IF Len(label) = 4 THEN label[3] ELSE 0
        IN  shown <= minutes /\ minutes < shown + unit

\* A thread that is stuck is on the strip, above all that are not.
ASSUME StuckComesFirst ==
    \A statuses \in [1..3 -> {"stuck", "running", "done", "gone"}], times \in [1..3 -> {0, 50, 2000}] :
        LET threads == [i \in 1..3 |-> [id |-> i, status |-> statuses[i], updatedAt |-> times[i],
                           createdAt |-> <<>>, parent |-> <<>>, createdBy |-> "planner"]]
            rows == ProgressRows(threads, <<"r">>, 2000)
        IN  /\ \A i \in 1..3 : statuses[i] \in {"stuck", "running"} => threads[i] \in ToSet(rows)
            /\ \A m, n \in DOMAIN rows : rows[n].status = "stuck" /\ m < n => rows[m].status = "stuck"
=============================================================================
