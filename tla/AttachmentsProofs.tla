--------------------------- MODULE AttachmentsProofs ---------------------------
(* Proofs about Attachments, for any files, names, messages and bounds.      *)
EXTENDS Attachments, TLAPS

-----------------------------------------------------------------------------
(* Types                                                                     *)

Requests == [bubble : Bubbles, try : 1..MaxTries, file : Files,
             stage : {"asked", "reserved", "writing", "stored", "failed"},
             path : Paths \cup {NoPath}, heard : BOOLEAN]
Contents == [by : SUBSET (Files \cup External), whole : BOOLEAN, old : BOOLEAN]
RunsOf == [try : 1..MaxTries, staged : Seq(Paths)]

\* A request that has reserved a path has one, and only who listens gets an answer.
RequestsOK ==
    /\ requests \subseteq Requests
    /\ \A r \in requests :
        /\ r.stage \in {"reserved", "writing", "stored"} => r.path \in Paths
        /\ r.stage = "asked" => r.path = NoPath
        /\ r.stage \in {"stored", "failed"} => r.heard

DiskOK ==
    /\ disk \in [Paths -> Contents]
    /\ doomed \in Paths \cup {NoPath}

RunsOK ==
    /\ runs \in [Bubbles -> SUBSET RunsOf]
    /\ shown \in [Bubbles -> {"none", "uploading", "error", "sent"}]
    /\ tries \in [Bubbles -> 0..MaxTries]
    /\ retained \subseteq Bubbles /\ button \subseteq Bubbles

HistoryOK ==
    /\ faults \in 0..MaxFaults /\ notices \in [Bubbles -> Nat]
    /\ handed \subseteq (Files \cup External) \X Paths
    /\ raced \subseteq Paths /\ abandoned \subseteq Paths

LEMMA NoPathIsNone == NoPath \notin Paths
BY DEF NoPath, Paths

\* s goes on with the upload of r.
SameUpload(s, r) ==
    /\ s \in Requests
    /\ s.bubble = r.bubble /\ s.try = r.try /\ s.file = r.file /\ s.heard = r.heard

WithStage(r, stage) == [r EXCEPT !.stage = stage]
WithPath(r, p) == [r EXCEPT !.stage = "reserved", !.path = p]
Unheard(r) == [r EXCEPT !.heard = FALSE]

LEMMA StageSet ==
    ASSUME NEW r \in Requests, NEW stage \in {"writing", "stored", "failed"}
    PROVE  /\ SameUpload(WithStage(r, stage), r)
           /\ WithStage(r, stage).stage = stage /\ WithStage(r, stage).path = r.path
BY DEF Requests, WithStage, SameUpload

LEMMA PathSet ==
    ASSUME NEW r \in Requests, NEW p \in Paths
    PROVE  /\ SameUpload(WithPath(r, p), r)
           /\ WithPath(r, p).stage = "reserved" /\ WithPath(r, p).path = p
BY DEF Requests, WithPath, SameUpload

LEMMA HeardLost ==
    ASSUME NEW r \in Requests
    PROVE  /\ Unheard(r) \in Requests /\ Unheard(r).stage = r.stage /\ Unheard(r).path = r.path
           /\ Unheard(r).bubble = r.bubble /\ Unheard(r).try = r.try
           /\ Unheard(r).file = r.file /\ Unheard(r).heard = FALSE
BY DEF Requests, Unheard

LEMMA AskedFor ==
    ASSUME NEW b \in Bubbles, NEW n \in 1..MaxTries, NEW f \in Files
    PROVE  /\ Ask(b, n, f) \in Requests
           /\ Ask(b, n, f).bubble = b /\ Ask(b, n, f).try = n /\ Ask(b, n, f).file = f
           /\ Ask(b, n, f).stage = "asked" /\ Ask(b, n, f).path = NoPath /\ Ask(b, n, f).heard
BY DEF Ask, Requests

Replaced(r, s) == requests' = (requests \ {r}) \cup {s}

LEMMA Answered ==
    ASSUME NEW r \in Requests, NEW stage \in {"stored", "failed"}, Answer(r, stage)
    PROVE  \/ /\ r.heard
              /\ \E s : SameUpload(s, r) /\ s.stage = stage /\ s.path = r.path /\ Replaced(r, s)
           \/ ~r.heard /\ requests' = requests \ {r}
<1>1. requests' = (requests \ {r}) \cup (IF r.heard THEN {WithStage(r, stage)} ELSE {})
  BY DEF Answer, WithStage
<1> QED  BY <1>1, StageSet DEF Replaced

\* What becomes of a request the server works on.
LEMMA ReserveDoes ==
    ASSUME RequestsOK, NEW r \in requests, Reserve(r)
    PROVE  \E p \in FirstFree(r.file) : \E s :
               /\ SameUpload(s, r) /\ s.stage = "reserved" /\ s.path = p /\ Replaced(r, s)
               /\ raced' = raced \cup {q \in {p} : \E t \in requests : t.stage = "reserved" /\ t.path = p}
<1>1. PICK p \in FirstFree(r.file) :
        /\ requests' = (requests \ {r}) \cup {WithPath(r, p)}
        /\ raced' = raced \cup {q \in {p} : \E t \in requests : t.stage = "reserved" /\ t.path = p}
  BY DEF Reserve, ReserveOneOf, WithPath
<1>2. p \in Paths /\ r \in Requests
  BY <1>1 DEF FirstFree, RequestsOK
<1> QED  BY <1>1, <1>2, PathSet DEF Replaced

LEMMA OpenDoes ==
    ASSUME RequestsOK, NEW r \in requests, OpenFile(r)
    PROVE  \E s : SameUpload(s, r) /\ s.stage = "writing" /\ s.path = r.path /\ Replaced(r, s)
<1>1. requests' = (requests \ {r}) \cup {WithStage(r, "writing")} /\ r \in Requests
  BY DEF OpenFile, WithStage, RequestsOK
<1> QED  BY <1>1, StageSet DEF Replaced

\* Every step of the server on a request.
LEMMA ServedDoes ==
    ASSUME RequestsOK, NEW r \in requests, Served(r)
    PROVE  \/ /\ \E s : SameUpload(s, r) /\ Replaced(r, s)
              /\ UNCHANGED <<runs, retained, shown, button, tries, notices>>
           \/ /\ ~r.heard /\ requests' = requests \ {r}
              /\ UNCHANGED <<runs, retained, shown, button, tries, notices>>
<1>0. r \in Requests
  BY DEF RequestsOK
<1>1. CASE Reserve(r)
  BY <1>1, ReserveDoes DEF Reserve, ReserveOneOf, client
<1>2. CASE OpenFile(r)
  BY <1>2, OpenDoes DEF OpenFile, client, history
<1>3. CASE Store(r)
  BY <1>0, <1>3, Answered DEF Store, client, history
<1>4. CASE Fail(r)
  BY <1>0, <1>4, Answered DEF Fail, client, history
<1>5. CASE Truncate(r)
  BY <1>0, <1>5, Answered DEF Truncate, client
<1> QED  BY <1>1, <1>2, <1>3, <1>4, <1>5 DEF Served

LEMMA RequestsKept ==
    RequestsOK /\ DiskOK /\ RunsOK /\ [Next]_vars => RequestsOK'
<1> SUFFICES ASSUME RequestsOK, DiskOK, RunsOK, [Next]_vars PROVE RequestsOK'
  OBVIOUS
<1>0. CASE UNCHANGED requests
  BY <1>0 DEF RequestsOK
<1>1. ASSUME NEW r, NEW s, Replaced(r, s), s \in Requests,
             s.stage \in {"reserved", "writing", "stored"} => s.path \in Paths,
             s.stage = "asked" => s.path = NoPath,
             s.stage \in {"stored", "failed"} => s.heard
      PROVE  RequestsOK'
  BY <1>1 DEF Replaced, RequestsOK
<1>2. ASSUME NEW r, requests' = requests \ {r} PROVE RequestsOK'
  BY <1>2 DEF RequestsOK
<1>3. ASSUME NEW r \in requests, Reserve(r) PROVE RequestsOK'
  <2>1. PICK p \in FirstFree(r.file) : \E s :
               SameUpload(s, r) /\ s.stage = "reserved" /\ s.path = p /\ Replaced(r, s)
    BY <1>3, ReserveDoes
  <2>2. p \in Paths
    BY DEF FirstFree
  <2> QED  BY <1>1, <2>1, <2>2 DEF SameUpload
<1>4. ASSUME NEW r \in requests, OpenFile(r) PROVE RequestsOK'
  <2>1. r.path \in Paths
    BY <1>4 DEF OpenFile, RequestsOK
  <2> QED  BY <1>1, <1>4, <2>1, OpenDoes DEF SameUpload
<1>5. ASSUME NEW r \in requests, Store(r) PROVE RequestsOK'
  <2>1. r \in Requests /\ r.path \in Paths /\ Answer(r, "stored")
    BY <1>5 DEF Store, RequestsOK
  <2> QED  BY <1>1, <1>2, <2>1, Answered DEF SameUpload
<1>6. ASSUME NEW r \in requests, Fail(r) \/ Truncate(r) PROVE RequestsOK'
  <2>1. r \in Requests /\ Answer(r, "failed")
    BY <1>6 DEF Fail, Truncate, RequestsOK
  <2> QED  BY <1>1, <1>2, <2>1, Answered DEF SameUpload
<1>7. ASSUME NEW r \in requests, NextFile(r) PROVE RequestsOK'
  <2>1. PICK u \in runs[r.bubble] :
          /\ Len(u.staged) + 1 < Len(Picked[r.bubble])
          /\ Replaced(r, Ask(r.bubble, u.try, Picked[r.bubble][Len(u.staged) + 2]))
    BY <1>7 DEF NextFile, Replaced
  <2>2. r.bubble \in Bubbles /\ u \in RunsOf
    BY <2>1 DEF RequestsOK, Requests, RunsOK
  <2>3. u.try \in 1..MaxTries /\ Len(u.staged) \in Nat
    BY <2>2 DEF RunsOf
  <2>4. Picked[r.bubble][Len(u.staged) + 2] \in Files
    <3>1. Picked[r.bubble] \in Seq(Files)
      BY <2>2, AttachmentsAssumption
    <3> QED  BY <2>1, <2>3, <3>1
  <2> QED  BY <1>1, <2>1, <2>2, <2>3, <2>4, AskedFor
<1>8. ASSUME NEW r \in requests, SendNotice(r) \/ Refused(r) PROVE RequestsOK'
  BY <1>2, <1>8 DEF SendNotice, Refused
<1>9. ASSUME NEW r \in requests, Cut(r) PROVE RequestsOK'
  <2>1. r \in Requests
    BY DEF RequestsOK
  <2>2. requests' = (requests \ {r}) \cup
            (IF r.stage \in {"stored", "failed"} THEN {} ELSE {Unheard(r)})
    BY <1>9 DEF Cut, Unheard
  <2>3. CASE r.stage \in {"stored", "failed"}
    BY <1>2, <2>2, <2>3
  <2>4. CASE r.stage \notin {"stored", "failed"}
    <3>1. Replaced(r, Unheard(r))
      BY <2>2, <2>4 DEF Replaced
    <3>2. /\ r.stage \in {"reserved", "writing", "stored"} => r.path \in Paths
          /\ r.stage = "asked" => r.path = NoPath
      BY DEF RequestsOK
    <3> QED  BY <1>1, <2>1, <2>4, <3>1, <3>2, HeardLost
  <2> QED  BY <2>3, <2>4
<1>10. ASSUME NEW b \in Bubbles, StartRun(b) PROVE RequestsOK'
  <2>1. requests' = requests \cup {Ask(b, tries'[b], Picked[b][1])}
    BY <1>10 DEF StartRun
  <2>2. tries'[b] \in 1..MaxTries
    BY <1>10, AttachmentsAssumption DEF StartRun, RunsOK
  <2>3. Picked[b][1] \in Files
    <3>1. Picked[b] \in Seq(Files) /\ Picked[b] # <<>>
      BY AttachmentsAssumption
    <3> QED  BY <3>1
  <2> QED  BY <2>1, <2>2, <2>3, AskedFor DEF RequestsOK
<1>11. ASSUME NEW b \in Bubbles, SendStaged(b) \/ Render(b) \/ Retry(b) PROVE RequestsOK'
  BY <1>0, <1>10, <1>11 DEF SendStaged, Render, Retry
<1>12. CASE Crash
  <2>1. \A s \in requests' : \E r \in requests :
            r.heard /\ s = WithStage(r, "failed")
    BY <1>12 DEF Crash, WithStage
  <2>2. ASSUME NEW s \in requests' PROVE s \in Requests /\ s.stage = "failed" /\ s.heard
    <3>1. PICK r \in requests : r.heard /\ s = WithStage(r, "failed")
      BY <2>1
    <3>2. r \in Requests
      BY DEF RequestsOK
    <3> QED  BY <3>1, <3>2, StageSet DEF SameUpload
  <2> QED  BY <2>2 DEF RequestsOK
<1>13. ASSUME NEW x \in External, Receive(x) PROVE RequestsOK'
  BY <1>0, <1>13 DEF Receive
<1>14. CASE Age \/ SweepUnlinks \/ (\E p \in Paths : SweepFinds(p)) \/ UNCHANGED vars
  BY <1>0, <1>14 DEF Age, SweepUnlinks, SweepFinds, vars
<1> QED
  BY <1>3, <1>4, <1>5, <1>6, <1>7, <1>8, <1>9, <1>11, <1>12, <1>13, <1>14 DEF Next, Served, Heard

LEMMA DiskKept ==
    RequestsOK /\ DiskOK /\ [Next]_vars => DiskOK'
<1> SUFFICES ASSUME RequestsOK, DiskOK, [Next]_vars PROVE DiskOK'
  OBVIOUS
<1>0. CASE UNCHANGED <<disk, doomed>>
  BY <1>0 DEF DiskOK
<1>f. \A r \in requests : r.file \in Files
  BY DEF RequestsOK, Requests
<1>a. Absent \in Contents
  BY DEF Absent, Contents
<1>1. ASSUME NEW r \in requests, Reserve(r) \/ Truncate(r) \/ Heard(r) \/ Cut(r) PROVE DiskOK'
  BY <1>0, <1>1 DEF Reserve, ReserveOneOf, Truncate, Heard, NextFile, SendNotice, Refused, Cut
<1>2. ASSUME NEW r \in requests, OpenFile(r) PROVE DiskOK'
  <2>1. [by |-> {r.file}, whole |-> FALSE, old |-> FALSE] \in Contents
    BY <1>f DEF Contents
  <2> QED  BY <1>2, <2>1 DEF OpenFile, DiskOK
<1>3. ASSUME NEW r \in requests, Store(r) PROVE DiskOK'
  <2>1. disk' = [disk EXCEPT ![r.path].by = @ \cup {r.file}, ![r.path].whole = TRUE]
    BY <1>3 DEF Store
  <2>2. disk \in [Paths -> Contents]
    BY DEF DiskOK
  <2>3. disk' \in [Paths -> Contents]
    <3> DEFINE new == [[disk[r.path] EXCEPT !.by = @ \cup {r.file}] EXCEPT !.whole = TRUE]
    <3>1. r.path \in Paths
      BY <1>3 DEF Store, RequestsOK
    <3>2. new \in Contents
      BY <1>f, <2>2, <3>1 DEF Contents
    <3>3. disk' = [disk EXCEPT ![r.path] = new]
      BY <2>1, <2>2, <3>1 DEF Contents
    <3> HIDE DEF new
    <3> QED  BY <2>2, <3>2, <3>3
  <2> QED  BY <1>3, <2>3 DEF Store, DiskOK
<1>4. ASSUME NEW r \in requests, Fail(r) PROVE DiskOK'
  BY <1>a, <1>4 DEF Fail, DiskOK
<1>5. ASSUME NEW b \in Bubbles, SendStaged(b) \/ Render(b) \/ Retry(b) PROVE DiskOK'
  BY <1>0, <1>5 DEF SendStaged, Render, Retry
<1>6. ASSUME NEW x \in External, Receive(x) PROVE DiskOK'
  <2>1. [by |-> {x}, whole |-> TRUE, old |-> FALSE] \in Contents
    BY DEF Contents
  <2> QED  BY <1>6, <2>1 DEF Receive, DiskOK
<1>7. CASE Crash
  BY <1>0, <1>7 DEF Crash
<1>8. CASE Age
  <2>1. \A p \in Paths : [disk[p] EXCEPT !.old = TRUE] \in Contents
    BY DEF DiskOK, Contents
  <2> QED  BY <1>a, <1>8, <2>1 DEF Age, DiskOK
<1>9. CASE SweepUnlinks \/ \E p \in Paths : SweepFinds(p)
  BY <1>a, <1>9 DEF SweepUnlinks, SweepFinds, DiskOK
<1>10. CASE UNCHANGED vars
  BY <1>0, <1>10 DEF vars
<1> QED
  BY <1>1, <1>2, <1>3, <1>4, <1>5, <1>6, <1>7, <1>8, <1>9, <1>10 DEF Next, Served


\* A run that has staged one more file.
Longer(u, p) == [u EXCEPT !.staged = Append(@, p)]
NewRun(n) == [try |-> n, staged |-> <<>>]

LEMMA RunGrows ==
    ASSUME NEW u \in RunsOf, NEW p \in Paths
    PROVE  /\ Longer(u, p) \in RunsOf
           /\ Longer(u, p).try = u.try /\ Longer(u, p).staged = Append(u.staged, p)
           /\ Len(u.staged) \in Nat
BY DEF RunsOf, Longer

LEMMA RunStarts ==
    ASSUME NEW n \in 1..MaxTries
    PROVE  NewRun(n) \in RunsOf /\ NewRun(n).try = n /\ NewRun(n).staged = <<>>
BY DEF RunsOf, NewRun

\* A step of a bubble that no other bubble notices.
OnlyRuns(b, us) == runs' = [runs EXCEPT ![b] = us]

LEMMA NextFileDoes ==
    ASSUME RequestsOK, RunsOK, NEW r \in requests, NextFile(r)
    PROVE  \E u \in runs[r.bubble] :
               /\ u \in RunsOf /\ r.path \in Paths /\ r.heard /\ r.bubble \in Bubbles
               /\ OfRun(r, u) /\ Len(u.staged) + 1 < Len(Picked[r.bubble])
               /\ OnlyRuns(r.bubble, (runs[r.bubble] \ {u}) \cup {Longer(u, r.path)})
               /\ Replaced(r, Ask(r.bubble, u.try, Picked[r.bubble][Len(u.staged) + 2]))
<1>1. r.bubble \in Bubbles /\ r.path \in Paths /\ r.heard
  BY DEF NextFile, RequestsOK, Requests
<1>2. runs[r.bubble] \subseteq RunsOf
  BY <1>1 DEF RunsOK
<1> QED  BY <1>1, <1>2 DEF NextFile, OnlyRuns, Longer, Replaced

LEMMA StartRunDoes ==
    ASSUME RunsOK, NEW b \in Bubbles, StartRun(b)
    PROVE  \E n \in 1..MaxTries :
               /\ OnlyRuns(b, runs[b] \cup {NewRun(n)})
               /\ requests' = requests \cup {Ask(b, n, Picked[b][1])}
               /\ Picked[b][1] \in Files /\ 0 < Len(Picked[b])
               /\ shown' = [shown EXCEPT ![b] = "uploading"]
               /\ tries' \in [Bubbles -> 0..MaxTries]
<1>1. tries'[b] \in 1..MaxTries /\ tries' \in [Bubbles -> 0..MaxTries]
  BY AttachmentsAssumption DEF StartRun, RunsOK
<1>2. Picked[b][1] \in Files /\ 0 < Len(Picked[b])
  <2>1. Picked[b] \in Seq(Files) /\ Picked[b] # <<>>
    BY AttachmentsAssumption
  <2> QED  BY <2>1
<1> QED  BY <1>1, <1>2 DEF StartRun, OnlyRuns, NewRun

LEMMA ErrorDoes ==
    ASSUME RunsOK, NEW b \in Bubbles, NEW n, ShowError(b, n)
    PROVE  OnlyRuns(b, {u \in runs[b] : u.try # n})
BY DEF ShowError, OnlyRuns

LEMMA RunsKept ==
    RequestsOK /\ RunsOK /\ [Next]_vars => RunsOK'
<1> SUFFICES ASSUME RequestsOK, RunsOK, [Next]_vars PROVE RunsOK'
  OBVIOUS
<1>0. CASE UNCHANGED client
  BY <1>0 DEF RunsOK, client
<1>1. ASSUME NEW b \in Bubbles, NEW us \in SUBSET RunsOf, OnlyRuns(b, us)
      PROVE  runs' \in [Bubbles -> SUBSET RunsOf]
  BY <1>1 DEF OnlyRuns, RunsOK
<1>2. \A r \in requests : r.bubble \in Bubbles
  BY DEF RequestsOK, Requests
<1>3. ASSUME NEW r \in requests, Served(r) PROVE RunsOK'
  BY <1>0, <1>3 DEF Served, Reserve, ReserveOneOf, OpenFile, Store, Fail, Truncate
<1>4. ASSUME NEW r \in requests, NextFile(r) PROVE RunsOK'
  <2>1. runs' \in [Bubbles -> SUBSET RunsOf]
    <3>1. PICK u \in runs[r.bubble] :
            /\ u \in RunsOf /\ r.path \in Paths
            /\ OnlyRuns(r.bubble, (runs[r.bubble] \ {u}) \cup {Longer(u, r.path)})
      BY <1>4, NextFileDoes
    <3>2. (runs[r.bubble] \ {u}) \cup {Longer(u, r.path)} \in SUBSET RunsOf
      BY <1>2, <3>1, RunGrows DEF RunsOK
    <3> QED  BY <1>1, <1>2, <3>1, <3>2
  <2> QED  BY <1>4, <2>1 DEF NextFile, RunsOK
<1>5. ASSUME NEW r \in requests, SendNotice(r) PROVE RunsOK'
  <2>1. runs' \in [Bubbles -> SUBSET RunsOf]
    BY <1>2, <1>5 DEF SendNotice, RunsOK
  <2> QED  BY <1>2, <1>5, <2>1 DEF SendNotice, RunsOK
<1>6. ASSUME NEW r \in requests, Refused(r) \/ Cut(r) PROVE RunsOK'
  <2>1. runs' \in [Bubbles -> SUBSET RunsOf]
    BY <1>2, <1>6 DEF Refused, Cut, ShowError, RunsOK
  <2> QED  BY <1>2, <1>6, <2>1 DEF Refused, Cut, ShowError, RunsOK
<1>7. ASSUME NEW b \in Bubbles, SendStaged(b) \/ Retry(b) PROVE RunsOK'
  <2>1. StartRun(b)
    BY <1>7 DEF SendStaged, Retry
  <2>2. PICK n \in 1..MaxTries :
          /\ OnlyRuns(b, runs[b] \cup {NewRun(n)})
          /\ shown' = [shown EXCEPT ![b] = "uploading"] /\ tries' \in [Bubbles -> 0..MaxTries]
    BY <2>1, StartRunDoes
  <2>3. runs[b] \cup {NewRun(n)} \in SUBSET RunsOf
    BY RunStarts DEF RunsOK
  <2>4. runs' \in [Bubbles -> SUBSET RunsOf]
    BY <1>1, <2>2, <2>3
  <2> QED  BY <1>7, <2>2, <2>4 DEF SendStaged, Retry, RunsOK
<1>8. ASSUME NEW b \in Bubbles, Render(b) PROVE RunsOK'
  BY <1>8 DEF Render, RunsOK
<1>9. CASE Crash \/ Age \/ SweepUnlinks \/ (\E p \in Paths : SweepFinds(p))
           \/ (\E x \in External : Receive(x)) \/ UNCHANGED vars
  BY <1>0, <1>9 DEF Crash, Age, SweepUnlinks, SweepFinds, Receive, vars
<1> QED  BY <1>3, <1>4, <1>5, <1>6, <1>7, <1>8, <1>9 DEF Next, Heard

\* What the agent is told: each file of the message, at the path it was staged at.
Told(b, ps) == {<<Picked[b][i], ps[i]>> : i \in 1..Len(Picked[b])}

LEMMA SendNoticeDoes ==
    ASSUME RequestsOK, RunsOK, NEW r \in requests, SendNotice(r)
    PROVE  \E u \in runs[r.bubble] :
               /\ u \in RunsOf /\ r.path \in Paths /\ r.heard /\ r.bubble \in Bubbles
               /\ OfRun(r, u) /\ Len(u.staged) + 1 = Len(Picked[r.bubble])
               /\ OnlyRuns(r.bubble, runs[r.bubble] \ {u})
               /\ handed' = handed \cup Told(r.bubble, Append(u.staged, r.path))
<1>1. r.bubble \in Bubbles /\ r.path \in Paths /\ r.heard
  BY DEF SendNotice, RequestsOK, Requests
<1>2. runs[r.bubble] \subseteq RunsOf
  BY <1>1 DEF RunsOK
<1> QED  BY <1>1, <1>2 DEF SendNotice, OnlyRuns, Told

LEMMA HistoryKept ==
    RequestsOK /\ RunsOK /\ HistoryOK /\ [Next]_vars => HistoryOK'
<1> SUFFICES ASSUME RequestsOK, RunsOK, HistoryOK, [Next]_vars PROVE HistoryOK'
  OBVIOUS
<1>0. CASE UNCHANGED <<faults, history>>
  BY <1>0 DEF HistoryOK, history
<1>1. Fault => faults' \in 0..MaxFaults
  BY AttachmentsAssumption DEF Fault, HistoryOK
<1>2. \A r \in requests :
        /\ r.bubble \in Bubbles
        /\ r.stage = "writing" => r.path \in Paths
  BY DEF RequestsOK, Requests
<1>3. ASSUME NEW r \in requests, Reserve(r) PROVE HistoryOK'
  <2>1. raced' \subseteq Paths
    BY <1>3 DEF Reserve, ReserveOneOf, FirstFree, HistoryOK
  <2> QED  BY <1>3, <2>1 DEF Reserve, ReserveOneOf, HistoryOK
<1>4. ASSUME NEW r \in requests, OpenFile(r) \/ Store(r) \/ NextFile(r) \/ Refused(r) PROVE HistoryOK'
  BY <1>0, <1>4 DEF OpenFile, Store, NextFile, Refused
<1>5. ASSUME NEW r \in requests, Fail(r) \/ Cut(r) PROVE HistoryOK'
  BY <1>1, <1>5 DEF Fail, Breaks, Cut, HistoryOK, history
<1>6. ASSUME NEW r \in requests, Truncate(r) PROVE HistoryOK'
  BY <1>1, <1>2, <1>6 DEF Truncate, HistoryOK
<1>7. ASSUME NEW r \in requests, SendNotice(r) PROVE HistoryOK'
  <2>1. PICK u \in RunsOf :
          /\ r.path \in Paths /\ r.bubble \in Bubbles
          /\ Len(u.staged) + 1 = Len(Picked[r.bubble])
          /\ handed' = handed \cup Told(r.bubble, Append(u.staged, r.path))
    BY <1>7, SendNoticeDoes
  <2>2. ASSUME NEW i \in 1..Len(Picked[r.bubble])
        PROVE  Picked[r.bubble][i] \in Files /\ Append(u.staged, r.path)[i] \in Paths
    <3>1. Picked[r.bubble] \in Seq(Files) /\ u.staged \in Seq(Paths)
      BY <2>1, AttachmentsAssumption DEF RunsOf
    <3> QED  BY <2>1, <3>1
  <2>3. handed' \subseteq (Files \cup External) \X Paths
    BY <2>1, <2>2 DEF Told, HistoryOK
  <2>4. notices' \in [Bubbles -> Nat]
    BY <1>2, <1>7 DEF SendNotice, HistoryOK
  <2> QED  BY <1>7, <2>3, <2>4 DEF SendNotice, HistoryOK
<1>8. ASSUME NEW b \in Bubbles, SendStaged(b) \/ Retry(b) \/ Render(b) PROVE HistoryOK'
  BY <1>0, <1>8 DEF SendStaged, Retry, Render
<1>9. CASE Crash
  BY <1>1, <1>2, <1>9 DEF Crash, HistoryOK
<1>10. ASSUME NEW x \in External, Receive(x) PROVE HistoryOK'
  <2>1. handed' \subseteq (Files \cup External) \X Paths /\ raced' \subseteq Paths
    BY <1>10 DEF Receive, HistoryOK
  <2> QED  BY <1>10, <2>1 DEF Receive, HistoryOK
<1>11. CASE Age
  BY <1>1, <1>11 DEF Age, HistoryOK
<1>12. CASE SweepUnlinks \/ (\E p \in Paths : SweepFinds(p)) \/ UNCHANGED vars
  BY <1>0, <1>12 DEF SweepUnlinks, SweepFinds, vars
<1> QED
  BY <1>3, <1>4, <1>5, <1>6, <1>7, <1>8, <1>9, <1>10, <1>11, <1>12 DEF Next, Served, Heard

Typed == RequestsOK /\ DiskOK /\ RunsOK /\ HistoryOK

LEMMA AlwaysTyped == Spec => []Typed
<1>1. Init => Typed
  BY AttachmentsAssumption
  DEF Init, Typed, RequestsOK, DiskOK, RunsOK, HistoryOK, Contents, Absent
<1>2. Typed /\ [Next]_vars => Typed'
  BY RequestsKept, DiskKept, RunsKept, HistoryKept DEF Typed
<1> QED  BY <1>1, <1>2, PTL DEF Spec

(* Whatever files are picked under whatever names and however often uploads  *)
(* fail and are tried again, every request, every file of the directory and  *)
(* every history has its type (attachments.ts, attachment-upload.ts).        *)
THEOREM AttachmentsTypeCorrect == Spec => []TypeOK
<1>1. Typed => TypeOK
  BY DEF Typed, RequestsOK, DiskOK, RunsOK, HistoryOK, TypeOK, Requests, Contents, RunsOf
<1> QED  BY <1>1, AlwaysTyped, PTL

-----------------------------------------------------------------------------
(* Half-written files                                                        *)

Excused(p) == p \in raced \cup abandoned \/ \E r \in requests : r.stage = "writing" /\ r.path = p

(* No half-written file stays in the directory, whatever fails: one is being *)
(* written, or was left there by the size limit or by a server that stopped, *)
(* or lies where two writers met (attachments.ts:155-157).                   *)
THEOREM HalfFilesGo == Spec => []NoHalfFileStays
<1>1. Init => NoHalfFileStays
  BY DEF Init, NoHalfFileStays, IsFree
<1>2. Typed /\ NoHalfFileStays /\ [Next]_vars => NoHalfFileStays'
  <2> SUFFICES ASSUME Typed, NoHalfFileStays, [Next]_vars,
                      NEW p \in Paths, ~IsFree(p)', ~disk'[p].whole
               PROVE  Excused(p)'
    BY DEF NoHalfFileStays, Excused
  <2>0. RequestsOK /\ DiskOK /\ disk \in [Paths -> Contents]
    BY DEF Typed, DiskOK
  <2>1. \A r \in requests : r \in Requests /\ (r.stage = "writing" => r.path \in Paths)
    BY <2>0 DEF RequestsOK
  <2>h. ~IsFree(p) /\ ~disk[p].whole => Excused(p)
    BY DEF NoHalfFileStays, Excused
  \* A step of a request that is not writing, or is and goes on, changes no excuse.
  <2>2. ASSUME NEW r, NEW s, Replaced(r, s), r.stage # "writing" \/ (s.stage = "writing" /\ s.path = r.path),
               raced \subseteq raced', abandoned \subseteq abandoned', Excused(p)
        PROVE  Excused(p)'
    BY <2>2 DEF Excused, Replaced
  <2>3. ASSUME NEW r, requests' = requests \ {r}, r.stage # "writing" \/ r.path # p,
               raced \subseteq raced', abandoned \subseteq abandoned', Excused(p)
        PROVE  Excused(p)'
    BY <2>3 DEF Excused
  <2>4. ASSUME requests \subseteq requests', raced \subseteq raced', abandoned \subseteq abandoned', Excused(p)
        PROVE  Excused(p)'
    BY <2>4 DEF Excused
  <2>5. ASSUME UNCHANGED disk PROVE Excused(p)
    BY <2>5, <2>h DEF IsFree
  <2>6. ASSUME NEW r \in requests, Reserve(r) PROVE Excused(p)'
    <3>1. PICK s : Replaced(r, s)
      BY <2>0, <2>6, ReserveDoes
    <3> QED  BY <2>2, <2>5, <2>6, <3>1 DEF Reserve, ReserveOneOf
  <2>7. ASSUME NEW r \in requests, OpenFile(r) PROVE Excused(p)'
    <3>1. PICK s : s.stage = "writing" /\ s.path = r.path /\ Replaced(r, s)
      BY <2>0, <2>7, OpenDoes
    <3>2. CASE p = r.path
      BY <3>1, <3>2 DEF Excused, Replaced
    <3>3. CASE p # r.path
      <4>1. disk'[p] = disk[p]
        BY <2>0, <2>7, <3>3 DEF OpenFile
      <4>2. Excused(p)
        BY <2>h, <4>1 DEF IsFree
      <4> QED  BY <2>2, <2>7, <3>1, <4>2 DEF OpenFile, history
    <3> QED  BY <3>2, <3>3
  <2>8. ASSUME NEW r \in requests, Store(r) PROVE Excused(p)'
    <3>1. p # r.path
      BY <2>0, <2>8 DEF Store, Contents
    <3>2. disk'[p] = disk[p]
      BY <2>0, <2>8, <3>1 DEF Store
    <3>3. Excused(p)
      BY <2>h, <3>2 DEF IsFree
    <3>4. requests' \in {(requests \ {r}) \cup {WithStage(r, "stored")}, requests \ {r}}
      BY <2>8 DEF Store, Answer, WithStage
    <3> QED  BY <2>8, <3>1, <3>3, <3>4 DEF Excused, Store, history
  <2>9. ASSUME NEW r \in requests, Fail(r) PROVE Excused(p)'
    <3>1. r.stage = "writing" => p # r.path
      <4>1. r.path = p => disk'[p] = Absent
        BY <2>0, <2>9, NoPathIsNone DEF Fail
      <4> QED  BY <4>1 DEF IsFree
    <3>2. disk'[p] \in {disk[p], Absent}
      BY <2>0, <2>9 DEF Fail
    <3>3. Excused(p)
      BY <2>h, <3>2 DEF IsFree
    <3>4. requests' \in {(requests \ {r}) \cup {WithStage(r, "failed")}, requests \ {r}}
      BY <2>9 DEF Fail, Answer, WithStage
    <3> QED  BY <2>9, <3>1, <3>3, <3>4 DEF Excused, Fail, history
  <2>10. ASSUME NEW r \in requests, Truncate(r) PROVE Excused(p)'
    <3>1. requests' \in {(requests \ {r}) \cup {WithStage(r, "failed")}, requests \ {r}}
      BY <2>10 DEF Truncate, Answer, WithStage
    <3> QED  BY <2>5, <2>10, <3>1 DEF Excused, Truncate
  <2>11. ASSUME NEW r \in requests, NextFile(r) PROVE Excused(p)'
    <3>1. PICK s : Replaced(r, s)
      BY <2>11 DEF NextFile, Replaced
    <3> QED  BY <2>2, <2>5, <2>11, <3>1 DEF NextFile, history
  <2>12. ASSUME NEW r \in requests, SendNotice(r) \/ Refused(r) PROVE Excused(p)'
    BY <2>3, <2>5, <2>12 DEF SendNotice, Refused, history
  <2>13. ASSUME NEW r \in requests, Cut(r) PROVE Excused(p)'
    <3>1. requests' = (requests \ {r}) \cup
            (IF r.stage \in {"stored", "failed"} THEN {} ELSE {Unheard(r)})
      BY <2>13 DEF Cut, Unheard
    <3>2. CASE r.stage \in {"stored", "failed"}
      BY <2>3, <2>5, <2>13, <3>1, <3>2 DEF Cut, history
    <3>3. CASE r.stage \notin {"stored", "failed"}
      <4>1. Replaced(r, Unheard(r))
        BY <3>1, <3>3 DEF Replaced
      <4>2. Unheard(r).stage = r.stage /\ Unheard(r).path = r.path
        BY <2>1, HeardLost
      <4> QED  BY <2>2, <2>5, <2>13, <4>1, <4>2 DEF Cut, history
    <3> QED  BY <3>2, <3>3
  <2>14. ASSUME NEW b \in Bubbles, SendStaged(b) \/ Retry(b) \/ Render(b) PROVE Excused(p)'
    BY <2>4, <2>5, <2>14 DEF SendStaged, Retry, Render, StartRun, history
  <2>15. CASE Crash
    <3>1. Excused(p)
      BY <2>5, <2>15 DEF Crash
    <3> QED  BY <2>15, <3>1 DEF Crash, Excused
  <2>16. ASSUME NEW x \in External, Receive(x) PROVE Excused(p)'
    <3>1. PICK q \in Paths : disk' = [disk EXCEPT ![q] = [by |-> {x}, whole |-> TRUE, old |-> FALSE]]
      BY <2>16 DEF Receive
    <3>2. disk'[p] = disk[p]
      BY <2>0, <3>1
    <3>3. Excused(p)
      BY <2>h, <3>2 DEF IsFree
    <3> QED  BY <2>4, <2>16, <3>3 DEF Receive
  <2>17. CASE Age
    <3>1. ~IsFree(p) /\ ~disk[p].whole
      BY <2>0, <2>17 DEF Age, IsFree, Absent, Contents
    <3> QED  BY <2>h, <2>17, <3>1 DEF Age, Excused
  <2>18. CASE SweepUnlinks
    <3>1. disk'[p] = disk[p]
      BY <2>0, <2>18 DEF SweepUnlinks, IsFree
    <3> QED  BY <2>4, <2>h, <2>18, <3>1 DEF SweepUnlinks, IsFree, history
  <2>19. CASE (\E q \in Paths : SweepFinds(q)) \/ UNCHANGED vars
    BY <2>4, <2>5, <2>19 DEF SweepFinds, history, vars
  <2> QED
    BY <2>6, <2>7, <2>8, <2>9, <2>10, <2>11, <2>12, <2>13, <2>14, <2>15, <2>16, <2>17, <2>18, <2>19
    DEF Next, Served, Heard
<1> QED  BY <1>1, <1>2, AlwaysTyped, PTL DEF Spec

-----------------------------------------------------------------------------
(* The runs of a bubble                                                      *)

\* The request of a run is for the file after those it has staged.
Follows(r, u) ==
    /\ r.try = u.try
    /\ Len(u.staged) < Len(Picked[r.bubble])
    /\ r.file = Picked[r.bubble][Len(u.staged) + 1]

\* A bubble that uploads has one run, and this run one request that is listened to.
BubblesOK ==
    \A b \in Bubbles :
        /\ runs[b] # {} <=> shown[b] = "uploading"
        /\ \A u, v \in runs[b] : u = v
        /\ runs[b] # {} => \E r \in requests : r.heard /\ r.bubble = b
        /\ b \in retained => shown[b] # "sent"
OneHeard == \A q, r \in requests : q.heard /\ r.heard /\ q.bubble = r.bubble => q = r
Following ==
    \A r \in requests :
        r.heard => runs[r.bubble] # {} /\ \A u \in runs[r.bubble] : Follows(r, u)
RunsInv == BubblesOK /\ OneHeard /\ Following
ToldInv == RunsInv /\ ToldOnceWhenSent


\* The request of bubble b ends, and its run with it: whoever is left is not listened to.
RunEnds(r) ==
    /\ r.heard /\ OnlyRuns(r.bubble, {})
    /\ \/ requests' = requests \ {r}
       \/ Replaced(r, Unheard(r))

LEMMA Ended ==
    ASSUME Typed, RunsInv, NEW r \in requests, RunEnds(r),
           NEW text \in {"sent", "error"}, shown' = [shown EXCEPT ![r.bubble] = text],
           retained' \subseteq retained, text = "sent" => r.bubble \notin retained'
    PROVE  RunsInv'
<1>1. /\ r \in Requests /\ requests \subseteq Requests
      /\ runs \in [Bubbles -> SUBSET RunsOf] /\ r.bubble \in Bubbles
      /\ shown \in [Bubbles -> {"none", "uploading", "error", "sent"}]
      /\ retained \subseteq Bubbles
  BY DEF Typed, RequestsOK, RunsOK, Requests
<1>2. \A q \in requests' : q.heard => q \in requests /\ q # r /\ q.bubble # r.bubble
  <2>1. Unheard(r).heard = FALSE
    BY <1>1, HeardLost
  <2>2. \A q \in requests \ {r} : q.heard => q.bubble # r.bubble
    BY DEF RunEnds, RunsInv, OneHeard
  <2> QED  BY <2>1, <2>2 DEF RunEnds, Replaced
<1>3. \A q \in requests : q.heard /\ q # r => q \in requests'
  BY DEF RunEnds, Replaced
<1>4. runs' = [runs EXCEPT ![r.bubble] = {}]
  BY DEF RunEnds, OnlyRuns
<1>5. BubblesOK'
  <2> SUFFICES ASSUME NEW b \in Bubbles
               PROVE  /\ runs'[b] # {} <=> shown'[b] = "uploading"
                      /\ \A u, v \in runs'[b] : u = v
                      /\ runs'[b] # {} => \E q \in requests' : q.heard /\ q.bubble = b
                      /\ b \in retained' => shown'[b] # "sent"
    BY DEF BubblesOK
  <2>1. CASE b = r.bubble
    BY <1>1, <1>4, <2>1
  <2>2. CASE b # r.bubble
    BY <1>1, <1>3, <1>4, <2>2 DEF RunsInv, BubblesOK
  <2> QED  BY <2>1, <2>2
<1>6. OneHeard'
  BY <1>2 DEF RunsInv, OneHeard
<1>7. Following'
  <2> SUFFICES ASSUME NEW q \in requests', q.heard
               PROVE  runs'[q.bubble] # {} /\ \A u \in runs'[q.bubble] : Follows(q, u)
    BY DEF Following, Follows
  <2>1. q \in requests /\ q.bubble # r.bubble /\ q.bubble \in Bubbles
    BY <1>1, <1>2 DEF Requests
  <2> QED  BY <1>1, <1>4, <2>1 DEF RunsInv, Following
<1> QED  BY <1>5, <1>6, <1>7 DEF RunsInv

\* Only the run of r waits for it.
LEMMA OnlyRun ==
    ASSUME Typed, RunsInv, NEW r \in requests, r.heard, NEW u \in runs[r.bubble]
    PROVE  runs[r.bubble] = {u} /\ Follows(r, u) /\ shown[r.bubble] = "uploading"
<1>1. r.bubble \in Bubbles
  BY DEF Typed, RequestsOK, Requests
<1> QED  BY <1>1 DEF RunsInv, BubblesOK, Following

LEMMA NoticeEnds ==
    ASSUME Typed, RunsInv, NEW r \in requests, SendNotice(r)
    PROVE  RunEnds(r) /\ shown[r.bubble] = "uploading"
<1>1. PICK u \in runs[r.bubble] : r.heard /\ OnlyRuns(r.bubble, runs[r.bubble] \ {u})
  BY SendNoticeDoes DEF Typed
<1>2. runs[r.bubble] \ {u} = {}
  BY <1>1, OnlyRun
<1> QED  BY <1>1, <1>2, OnlyRun DEF RunEnds, SendNotice

LEMMA ErrorEnds ==
    ASSUME Typed, RunsInv, NEW r \in requests, r.heard, ShowError(r.bubble, r.try),
           \/ requests' = requests \ {r}
           \/ Replaced(r, Unheard(r))
    PROVE  RunEnds(r) /\ shown[r.bubble] = "uploading"
<1>1. r.bubble \in Bubbles
  BY DEF Typed, RequestsOK, Requests
<1>2. OnlyRuns(r.bubble, {u \in runs[r.bubble] : u.try # r.try})
  BY <1>1, ErrorDoes DEF Typed
<1>3. {u \in runs[r.bubble] : u.try # r.try} = {}
  BY OnlyRun DEF Follows
<1>4. runs[r.bubble] # {}
  BY DEF RunsInv, Following
<1> QED  BY <1>2, <1>3, <1>4, OnlyRun DEF RunEnds

LEMMA CutEnds ==
    ASSUME Typed, RunsInv, NEW r \in requests, Cut(r)
    PROVE  RunEnds(r) /\ shown[r.bubble] = "uploading"
<1>1. requests' = (requests \ {r}) \cup
        (IF r.stage \in {"stored", "failed"} THEN {} ELSE {Unheard(r)})
  BY DEF Cut, Unheard
<1>2. requests' = requests \ {r} \/ Replaced(r, Unheard(r))
  BY <1>1 DEF Replaced
<1> QED  BY <1>2, ErrorEnds DEF Cut

\* A run starts only when the bubble has none.
LEMMA Started ==
    ASSUME Typed, RunsInv, NEW b \in Bubbles, StartRun(b), runs[b] = {},
           retained' \subseteq retained \cup {b}
    PROVE  RunsInv'
<1>1. PICK n \in 1..MaxTries :
        /\ OnlyRuns(b, runs[b] \cup {NewRun(n)})
        /\ requests' = requests \cup {Ask(b, n, Picked[b][1])}
        /\ Picked[b][1] \in Files /\ 0 < Len(Picked[b])
        /\ shown' = [shown EXCEPT ![b] = "uploading"]
  BY StartRunDoes DEF Typed
<1> DEFINE s == Ask(b, n, Picked[b][1])
<1>2. /\ s.bubble = b /\ s.try = n /\ s.file = Picked[b][1] /\ s.heard /\ s \in requests'
  BY <1>1, AskedFor
<1>3. /\ runs \in [Bubbles -> SUBSET RunsOf] /\ requests \subseteq Requests
      /\ shown \in [Bubbles -> {"none", "uploading", "error", "sent"}]
      /\ runs' = [runs EXCEPT ![b] = {NewRun(n)}]
  BY <1>1 DEF OnlyRuns, Typed, RunsOK, RequestsOK
<1>4. \A q \in requests : q.heard => q.bubble # b /\ q.bubble \in Bubbles
  BY <1>3 DEF RunsInv, Following, Requests
<1>5. requests' = requests \cup {s}
  BY <1>1
<1> HIDE DEF s
<1>6. BubblesOK'
  <2> SUFFICES ASSUME NEW c \in Bubbles
               PROVE  /\ runs'[c] # {} <=> shown'[c] = "uploading"
                      /\ \A u, v \in runs'[c] : u = v
                      /\ runs'[c] # {} => \E q \in requests' : q.heard /\ q.bubble = c
                      /\ c \in retained' => shown'[c] # "sent"
    BY DEF BubblesOK
  <2>1. CASE c = b
    BY <1>1, <1>2, <1>3, <2>1
  <2>2. CASE c # b
    BY <1>1, <1>3, <1>5, <2>2 DEF RunsInv, BubblesOK
  <2> QED  BY <2>1, <2>2
<1>7. OneHeard'
  BY <1>2, <1>4, <1>5 DEF RunsInv, OneHeard
<1>8. Following'
  <2> SUFFICES ASSUME NEW q \in requests', q.heard
               PROVE  runs'[q.bubble] # {} /\ \A u \in runs'[q.bubble] : Follows(q, u)
    BY DEF Following, Follows
  <2>1. CASE q = s
    <3>1. NewRun(n).try = n /\ Len(NewRun(n).staged) = 0
      BY RunStarts
    <3>2. Follows(s, NewRun(n))
      BY <1>1, <1>2, <3>1 DEF Follows
    <3> QED  BY <1>2, <1>3, <2>1, <3>2
  <2>2. CASE q \in requests
    BY <1>3, <1>4, <2>2 DEF RunsInv, Following
  <2> QED  BY <1>5, <2>1, <2>2
<1> QED  BY <1>6, <1>7, <1>8 DEF RunsInv

LEMMA NextAsked ==
    ASSUME Typed, RunsInv, NEW r \in requests, NextFile(r)
    PROVE  RunsInv'
<1>1. PICK u \in runs[r.bubble] :
        /\ u \in RunsOf /\ r.path \in Paths /\ r.heard /\ r.bubble \in Bubbles
        /\ OfRun(r, u) /\ Len(u.staged) + 1 < Len(Picked[r.bubble])
        /\ OnlyRuns(r.bubble, (runs[r.bubble] \ {u}) \cup {Longer(u, r.path)})
        /\ Replaced(r, Ask(r.bubble, u.try, Picked[r.bubble][Len(u.staged) + 2]))
  BY NextFileDoes DEF Typed
<1> DEFINE v == Longer(u, r.path)
           s == Ask(r.bubble, u.try, Picked[r.bubble][Len(u.staged) + 2])
<1>2. v.try = u.try /\ v.staged = Append(u.staged, r.path) /\ Len(u.staged) \in Nat
  BY <1>1, RunGrows
<1>3. Len(v.staged) = Len(u.staged) + 1
  <2>1. u.staged \in Seq(Paths)
    BY <1>1 DEF RunsOf
  <2> QED  BY <1>1, <1>2, <2>1
<1>4. Picked[r.bubble] \in Seq(Files)
  BY <1>1, AttachmentsAssumption
<1>5. Picked[r.bubble][Len(u.staged) + 2] \in Files
  BY <1>1, <1>2, <1>4
<1>6. s.bubble = r.bubble /\ s.try = u.try /\ s.file = Picked[r.bubble][Len(u.staged) + 2] /\ s.heard
  BY <1>1, <1>5, AskedFor DEF RunsOf
<1>7. Follows(s, v)
  <2>1. Len(u.staged) + 1 + 1 = Len(u.staged) + 2
    BY <1>2
  <2> QED  BY <1>1, <1>2, <1>3, <1>6, <2>1 DEF Follows
<1>8. /\ runs \in [Bubbles -> SUBSET RunsOf] /\ requests \subseteq Requests
      /\ runs' = [runs EXCEPT ![r.bubble] = {v}]
      /\ requests' = (requests \ {r}) \cup {s}
  <2>1. (runs[r.bubble] \ {u}) = {}
    BY <1>1, OnlyRun
  <2> QED  BY <1>1, <2>1 DEF OnlyRuns, Replaced, Typed, RunsOK, RequestsOK
<1>9. UNCHANGED <<shown, retained>> /\ shown[r.bubble] = "uploading"
  BY <1>1, OnlyRun DEF NextFile
<1> HIDE DEF s, v
<1>10. \A q \in requests \ {r} : q.heard => q.bubble # r.bubble /\ q.bubble \in Bubbles
  BY <1>1, <1>8 DEF RunsInv, OneHeard, Requests
<1>11. BubblesOK'
  <2> SUFFICES ASSUME NEW c \in Bubbles
               PROVE  /\ runs'[c] # {} <=> shown'[c] = "uploading"
                      /\ \A x, y \in runs'[c] : x = y
                      /\ runs'[c] # {} => \E q \in requests' : q.heard /\ q.bubble = c
                      /\ c \in retained' => shown'[c] # "sent"
    BY DEF BubblesOK
  <2>1. CASE c = r.bubble
    BY <1>6, <1>8, <1>9, <2>1
  <2>2. CASE c # r.bubble
    BY <1>8, <1>9, <2>2 DEF RunsInv, BubblesOK
  <2> QED  BY <2>1, <2>2
<1>12. OneHeard'
  BY <1>6, <1>8, <1>10 DEF RunsInv, OneHeard
<1>13. Following'
  <2> SUFFICES ASSUME NEW q \in requests', q.heard
               PROVE  runs'[q.bubble] # {} /\ \A x \in runs'[q.bubble] : Follows(q, x)
    BY DEF Following, Follows
  <2>1. CASE q = s
    BY <1>1, <1>6, <1>7, <1>8, <2>1
  <2>2. CASE q \in requests \ {r}
    BY <1>8, <1>10, <2>2 DEF RunsInv, Following
  <2> QED  BY <1>8, <2>1, <2>2
<1> QED  BY <1>11, <1>12, <1>13 DEF RunsInv

LEMMA ToldKept == Typed /\ ToldInv /\ [Next]_vars => ToldInv'
<1> SUFFICES ASSUME Typed, RunsInv, ToldOnceWhenSent, [Next]_vars PROVE ToldInv'
  BY DEF ToldInv
<1>0. CASE UNCHANGED <<requests, runs, shown, retained, notices>>
  BY <1>0 DEF ToldInv, RunsInv, BubblesOK, OneHeard, Following, Follows, ToldOnceWhenSent
<1>t. /\ requests \subseteq Requests /\ RequestsOK
      /\ shown \in [Bubbles -> {"none", "uploading", "error", "sent"}]
      /\ notices \in [Bubbles -> Nat]
  BY DEF Typed, RequestsOK, RunsOK, HistoryOK
<1>b. \A r \in requests : r.bubble \in Bubbles
  BY <1>t DEF Requests
<1>1. ASSUME NEW r \in requests, Served(r) PROVE ToldInv'
  <2>1. ToldOnceWhenSent' /\ UNCHANGED <<runs, shown, retained>>
    BY <1>t, <1>1, ServedDoes DEF ToldOnceWhenSent
  <2>2. CASE \E s : SameUpload(s, r) /\ Replaced(r, s)
    <3>1. PICK s : SameUpload(s, r) /\ Replaced(r, s)
      BY <2>2
    <3>2. BubblesOK'
      BY <2>1, <3>1 DEF SameUpload, Replaced, RunsInv, BubblesOK
    <3>3. OneHeard'
      BY <3>1 DEF SameUpload, Replaced, RunsInv, OneHeard
    <3>4. Following'
      BY <2>1, <3>1 DEF SameUpload, Replaced, RunsInv, Following, Follows
    <3> QED  BY <2>1, <3>2, <3>3, <3>4 DEF ToldInv, RunsInv
  <2>3. CASE ~r.heard /\ requests' = requests \ {r}
    <3>1. BubblesOK'
      BY <2>1, <2>3 DEF RunsInv, BubblesOK
    <3>2. OneHeard' /\ Following'
      BY <2>1, <2>3 DEF RunsInv, OneHeard, Following, Follows
    <3> QED  BY <2>1, <3>1, <3>2 DEF ToldInv, RunsInv
  <2> QED  BY <1>t, <1>1, <2>2, <2>3, ServedDoes
<1>2. ASSUME NEW r \in requests, NextFile(r) PROVE ToldInv'
  <2>1. ToldOnceWhenSent'
    BY <1>2 DEF NextFile, history, ToldOnceWhenSent
  <2> QED  BY <1>2, <2>1, NextAsked DEF ToldInv
<1>3. ASSUME NEW r \in requests, SendNotice(r) PROVE ToldInv'
  <2>1. RunEnds(r) /\ shown[r.bubble] = "uploading"
    BY <1>3, NoticeEnds
  <2>2. RunsInv'
    BY <1>3, <2>1, Ended DEF SendNotice
  <2>3. ToldOnceWhenSent'
    BY <1>t, <1>b, <1>3, <2>1 DEF SendNotice, ToldOnceWhenSent
  <2> QED  BY <2>2, <2>3 DEF ToldInv
<1>4. ASSUME NEW r \in requests, Refused(r) \/ Cut(r) PROVE ToldInv'
  <2>1. RunEnds(r) /\ shown[r.bubble] = "uploading"
    BY <1>4, ErrorEnds, CutEnds DEF Refused
  <2>2. shown' = [shown EXCEPT ![r.bubble] = "error"] /\ UNCHANGED <<retained, notices>>
    BY <1>4 DEF Refused, Cut, ShowError, history
  <2>3. RunsInv'
    BY <2>1, <2>2, Ended
  <2>4. ToldOnceWhenSent'
    BY <1>t, <1>b, <2>1, <2>2 DEF ToldOnceWhenSent
  <2> QED  BY <2>3, <2>4 DEF ToldInv
<1>5. ASSUME NEW b \in Bubbles, SendStaged(b) \/ Retry(b) PROVE ToldInv'
  <2>1. runs[b] = {} /\ shown[b] # "sent"
    BY <1>5 DEF SendStaged, Retry, RunsInv, BubblesOK
  <2>2. /\ StartRun(b) /\ retained' \subseteq retained \cup {b} /\ UNCHANGED notices
        /\ shown' = [shown EXCEPT ![b] = "uploading"]
    BY <1>5 DEF SendStaged, Retry, StartRun, history
  <2>3. RunsInv'
    BY <2>1, <2>2, Started
  <2>4. ToldOnceWhenSent'
    BY <1>t, <2>1, <2>2 DEF ToldOnceWhenSent
  <2> QED  BY <2>3, <2>4 DEF ToldInv
<1>6. CASE Crash
  <2>1. /\ \A s \in requests' : \E r \in requests : r.heard /\ s = WithStage(r, "failed")
        /\ \A r \in requests : r.heard => WithStage(r, "failed") \in requests'
        /\ UNCHANGED <<runs, shown, retained, notices>>
    BY <1>6 DEF Crash, WithStage, client
  <2>2. \A r \in requests : SameUpload(WithStage(r, "failed"), r)
    BY <1>t, StageSet
  <2>3. BubblesOK'
    BY <2>1, <2>2 DEF SameUpload, RunsInv, BubblesOK
  <2>4. OneHeard'
    <3> SUFFICES ASSUME NEW q \in requests', NEW r \in requests',
                        q.heard, r.heard, q.bubble = r.bubble
                 PROVE  q = r
      BY DEF OneHeard
    <3>1. PICK x \in requests : x.heard /\ q = WithStage(x, "failed")
      BY <2>1
    <3>2. PICK y \in requests : y.heard /\ r = WithStage(y, "failed")
      BY <2>1
    <3>3. x = y
      BY <2>2, <3>1, <3>2 DEF SameUpload, RunsInv, OneHeard
    <3> QED  BY <3>1, <3>2, <3>3
  <2>5. Following'
    <3> SUFFICES ASSUME NEW q \in requests', q.heard
                 PROVE  runs'[q.bubble] # {} /\ \A x \in runs'[q.bubble] : Follows(q, x)
      BY DEF Following, Follows
    <3>1. PICK x \in requests : x.heard /\ q = WithStage(x, "failed")
      BY <2>1
    <3> QED  BY <2>1, <2>2, <3>1 DEF SameUpload, RunsInv, Following, Follows
  <2>6. ToldOnceWhenSent'
    BY <2>1 DEF ToldOnceWhenSent
  <2> QED  BY <2>3, <2>4, <2>5, <2>6 DEF ToldInv, RunsInv
<1>7. CASE Age \/ SweepUnlinks \/ (\E p \in Paths : SweepFinds(p)) \/ (\E x \in External : Receive(x))
           \/ (\E b \in Bubbles : Render(b)) \/ UNCHANGED vars
  BY <1>0, <1>7 DEF Age, SweepUnlinks, SweepFinds, Receive, Render, client, history, vars
<1> QED  BY <1>1, <1>2, <1>3, <1>4, <1>5, <1>6, <1>7 DEF Next, Heard

LEMMA AlwaysTold == Spec => []ToldInv
<1>1. Init => ToldInv
  BY DEF Init, ToldInv, RunsInv, BubblesOK, OneHeard, Following, ToldOnceWhenSent
<1> QED  BY <1>1, ToldKept, AlwaysTyped, PTL DEF Spec

(* The agent is told of the files of a message once, exactly when the bubble *)
(* shows it as sent, however often uploads break off and are tried again     *)
(* (attachment-upload.ts:33-34, 98-100).                                     *)
THEOREM ToldOnce == Spec => []ToldOnceWhenSent
<1>1. ToldInv => ToldOnceWhenSent
  BY DEF ToldInv
<1> QED  BY <1>1, AlwaysTold, PTL

-----------------------------------------------------------------------------
(* The files                                                                 *)

\* The file at p is f, whole, and no sweep is due.
IsAt(f, p) == disk[p].by = {f} /\ disk[p].whole /\ ~disk[p].old

\* Nobody else has a claim on the path that r will write or remove.
Alone(r) ==
    /\ \A q \in requests \ {r} :
        q.stage \in {"reserved", "writing", "stored"} => q.path # r.path
    /\ \A b \in Bubbles : \A u \in runs[b] : \A i \in DOMAIN u.staged : u.staged[i] # r.path
    /\ \A h \in handed : h[2] # r.path

\* Nothing that is in use has become old, and the sweep removes only what has.
Young ==
    /\ \A r \in requests : r.path # NoPath => ~disk[r.path].old
    /\ doomed # NoPath => disk[doomed].old

\* What an upload has at its path, unless two writers have met there.
Claim(r) ==
    r.path \notin raced =>
        /\ r.stage \in {"reserved", "writing"} => Alone(r)
        /\ r.stage = "reserved" => disk[r.path] = Absent
        /\ r.stage = "writing" => disk[r.path].by = {r.file}
        /\ r.stage = "stored" => IsAt(r.file, r.path)
Claims == \A r \in requests : Claim(r)

StagedOK ==
    \A b \in Bubbles : \A u \in runs[b] : \A i \in DOMAIN u.staged :
        u.staged[i] \notin raced => IsAt(Picked[b][i], u.staged[i])
HandedOK == \A h \in handed : h[2] \notin raced => IsAt(h[1], h[2])

FilesInv == Young /\ Claims /\ StagedOK /\ HandedOK


HasPath == {"reserved", "writing", "stored"}

LEMMA Facts ==
    ASSUME Typed
    PROVE  /\ disk \in [Paths -> Contents] /\ doomed \in Paths \cup {NoPath}
           /\ runs \in [Bubbles -> SUBSET RunsOf]
           /\ handed \subseteq (Files \cup External) \X Paths
           /\ \A r \in requests :
                /\ r \in Requests /\ r.bubble \in Bubbles /\ r.path \in Paths \cup {NoPath}
                /\ r.stage \in HasPath => r.path \in Paths
                /\ r.stage = "asked" => r.path = NoPath
                /\ r.stage \in {"asked", "failed"} \cup HasPath
BY DEF Typed, RequestsOK, DiskOK, RunsOK, HistoryOK, Requests, HasPath

LEMMA StagedAt ==
    ASSUME Typed, NEW b \in Bubbles, NEW u \in runs[b], NEW i \in DOMAIN u.staged
    PROVE  u.staged[i] \in Paths
<1>1. u.staged \in Seq(Paths)
  BY Facts DEF RunsOf
<1> QED  BY <1>1

LEMMA HandedAt ==
    ASSUME Typed, NEW h \in handed
    PROVE  h[2] \in Paths
BY Facts

\* A step that moves only files which are not old, and of nobody to whom that matters.
LEMMA YoungStays ==
    ASSUME Typed, Young, doomed' = doomed,
           \A p \in Paths : disk'[p] = disk[p] \/ (~disk[p].old /\ ~disk'[p].old),
           \A s \in requests' : s.path = NoPath \/ (s.path \in Paths /\ ~disk[s.path].old)
    PROVE  Young'
BY Facts DEF Young

LEMMA FreeIsYoung ==
    ASSUME NEW p \in Paths, IsFree(p)
    PROVE  ~disk[p].old
BY DEF IsFree, Absent

\* Requests that go on keep their paths.
LEMMA GoesOn ==
    ASSUME Typed, Young, doomed' = doomed, NEW r \in requests, NEW s, s.path = r.path,
           requests' \subseteq (requests \ {r}) \cup {s},
           \A p \in Paths : disk'[p] = disk[p] \/ (p = r.path /\ ~disk'[p].old)
    PROVE  Young'
<1>1. \A p \in Paths : disk'[p] = disk[p] \/ (~disk[p].old /\ ~disk'[p].old)
  BY NoPathIsNone DEF Young
<1>2. \A q \in requests' : \E t \in requests : q.path = t.path
  OBVIOUS
<1>3. \A q \in requests' : q.path = NoPath \/ (q.path \in Paths /\ ~disk[q.path].old)
  BY <1>2, Facts DEF Young
<1> QED  BY <1>1, <1>3, YoungStays

\* Whatever happens at the path of r, or to r, nobody else's file is touched.
LEMMA OthersKept ==
    ASSUME Typed, FilesInv, NEW r \in requests, NEW s,
           requests' \subseteq (requests \ {r}) \cup {s}, s.path = r.path,
           s.stage \in HasPath => r.stage \in HasPath,
           \A b \in Bubbles : runs'[b] \subseteq runs[b],
           handed' = handed, raced' = raced,
           \A p \in Paths : p # r.path => disk'[p] = disk[p],
           UNCHANGED disk \/ r.stage \in {"asked", "reserved", "writing"}
    PROVE  /\ StagedOK' /\ HandedOK'
           /\ \A q \in requests' : q # s => Claim(q)'
           /\ r.stage \in {"reserved", "writing"} /\ r.path \notin raced => Alone(s)'
<1>1. \A q \in requests' : q # s => q \in requests /\ q # r
  OBVIOUS
\* Another one with a claim to p does not see the step.
<1>2. ASSUME NEW p \in Paths, UNCHANGED disk \/ p # r.path PROVE disk'[p] = disk[p]
  BY <1>2
<1>3. r.stage \in {"reserved", "writing"} /\ r.path \notin raced => Alone(r)
  BY DEF FilesInv, Claims, Claim
<1>4. r.stage = "asked" => r.path \notin Paths
  BY Facts, NoPathIsNone
<1>5. StagedOK'
  <2> SUFFICES ASSUME NEW b \in Bubbles, NEW u \in runs'[b], NEW i \in DOMAIN u.staged,
                      u.staged[i] \notin raced'
               PROVE  IsAt(Picked[b][i], u.staged[i])'
    BY DEF StagedOK
  <2>1. u \in runs[b] /\ IsAt(Picked[b][i], u.staged[i])
    BY DEF FilesInv, StagedOK
  <2>2. u.staged[i] \in Paths
    BY <2>1, StagedAt
  <2>3. UNCHANGED disk \/ u.staged[i] # r.path
    BY <1>3, <1>4, <2>1, <2>2 DEF Alone
  <2> QED  BY <1>2, <2>1, <2>2, <2>3 DEF IsAt
<1>6. HandedOK'
  <2> SUFFICES ASSUME NEW h \in handed, h[2] \notin raced
               PROVE  IsAt(h[1], h[2])'
    BY DEF HandedOK
  <2>1. h[2] \in Paths /\ IsAt(h[1], h[2])
    BY HandedAt DEF FilesInv, HandedOK
  <2>2. UNCHANGED disk \/ h[2] # r.path
    BY <1>3, <1>4, <2>1 DEF Alone
  <2> QED  BY <1>2, <2>1, <2>2 DEF IsAt
\* Where nobody had a claim beside q, nobody has one now.
<1>7. ASSUME NEW q, NEW t, q.path = t.path, Alone(t),
             \A x \in requests' \ {q} :
                 x.stage \in HasPath => \E y \in requests \ {t} : y.stage \in HasPath /\ y.path = x.path
      PROVE  Alone(q)'
  BY <1>7 DEF Alone, HasPath
<1>8. ASSUME NEW q \in requests', q # s PROVE Claim(q)'
  <2> SUFFICES ASSUME q.path \notin raced, q.stage \in HasPath
               PROVE  Claim(q)'
    BY DEF Claim, HasPath
  <2>1. q \in requests /\ q # r /\ Claim(q) /\ q.path \in Paths
    BY <1>1, <1>8, Facts DEF FilesInv, Claims
  <2>2. UNCHANGED disk \/ q.path # r.path
    BY <1>3, <1>4, <2>1 DEF Alone, HasPath
  <2>3. disk'[q.path] = disk[q.path]
    BY <1>2, <2>1, <2>2
  <2>4. q.stage \in {"reserved", "writing"} => Alone(q)'
    <3>1. \A x \in requests' \ {q} :
              x.stage \in HasPath => \E y \in requests \ {q} : y.stage \in HasPath /\ y.path = x.path
      BY <2>1
    <3> QED  BY <1>7, <2>1, <3>1 DEF Claim
  <2> QED  BY <2>1, <2>3, <2>4 DEF Claim, IsAt
<1>9. r.stage \in {"reserved", "writing"} /\ r.path \notin raced => Alone(s)'
  <2>1. \A x \in requests' \ {s} : x \in requests \ {r}
    OBVIOUS
  <2> QED  BY <1>3, <1>7, <2>1
<1> QED  BY <1>5, <1>6, <1>8, <1>9

LEMMA OpenKeeps ==
    ASSUME Typed, FilesInv, NEW r \in requests, OpenFile(r)
    PROVE  FilesInv'
<1>1. PICK s : SameUpload(s, r) /\ s.stage = "writing" /\ s.path = r.path /\ Replaced(r, s)
  BY OpenDoes DEF Typed
<1>2. r.stage = "reserved" /\ r.path \in Paths
  BY Facts DEF OpenFile, HasPath
<1>3. disk' = [disk EXCEPT ![r.path] = [by |-> {r.file}, whole |-> FALSE, old |-> FALSE]]
  BY DEF OpenFile
<1>4. UNCHANGED <<runs, handed, raced, doomed>>
  BY DEF OpenFile, client, history
<1>5. /\ \A p \in Paths : p # r.path => disk'[p] = disk[p]
      /\ disk'[r.path].by = {r.file} /\ ~disk'[r.path].old
  BY <1>2, <1>3, Facts
<1>6. requests' \subseteq (requests \ {r}) \cup {s}
  BY <1>1 DEF Replaced
<1>7. Young'
  BY <1>1, <1>4, <1>5, <1>6, GoesOn DEF FilesInv
<1>8. /\ StagedOK' /\ HandedOK'
      /\ \A q \in requests' : q # s => Claim(q)'
      /\ r.path \notin raced => Alone(s)'
  BY <1>1, <1>2, <1>4, <1>5, <1>6, OthersKept DEF HasPath
<1>9. Claim(s)'
  BY <1>1, <1>4, <1>5, <1>8 DEF Claim, SameUpload
<1> QED  BY <1>7, <1>8, <1>9 DEF FilesInv, Claims

LEMMA StoreKeeps ==
    ASSUME Typed, FilesInv, NEW r \in requests, Store(r)
    PROVE  FilesInv'
<1>1. r.stage = "writing" /\ r.path \in Paths /\ Answer(r, "stored")
  BY Facts DEF Store, HasPath
<1> DEFINE s == WithStage(r, "stored")
<1>2. SameUpload(s, r) /\ s.stage = "stored" /\ s.path = r.path
  BY Facts, StageSet
<1>3. requests' \subseteq (requests \ {r}) \cup {s}
  BY <1>1 DEF Answer, WithStage
<1> HIDE DEF s
<1>4. UNCHANGED <<runs, handed, raced, doomed>>
  BY DEF Store, client, history
<1>5. /\ \A p \in Paths : p # r.path => disk'[p] = disk[p]
      /\ disk'[r.path].by = disk[r.path].by \cup {r.file}
      /\ disk'[r.path].whole /\ disk'[r.path].old = disk[r.path].old
  BY <1>1, Facts DEF Store, Contents
<1>6. ~disk'[r.path].old
  BY <1>1, <1>5, NoPathIsNone DEF FilesInv, Young
<1>7. Young'
  BY <1>2, <1>3, <1>4, <1>5, <1>6, GoesOn DEF FilesInv
<1>8. /\ StagedOK' /\ HandedOK'
      /\ \A q \in requests' : q # s => Claim(q)'
  BY <1>1, <1>2, <1>3, <1>4, <1>5, OthersKept DEF HasPath
<1>9. Claim(s)'
  <2>1. r.path \notin raced => disk[r.path].by = {r.file}
    BY <1>1 DEF FilesInv, Claims, Claim
  <2> QED  BY <1>2, <1>4, <1>5, <1>6, <2>1 DEF Claim, IsAt, SameUpload
<1> QED  BY <1>7, <1>8, <1>9 DEF FilesInv, Claims

\* An upload that fails leaves no claim.
LEMMA FailKeeps ==
    ASSUME Typed, FilesInv, NEW r \in requests, Fail(r) \/ Truncate(r)
    PROVE  FilesInv'
<1>1. r.stage \in {"asked", "reserved", "writing"} /\ Answer(r, "failed")
  BY Facts DEF Fail, Breaks, Truncate, HasPath
<1> DEFINE s == WithStage(r, "failed")
<1>2. SameUpload(s, r) /\ s.stage = "failed" /\ s.path = r.path
  BY Facts, StageSet
<1>3. requests' \subseteq (requests \ {r}) \cup {s}
  BY <1>1 DEF Answer, WithStage
<1> HIDE DEF s
<1>4. UNCHANGED <<runs, handed, raced, doomed>>
  BY DEF Fail, Truncate, client, history
<1>5. \A p \in Paths : disk'[p] = disk[p] \/ (p = r.path /\ ~disk'[p].old)
  BY Facts DEF Fail, Truncate, Absent
<1>6. Young'
  BY <1>2, <1>3, <1>4, <1>5, GoesOn DEF FilesInv
<1>7. /\ StagedOK' /\ HandedOK'
      /\ \A q \in requests' : q # s => Claim(q)'
  BY <1>1, <1>2, <1>3, <1>4, <1>5, OthersKept DEF HasPath
<1>8. Claim(s)'
  BY <1>2 DEF Claim
<1> QED  BY <1>6, <1>7, <1>8 DEF FilesInv, Claims

\* Nobody has a file where stat finds none.
LEMMA Unclaimed ==
    ASSUME Typed, FilesInv, NEW p \in Paths, IsFree(p), p \notin raced
    PROVE  /\ \A q \in requests : q.path = p => q.stage \in {"reserved", "failed"}
           /\ \A b \in Bubbles : \A u \in runs[b] : \A i \in DOMAIN u.staged : u.staged[i] # p
           /\ \A h \in handed : h[2] # p
<1>1. disk[p].by = {}
  BY DEF IsFree, Absent
<1>2. \A q \in requests : q.path = p => q.stage \in {"reserved", "failed"}
  BY <1>1, Facts, NoPathIsNone DEF FilesInv, Claims, Claim, IsAt, HasPath
<1>3. \A b \in Bubbles : \A u \in runs[b] : \A i \in DOMAIN u.staged : u.staged[i] # p
  BY <1>1 DEF FilesInv, StagedOK, IsAt
<1>4. \A h \in handed : h[2] # p
  BY <1>1 DEF FilesInv, HandedOK, IsAt
<1> QED  BY <1>2, <1>3, <1>4

\* A step in which p may get one more who has reserved or written it.
Meets(p) == raced' = raced \cup {q \in {p} : \E t \in requests : t.stage = "reserved" /\ t.path = p}

LEMMA Met ==
    ASSUME NEW p, Meets(p)
    PROVE  /\ raced \subseteq raced'
           /\ p \notin raced' => \A t \in requests : t.path = p => t.stage # "reserved"
BY DEF Meets

LEMMA ReserveKeeps ==
    ASSUME Typed, FilesInv, NEW r \in requests, Reserve(r)
    PROVE  FilesInv'
<1>a. PICK p \in FirstFree(r.file) : \E s :
        SameUpload(s, r) /\ s.stage = "reserved" /\ s.path = p /\ Replaced(r, s) /\ Meets(p)
  BY ReserveDoes DEF Typed, Meets
<1>1. PICK s : SameUpload(s, r) /\ s.stage = "reserved" /\ s.path = p /\ Replaced(r, s) /\ Meets(p)
  BY <1>a
<1>2. UNCHANGED <<disk, runs, handed, doomed>>
  BY DEF Reserve, ReserveOneOf, client
<1>3. p \in Paths /\ IsFree(p) /\ ~disk[p].old
  BY <1>1, FreeIsYoung DEF FirstFree
<1>4. \A q \in requests' : q = s \/ q \in requests
  BY <1>1 DEF Replaced
<1>5. Young'
  <2>1. \A q \in requests' : q.path = NoPath \/ (q.path \in Paths /\ ~disk[q.path].old)
    BY <1>1, <1>3, <1>4, Facts DEF FilesInv, Young
  <2> QED  BY <1>2, <2>1, YoungStays DEF FilesInv
<1>6. raced \subseteq raced' /\ (p \notin raced' => \A t \in requests : t.path = p => t.stage # "reserved")
  BY <1>1, Met
<1>7. StagedOK' /\ HandedOK'
  BY <1>2, <1>6 DEF FilesInv, StagedOK, HandedOK, IsAt
<1>8. ASSUME NEW q \in requests', q # s PROVE Claim(q)'
  <2> SUFFICES ASSUME q.path \notin raced' PROVE Claim(q)'
    BY DEF Claim
  <2>1. q \in requests /\ Claim(q) /\ q.path \notin raced
    BY <1>4, <1>6, <1>8 DEF FilesInv, Claims
  <2>2. q.stage \in {"reserved", "writing"} => Alone(q)'
    <3>1. q.stage \in {"reserved", "writing"} => p # q.path
      <4>1. q.path = p => q.stage \notin {"reserved"}
        BY <1>6, <2>1
      <4>2. q.path = p => q.stage \in {"reserved", "failed"}
        BY <1>3, <2>1, Unclaimed
      <4> QED  BY <4>1, <4>2
    <3> QED  BY <1>1, <1>2, <1>4, <2>1, <3>1 DEF Claim, Alone
  <2> QED  BY <1>2, <2>1, <2>2 DEF Claim, IsAt
<1>9. Claim(s)'
  <2> SUFFICES ASSUME p \notin raced' PROVE Alone(s)'
    BY <1>1, <1>2, <1>3 DEF Claim, IsFree
  <2>1. p \notin raced
    BY <1>6
  <2>2. \A q \in requests : q.path = p => q.stage = "failed"
    BY <1>3, <1>6, <2>1, Unclaimed
  <2> QED  BY <1>1, <1>2, <1>3, <1>4, <2>1, <2>2, Unclaimed DEF Alone
<1> QED  BY <1>5, <1>7, <1>8, <1>9 DEF FilesInv, Claims

LEMMA ReceiveKeeps ==
    ASSUME Typed, FilesInv, NEW x \in External, Receive(x)
    PROVE  FilesInv'
<1>1. PICK p \in Paths :
        /\ IsFree(p) /\ Meets(p)
        /\ disk' = [disk EXCEPT ![p] = [by |-> {x}, whole |-> TRUE, old |-> FALSE]]
        /\ handed' = handed \cup {<<x, p>>}
  BY DEF Receive, Meets
<1>2. UNCHANGED <<requests, runs, doomed>> /\ ~disk[p].old
  BY <1>1, FreeIsYoung DEF Receive, client
<1>3. IsAt(x, p)' /\ \A q \in Paths : q # p => disk'[q] = disk[q]
  BY <1>1, Facts DEF IsAt
<1>4. Young'
  <2>1. \A q \in Paths : disk'[q] = disk[q] \/ (~disk[q].old /\ ~disk'[q].old)
    BY <1>2, <1>3 DEF IsAt
  <2>2. \A q \in requests' : q.path = NoPath \/ (q.path \in Paths /\ ~disk[q.path].old)
    BY <1>2, Facts DEF FilesInv, Young
  <2> QED  BY <1>2, <2>1, <2>2, YoungStays DEF FilesInv
<1>5. raced \subseteq raced' /\ (p \notin raced' => \A t \in requests : t.path = p => t.stage # "reserved")
  BY <1>1, Met
<1>6. StagedOK'
  <2> SUFFICES ASSUME NEW b \in Bubbles, NEW u \in runs[b], NEW i \in DOMAIN u.staged,
                      u.staged[i] \notin raced'
               PROVE  IsAt(Picked[b][i], u.staged[i])'
    BY <1>2 DEF StagedOK
  <2>1. u.staged[i] # p /\ u.staged[i] \in Paths
    BY <1>1, <1>5, Unclaimed, StagedAt
  <2> QED  BY <1>3, <1>5, <2>1 DEF FilesInv, StagedOK, IsAt
<1>7. HandedOK'
  <2> SUFFICES ASSUME NEW h \in handed', h[2] \notin raced'
               PROVE  IsAt(h[1], h[2])'
    BY DEF HandedOK
  <2>1. CASE h = <<x, p>>
    BY <1>3, <2>1
  <2>2. CASE h \in handed
    <3>1. h[2] # p /\ h[2] \in Paths
      BY <1>1, <1>5, <2>2, Unclaimed, HandedAt
    <3> QED  BY <1>3, <1>5, <2>2, <3>1 DEF FilesInv, HandedOK, IsAt
  <2> QED  BY <1>1, <2>1, <2>2
<1>8. ASSUME NEW q \in requests, q.path \notin raced', q.stage \in HasPath PROVE Claim(q)'
  <2>1. q.path # p /\ q.path \in Paths /\ Claim(q) /\ q.path \notin raced
    <3>1. q.path \notin raced /\ q.path \in Paths /\ Claim(q)
      BY <1>5, <1>8, Facts DEF FilesInv, Claims
    <3> QED  BY <1>1, <1>5, <1>8, <3>1, Unclaimed DEF HasPath
  <2>2. disk'[q.path] = disk[q.path]
    BY <1>3, <2>1
  <2>3. q.stage \in {"reserved", "writing"} => Alone(q)'
    BY <1>1, <1>2, <2>1 DEF Claim, Alone
  <2> QED  BY <2>1, <2>2, <2>3 DEF Claim, IsAt
<1>9. Claims'
  BY <1>2, <1>8 DEF Claims, Claim, HasPath
<1> QED  BY <1>4, <1>6, <1>7, <1>9 DEF FilesInv

\* A run starts, or asks for its next file: a request without a path is new.
LEMMA AskKeeps ==
    ASSUME Typed, FilesInv, NEW s, s.stage = "asked", s.path = NoPath,
           requests' \subseteq requests \cup {s}, UNCHANGED <<disk, doomed, handed, raced>>,
           NEW p,
           \A b \in Bubbles : \A u \in runs'[b] : \A i \in DOMAIN u.staged :
               \/ u.staged[i] = p /\ (p \notin raced => IsAt(Picked[b][i], p))
               \/ u \in runs[b]
               \/ \E v \in runs[b] : i \in DOMAIN v.staged /\ v.staged[i] = u.staged[i],
           \A q \in requests' : q.stage \in {"reserved", "writing"} /\ q.path \notin raced => q.path # p
    PROVE  FilesInv'
<1>1. Young'
  <2>1. \A q \in requests' : q.path = NoPath \/ (q.path \in Paths /\ ~disk[q.path].old)
    BY Facts DEF FilesInv, Young
  <2> QED  BY <2>1, YoungStays DEF FilesInv
<1>2. StagedOK'
  BY SMTT(30) DEF FilesInv, StagedOK, IsAt
<1>3. HandedOK'
  BY DEF FilesInv, HandedOK, IsAt
<1>4. ASSUME NEW q \in requests', q \in requests PROVE Claim(q)'
  <2> SUFFICES ASSUME q.path \notin raced PROVE Claim(q)'
    BY DEF Claim
  <2>1. Claim(q)
    BY <1>4 DEF FilesInv, Claims
  <2>2. q.stage \in {"reserved", "writing"} => Alone(q)'
    BY <1>4, <2>1 DEF Claim, Alone
  <2> QED  BY <2>1, <2>2 DEF Claim, IsAt
<1>5. Claim(s)'
  BY DEF Claim
<1> QED  BY <1>1, <1>2, <1>3, <1>4, <1>5 DEF FilesInv, Claims

LEMMA StartKeeps ==
    ASSUME Typed, FilesInv, NEW b \in Bubbles, StartRun(b), UNCHANGED <<disk, doomed, handed, raced>>
    PROVE  FilesInv'
<1>1. PICK n \in 1..MaxTries :
        /\ OnlyRuns(b, runs[b] \cup {NewRun(n)})
        /\ requests' = requests \cup {Ask(b, n, Picked[b][1])} /\ Picked[b][1] \in Files
  BY StartRunDoes DEF Typed
<1> DEFINE s == Ask(b, n, Picked[b][1])
<1>2. s.stage = "asked" /\ s.path = NoPath /\ requests' = requests \cup {s}
  BY <1>1, AskedFor
<1> HIDE DEF s
<1>3. \A c \in Bubbles : \A u \in runs'[c] : u \in runs[c] \/ u = NewRun(n)
  BY <1>1, Facts DEF OnlyRuns
<1>4. DOMAIN NewRun(n).staged = {}
  BY RunStarts
<1>5. \A c \in Bubbles : \A u \in runs'[c] : \A i \in DOMAIN u.staged : u \in runs[c]
  BY <1>3, <1>4
<1>6. \A q \in requests' : q.stage \in {"reserved", "writing"} => q.path # NoPath
  BY <1>2, Facts, NoPathIsNone DEF HasPath
<1> QED  BY <1>2, <1>5, <1>6, AskKeeps

LEMMA AppendAt ==
    ASSUME NEW S, NEW t \in Seq(S), NEW p \in S, NEW i \in 1..(Len(t) + 1)
    PROVE  \/ i \in DOMAIN t /\ Append(t, p)[i] = t[i]
           \/ i = Len(t) + 1 /\ Append(t, p)[i] = p
<1>1. DOMAIN t = 1..Len(t) /\ Len(t) \in Nat
  OBVIOUS
<1>2. CASE i = Len(t) + 1
  BY <1>1, <1>2
<1>3. CASE i # Len(t) + 1
  BY <1>1, <1>3
<1> QED  BY <1>2, <1>3

LEMMA NextKeeps ==
    ASSUME Typed, RunsInv, FilesInv, NEW r \in requests, NextFile(r)
    PROVE  FilesInv'
<1>1. PICK u \in runs[r.bubble] :
        /\ u \in RunsOf /\ r.path \in Paths /\ r.heard /\ r.bubble \in Bubbles
        /\ Len(u.staged) + 1 < Len(Picked[r.bubble])
        /\ OnlyRuns(r.bubble, (runs[r.bubble] \ {u}) \cup {Longer(u, r.path)})
        /\ Replaced(r, Ask(r.bubble, u.try, Picked[r.bubble][Len(u.staged) + 2]))
  BY NextFileDoes DEF Typed
<1> DEFINE v == Longer(u, r.path)
           s == Ask(r.bubble, u.try, Picked[r.bubble][Len(u.staged) + 2])
<1>2. v.staged = Append(u.staged, r.path) /\ u.staged \in Seq(Paths)
  BY <1>1, RunGrows DEF RunsOf
<1>3. Len(v.staged) = Len(u.staged) + 1 /\ DOMAIN v.staged = 1..(Len(u.staged) + 1)
  BY <1>1, <1>2
<1>4. s.stage = "asked" /\ s.path = NoPath
  <2>1. Picked[r.bubble] \in Seq(Files)
    BY <1>1, AttachmentsAssumption
  <2>2. Picked[r.bubble][Len(u.staged) + 2] \in Files
    BY <1>1, <1>2, <2>1
  <2> QED  BY <1>1, <2>2, AskedFor DEF RunsOf
<1>5. requests' \subseteq requests \cup {s} /\ UNCHANGED <<disk, doomed, handed, raced>>
  BY <1>1 DEF Replaced, NextFile, history
<1>6. \A c \in Bubbles : \A w \in runs'[c] : w \in runs[c] \/ (c = r.bubble /\ w = v)
  BY <1>1, Facts DEF OnlyRuns
<1>7. \A q \in requests' : q = s \/ q \in requests \ {r}
  BY <1>1 DEF Replaced
<1> HIDE DEF v, s
<1>8. r.path \notin raced => IsAt(Picked[r.bubble][Len(u.staged) + 1], r.path)
  <2>1. r.file = Picked[r.bubble][Len(u.staged) + 1]
    BY <1>1, OnlyRun DEF Follows
  <2> QED  BY <2>1 DEF NextFile, FilesInv, Claims, Claim
<1>9. ASSUME NEW c \in Bubbles, NEW w \in runs'[c], NEW i \in DOMAIN w.staged
      PROVE  \/ w.staged[i] = r.path /\ (r.path \notin raced => IsAt(Picked[c][i], r.path))
             \/ w \in runs[c]
             \/ \E x \in runs[c] : i \in DOMAIN x.staged /\ x.staged[i] = w.staged[i]
  <2>1. CASE w \in runs[c]
    BY <2>1
  <2>2. CASE c = r.bubble /\ w = v
    BY SMTT(30), <1>1, <1>2, <1>3, <1>8, <2>2, AppendAt
  <2> QED  BY <1>6, <2>1, <2>2
<1>10. \A q \in requests' :
          q.stage \in {"reserved", "writing"} /\ q.path \notin raced => q.path # r.path
  BY <1>4, <1>7 DEF FilesInv, Claims, Claim, Alone, NextFile
<1> QED  BY <1>4, <1>5, <1>9, <1>10, AskKeeps

LEMMA NoticeKeeps ==
    ASSUME Typed, RunsInv, FilesInv, NEW r \in requests, SendNotice(r)
    PROVE  FilesInv'
<1>1. PICK u \in runs[r.bubble] :
        /\ u \in RunsOf /\ r.path \in Paths /\ r.heard /\ r.bubble \in Bubbles
        /\ Len(u.staged) + 1 = Len(Picked[r.bubble])
        /\ OnlyRuns(r.bubble, runs[r.bubble] \ {u})
        /\ handed' = handed \cup Told(r.bubble, Append(u.staged, r.path))
  BY SendNoticeDoes DEF Typed
<1>2. /\ requests' = requests \ {r} /\ UNCHANGED <<disk, doomed, raced>> /\ r.stage = "stored"
      /\ \A c \in Bubbles : runs'[c] \subseteq runs[c]
  BY <1>1, Facts DEF SendNotice, OnlyRuns
<1>3. Young'
  BY <1>2 DEF FilesInv, Young
<1>4. StagedOK'
  BY <1>2 DEF FilesInv, StagedOK, IsAt
<1>5. r.path \notin raced => IsAt(Picked[r.bubble][Len(u.staged) + 1], r.path)
  <2>1. r.file = Picked[r.bubble][Len(u.staged) + 1]
    BY <1>1, OnlyRun DEF Follows
  <2> QED  BY <1>2, <2>1 DEF FilesInv, Claims, Claim
\* Every file the agent is told of was staged by this run.
<1>6. ASSUME NEW h \in handed', h \notin handed
      PROVE  /\ h[2] = r.path \/ \E i \in DOMAIN u.staged : h[2] = u.staged[i]
             /\ h[2] \notin raced => IsAt(h[1], h[2])
  <2>1. PICK i \in 1..Len(Picked[r.bubble]) :
          h = <<Picked[r.bubble][i], Append(u.staged, r.path)[i]>>
    BY <1>1, <1>6 DEF Told
  <2>2. u.staged \in Seq(Paths)
    BY <1>1 DEF RunsOf
  <2>3. \/ i \in DOMAIN u.staged /\ Append(u.staged, r.path)[i] = u.staged[i]
        \/ i = Len(u.staged) + 1 /\ Append(u.staged, r.path)[i] = r.path
    BY <1>1, <2>1, <2>2, AppendAt
  <2> QED  BY <1>1, <1>5, <2>1, <2>3 DEF FilesInv, StagedOK
<1>7. HandedOK'
  BY <1>2, <1>6 DEF FilesInv, HandedOK, IsAt
<1>8. ASSUME NEW q \in requests' PROVE Claim(q)'
  <2> SUFFICES ASSUME q.path \notin raced PROVE Claim(q)'
    BY <1>2 DEF Claim
  <2>1. q \in requests /\ q # r /\ Claim(q)
    BY <1>2, <1>8 DEF FilesInv, Claims
  <2>2. q.stage \in {"reserved", "writing"} => Alone(q)'
    <3> SUFFICES ASSUME Alone(q) PROVE Alone(q)'
      BY <2>1 DEF Claim
    <3>1. \A h \in handed' : h[2] # q.path
      BY <1>1, <1>2, <1>6, <2>1 DEF Alone
    <3> QED  BY <1>2, <3>1 DEF Alone
  <2> QED  BY <1>2, <2>1, <2>2 DEF Claim, IsAt
<1> QED  BY <1>3, <1>4, <1>7, <1>8 DEF FilesInv, Claims

LEMMA ErrorKeeps ==
    ASSUME Typed, FilesInv, NEW r \in requests, Refused(r) \/ Cut(r)
    PROVE  FilesInv'
<1>1. /\ UNCHANGED <<disk, doomed, handed, raced>> /\ r.bubble \in Bubbles
      /\ runs' = [runs EXCEPT ![r.bubble] = {s \in runs[r.bubble] : s.try # r.try}]
  BY Facts DEF Refused, Cut, ShowError, history
<1>2. \A b \in Bubbles : runs'[b] \subseteq runs[b]
  BY <1>1, Facts
<1> DEFINE s == Unheard(r)
<1>3. requests' = requests \ {r} \/ requests' = (requests \ {r}) \cup {s}
  BY DEF Refused, Cut, Unheard
<1>4. s.stage = r.stage /\ s.path = r.path /\ s.file = r.file
  BY Facts, HeardLost
<1>5. s \in requests' => s \in requests \/ r.stage \notin {"stored", "failed"}
  BY DEF Refused, Cut, Unheard
<1> HIDE DEF s
<1>6. Young'
  BY <1>1, <1>3, <1>4, GoesOn DEF FilesInv
<1>7. /\ StagedOK' /\ HandedOK'
      /\ \A q \in requests' : q # s => Claim(q)'
      /\ r.stage \in {"reserved", "writing"} /\ r.path \notin raced => Alone(s)'
  BY <1>1, <1>2, <1>3, <1>4, OthersKept
<1>8. Claim(s)'
  BY <1>1, <1>4, <1>7 DEF FilesInv, Claims, Claim, IsAt
<1> QED  BY <1>6, <1>7, <1>8 DEF FilesInv, Claims

LEMMA FilesKept == Typed /\ RunsInv /\ FilesInv /\ [Next]_vars => FilesInv'
<1> SUFFICES ASSUME Typed, RunsInv, FilesInv, [Next]_vars PROVE FilesInv'
  OBVIOUS
<1>1. ASSUME NEW r \in requests, Served(r) \/ Heard(r) \/ Cut(r) PROVE FilesInv'
  BY <1>1, ReserveKeeps, OpenKeeps, StoreKeeps, FailKeeps, NextKeeps, NoticeKeeps, ErrorKeeps
  DEF Served, Heard
<1>2. ASSUME NEW b \in Bubbles, SendStaged(b) \/ Retry(b) PROVE FilesInv'
  <2>1. StartRun(b) /\ UNCHANGED <<disk, doomed, handed, raced>>
    BY <1>2 DEF SendStaged, Retry, history
  <2> QED  BY <2>1, StartKeeps
<1>3. CASE (\E b \in Bubbles : Render(b)) \/ UNCHANGED vars
  <2>1. UNCHANGED <<disk, requests, runs, doomed, handed, raced>>
    BY <1>3 DEF Render, client, history, vars
  <2> QED
    BY <2>1 DEF FilesInv, Young, Claims, Claim, Alone, StagedOK, HandedOK, IsAt
<1>4. ASSUME NEW x \in External, Receive(x) PROVE FilesInv'
  BY <1>4, ReceiveKeeps
<1>5. CASE Crash
  <2>1. /\ UNCHANGED <<disk, runs, doomed, handed, raced>>
        /\ \A s \in requests' : \E r \in requests : s = WithStage(r, "failed")
    BY <1>5 DEF Crash, WithStage, client
  <2>2. \A s \in requests' : s.stage = "failed" /\ \E r \in requests : s.path = r.path
    BY <2>1, Facts, StageSet
  <2>3. Young'
    BY <2>1, <2>2 DEF FilesInv, Young
  <2>4. Claims'
    BY <2>2 DEF Claims, Claim
  <2> QED  BY <2>1, <2>3, <2>4 DEF FilesInv, StagedOK, HandedOK, IsAt
<1>6. CASE Age
  <2>1. /\ requests = {} /\ requests' = {} /\ handed' = {} /\ UNCHANGED <<runs, doomed>>
        /\ disk' = [p \in Paths |-> IF IsFree(p) THEN Absent ELSE [disk[p] EXCEPT !.old = TRUE]]
    BY <1>6 DEF Age, client
  <2>2. \A b \in Bubbles : runs[b] = {}
    BY <2>1 DEF RunsInv, BubblesOK
  <2>3. ASSUME doomed # NoPath PROVE disk'[doomed].old
    <3>1. doomed \in Paths /\ disk[doomed].old /\ disk[doomed] \in Contents
      BY <2>3, Facts DEF FilesInv, Young
    <3>2. ~IsFree(doomed)
      BY <3>1 DEF IsFree, Absent
    <3> QED  BY <2>1, <3>1, <3>2 DEF Contents
  <2> QED  BY <2>1, <2>2, <2>3 DEF FilesInv, Young, Claims, StagedOK, HandedOK
<1>7. CASE SweepUnlinks
  <2>1. /\ doomed \in Paths /\ disk[doomed].old /\ doomed' = NoPath
        /\ disk' = [disk EXCEPT ![doomed] = Absent] /\ UNCHANGED <<requests, runs, handed, raced>>
    BY <1>7, Facts DEF SweepUnlinks, FilesInv, Young, client, history
  <2>2. \A p \in Paths : ~disk[p].old => disk'[p] = disk[p]
    BY <2>1, Facts
  <2>3. \A r \in requests : r.path # NoPath => r.path \in Paths /\ disk'[r.path] = disk[r.path]
    BY <2>2, Facts DEF FilesInv, Young
  <2>4. Young'
    BY <2>1, <2>3 DEF FilesInv, Young
  <2>5. \A r \in requests : r.stage \in HasPath => disk'[r.path] = disk[r.path]
    BY <2>3, Facts, NoPathIsNone
  <2>6. Claims'
    BY <2>1, <2>5 DEF FilesInv, Claims, Claim, Alone, IsAt, HasPath
  <2>7. StagedOK'
    BY SMTT(30), <2>1, <2>2, StagedAt DEF FilesInv, StagedOK, IsAt
  <2>8. HandedOK'
    BY <2>1, <2>2, HandedAt DEF FilesInv, HandedOK, IsAt
  <2> QED  BY <2>4, <2>6, <2>7, <2>8 DEF FilesInv
<1>8. ASSUME NEW p \in Paths, SweepFinds(p) PROVE FilesInv'
  <2>1. disk[p].old /\ doomed' = p /\ UNCHANGED <<disk, requests, runs, handed, raced>>
    BY <1>8 DEF SweepFinds, client, history
  <2>2. Young'
    BY <2>1 DEF FilesInv, Young
  <2> QED
    BY <2>1, <2>2 DEF FilesInv, Claims, Claim, Alone, StagedOK, HandedOK, IsAt
<1> QED  BY <1>1, <1>2, <1>3, <1>4, <1>5, <1>6, <1>7, <1>8 DEF Next

(* What the agent was told to read is at its path, whole and not another     *)
(* file, whoever uploads, fails, sweeps or stages beside it; the exception   *)
(* is a path two writers reserved before either created it                   *)
(* (attachments.ts:63-83).                                                   *)
THEOREM HandedFilesStay == Spec => []HandedFilesAreWhole
<1>1. Init => FilesInv
  BY DEF Init, FilesInv, Young, Claims, StagedOK, HandedOK
<1>2. ToldInv => RunsInv
  BY DEF ToldInv
<1>3. FilesInv => HandedFilesAreWhole
  BY DEF FilesInv, HandedOK, IsAt, HandedFilesAreWhole
<1> QED  BY <1>1, <1>2, <1>3, FilesKept, AlwaysTyped, AlwaysTold, PTL DEF Spec
=============================================================================
