---------------------------- MODULE VoiceFastPath ----------------------------
(* The fast path of POST /api/siri/ask: a command whose every clause names a *)
(* known device is carried out by calls of Home Assistant (HA), everything   *)
(* else goes to the model (SiriAsk), and a rule may be learned from what the *)
(* model did.                                                                *)
(*                                                                           *)
(* The names are kept in three JSON files: one learned here, one generated   *)
(* by a cron job, one written by hand.  The server caches their union under  *)
(* the modification times it saw BEFORE it read them; other processes write  *)
(* the files at any moment, and every write gets a time of its own.  An      *)
(* utterance is abstracted to its clauses, each with the verbs and the names *)
(* it contains, and to the noun extractName would strip from it.             *)
EXTENDS Naturals, Sequences, FiniteSets

CONSTANTS
    Asks,        \* requests
    Utterances,  \* what they say
    Names,       \* names of devices
    Entities,    \* entities of HA
    None,        \* no name, no entity, nothing cached
    Clauses,     \* utterance -> sequence of [verbs : SUBSET {"on", "off"}, says : SUBSET Names]
    Questions,   \* the utterances isQuestion recognises
    Noun,        \* utterance -> what extractName strips from it, or None
    Length,      \* name -> its length
    Serves       \* entity -> the intents its domain has a service for

VARIABLES
    files,     \* layer -> name -> entity or None
    stamp,     \* layer -> modification time
    cache,     \* None, or the merged table and the times it stands for
    reading,   \* None, or the request that is in loadMappings, with the times it saw
    asks,      \* request -> its state
    executed   \* request -> the steps of its plan that HA has carried out
fastPathVars == <<files, stamp, cache, reading, asks, executed>>

Layers == {"learned", "auto", "manual"}
NewAsk == [stage |-> "new", said |-> None, steps |-> <<>>, done |-> <<>>, entity |-> None]

-----------------------------------------------------------------------------
(* Reading the tables                                                        *)

\* The layers read later win: learned < auto < manual.
Merge(fs) == [n \in Names |->
    IF fs["manual"][n] # None THEN fs["manual"][n]
    ELSE IF fs["auto"][n] # None THEN fs["auto"][n] ELSE fs["learned"][n]]

\* The three statSync calls of loadMappings.
Stat(a) ==
    /\ reading = None
    /\ asks[a].stage \in {"planning", "learning"}
    /\ reading' = [ask |-> a, stamps |-> stamp]
    /\ UNCHANGED <<files, stamp, cache, asks, executed>>

CacheHit == cache # None /\ cache.stamps = reading.stamps
Loaded == IF CacheHit THEN cache.merged ELSE Merge(files)
\* loadMappings returns what it has cached for these times, or reads and caches.
Load ==
    /\ cache' = IF CacheHit THEN cache ELSE [stamps |-> reading.stamps, merged |-> Loaded]
    /\ reading' = None

-----------------------------------------------------------------------------
(* Planning                                                                  *)

\* matchName: the longest known name the clause contains, none when two are equally long.
Known(clause, table) == {n \in clause.says : table[n] # None}
Longest(names) == {n \in names : \A m \in names : Length[m] <= Length[n]}
MatchName(clause, table) ==
    LET best == Longest(Known(clause, table)) IN
    IF \E n \in best : best = {n} THEN CHOOSE n \in best : TRUE ELSE None

\* planStep: one verb, one device, and a service for it.
\* Scenes and scripts have no service to turn them off, other domains none at all.
HasService(entity, intent) == intent \in Serves[entity]
NoStep == [name |-> None, entity |-> None, intent |-> "none"]
PlanStep(clause, table) ==
    LET name == MatchName(clause, table)
        intent == IF "off" \in clause.verbs THEN "off" ELSE "on" IN
    IF clause.verbs \in {{"on"}, {"off"}} /\ name # None /\ HasService(table[name], intent)
    THEN [name |-> name, entity |-> table[name], intent |-> intent]
    ELSE NoStep

Planned(u, table) == [i \in 1..Len(Clauses[u]) |-> PlanStep(Clauses[u][i], table)]
IsQuestion(u) == u \in Questions
\* planSteps: the whole utterance or nothing (<<>>), and no entity twice.
PlanSteps(u, table) ==
    LET steps == Planned(u, table) IN
    IF /\ ~IsQuestion(u)
       /\ \A i \in 1..Len(steps) : steps[i] # NoStep
       /\ \A i, j \in 1..Len(steps) : i # j => steps[i].entity # steps[j].entity
    THEN steps ELSE <<>>

-----------------------------------------------------------------------------
(* A request                                                                 *)

AskFor(a, u) ==
    /\ reading = None
    /\ asks[a].stage = "new"
    /\ asks' = [asks EXCEPT ![a].stage = "planning", ![a].said = u]
    /\ UNCHANGED <<files, stamp, cache, reading, executed>>

\* To the model, unless MAX_INFLIGHT requests are with it (429).
Onward == {"model", "refused"}

Plan(a) ==
    /\ reading # None /\ reading.ask = a /\ asks[a].stage = "planning"
    /\ LET steps == PlanSteps(asks[a].said, Loaded) IN
       \E next \in Onward :
         asks' = [asks EXCEPT ![a].steps = steps,
                              ![a].stage = IF steps # <<>> THEN "calling" ELSE next]
    /\ Load
    /\ UNCHANGED <<files, stamp, executed>>

\* The steps whose call has been sent.
Sent(r) == 1..(Len(r.done) + IF r.stage = "calling" THEN 1 ELSE 0)

\* HA carries out a call, perhaps long after the 8 seconds it was waited for.
Execute(a, i) ==
    /\ i \in Sent(asks[a])
    /\ executed' = [executed EXCEPT ![a] = @ \cup {i}]
    /\ UNCHANGED <<files, stamp, cache, reading, asks>>

\* callHa returns: HA says that it is done, or with an error or a timeout nothing is known.
\* A plan of one step that fails goes to the model; a longer one is carried on and reported.
CallEnds(a, ok) ==
    /\ reading = None
    /\ asks[a].stage = "calling"
    /\ ok => Len(asks[a].done) + 1 \in executed[a]
    /\ LET r == asks[a]
           last == Len(r.done) + 1 = Len(r.steps) IN
       \E next \in Onward :
         asks' = [asks EXCEPT
            ![a].done = Append(@, ok),
            ![a].stage = IF ~last THEN "calling"
                         ELSE IF Len(r.steps) = 1 /\ ~ok THEN next ELSE "answered"]
    /\ UNCHANGED <<files, stamp, cache, reading, executed>>

\* The model ends: it made exactly one call that can be learned from, for entity, or not.
ModelEnds(a, entity) ==
    /\ reading = None
    /\ asks[a].stage = "model"
    /\ asks' = [asks EXCEPT ![a].entity = entity,
                            ![a].stage = IF entity = None THEN "answered" ELSE "learning"]
    /\ UNCHANGED <<files, stamp, cache, reading, executed>>

\* learnFromRun: the noun, unless it is in the tables that were loaded; the file is read
\* and written back within one step of the server.
Learn(a) ==
    /\ reading # None /\ reading.ask = a /\ asks[a].stage = "learning"
    /\ LET noun == Noun[asks[a].said] IN
       IF noun = None \/ Loaded[noun] # None \/ files["learned"][noun] = asks[a].entity
       THEN UNCHANGED <<files, stamp>>
       ELSE /\ files' = [files EXCEPT !["learned"][noun] = asks[a].entity]
            /\ stamp' = [stamp EXCEPT !["learned"] = @ + 1]
    /\ asks' = [asks EXCEPT ![a].stage = "answered"]
    /\ Load
    /\ UNCHANGED executed

\* The cron job and the user write their files; a half-written one reads as empty.
Rewrite(l, table) ==
    /\ l # "learned"
    /\ files' = [files EXCEPT ![l] = table]
    /\ stamp' = [stamp EXCEPT ![l] = @ + 1]
    /\ UNCHANGED <<cache, reading, asks, executed>>

\* The user strikes wrong entries out of the learned file.
Unlearn(names) ==
    /\ files' = [files EXCEPT !["learned"] = [n \in Names |-> IF n \in names THEN None ELSE @[n]]]
    /\ stamp' = [stamp EXCEPT !["learned"] = @ + 1]
    /\ UNCHANGED <<cache, reading, asks, executed>>

Tables == [Names -> Entities \cup {None}]
FastPathInit ==
    /\ files \in [Layers -> Tables]
    /\ stamp = [l \in Layers |-> 0]
    /\ cache = None /\ reading = None
    /\ asks = [a \in Asks |-> NewAsk]
    /\ executed = [a \in Asks |-> {}]

Step(a) ==
    \/ \E u \in Utterances : AskFor(a, u)
    \/ Stat(a) \/ Plan(a) \/ Learn(a)
    \/ \E i \in Sent(asks[a]) : Execute(a, i)
    \/ \E ok \in BOOLEAN : CallEnds(a, ok)
    \/ \E entity \in Entities \cup {None} : ModelEnds(a, entity)

FastPathNext ==
    \/ \E a \in Asks : Step(a)
    \/ \E l \in Layers, table \in Tables : Rewrite(l, table)
    \/ \E names \in SUBSET Names : Unlearn(names)

FastPathSpec == FastPathInit /\ [][FastPathNext]_fastPathVars
-----------------------------------------------------------------------------
Stages == {"new", "planning", "calling", "model", "refused", "learning", "answered"}
FastPathTypeOK ==
    /\ files \in [Layers -> Tables]
    /\ stamp \in [Layers -> Nat]
    /\ cache # None => /\ cache = [stamps |-> cache.stamps, merged |-> cache.merged]
                       /\ cache.stamps \in [Layers -> Nat] /\ cache.merged \in Tables
    /\ reading # None => /\ reading = [ask |-> reading.ask, stamps |-> reading.stamps]
                         /\ reading.ask \in Asks /\ reading.stamps \in [Layers -> Nat]
    /\ asks \in [Asks -> [stage : Stages, said : Utterances \cup {None},
                          steps : Seq([name : Names, entity : Entities, intent : {"on", "off"}]),
                          done : Seq(BOOLEAN), entity : Entities \cup {None}]]
    /\ executed \in [Asks -> SUBSET Nat]

(* A spoken report is true: each step it calls done has been carried out     *)
(* (fast-path.ts:228-250), also when calls time out and take effect late.    *)
ReportsAreTrue ==
    \A a \in Asks : \A i \in 1..Len(asks[a].done) : asks[a].done[i] => i \in executed[a]

(* What the fast path has begun is not done again by the model, and not left *)
(* half done (fast-path.ts:150-154, 232-233): only a plan of a single step   *)
(* whose call failed is handed on, and a plan that is answered has had every *)
(* step tried.                                                               *)
HandedOverUndone ==
    \A a \in Asks :
        /\ asks[a].stage \in {"model", "refused", "learning"} /\ asks[a].steps # <<>> =>
               Len(asks[a].steps) = 1 /\ asks[a].done = <<FALSE>>
        /\ asks[a].stage = "answered" => Len(asks[a].done) = Len(asks[a].steps)

(* Whenever the cache is hit, it holds what the files hold: a write between  *)
(* the reading of the times and of the files does not leave it stale for the *)
(* next request (fast-path.ts:83-104).                                       *)
CacheIsCurrent ==
    cache # None /\ cache.stamps = stamp => cache.merged = Merge(files)

(* Learning from one request changes no name that a request could already be *)
(* planned with, whatever is written between the check and the learning      *)
(* (fast-path-learn.ts:115-128, siri-ask.ts:145-147).                        *)
LearningShadowsNothing ==
    [][\A a \in Asks : Learn(a) =>
         \A n \in Names : Merge(files)[n] # None => Merge(files')[n] = Merge(files)[n]]_fastPathVars
=============================================================================
