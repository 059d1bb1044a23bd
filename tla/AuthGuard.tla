------------------------------ MODULE AuthGuard ------------------------------
(* The guard of the server's requests, server/middleware/auth.ts: who sends  *)
(* wrong tokens too often from one address is locked out for a while.        *)
(*                                                                           *)
(* The guard's state is <<>> for an address without failures, else           *)
(* <<[count, windowStartedAt, lockedUntil]>>.  A request is [now, valid,     *)
(* protected]; limits are [window, maxFailures, lock], in the same unit.     *)
EXTENDS Naturals, Sequences
LOCAL INSTANCE SequencesExt

LIMITS == [window |-> 60, maxFailures |-> 5, lock |-> 300]

\* Static files, the first page and the login itself are never guarded.
ShouldProtect(path) ==
    /\ path \notin {"root", "favicon", "assets", "verify"}
    /\ path \in {"api", "ws"}

IsLocked(state, now) == state # <<>> /\ state[1].lockedUntil > now

RecordFailure(state, now, limits) ==
    LET f == state[1]
        count == f.count + 1
    IN  IF state = <<>> \/ now - f.windowStartedAt > limits.window
        THEN <<[count |-> 1, windowStartedAt |-> now, lockedUntil |-> 0]>>
        ELSE <<[f EXCEPT !.count = count,
                         !.lockedUntil = IF count > limits.maxFailures
                                         THEN now + limits.lock ELSE @]>>

\* A locked address is refused whatever its token and counts no more; a good
\* token forgets the failures.
Guard(state, request, limits) ==
    CASE ~request.protected -> [answer |-> "pass", state |-> state]
      [] request.protected /\ IsLocked(state, request.now) -> [answer |-> "429", state |-> state]
      [] OTHER -> IF request.valid THEN [answer |-> "pass", state |-> <<>>]
                  ELSE [answer |-> "401", state |-> RecordFailure(state, request.now, limits)]

\* The answers to a run of requests from one address, in turn.
Answers(requests, limits) ==
    FoldLeft(LAMBDA run, r:
                LET g == Guard(run.state, r, limits)
                IN  [state |-> g.state, answers |-> Append(run.answers, g.answer)],
             [state |-> <<>>, answers |-> <<>>], requests)

(***************************************************************************)
(* Checks over every run of five protected requests whose gaps reach over   *)
(* the window (3) and the lock (6), two failures being allowed.             *)
(***************************************************************************)
RunsOfFive ==
    LET Requests(gaps, valid) ==
            [i \in 1..5 |-> [now |-> FoldLeft(+, 1, SubSeq(gaps, 1, i)),
                             valid |-> valid[i], protected |-> TRUE]]
    IN  {Requests(gaps, valid) : gaps \in [1..5 -> {0, 2, 4, 7}], valid \in [1..5 -> BOOLEAN]}

SmallLimits == [window |-> 3, maxFailures |-> 2, lock |-> 6]

\* Nobody is locked out but for a burst: before a request is refused with 429
\* there were three failures within one window, at most a lock's time before,
\* and none of them was followed by a good token that was let in.
ASSUME LockedForABurst ==
    \A run \in RunsOfFive :
        LET answers == Answers(run, SmallLimits).answers
        IN  \A i \in 1..5 : answers[i] = "429" =>
                \E a, b, c \in 1..i - 1 :
                    /\ a < b /\ b < c
                    /\ {answers[a], answers[b], answers[c]} = {"401"}
                    /\ run[c].now - run[a].now <= SmallLimits.window
                    /\ run[i].now < run[c].now + SmallLimits.lock
                    /\ \A k \in a..i : answers[k] # "pass"

\* A lock ends: requests made while it lasts do not prolong it, so a good
\* token is let in once a lock's time has passed since the last failure told.
ASSUME LockEnds ==
    \A run \in RunsOfFive :
        LET answers == Answers(run, SmallLimits).answers
        IN  \A i \in 1..5 :
                (/\ run[i].valid
                 /\ \A k \in 1..i - 1 : answers[k] = "401" =>
                        run[i].now >= run[k].now + SmallLimits.lock)
                => answers[i] = "pass"

\* A burst is stopped: of failures within one window that begins with the
\* first of them, no more than three are answered by looking at the token.
ASSUME BurstIsStopped ==
    \A run \in RunsOfFive :
        LET answers == Answers(run, SmallLimits).answers
        IN  (\A i \in 1..5 : ~run[i].valid /\ run[i].now - run[1].now <= SmallLimits.window)
            => Len(SelectSeq(answers, LAMBDA a: a = "401")) <= SmallLimits.maxFailures + 1
=============================================================================
