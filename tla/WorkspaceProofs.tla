--------------------------- MODULE WorkspaceProofs ---------------------------
(* Proofs about the workspace, for any directories, files, scopes, tabs and  *)
(* bounds: the panel of the dashboard (WorkspaceTree), the files that tabs   *)
(* show and write (WorkspaceFiles), and what the services find out about     *)
(* the repositories (WorkspaceGit).                                          *)
EXTENDS WorkspaceTree, WorkspaceFiles, WorkspaceGit,
        FiniteSetTheorems, SequenceTheorems, WellFoundedInduction, TLAPS

-----------------------------------------------------------------------------
(* The panel.                                                               *)

\* The calls after an answer, and after a start.
LEMMA StepDoes ==
  ASSUME calls \in [Call -> Nat], NEW c \in Call, calls[c] > 0, NEW new \in SUBSET Call, Step(c, new)
  PROVE  /\ calls' \in [Call -> Nat]
         /\ \A x \in Call : x # c => calls'[x] >= calls[x]
         /\ \A x \in new : calls'[x] > 0
  BY DEF Step

LEMMA StartDoes ==
  ASSUME calls \in [Call -> Nat], NEW c \in Call, Start(c)
  PROVE  /\ calls' \in [Call -> Nat]
         /\ \A x \in Call : calls'[x] >= calls[x]
         /\ calls'[c] > 0
  BY DEF Start

\* Which requests there are.
LEMMA CallFacts ==
  /\ \A kind \in {"workspace", "scopes", "diff"} : A(kind, Root, "end") \in Call
  /\ \A d \in Directories, next \in {"end", "status", "all"} : A("tree", d, next) \in Call
  /\ \A s \in Scopes : A("status", s, "end") \in Call
  /\ \A d \in Directories : A("item", d, "end") \in Call
  BY DEF Call, A

LEMMA CallCases ==
  ASSUME NEW c \in Call
  PROVE  /\ c = A(c.kind, c.arg, c.next)
         /\ c.kind \in {"workspace", "scopes", "diff"} => c.arg = Root /\ c.next = "end"
         /\ c.kind = "tree" => c.arg \in Directories /\ c.next \in {"end", "status", "all"}
         /\ c.kind = "status" => c.arg \in Scopes /\ c.next = "end"
         /\ c.kind = "item" => c.arg \in Directories /\ c.next = "end"
  BY DEF Call, A

LEMMA AfterTreeCalls ==
  ASSUME activeScope \in Scopes, NEW next
  PROVE  /\ AfterTree(next) \in SUBSET Call
         /\ next \in {"all", "status"} => A("status", activeScope, "end") \in AfterTree(next)
  BY CallFacts DEF AfterTree

\* What the user does begins a request or none; an answer ends its own.
LEMMA UserStarts ==
  ASSUME TreeTypeOK, User
  PROVE  (\E c \in Call : Start(c)) \/ (calls' = calls /\ loading' \subseteq loading)
  <1>a. activeScope \in Scopes /\ Root \in Directories
    BY RootAssumption DEF TreeTypeOK
  <1>1. CASE LoadWorkspace \/ RefreshStatus \/ OpenDiff
    BY <1>1, <1>a, CallFacts DEF LoadWorkspace, RefreshStatus, OpenDiff
  <1>2. CASE CloseDiff
    BY <1>2 DEF CloseDiff
  <1>3. ASSUME NEW d \in Directories, ExpandDirectory(d) \/ ChangeItem(d)
        PROVE  \E c \in Call : Start(c)
    BY <1>3, CallFacts DEF ExpandDirectory, ChangeItem
  <1>4. ASSUME NEW s \in Scopes, ChooseScope(s) \/ AddCustomScope(s)
        PROVE  (\E c \in Call : Start(c)) \/ UNCHANGED <<calls, loading>>
    BY <1>4, CallFacts DEF ChooseScope, AddCustomScope, SetActiveScope
  <1> QED BY <1>1, <1>2, <1>3, <1>4 DEF User

LEMMA AnswerSteps ==
  ASSUME TreeTypeOK, NEW c \in Call, Answer(c)
  PROVE  calls[c] > 0 /\ \E new \in SUBSET Call : Step(c, new)
  <1>a. activeScope \in Scopes /\ Root \in Directories
    BY RootAssumption DEF TreeTypeOK
  <1>1. calls[c] > 0
    BY DEF Answer
  <1>2. CASE c.kind = "workspace"
    <2>1. c = A("workspace", Root, "end") /\ {A("tree", Root, "all")} \in SUBSET Call
      BY <1>a, <1>2, CallCases, CallFacts
    <2> QED BY <1>1, <1>2, <2>1
            DEF Answer, WorkspaceConfigured, WorkspaceRefused, WorkspaceFails
  <1>3. CASE c.kind = "tree"
    <2>1. c = A("tree", c.arg, c.next) /\ AfterTree(c.next) \in SUBSET Call
      BY <1>a, <1>3, CallCases, AfterTreeCalls
    <2> QED BY <1>1, <1>3, <2>1 DEF Answer, TreeArrives, TreeFails
  <1>4. CASE c.kind = "status"
    <2>1. c = A("status", c.arg, "end")
      BY <1>4, CallCases
    <2> QED BY <1>1, <1>4, <2>1 DEF Answer, StatusArrives
  <1>5. CASE c.kind \in {"scopes", "diff"}
    <2>1. c = A(c.kind, Root, "end")
      BY <1>5, CallCases
    <2> QED BY <1>1, <1>5, <2>1 DEF Answer, ScopesArrive, ScopesFail, DiffArrives
  <1>6. CASE c.kind = "item"
    <2>1. c = A("item", c.arg, "end") /\ {A("tree", c.arg, "status")} \in SUBSET Call
      BY <1>6, CallCases, CallFacts
    <2> QED BY <1>1, <1>6, <2>1 DEF Answer, ItemChanged, ItemRefused
  <1> QED BY <1>1, <1>2, <1>3, <1>4, <1>5, <1>6 DEF Answer

LEMMA MarkBadge ==
  ASSUME NEW st \in Statuses \cup {None}
  PROVE  Mark(st) \in Badge
  BY DEF Mark, Statuses, Badge, None

\* What happens to the listings and what they are marked with.
LEMMA PanelChanges ==
  ASSUME TreeTypeOK, [TreeNext]_treeVars
  PROVE  \/ UNCHANGED <<tree, treeError, gitVars>>
         \/ WorkspaceRefused
         \/ \E d \in Directories, next \in {"end", "status", "all"} :
              calls[A("tree", d, next)] > 0 /\ (TreeArrives(d, next) \/ TreeFails(d, next))
         \/ \E s \in Scopes, st \in Statuses : calls[A("status", s, "end")] > 0 /\ StatusArrives(s, st)
         \/ ScopesArrive
         \/ \E s \in Scopes : ChooseScope(s) \/ AddCustomScope(s)
  <1>1. ASSUME NEW c \in Call, Answer(c)
        PROVE  \/ UNCHANGED <<tree, treeError, gitVars>>
               \/ WorkspaceRefused
               \/ \E d \in Directories, next \in {"end", "status", "all"} :
                    calls[A("tree", d, next)] > 0 /\ (TreeArrives(d, next) \/ TreeFails(d, next))
               \/ \E s \in Scopes, st \in Statuses :
                    calls[A("status", s, "end")] > 0 /\ StatusArrives(s, st)
               \/ ScopesArrive
    <2>1. calls[c] > 0 /\ c = A(c.kind, c.arg, c.next)
      BY <1>1, CallCases DEF Answer
    <2>2. CASE c.kind = "workspace"
      BY <1>1, <2>2 DEF Answer, WorkspaceConfigured, WorkspaceFails
    <2>3. CASE c.kind = "tree"
      <3>1. c.arg \in Directories /\ c.next \in {"end", "status", "all"}
            /\ calls[A("tree", c.arg, c.next)] > 0
        BY <2>1, <2>3, CallCases
      <3> QED BY <1>1, <2>3, <3>1 DEF Answer
    <2>4. CASE c.kind = "status"
      <3>1. c.arg \in Scopes /\ calls[A("status", c.arg, "end")] > 0
        BY <2>1, <2>4, CallCases
      <3> QED BY <1>1, <2>4, <3>1 DEF Answer
    <2>5. CASE c.kind \in {"scopes", "diff", "item"}
      BY <1>1, <2>5 DEF Answer, ScopesFail, DiffArrives, ItemChanged, ItemRefused
    <2> QED BY <1>1, <2>2, <2>3, <2>4, <2>5 DEF Answer
  <1>2. User => \/ UNCHANGED <<tree, treeError, gitVars>>
                \/ \E s \in Scopes : ChooseScope(s) \/ AddCustomScope(s)
    BY DEF User, LoadWorkspace, RefreshStatus, OpenDiff, CloseDiff, ExpandDirectory, ChangeItem
  <1> QED BY <1>1, <1>2 DEF TreeNext, treeVars

LEMMA CallsType ==
  ASSUME TreeTypeOK, [TreeNext]_treeVars
  PROVE  calls' \in [Call -> Nat] /\ loading' \subseteq Spinner
  <1>0. calls \in [Call -> Nat] /\ loading \subseteq Spinner
    BY DEF TreeTypeOK
  <1>1. ASSUME NEW c \in Call, Start(c) PROVE calls' \in [Call -> Nat] /\ loading' \subseteq Spinner
    BY <1>0, <1>1, StartDoes DEF Start
  <1>2. ASSUME NEW c \in Call, calls[c] > 0, NEW new \in SUBSET Call, Step(c, new)
        PROVE  calls' \in [Call -> Nat] /\ loading' \subseteq Spinner
    <2>1. calls' \in [Call -> Nat]
      BY <1>0, <1>2, StepDoes
    <2> QED BY <1>0, <1>2, <2>1 DEF Step
  <1> QED BY <1>0, <1>1, <1>2, UserStarts, AnswerSteps DEF TreeNext, treeVars

\* The listings, marks and scopes of the panel are well typed
\* (store/workspace.ts), for any directories, scopes and requests.
THEOREM PanelTypeCorrect == TreeSpec => []TreeTypeOK
  <1>1. TreeInit => TreeTypeOK
    <2> SUFFICES ASSUME TreeInit PROVE TreeTypeOK
      OBVIOUS
    <2>1. calls \in [Call -> Nat] /\ loading \subseteq Spinner
      BY DEF TreeInit
    <2> HIDE DEF Call
    <2> QED BY <2>1, RootAssumption DEF TreeInit, TreeTypeOK
  <1>2. TreeTypeOK /\ [TreeNext]_treeVars => TreeTypeOK'
    <2> SUFFICES ASSUME TreeTypeOK, [TreeNext]_treeVars PROVE TreeTypeOK'
      OBVIOUS
    <2>0. /\ tree \in [Directories -> Badge \cup {None}] /\ treeError \in [Directories -> BOOLEAN]
          /\ status \in [Scopes -> Statuses \cup {None}] /\ scopes \subseteq Scopes
          /\ activeScope \in Scopes /\ meta \in {None, "configured", "refused"}
      BY DEF TreeTypeOK
    <2>1. meta' \in {None, "configured", "refused"}
      BY <2>0 DEF TreeNext, treeVars, User, Answer, LoadWorkspace, RefreshStatus, OpenDiff, CloseDiff,
             ExpandDirectory, ChangeItem, ChooseScope, AddCustomScope, WorkspaceConfigured,
             WorkspaceRefused, WorkspaceFails, TreeArrives, TreeFails, StatusArrives, ScopesArrive,
             ScopesFail, DiffArrives, ItemChanged, ItemRefused
    <2> DEFINE Rest == /\ tree' \in [Directories -> Badge \cup {None}]
                       /\ treeError' \in [Directories -> BOOLEAN]
                       /\ status' \in [Scopes -> Statuses \cup {None}] /\ scopes' \subseteq Scopes
                       /\ activeScope' \in Scopes
    <2>2. ASSUME UNCHANGED <<tree, treeError, gitVars>> PROVE Rest
      BY <2>0, <2>2 DEF gitVars
    <2>3. ASSUME WorkspaceRefused PROVE Rest
      BY <2>0, <2>3 DEF WorkspaceRefused, Statuses
    <2>4. ASSUME NEW d \in Directories, NEW next, TreeArrives(d, next) \/ TreeFails(d, next) PROVE Rest
      <3>1. Mark(status[activeScope]) \in Badge
        BY <2>0, MarkBadge
      <3> QED BY <2>0, <2>4, <3>1 DEF TreeArrives, TreeFails, gitVars
    <2>5. ASSUME NEW s \in Scopes, NEW st \in Statuses, StatusArrives(s, st) PROVE Rest
      <3>1. Mark(IF activeScope = s THEN st ELSE status[activeScope]) \in Badge
        BY <2>0, MarkBadge
      <3> QED BY <2>0, <2>5, <3>1 DEF StatusArrives, Marked
    <2>6. ASSUME ScopesArrive PROVE Rest
      BY <2>0, <2>6 DEF ScopesArrive
    <2>7. ASSUME NEW s \in Scopes, ChooseScope(s) \/ AddCustomScope(s) PROVE Rest
      <3>1. Mark(status[s]) \in Badge
        BY <2>0, MarkBadge
      <3>2. activeScope' = s /\ tree' = Marked(status[s])
        BY <2>7 DEF ChooseScope, AddCustomScope, SetActiveScope
      <3>3. UNCHANGED <<treeError, status>> /\ scopes' \in {scopes, scopes \cup {s}}
        BY <2>7 DEF ChooseScope, AddCustomScope
      <3> QED BY <2>0, <3>1, <3>2, <3>3 DEF Marked
    <2>8. Rest
      BY <2>2, <2>3, <2>4, <2>5, <2>6, <2>7, PanelChanges
    <2> QED BY <2>1, <2>8, CallsType DEF TreeTypeOK
  <1> QED BY <1>1, <1>2, PTL DEF TreeSpec

\* Every set of the store that changes a listing, a status or the selection
\* marks the listings again (store/workspace.ts withGitStatuses).
THEOREM BadgesFollow == TreeSpec => []BadgesFollowActiveScope
  <1>1. TreeInit => BadgesFollowActiveScope
    BY DEF TreeInit, BadgesFollowActiveScope
  <1>2. TreeTypeOK /\ BadgesFollowActiveScope /\ [TreeNext]_treeVars => BadgesFollowActiveScope'
    <2> SUFFICES ASSUME TreeTypeOK, BadgesFollowActiveScope, [TreeNext]_treeVars, NEW d \in Directories
                 PROVE  tree'[d] \in {None, Mark(status'[activeScope'])}
      BY DEF BadgesFollowActiveScope, Mark
    <2>0. /\ tree \in [Directories -> Badge \cup {None}]
          /\ status \in [Scopes -> Statuses \cup {None}] /\ activeScope \in Scopes
          /\ tree[d] \in {None, Mark(status[activeScope])}
      BY DEF TreeTypeOK, BadgesFollowActiveScope
    <2>1. CASE UNCHANGED <<tree, treeError, gitVars>>
      BY <2>0, <2>1 DEF gitVars
    <2>2. CASE WorkspaceRefused
      BY <2>0, <2>2 DEF WorkspaceRefused
    <2>3. ASSUME NEW e \in Directories, NEW next, TreeArrives(e, next) \/ TreeFails(e, next)
          PROVE  tree'[d] \in {None, Mark(status'[activeScope'])}
      BY <2>0, <2>3 DEF TreeArrives, TreeFails, gitVars
    <2>4. ASSUME NEW s \in Scopes, NEW st \in Statuses, StatusArrives(s, st)
          PROVE  tree'[d] \in {None, Mark(status'[activeScope'])}
      BY <2>0, <2>4 DEF StatusArrives, Marked
    <2>5. CASE ScopesArrive
      BY <2>0, <2>5 DEF ScopesArrive
    <2>6. ASSUME NEW s \in Scopes, ChooseScope(s) \/ AddCustomScope(s)
          PROVE  tree'[d] \in {None, Mark(status'[activeScope'])}
      <3>1. activeScope' = s /\ tree' = Marked(status[s]) /\ status' = status
        BY <2>6 DEF ChooseScope, AddCustomScope, SetActiveScope
      <3> QED BY <2>0, <3>1 DEF Marked
    <2> QED BY <2>1, <2>2, <2>3, <2>4, <2>5, <2>6, PanelChanges
  <1> QED BY <1>1, <1>2, PanelTypeCorrect, PTL DEF TreeSpec

\* Whatever is missing in a configured workspace is in flight.
PanelFills ==
    meta = "configured" =>
        /\ \/ tree[Root] # None \/ treeError[Root]
           \/ \E next \in {"end", "status", "all"} : calls[A("tree", Root, next)] > 0
        /\ \/ status[activeScope] # None
           \/ calls[A("tree", Root, "all")] > 0
           \/ calls[A("status", activeScope, "end")] > 0

\* Something that is in flight stays so, unless it is answered.
LEMMA StaysInFlight ==
  ASSUME TreeTypeOK, [TreeNext]_treeVars, NEW x \in Call, calls[x] > 0
  PROVE  calls'[x] > 0 \/ Answer(x)
  <1>0. calls \in [Call -> Nat]
    BY DEF TreeTypeOK
  <1>1. ASSUME NEW c \in Call, Start(c) PROVE calls'[x] > 0
    BY <1>0, <1>1, StartDoes
  <1>2. ASSUME NEW c \in Call, Answer(c), c # x PROVE calls'[x] > 0
    <2>1. calls[c] > 0
      BY <1>2 DEF Answer
    <2>2. ASSUME NEW new \in SUBSET Call, Step(c, new) PROVE calls'[x] > 0
      BY <1>0, <1>2, <2>1, <2>2, StepDoes
    <2> QED BY <1>2, <2>2, AnswerSteps
  <1>3. User => (\E c \in Call : Start(c)) \/ calls' = calls
    BY UserStarts
  <1> QED BY <1>1, <1>2, <1>3 DEF TreeNext, treeVars

\* A step that leaves a configured panel as it is, as far as what is missing
\* goes, leaves the requests that bring it.
LEMMA RootComes ==
  ASSUME TreeTypeOK, [TreeNext]_treeVars, meta = "configured", meta' = "configured", PanelFills
  PROVE  \/ tree'[Root] # None \/ treeError'[Root]
         \/ \E next \in {"end", "status", "all"} : calls'[A("tree", Root, next)] > 0
  <1>0. /\ tree \in [Directories -> Badge \cup {None}] /\ treeError \in [Directories -> BOOLEAN]
        /\ status \in [Scopes -> Statuses \cup {None}] /\ activeScope \in Scopes
        /\ Root \in Directories /\ None \notin Badge
    BY RootAssumption DEF TreeTypeOK, Badge, None
  <1>1. ASSUME tree[Root] # None \/ treeError[Root]
        PROVE  tree'[Root] # None \/ treeError'[Root]
    <2>1. CASE UNCHANGED <<tree, treeError, gitVars>>
      BY <1>1, <2>1
    <2>2. CASE WorkspaceRefused
      BY <2>2 DEF WorkspaceRefused
    <2>3. ASSUME NEW d \in Directories, NEW next, TreeArrives(d, next) \/ TreeFails(d, next)
          PROVE  tree'[Root] # None \/ treeError'[Root]
      <3>1. Mark(status[activeScope]) \in Badge
        BY <1>0, MarkBadge
      <3> QED BY <1>0, <1>1, <2>3, <3>1 DEF TreeArrives, TreeFails
    <2>4. ASSUME NEW s \in Scopes, NEW st \in Statuses, StatusArrives(s, st)
          PROVE  tree'[Root] # None \/ treeError'[Root]
      <3>1. Mark(IF activeScope = s THEN st ELSE status[activeScope]) \in Badge
        BY <1>0, MarkBadge
      <3> QED BY <1>0, <1>1, <2>4, <3>1 DEF StatusArrives, Marked
    <2>5. CASE ScopesArrive
      BY <1>1, <2>5 DEF ScopesArrive
    <2>6. ASSUME NEW s \in Scopes, ChooseScope(s) \/ AddCustomScope(s)
          PROVE  tree'[Root] # None \/ treeError'[Root]
      <3>1. Mark(status[s]) \in Badge
        BY <1>0, MarkBadge
      <3>2. tree' = Marked(status[s]) /\ treeError' = treeError
        BY <2>6 DEF ChooseScope, AddCustomScope, SetActiveScope
      <3> QED BY <1>0, <1>1, <3>1, <3>2 DEF Marked
    <2> QED BY <2>1, <2>2, <2>3, <2>4, <2>5, <2>6, PanelChanges
  <1>2. ASSUME NEW next \in {"end", "status", "all"}, calls[A("tree", Root, next)] > 0
        PROVE  \/ tree'[Root] # None \/ treeError'[Root]
               \/ calls'[A("tree", Root, next)] > 0
    <2>1. A("tree", Root, next) \in Call
      BY <1>0, CallFacts
    <2>2. Answer(A("tree", Root, next)) => TreeArrives(Root, next) \/ TreeFails(Root, next)
      BY DEF Answer, A
    <2>3. Mark(status[activeScope]) \in Badge
      BY <1>0, MarkBadge
    <2>4. TreeArrives(Root, next) => tree'[Root] # None
      BY <1>0, <2>3 DEF TreeArrives
    <2>5. TreeFails(Root, next) => treeError'[Root]
      BY <1>0 DEF TreeFails
    <2> QED BY <1>2, <2>1, <2>2, <2>4, <2>5, StaysInFlight
  <1> QED BY <1>1, <1>2 DEF PanelFills

LEMMA StatusComes ==
  ASSUME TreeTypeOK, [TreeNext]_treeVars, meta = "configured", meta' = "configured", PanelFills
  PROVE  \/ status'[activeScope'] # None
         \/ calls'[A("tree", Root, "all")] > 0
         \/ calls'[A("status", activeScope', "end")] > 0
  <1> DEFINE Goal == \/ status'[activeScope'] # None
                     \/ calls'[A("tree", Root, "all")] > 0
                     \/ calls'[A("status", activeScope', "end")] > 0
  <1>0. /\ status \in [Scopes -> Statuses \cup {None}] /\ activeScope \in Scopes
        /\ Root \in Directories /\ None \notin Statuses /\ calls \in [Call -> Nat]
    BY RootAssumption DEF TreeTypeOK, Statuses, None
  <1>1. ASSUME UNCHANGED <<status, activeScope>> PROVE Goal
    <2>1. CASE status[activeScope] # None
      BY <1>1, <2>1
    <2>2. CASE calls[A("tree", Root, "all")] > 0
      <3>1. A("tree", Root, "all") \in Call
        BY <1>0, CallFacts
      <3>2. ASSUME TreeArrives(Root, "all") \/ TreeFails(Root, "all")
            PROVE  calls'[A("status", activeScope, "end")] > 0
        <4>1. /\ AfterTree("all") \in SUBSET Call
              /\ A("status", activeScope, "end") \in AfterTree("all")
          BY <1>0, AfterTreeCalls
        <4>2. Step(A("tree", Root, "all"), AfterTree("all"))
          BY <3>2 DEF TreeArrives, TreeFails
        <4> QED BY <1>0, <2>2, <3>1, <4>1, <4>2, StepDoes
      <3>3. Answer(A("tree", Root, "all")) => TreeArrives(Root, "all") \/ TreeFails(Root, "all")
        BY DEF Answer, A
      <3> QED BY <1>1, <2>2, <3>1, <3>2, <3>3, StaysInFlight
    <2>3. CASE calls[A("status", activeScope, "end")] > 0
      <3>1. A("status", activeScope, "end") \in Call
        BY <1>0, CallFacts
      <3>2. Answer(A("status", activeScope, "end")) => \E st \in Statuses : StatusArrives(activeScope, st)
        BY DEF Answer, A
      <3>3. ASSUME NEW st \in Statuses, StatusArrives(activeScope, st)
            PROVE  status'[activeScope] # None
        BY <1>0, <3>3 DEF StatusArrives
      <3> QED BY <1>1, <2>3, <3>1, <3>2, <3>3, StaysInFlight
    <2> QED BY <2>1, <2>2, <2>3 DEF PanelFills
  <1>2. ASSUME NEW s \in Scopes, ChooseScope(s) \/ AddCustomScope(s) PROVE Goal
    <2>1. activeScope' = s /\ status' = status
          /\ (status[s] = None => Start(A("status", s, "end")))
      BY <1>2 DEF ChooseScope, AddCustomScope, SetActiveScope
    <2>2. A("status", s, "end") \in Call
      BY CallFacts
    <2>3. Start(A("status", s, "end")) => calls'[A("status", s, "end")] > 0
      BY <1>0, <2>2, StartDoes
    <2> QED BY <2>1, <2>3
  <1>3. ASSUME NEW s \in Scopes, NEW st \in Statuses, StatusArrives(s, st) PROVE Goal
    <2>1. CASE s = activeScope
      BY <1>0, <1>3, <2>1 DEF StatusArrives
    <2>2. CASE s # activeScope
      <3>1. status'[activeScope'] = status[activeScope] /\ activeScope' = activeScope
        BY <1>0, <1>3, <2>2 DEF StatusArrives
      <3>2. /\ A("tree", Root, "all") \in Call /\ A("status", activeScope, "end") \in Call
            /\ A("status", s, "end") \in Call
            /\ A("tree", Root, "all") # A("status", s, "end")
            /\ A("status", activeScope, "end") # A("status", s, "end")
        BY <1>0, <2>2, CallFacts DEF A
      <3>3. ASSUME NEW x \in Call, x # A("status", s, "end"), calls[x] > 0 PROVE calls'[x] > 0
        BY <1>0, <1>3, <3>3 DEF StatusArrives, Step
      <3> QED BY <3>1, <3>2, <3>3 DEF PanelFills
    <2> QED BY <2>1, <2>2
  <1>4. ASSUME NEW d \in Directories, NEW next, TreeArrives(d, next) \/ TreeFails(d, next)
        PROVE  UNCHANGED <<status, activeScope>>
    BY <1>4 DEF TreeArrives, TreeFails, gitVars
  <1>5. ~ WorkspaceRefused
    BY DEF WorkspaceRefused
  <1>6. ScopesArrive \/ UNCHANGED <<tree, treeError, gitVars>> => UNCHANGED <<status, activeScope>>
    BY DEF ScopesArrive, gitVars
  <1> QED BY <1>1, <1>2, <1>3, <1>4, <1>5, <1>6, PanelChanges

\* A configured workspace with nothing in flight has its root listing or an
\* error, and the status of the selected scope (store/workspace.ts
\* loadWorkspace, loadTree, setActiveGitScope), in whatever order the answers
\* of overlapping loads come.
THEOREM SettledPanels == TreeSpec => []SettledPanelIsComplete
  <1>1. TreeInit => PanelFills
    BY DEF TreeInit, PanelFills, None
  <1>2. TreeTypeOK /\ PanelFills /\ [TreeNext]_treeVars => PanelFills'
    <2> SUFFICES ASSUME TreeTypeOK, PanelFills, [TreeNext]_treeVars, meta' = "configured"
                 PROVE  PanelFills'
      BY DEF PanelFills, A
    <2>1. CASE meta = "configured"
      BY <2>1, RootComes, StatusComes DEF PanelFills, A
    <2>2. CASE meta # "configured"
      <3>1. WorkspaceConfigured /\ calls[A("workspace", Root, "end")] > 0
        <4>1. ASSUME NEW c \in Call, Answer(c), meta' # meta
              PROVE  WorkspaceConfigured \/ WorkspaceRefused \/ WorkspaceFails
          BY <4>1 DEF Answer, TreeArrives, TreeFails, StatusArrives, ScopesArrive, ScopesFail,
                      DiffArrives, ItemChanged, ItemRefused
        <4>2. ASSUME NEW c \in Call, Answer(c), meta' # meta
              PROVE  calls[A("workspace", Root, "end")] > 0
          <5>1. c.kind = "workspace" /\ calls[c] > 0
            BY <4>2 DEF Answer, TreeArrives, TreeFails, StatusArrives, ScopesArrive, ScopesFail,
                        DiffArrives, ItemChanged, ItemRefused
          <5>2. c = A("workspace", Root, "end")
            BY <5>1, CallCases
          <5> QED BY <5>1, <5>2
        <4>3. User => meta' = meta
          BY DEF User, LoadWorkspace, RefreshStatus, OpenDiff, CloseDiff, ExpandDirectory, ChangeItem,
                 ChooseScope, AddCustomScope
        <4>4. ~ WorkspaceRefused /\ ~ WorkspaceFails
          BY DEF WorkspaceRefused, WorkspaceFails
        <4> QED BY <2>2, <4>1, <4>2, <4>3, <4>4 DEF TreeNext, treeVars
      <3>2. Root \in Directories /\ calls \in [Call -> Nat]
        BY RootAssumption DEF TreeTypeOK
      <3>3. /\ A("workspace", Root, "end") \in Call
            /\ {A("tree", Root, "all")} \in SUBSET Call
        BY <3>2, CallFacts
      <3>4. calls'[A("tree", Root, "all")] > 0
        BY <3>1, <3>2, <3>3, StepDoes DEF WorkspaceConfigured
      <3> QED BY <3>4 DEF PanelFills, A
    <2> QED BY <2>1, <2>2
  <1>3. TreeTypeOK /\ PanelFills => SettledPanelIsComplete
    <2> SUFFICES ASSUME TreeTypeOK, PanelFills, \A c \in Call : calls[c] = 0, meta = "configured"
                 PROVE  (tree[Root] # None \/ treeError[Root]) /\ status[activeScope] # None
      BY DEF SettledPanelIsComplete
    <2>1. /\ \A next \in {"end", "status", "all"} : A("tree", Root, next) \in Call
          /\ A("status", activeScope, "end") \in Call
      BY RootAssumption, CallFacts DEF TreeTypeOK
    <2>2. /\ \A next \in {"end", "status", "all"} : calls[A("tree", Root, next)] = 0
          /\ calls[A("status", activeScope, "end")] = 0
      BY <2>1
    <2> QED BY <2>2 DEF PanelFills
  <1> QED BY <1>1, <1>2, <1>3, PanelTypeCorrect, PTL DEF TreeSpec


\* A spinner of the panel has a request in flight that will stop it
\* (store/workspace.ts loadingTreeByConnection and its like, loadingDiff),
\* however requests for the same thing overlap: the first answer stops it.
THEOREM SpinnersEnd == TreeSpec => []SpinnersHaveRequests
  <1>1. TreeInit => SpinnersHaveRequests
    BY DEF TreeInit, SpinnersHaveRequests
  <1>2. TreeTypeOK /\ SpinnersHaveRequests /\ [TreeNext]_treeVars => SpinnersHaveRequests'
    <2> SUFFICES ASSUME TreeTypeOK, SpinnersHaveRequests, [TreeNext]_treeVars, NEW x \in loading'
                 PROVE  \E c \in Call : c.kind = x[1] /\ c.arg = x[2] /\ calls'[c] > 0
      BY DEF SpinnersHaveRequests, InFlight
    <2>0. calls \in [Call -> Nat]
      BY DEF TreeTypeOK
    <2>1. x \in loading =>
            \E c \in Call : c.kind = x[1] /\ c.arg = x[2] /\ calls[c] > 0
      BY DEF SpinnersHaveRequests, InFlight
    <2>2. ASSUME NEW c \in Call, Start(c)
          PROVE  \E a \in Call : a.kind = x[1] /\ a.arg = x[2] /\ calls'[a] > 0
      <3>1. x \in loading \/ x = <<c.kind, c.arg>>
        BY <2>2 DEF Start
      <3>2. calls'[c] > 0 /\ calls' \in [Call -> Nat] /\ \A y \in Call : calls'[y] >= calls[y]
        BY <2>0, <2>2, StartDoes
      <3> QED BY <2>0, <2>1, <3>1, <3>2
    <2>3. ASSUME calls' = calls, loading' \subseteq loading
          PROVE  \E a \in Call : a.kind = x[1] /\ a.arg = x[2] /\ calls'[a] > 0
      BY <2>1, <2>3
    <2>4. ASSUME NEW c \in Call, calls[c] > 0, NEW new \in SUBSET Call, Step(c, new)
          PROVE  \E a \in Call : a.kind = x[1] /\ a.arg = x[2] /\ calls'[a] > 0
      <3>1. /\ calls' \in [Call -> Nat]
            /\ \A y \in Call : y # c => calls'[y] >= calls[y]
            /\ \A y \in new : calls'[y] > 0
        BY <2>0, <2>4, StepDoes
      <3>2. \/ x \in loading /\ x # <<c.kind, c.arg>>
            \/ \E y \in new : x = <<y.kind, y.arg>>
        BY <2>4 DEF Step
      <3>3. CASE x \in loading /\ x # <<c.kind, c.arg>>
        <4>1. PICK a \in Call : a.kind = x[1] /\ a.arg = x[2] /\ calls[a] > 0
          BY <2>1, <3>3
        <4>2. x = <<x[1], x[2]>>
          BY <3>3 DEF TreeTypeOK, Spinner
        <4>3. a # c
          BY <3>3, <4>1, <4>2
        <4>4. calls'[a] >= calls[a] /\ calls[a] \in Nat /\ calls'[a] \in Nat
          BY <2>0, <3>1, <4>3
        <4> QED BY <4>1, <4>4
      <3>4. CASE \E y \in new : x = <<y.kind, y.arg>>
        BY <3>1, <3>4
      <3> QED BY <3>2, <3>3, <3>4
    <2> QED BY <2>2, <2>3, <2>4, UserStarts, AnswerSteps DEF TreeNext, treeVars
  <1> QED BY <1>1, <1>2, PanelTypeCorrect, PTL DEF TreeSpec

-----------------------------------------------------------------------------
(* The files.                                                               *)

\* What a request is about.
WellAsked(r) ==
    /\ r \in Request
    /\ r.kind \in {"open", "save", "create"} => r.path \in Paths
    /\ r.kind = "rename" => Siblings(r.path, r.to)
    /\ r.stage = "written" => r.kind = "save"

\* What a request that nothing came between knows of the files here.
InTouch(r, here) ==
    ~ r.raced =>
        /\ r.kind = "save" /\ r.stage \in {"sent", "checked"} => r.expect = r.seen
        /\ r.kind = "save" /\ r.stage = "checked" => here[r.path] = r.expect
        /\ r.stage = "written" => here[r.path] = r.ver
        /\ r.kind = "open" /\ r.stage = "checked" => here[r.path] = r.etag
        /\ r.kind = "rename" /\ r.stage = "checked" =>
             \A p \in Paths : Under(p, r.to) => here[p] = 0
        /\ r.kind \in {"open", "save"} /\ r.stage = "answered" => r.etag = r.ver

Good(r, files) == r = Idle \/ (WellAsked(r) /\ InTouch(r, files[r.conn]))

ServerInv ==
    /\ disk \in [Conns -> [Paths -> 0..MaxVersion]]
    /\ clock \in 0..MaxVersion
    /\ req \in [Slots -> Request \cup {Idle}]
    /\ overwritten \subseteq [ver : 1..MaxVersion, raced : BOOLEAN]
    /\ \A s \in Slots : Good(req[s], disk)
    /\ OverwritesAreRaced

TabInv ==
    /\ conn \in [Tabs -> Conns \cup {"none"}]
    /\ view \in [Tabs -> View]
    /\ {loadingFile, savingFile} \subseteq [Tabs -> BOOLEAN]
    /\ \A t \in Tabs : view[t].ok => view[t].path \in Paths
    /\ EtagIsOfContent

LEMMA NotIdle == Idle \notin Request
  BY DEF Idle, Request, RequestKinds

\* Items are not empty, so that the viewer that shows nothing shows none.
LEMMA ItemsAreNamed ==
  ASSUME NEW x \in Items
  PROVE  x # <<>>
  <1>1. CASE x \in Paths
    BY <1>1, PathsAssumption
  <1>2. ASSUME NEW p \in Paths, NEW n \in 1..(Len(p) - 1), x = SubSeq(p, 1, n)
        PROVE  x # <<>>
    BY <1>2, PathsAssumption
  <1> QED BY <1>1, <1>2 DEF Items, Folders

LEMMA UnderItself ==
  ASSUME NEW p \in Paths
  PROVE  Under(p, p)
  BY PathsAssumption DEF Under, IsPrefix

\* A request that is refused or answered.
LEMMA AnsweredIsGood ==
  ASSUME NEW r, WellAsked(r), ~ r.raced /\ r.kind \in {"open", "save"} => r.etag = r.ver,
         NEW files
  PROVE  Good(Answered(r), files)
  <1> DEFINE a == [r EXCEPT !.stage = "answered", !.seen = 0, !.expect = 0]
  <1>1. a \in Request
    <2>1. 0 \in 0..MaxVersion /\ r \in Request
      BY VersionsAssumption DEF WellAsked
    <2> QED BY <2>1 DEF Request
  <1>2. /\ a.kind = r.kind /\ a.path = r.path /\ a.to = r.to /\ a.stage = "answered"
        /\ a.raced = r.raced /\ a.etag = r.etag /\ a.ver = r.ver
    BY DEF WellAsked, Request
  <1> HIDE DEF a
  <1>3. WellAsked(a) /\ InTouch(a, files[a.conn])
    BY <1>1, <1>2 DEF WellAsked, InTouch
  <1> QED BY <1>3 DEF Good, Answered, a

\* One request changes and the files do not.
LEMMA PutKeeps ==
  ASSUME ServerInv, NEW s \in Slots, NEW x, Good(x, disk), req' = [req EXCEPT ![s] = x],
         UNCHANGED serverVars
  PROVE  ServerInv'
  <1>1. x \in Request \cup {Idle}
    BY DEF Good, WellAsked
  <1>2. \A z \in Slots : Good(req'[z], disk)
    BY DEF ServerInv
  <1>3. req' \in [Slots -> Request \cup {Idle}]
    BY <1>1 DEF ServerInv
  <1> QED BY <1>2, <1>3 DEF ServerInv, serverVars, OverwritesAreRaced

\* A request learns that a file it looked at has changed.
LEMMA DisturbedIsGood ==
  ASSUME NEW files \in [Conns -> [Paths -> 0..MaxVersion]], NEW r, Good(r, files),
         NEW c \in Conns, NEW d \in [Paths -> 0..MaxVersion]
  PROVE  Good(Disturb(r, c, {p \in Paths : d[p] # files[c][p]}), [files EXCEPT ![c] = d])
  <1> DEFINE ps == {p \in Paths : d[p] # files[c][p]}
             new == [files EXCEPT ![c] = d]
  <1>1. CASE r = Idle
    BY <1>1 DEF Disturb, Good
  <1>2. CASE r # Idle
    <2>1. WellAsked(r) /\ InTouch(r, files[r.conn]) /\ r \in Request
      BY <1>2 DEF Good, WellAsked
    <2>2. CASE r.conn = c /\ r.stage \in {"checked", "written"}
                 /\ \E p \in ps : Under(p, r.path) \/ Under(p, r.to)
      <3> DEFINE q == [r EXCEPT !.raced = TRUE]
      <3>1. /\ q \in Request /\ q.raced /\ q.kind = r.kind /\ q.path = r.path /\ q.to = r.to
            /\ q.stage = r.stage
        BY <2>1 DEF Request
      <3>2. Disturb(r, c, ps) = q
        BY <1>2, <2>2 DEF Disturb
      <3> HIDE DEF q
      <3>3. WellAsked(q) /\ InTouch(q, new[q.conn])
        BY <2>1, <3>1 DEF WellAsked, InTouch
      <3> QED BY <3>2, <3>3 DEF Good
    <2>3. CASE ~ (r.conn = c /\ r.stage \in {"checked", "written"}
                    /\ \E p \in ps : Under(p, r.path) \/ Under(p, r.to))
      <3>1. Disturb(r, c, ps) = r
        BY <2>3 DEF Disturb
      <3>2. CASE r.conn # c
        <4>1. r.conn \in Conns /\ new[r.conn] = files[r.conn]
          BY <2>1, <3>2 DEF Request
        <4> QED BY <2>1, <3>1, <4>1 DEF Good
      <3>3. CASE r.conn = c /\ r.stage \notin {"checked", "written"}
        <4>1. InTouch(r, new[r.conn])
          BY <2>1, <3>3 DEF InTouch
        <4> QED BY <2>1, <3>1, <4>1 DEF Good
      <3>4. CASE r.conn = c /\ r.stage \in {"checked", "written"}
        <4>1. new[c] = d /\ \A p \in Paths : Under(p, r.path) \/ Under(p, r.to) => d[p] = files[c][p]
          BY <2>3, <3>4
        <4>2. r.path \in Paths => d[r.path] = files[c][r.path]
          BY <4>1, UnderItself
        <4>3. r.kind \in {"open", "save"} \/ r.stage = "written" => r.path \in Paths
          BY <2>1 DEF WellAsked
        <4>4. InTouch(r, new[r.conn])
          BY <2>1, <3>4, <4>1, <4>2, <4>3 DEF InTouch
        <4> QED BY <2>1, <3>1, <4>4 DEF Good
      <3> QED BY <3>2, <3>3, <3>4
    <2> QED BY <2>2, <2>3
  <1> QED BY <1>1, <1>2

\* The files of a workspace change, with the request that changes them.
LEMMA ChangeKeeps ==
  ASSUME ServerInv, NEW c \in Conns, NEW d \in [Paths -> 0..MaxVersion], NEW s,
         NEW r, r # Idle => r.conn = c, Good(r, [disk EXCEPT ![c] = d]), Change(c, d, s, r)
  PROVE  /\ disk' \in [Conns -> [Paths -> 0..MaxVersion]]
         /\ req' \in [Slots -> Request \cup {Idle}]
         /\ \A z \in Slots : Good(req'[z], disk')
  <1>0. disk \in [Conns -> [Paths -> 0..MaxVersion]] /\ \A z \in Slots : Good(req[z], disk)
    BY DEF ServerInv
  <1>1. disk' = [disk EXCEPT ![c] = d]
    BY DEF Change
  <1>2. disk' \in [Conns -> [Paths -> 0..MaxVersion]]
    BY <1>0, <1>1
  <1>3. \A z \in Slots : req'[z] = r \/ req'[z] = Disturb(req[z], c, {p \in Paths : d[p] # disk[c][p]})
    BY DEF Change
  <1>4. ASSUME NEW z \in Slots PROVE Good(req'[z], disk')
    <2>1. CASE req'[z] = r
      BY <1>1, <2>1
    <2>2. CASE req'[z] = Disturb(req[z], c, {p \in Paths : d[p] # disk[c][p]})
      <3>1. Good(Disturb(req[z], c, {p \in Paths : d[p] # disk[c][p]}), [disk EXCEPT ![c] = d])
        BY <1>0, DisturbedIsGood
      <3> QED BY <1>1, <2>2, <3>1
    <2> QED BY <1>3, <2>1, <2>2
  <1>5. \A z \in Slots : req'[z] \in Request \cup {Idle}
    BY <1>4 DEF Good, WellAsked
  <1> QED BY <1>2, <1>4, <1>5 DEF Change


LEMMA RefusedKeeps ==
  ASSUME ServerInv, NEW s \in Slots, req[s] # Idle, Refused(s)
  PROVE  ServerInv'
  <1> DEFINE q == [req[s] EXCEPT !.ok = FALSE, !.ver = 0, !.etag = 0, !.raced = FALSE]
  <1>0. WellAsked(req[s]) /\ 0 \in 0..MaxVersion /\ req[s] \in Request
    BY VersionsAssumption DEF ServerInv, Good, WellAsked
  <1>1. q \in Request
    BY <1>0 DEF Request
  <1>2. q.kind = req[s].kind /\ q.path = req[s].path /\ q.to = req[s].to /\ q.stage = req[s].stage
        /\ q.ver = 0 /\ q.etag = 0
    BY <1>0 DEF Request
  <1>3. req' = [req EXCEPT ![s] = Answered(q)] /\ UNCHANGED serverVars
    BY DEF Refused
  <1> HIDE DEF q
  <1>4. WellAsked(q)
    BY <1>0, <1>1, <1>2 DEF WellAsked
  <1>5. Good(Answered(q), disk)
    BY <1>2, <1>4, AnsweredIsGood
  <1> QED BY <1>3, <1>5, PutKeeps

\* A request whose first look finds what it needs.
LEMMA CheckedKeeps ==
  ASSUME ServerInv, NEW s \in Slots, req[s] # Idle, req[s].stage = "sent",
         NEW q \in Request, UNCHANGED serverVars, req' = [req EXCEPT ![s] = q],
         q.kind = req[s].kind, q.path = req[s].path, q.to = req[s].to, q.conn = req[s].conn,
         q.raced = req[s].raced, q.seen = req[s].seen, q.expect = req[s].expect,
         q.stage = "checked",
         q.kind = "save" => disk[q.conn][q.path] = q.expect,
         q.kind = "open" => disk[q.conn][q.path] = q.etag,
         q.kind = "rename" => ~ Exists(q.conn, q.to)
  PROVE  ServerInv'
  <1>1. WellAsked(req[s]) /\ InTouch(req[s], disk[req[s].conn])
    BY DEF ServerInv, Good
  <1>2. WellAsked(q)
    BY <1>1 DEF WellAsked
  <1>3. InTouch(q, disk[q.conn])
    BY <1>1 DEF InTouch, Exists
  <1> QED BY <1>2, <1>3, PutKeeps DEF Good

LEMMA SentKeeps ==
  ASSUME ServerInv, NEW s \in Slots, req[s] # Idle, req[s].stage = "sent",
         \/ req[s].kind = "open"   /\ StatForPreview(s)
         \/ req[s].kind = "save"   /\ CheckSave(s)
         \/ req[s].kind = "create" /\ CheckCreate(s)
         \/ req[s].kind = "rename" /\ CheckRename(s)
         \/ req[s].kind = "delete" /\ CheckDelete(s)
  PROVE  ServerInv'
  <1> DEFINE r == req[s]
             q == [r EXCEPT !.stage = "checked"]
  <1>0. /\ r \in Request /\ WellAsked(r) /\ disk \in [Conns -> [Paths -> 0..MaxVersion]]
        /\ r.conn \in Conns /\ req \in [Slots -> Request \cup {Idle}]
    BY DEF ServerInv, Good, WellAsked, Request
  <1>1. CASE Refused(s)
    BY <1>1, RefusedKeeps
  <1>2. CASE r.kind = "open" /\ ~ Refused(s)
    <2> DEFINE o == [r EXCEPT !.stage = "checked", !.etag = disk[r.conn][r.path]]
    <2>1. r.path \in Paths
      BY <1>0, <1>2 DEF WellAsked
    <2>2. disk[r.conn][r.path] \in 0..MaxVersion
      BY <1>0, <2>1
    <2>3. o \in Request
      BY <1>0, <2>2 DEF Request
    <2>4. /\ o.kind = r.kind /\ o.path = r.path /\ o.to = r.to /\ o.conn = r.conn
          /\ o.raced = r.raced /\ o.seen = r.seen /\ o.expect = r.expect /\ o.stage = "checked"
          /\ o.etag = disk[r.conn][r.path]
      BY <1>0 DEF Request
    <2>5. req' = [req EXCEPT ![s] = o] /\ UNCHANGED serverVars
      BY <1>0, <1>2 DEF StatForPreview
    <2> HIDE DEF o
    <2> QED BY <1>2, <2>3, <2>4, <2>5, CheckedKeeps
  <1>3. CASE r.kind # "open" /\ ~ Refused(s)
    <2>1. q \in Request
      BY <1>0 DEF Request
    <2>2. /\ q.kind = r.kind /\ q.path = r.path /\ q.to = r.to /\ q.conn = r.conn
          /\ q.raced = r.raced /\ q.seen = r.seen /\ q.expect = r.expect /\ q.stage = "checked"
      BY <1>0 DEF Request
    <2>3. req' = [req EXCEPT ![s] = q] /\ UNCHANGED serverVars
      BY <1>3 DEF CheckSave, CheckCreate, CheckRename, CheckDelete
    <2>4. r.kind = "save" => disk[r.conn][r.path] = r.expect
      BY <1>3 DEF CheckSave
    <2>5. r.kind = "rename" => ~ Exists(r.conn, r.to)
      BY <1>3 DEF CheckRename
    <2> HIDE DEF q
    <2> QED BY <1>3, <2>1, <2>2, <2>3, <2>4, <2>5, CheckedKeeps
  <1> QED BY <1>1, <1>2, <1>3

\* The answers that are read off the disk: readFilePreview, and the last step
\* of writeFileContent.
LEMMA ReadKeeps ==
  ASSUME ServerInv, NEW s \in Slots, req[s] # Idle,
         \/ req[s].kind = "open" /\ req[s].stage = "checked" /\ ReadPreview(s)
         \/ req[s].stage = "written" /\ StatSaved(s)
  PROVE  ServerInv'
  <1> DEFINE r == req[s]
             here == disk[r.conn][r.path]
  <1>0. /\ r \in Request /\ WellAsked(r) /\ InTouch(r, disk[r.conn])
        /\ disk \in [Conns -> [Paths -> 0..MaxVersion]]
        /\ r.conn \in Conns /\ req \in [Slots -> Request \cup {Idle}]
    BY DEF ServerInv, Good, WellAsked, Request
  <1>1. r.path \in Paths /\ here \in 0..MaxVersion
    BY <1>0 DEF WellAsked
  <1>2. CASE Refused(s)
    BY <1>2, RefusedKeeps
  <1>3. CASE r.stage = "checked" /\ ~ Refused(s)
    <2> DEFINE q == [r EXCEPT !.ok = TRUE, !.ver = here]
    <2>1. q \in Request
      BY <1>0, <1>1 DEF Request
    <2>2. /\ q.kind = r.kind /\ q.path = r.path /\ q.to = r.to /\ q.stage = r.stage
          /\ q.raced = r.raced /\ q.etag = r.etag /\ q.ver = here
      BY <1>0 DEF Request
    <2>3. req' = [req EXCEPT ![s] = Answered(q)] /\ UNCHANGED serverVars
      BY <1>0, <1>3 DEF ReadPreview
    <2> HIDE DEF q
    <2>4. WellAsked(q)
      BY <1>0, <2>1, <2>2 DEF WellAsked
    <2>5. ~ q.raced => q.etag = q.ver
      BY <1>0, <1>3, <2>2 DEF InTouch
    <2> QED BY <2>3, <2>4, <2>5, AnsweredIsGood, PutKeeps
  <1>4. CASE r.stage = "written" /\ ~ Refused(s)
    <2> DEFINE q == [r EXCEPT !.ok = TRUE, !.etag = here]
    <2>1. q \in Request
      BY <1>0, <1>1 DEF Request
    <2>2. /\ q.kind = r.kind /\ q.path = r.path /\ q.to = r.to /\ q.stage = r.stage
          /\ q.raced = r.raced /\ q.ver = r.ver /\ q.etag = here
      BY <1>0 DEF Request
    <2>3. req' = [req EXCEPT ![s] = Answered(q)] /\ UNCHANGED serverVars
      BY <1>0, <1>4 DEF StatSaved
    <2> HIDE DEF q
    <2>4. WellAsked(q)
      BY <1>0, <2>1, <2>2 DEF WellAsked
    <2>5. ~ q.raced => q.etag = q.ver
      BY <1>0, <1>4, <2>2 DEF InTouch
    <2> QED BY <2>3, <2>4, <2>5, AnsweredIsGood, PutKeeps
  <1> QED BY <1>2, <1>3, <1>4


LEMMA SaveWrites ==
  ASSUME ServerInv, NEW s \in Slots, req[s] # Idle, req[s].kind = "save", req[s].stage = "checked",
         WriteSave(s)
  PROVE  ServerInv'
  <1> DEFINE r == req[s]
             old == disk[r.conn][r.path]
             d == [disk[r.conn] EXCEPT ![r.path] = clock + 1]
             q == [r EXCEPT !.stage = "written", !.ver = clock + 1, !.raced = FALSE]
  <1>0. /\ r \in Request /\ WellAsked(r) /\ InTouch(r, disk[r.conn])
        /\ disk \in [Conns -> [Paths -> 0..MaxVersion]]
        /\ r.conn \in Conns /\ clock \in 0..MaxVersion /\ MaxVersion \in Nat
    BY VersionsAssumption DEF ServerInv, Good, WellAsked, Request
  <1>1. clock < MaxVersion /\ clock' = clock + 1 /\ Change(r.conn, d, s, q)
    BY DEF WriteSave
  <1>2. r.path \in Paths /\ old \in 0..MaxVersion /\ clock + 1 \in 0..MaxVersion
    BY <1>0, <1>1 DEF WellAsked
  <1>3. d \in [Paths -> 0..MaxVersion]
    BY <1>0, <1>2
  <1>4. Good(q, [disk EXCEPT ![r.conn] = d]) /\ q.conn = r.conn
    <2>1. q \in Request
      BY <1>0, <1>2 DEF Request
    <2>2. /\ q.kind = "save" /\ q.path = r.path /\ q.stage = "written" /\ q.conn = r.conn
          /\ q.ver = clock + 1
      BY <1>0 DEF Request
    <2>3. [disk EXCEPT ![r.conn] = d][q.conn][q.path] = q.ver
      BY <1>0, <1>2, <2>2
    <2> HIDE DEF q
    <2> QED BY <1>2, <2>1, <2>2, <2>3 DEF Good, WellAsked, InTouch
  <1>5. /\ disk' \in [Conns -> [Paths -> 0..MaxVersion]] /\ req' \in [Slots -> Request \cup {Idle}]
        /\ \A z \in Slots : Good(req'[z], disk')
    <2> HIDE DEF q, d
    <2> QED BY <1>0, <1>1, <1>3, <1>4, ChangeKeeps
  <1>6. overwritten' \in {overwritten, overwritten \cup {[ver |-> old, raced |-> r.raced]}}
        /\ (old \in {0, r.seen} => overwritten' = overwritten)
    BY DEF WriteSave
  <1>7. ~ r.raced => old = r.seen
    BY <1>0 DEF InTouch
  <1>8. old # 0 => [ver |-> old, raced |-> r.raced] \in [ver : 1..MaxVersion, raced : BOOLEAN]
    BY <1>0, <1>2 DEF Request
  <1>9. overwritten' \subseteq [ver : 1..MaxVersion, raced : BOOLEAN] /\ OverwritesAreRaced'
    BY <1>6, <1>7, <1>8 DEF ServerInv, OverwritesAreRaced
  <1> QED BY <1>1, <1>2, <1>5, <1>9 DEF ServerInv

LEMMA NewFileKeeps ==
  ASSUME ServerInv, NEW s \in Slots, req[s] # Idle, req[s].kind = "create", WriteNew(s)
  PROVE  ServerInv'
  <1> DEFINE r == req[s]
             d == [disk[r.conn] EXCEPT ![r.path] = clock + 1]
             q == [r EXCEPT !.ok = TRUE, !.ver = clock + 1]
  <1>0. /\ r \in Request /\ WellAsked(r) /\ disk \in [Conns -> [Paths -> 0..MaxVersion]]
        /\ r.conn \in Conns /\ clock \in 0..MaxVersion /\ MaxVersion \in Nat /\ r.path \in Paths
    BY VersionsAssumption DEF ServerInv, Good, WellAsked, Request
  <1>1. CASE Refused(s)
    BY <1>1, RefusedKeeps
  <1>2. CASE ~ Refused(s)
    <2>1. /\ clock < MaxVersion /\ clock' = clock + 1 /\ Change(r.conn, d, s, Answered(q))
          /\ overwritten' = overwritten
      BY <1>2 DEF WriteNew
    <2>2. clock + 1 \in 0..MaxVersion
      BY <1>0, <2>1
    <2>3. d \in [Paths -> 0..MaxVersion]
      BY <1>0, <2>2
    <2>4. q \in Request
      BY <1>0, <2>2 DEF Request
    <2>5. q.kind = "create" /\ q.path = r.path /\ q.stage = r.stage /\ q.conn = r.conn
      BY <1>0 DEF Request
    <2>6. Answered(q) # Idle => Answered(q).conn = r.conn
      BY <1>0 DEF Answered, Request
    <2> HIDE DEF q, d
    <2>7. WellAsked(q)
      BY <1>0, <2>4, <2>5 DEF WellAsked
    <2>8. Good(Answered(q), [disk EXCEPT ![r.conn] = d])
      BY <2>5, <2>7, AnsweredIsGood
    <2>9. /\ disk' \in [Conns -> [Paths -> 0..MaxVersion]] /\ req' \in [Slots -> Request \cup {Idle}]
          /\ \A z \in Slots : Good(req'[z], disk')
      BY <1>0, <2>1, <2>3, <2>6, <2>8, ChangeKeeps
    <2> QED BY <2>1, <2>2, <2>9 DEF ServerInv, OverwritesAreRaced
  <1> QED BY <1>1, <1>2

\* A rename or a deletion that was asked for and done.
LEMMA DoneKeeps ==
  ASSUME ServerInv, NEW s \in Slots, req[s] # Idle, req[s].kind \in {"rename", "delete"},
         NEW d \in [Paths -> 0..MaxVersion],
         Change(req[s].conn, d, s, Answered([req[s] EXCEPT !.ok = TRUE]))
  PROVE  /\ disk' \in [Conns -> [Paths -> 0..MaxVersion]] /\ req' \in [Slots -> Request \cup {Idle}]
         /\ \A z \in Slots : Good(req'[z], disk')
  <1> DEFINE r == req[s]
             q == [r EXCEPT !.ok = TRUE]
  <1>0. r \in Request /\ WellAsked(r) /\ r.conn \in Conns
    BY DEF ServerInv, Good, WellAsked, Request
  <1>1. q \in Request
    BY <1>0 DEF Request
  <1>2. q.kind = r.kind /\ q.path = r.path /\ q.to = r.to /\ q.stage = r.stage
    BY <1>0 DEF Request
  <1>3. Answered(q) # Idle => Answered(q).conn = r.conn
    BY <1>0 DEF Answered, Request
  <1> HIDE DEF q
  <1>4. WellAsked(q)
    BY <1>0, <1>1, <1>2 DEF WellAsked
  <1>5. Good(Answered(q), [disk EXCEPT ![r.conn] = d])
    BY <1>2, <1>4, AnsweredIsGood
  <1>6. Change(r.conn, d, s, Answered(q))
    BY DEF q
  <1> QED BY <1>0, <1>3, <1>5, <1>6, ChangeKeeps

LEMMA RenameKeeps ==
  ASSUME ServerInv, NEW s \in Slots, req[s] # Idle, req[s].kind = "rename", req[s].stage = "checked",
         Rename(s)
  PROVE  ServerInv'
  <1> DEFINE r == req[s]
             here == disk[r.conn]
             hit == {p \in Paths : Under(p, r.to) /\ here[p] # 0}
             new == [p \in Paths |-> IF Under(p, r.to) THEN here[Moved(p, r.to, r.path)]
                                     ELSE IF Under(p, r.path) THEN 0 ELSE here[p]]
  <1>0. /\ r \in Request /\ WellAsked(r) /\ InTouch(r, here)
        /\ here \in [Paths -> 0..MaxVersion] /\ 0 \in 0..MaxVersion
        /\ r.path \in Items /\ r.to \in Items /\ r.raced \in BOOLEAN
    BY VersionsAssumption DEF ServerInv, Good, WellAsked, Request
  <1>1. CASE Refused(s)
    BY <1>1, RefusedKeeps
  <1>2. CASE ~ Refused(s)
    <2>1. /\ Change(r.conn, new, s, Answered([r EXCEPT !.ok = TRUE]))
          /\ overwritten' = overwritten \cup {[ver |-> here[p], raced |-> r.raced] : p \in hit}
          /\ clock' = clock
      BY <1>2 DEF Rename
    <2>2. Siblings(r.to, r.path)
      BY <1>0 DEF WellAsked, Siblings
    <2>3. \A p \in Paths : Under(p, r.to) => Moved(p, r.to, r.path) \in Paths
      BY <1>0, <2>2, RenameAssumption
    <2>4. new \in [Paths -> 0..MaxVersion]
      <3>1. ASSUME NEW p \in Paths PROVE new[p] \in 0..MaxVersion
        BY <1>0, <2>3
      <3> QED BY <3>1
    <2>5. /\ disk' \in [Conns -> [Paths -> 0..MaxVersion]] /\ req' \in [Slots -> Request \cup {Idle}]
          /\ \A z \in Slots : Good(req'[z], disk')
      <3> HIDE DEF new
      <3> QED BY <2>1, <2>4, DoneKeeps
    <2>6. ~ r.raced => hit = {}
      BY <1>0 DEF InTouch
    <2>7. \A p \in hit : [ver |-> here[p], raced |-> r.raced] \in [ver : 1..MaxVersion, raced : BOOLEAN]
      BY <1>0
    <2>8. overwritten' \subseteq [ver : 1..MaxVersion, raced : BOOLEAN]
      BY <2>1, <2>7 DEF ServerInv
    <2>9. OverwritesAreRaced'
      <3> SUFFICES ASSUME NEW o \in overwritten' PROVE o.raced
        BY DEF OverwritesAreRaced
      <3>1. CASE o \in overwritten
        BY <3>1 DEF ServerInv, OverwritesAreRaced
      <3>2. ASSUME NEW p \in hit, o = [ver |-> here[p], raced |-> r.raced] PROVE o.raced
        <4>1. r.raced = TRUE
          BY <1>0, <2>6, <3>2
        <4> QED BY <3>2, <4>1
      <3> QED BY <2>1, <3>1, <3>2
    <2> QED BY <2>1, <2>5, <2>8, <2>9 DEF ServerInv
  <1> QED BY <1>1, <1>2

LEMMA RemoveKeeps ==
  ASSUME ServerInv, NEW s \in Slots, req[s] # Idle, req[s].kind = "delete", RemoveItem(s)
  PROVE  ServerInv'
  <1> DEFINE r == req[s]
             new == [p \in Paths |-> IF Under(p, r.path) THEN 0 ELSE disk[r.conn][p]]
  <1>0. disk[r.conn] \in [Paths -> 0..MaxVersion] /\ 0 \in 0..MaxVersion
    BY VersionsAssumption DEF ServerInv, Good, WellAsked, Request
  <1>1. CASE Refused(s)
    BY <1>1, RefusedKeeps
  <1>2. CASE ~ Refused(s)
    <2>1. Change(r.conn, new, s, Answered([r EXCEPT !.ok = TRUE])) /\ UNCHANGED <<clock, overwritten>>
      BY <1>2 DEF RemoveItem
    <2>2. new \in [Paths -> 0..MaxVersion]
      BY <1>0
    <2> HIDE DEF new
    <2>3. /\ disk' \in [Conns -> [Paths -> 0..MaxVersion]] /\ req' \in [Slots -> Request \cup {Idle}]
          /\ \A z \in Slots : Good(req'[z], disk')
      BY <2>1, <2>2, DoneKeeps
    <2> QED BY <2>1, <2>3 DEF ServerInv, OverwritesAreRaced
  <1> QED BY <1>1, <1>2

LEMMA ServerKeeps ==
  ASSUME ServerInv, NEW s \in Slots, Serve(s)
  PROVE  ServerInv' /\ UNCHANGED storeVars
  <1>0. req[s] # Idle /\ UNCHANGED storeVars
    BY DEF Serve
  <1>1. CASE req[s].stage = "sent"
    BY <1>0, <1>1, SentKeeps DEF Serve
  <1>2. CASE req[s].stage = "checked"
    <2>1. CASE RereadFails(s)
      BY <1>0, <2>1, RefusedKeeps DEF RereadFails
    <2>2. CASE ~ RereadFails(s)
      BY <1>0, <1>2, <2>2, ReadKeeps, SaveWrites, NewFileKeeps, RenameKeeps, RemoveKeeps DEF Serve
    <2> QED BY <2>1, <2>2
  <1>3. CASE req[s].stage = "written"
    BY <1>0, <1>3, ReadKeeps DEF Serve
  <1>4. CASE req[s].stage \notin {"sent", "checked", "written"}
    BY <1>4 DEF Serve
  <1> QED BY <1>0, <1>1, <1>2, <1>3, <1>4

LEMMA OthersKeep ==
  ASSUME ServerInv, ExternalWrite \/ ExternalRemove
  PROVE  ServerInv' /\ UNCHANGED storeVars
  <1>0. disk \in [Conns -> [Paths -> 0..MaxVersion]] /\ clock \in 0..MaxVersion /\ MaxVersion \in Nat
    BY VersionsAssumption DEF ServerInv
  <1>1. \E c \in Conns, p \in Paths, v \in 0..MaxVersion :
          Change(c, [disk[c] EXCEPT ![p] = v], "none", Idle)
    BY <1>0 DEF ExternalWrite, ExternalRemove
  <1>2. UNCHANGED <<overwritten, storeVars>> /\ clock' \in 0..MaxVersion
    <2>1. UNCHANGED <<overwritten, storeVars>>
      BY DEF ExternalWrite, ExternalRemove
    <2>2. clock' = clock \/ (clock < MaxVersion /\ clock' = clock + 1)
      BY DEF ExternalWrite, ExternalRemove
    <2> QED BY <1>0, <2>1, <2>2
  <1>3. PICK c \in Conns, p \in Paths, v \in 0..MaxVersion :
          Change(c, [disk[c] EXCEPT ![p] = v], "none", Idle)
    BY <1>1
  <1>4. [disk[c] EXCEPT ![p] = v] \in [Paths -> 0..MaxVersion]
    BY <1>0
  <1>5. /\ disk' \in [Conns -> [Paths -> 0..MaxVersion]] /\ req' \in [Slots -> Request \cup {Idle}]
        /\ \A z \in Slots : Good(req'[z], disk')
    BY <1>3, <1>4, ChangeKeeps DEF Good
  <1> QED BY <1>2, <1>5 DEF ServerInv, OverwritesAreRaced


\* The viewer of a tab is filled.
LEMMA ShownKeeps ==
  ASSUME TabInv, NEW t \in Tabs, NEW v \in View, v.ok => v.path \in Paths,
         v.raced \/ v.etag = v.ver, Show(t, v)
  PROVE  /\ view' \in [Tabs -> View]
         /\ \A u \in Tabs : view'[u].ok => view'[u].path \in Paths
         /\ EtagIsOfContent'
  BY DEF TabInv, Show, EtagIsOfContent

LEMMA NothingToShow == NoView \in View /\ ~ NoView.ok /\ NoView.etag = NoView.ver
  BY DEF View, NoView

LEMMA ViewFields ==
  ASSUME NEW v \in View, v # NoView
  PROVE  /\ v.path \in Items /\ v.conn \in Conns /\ v.ver \in 0..MaxVersion
         /\ v.etag \in 0..MaxVersion /\ v.ok \in BOOLEAN /\ v.raced \in BOOLEAN
  BY DEF View

\* A request of the tab finds a slot.
LEMMA AskKeeps ==
  ASSUME ServerInv, TabInv, NEW t \in Tabs, NEW kind \in RequestKinds, NEW x \in Items, NEW y \in Items,
         kind \in {"open", "save", "create"} => x \in Paths,
         kind = "rename" => Siblings(x, y), kind = "save" => view[t].ok,
         Ask(kind, t, x, y), UNCHANGED serverVars
  PROVE  ServerInv'
  <1>1. PICK s \in Slots :
          /\ req[s] = Idle
          /\ req' = [req EXCEPT ![s] =
                [kind |-> kind, tab |-> t, conn |-> conn[t], path |-> x, to |-> y,
                 seen |-> IF kind = "save" THEN view[t].ver ELSE 0,
                 expect |-> IF kind = "save" THEN view[t].etag ELSE 0,
                 stage |-> "sent", ok |-> FALSE, ver |-> 0, etag |-> 0,
                 deaf |-> FALSE, raced |-> kind = "save" /\ view[t].raced]]
    BY DEF Ask
  <1> DEFINE q == [kind |-> kind, tab |-> t, conn |-> conn[t], path |-> x, to |-> y,
                   seen |-> IF kind = "save" THEN view[t].ver ELSE 0,
                   expect |-> IF kind = "save" THEN view[t].etag ELSE 0,
                   stage |-> "sent", ok |-> FALSE, ver |-> 0, etag |-> 0,
                   deaf |-> FALSE, raced |-> kind = "save" /\ view[t].raced]
  <1>2. conn[t] \in Conns
    BY DEF Ask, TabInv
  <1>3. 0 \in 0..MaxVersion
    BY VersionsAssumption
  <1>4. kind = "save" => /\ view[t].ver \in 0..MaxVersion /\ view[t].etag \in 0..MaxVersion
                         /\ (view[t].raced \/ view[t].etag = view[t].ver)
    <2>1. view[t] \in View /\ (kind = "save" => view[t] # NoView)
      BY NothingToShow DEF TabInv
    <2> QED BY <2>1, ViewFields DEF TabInv, EtagIsOfContent
  <1>5. q \in Request
    BY <1>2, <1>3, <1>4 DEF Request
  <1>6. /\ q.kind = kind /\ q.path = x /\ q.to = y /\ q.stage = "sent"
        /\ (kind = "save" => q.seen = view[t].ver /\ q.expect = view[t].etag
                             /\ (view[t].raced => q.raced))
    OBVIOUS
  <1>7. req' = [req EXCEPT ![s] = q]
    BY <1>1
  <1> HIDE DEF q
  <1>8. WellAsked(q)
    BY <1>5, <1>6 DEF WellAsked
  <1>9. InTouch(q, disk[q.conn])
    BY <1>4, <1>6 DEF InTouch
  <1> QED BY <1>7, <1>8, <1>9, PutKeeps DEF Good

LEMMA TabActionKeeps ==
  ASSUME ServerInv, TabInv, NEW t \in Tabs, TabAction(t)
  PROVE  ServerInv' /\ TabInv'
  <1>0. Paths \subseteq Items
    BY DEF Items
  <1>00. /\ conn \in [Tabs -> Conns \cup {"none"}] /\ view \in [Tabs -> View]
         /\ loadingFile \in [Tabs -> BOOLEAN] /\ savingFile \in [Tabs -> BOOLEAN]
    BY DEF TabInv
  <1>1. CASE OpenFile(t)
    <2>1. ServerInv'
      BY <1>0, <1>1, AskKeeps DEF OpenFile, RequestKinds
    <2>2. UNCHANGED <<conn, view, savingFile>> /\ loadingFile' \in [Tabs -> BOOLEAN]
      BY <1>00, <1>1 DEF OpenFile
    <2> QED BY <2>1, <2>2 DEF TabInv, EtagIsOfContent
  <1>2. CASE SaveFile(t)
    <2>1. view[t].path \in Paths /\ view[t].ok
      BY <1>2 DEF SaveFile, TabInv
    <2>2. ServerInv'
      BY <1>0, <1>2, <2>1, AskKeeps DEF SaveFile, RequestKinds
    <2>3. UNCHANGED <<conn, view, loadingFile>> /\ savingFile' \in [Tabs -> BOOLEAN]
      BY <1>00, <1>2 DEF SaveFile
    <2> QED BY <2>2, <2>3 DEF TabInv, EtagIsOfContent
  <1>3. CASE CreateItem(t) \/ RenameItem(t) \/ DeleteItem(t)
    <2>1. ServerInv'
      <3>1. CASE CreateItem(t)
        BY <1>0, <3>1, AskKeeps DEF CreateItem, RequestKinds
      <3>2. CASE RenameItem(t)
        BY <3>2, AskKeeps DEF RenameItem, RequestKinds
      <3>3. CASE DeleteItem(t)
        BY <3>3, AskKeeps DEF DeleteItem, RequestKinds
      <3> QED BY <1>3, <3>1, <3>2, <3>3
    <2>2. UNCHANGED <<conn, view, loadingFile, savingFile>>
      BY <1>3 DEF CreateItem, RenameItem, DeleteItem, storeVars
    <2> QED BY <2>1, <2>2 DEF TabInv, EtagIsOfContent
  <1>4. CASE CloseFile(t) \/ SwitchWorkspace(t)
    <2>1. UNCHANGED <<serverVars, req>> /\ Show(t, NoView)
      BY <1>4 DEF CloseFile, SwitchWorkspace
    <2>2. ServerInv'
      BY <2>1 DEF ServerInv, serverVars, OverwritesAreRaced
    <2>3. conn' \in [Tabs -> Conns \cup {"none"}] /\ {loadingFile', savingFile'} \subseteq [Tabs -> BOOLEAN]
      BY <1>00, <1>4 DEF CloseFile, SwitchWorkspace
    <2>4. /\ view' \in [Tabs -> View] /\ EtagIsOfContent'
          /\ \A u \in Tabs : view'[u].ok => view'[u].path \in Paths
      BY <2>1, NothingToShow, ShownKeeps
    <2> QED BY <2>2, <2>3, <2>4 DEF TabInv
  <1> QED BY <1>1, <1>2, <1>3, <1>4 DEF TabAction

\* What an answer, or its failure, does to a tab.
LEMMA EndsKeep ==
  ASSUME TabInv, NEW r \in Request, WellAsked(r), Ends(r),
         ~ r.raced /\ r.kind \in {"open", "save"} => ~ r.ok \/ r.etag = r.ver,
         ~ r.raced /\ r.kind = "open" => r.etag = r.ver
  PROVE  TabInv'
  <1> DEFINE t == r.tab
             v == view[t]
  <1>0. /\ t \in Tabs /\ r.conn \in Conns /\ r.path \in Items /\ r.to \in Items
        /\ r.ok \in BOOLEAN /\ r.raced \in BOOLEAN
        /\ r.ver \in 0..MaxVersion /\ r.etag \in 0..MaxVersion
        /\ conn \in [Tabs -> Conns \cup {"none"}] /\ view \in [Tabs -> View] /\ v \in View
        /\ loadingFile \in [Tabs -> BOOLEAN] /\ savingFile \in [Tabs -> BOOLEAN]
        /\ (v.ok => v.path \in Paths) /\ (v.raced \/ v.etag = v.ver)
    BY DEF Request, TabInv, EtagIsOfContent
  <1>1. v.path = r.path => v # NoView
    BY <1>0, ItemsAreNamed DEF NoView
  <1>2. conn' = conn /\ {loadingFile', savingFile'} \subseteq [Tabs -> BOOLEAN]
    BY <1>0 DEF Ends, FileArrives, SaveEnds, RenameEnds, DeleteEnds, storeVars
  <1> DEFINE Fits(w) == w \in View /\ (w.ok => w.path \in Paths) /\ (w.raced \/ w.etag = w.ver)
  <1>3. ASSUME NEW w, Fits(w), Show(t, w) PROVE TabInv'
    <2>1. /\ view' \in [Tabs -> View] /\ EtagIsOfContent'
          /\ \A u \in Tabs : view'[u].ok => view'[u].path \in Paths
      BY <1>0, <1>3, ShownKeeps
    <2> HIDE DEF Fits
    <2> QED BY <1>2, <2>1 DEF TabInv
  <1>4. Fits(v) /\ Fits(NoView)
    BY <1>0, NothingToShow
  <1>5. CASE r.kind = "open"
    <2> DEFINE w == [path |-> r.path, conn |-> r.conn, ok |-> r.ok,
                     ver |-> r.ver, etag |-> r.etag, raced |-> r.raced]
    <2>1. w \in View
      BY <1>0 DEF View
    <2>2. w.path \in Paths /\ (w.raced \/ w.etag = w.ver)
      BY <1>5 DEF WellAsked
    <2>3. Show(t, w)
      BY <1>5 DEF Ends, FileArrives
    <2> HIDE DEF w
    <2> QED BY <1>3, <2>1, <2>2, <2>3
  <1>6. CASE r.kind = "save"
    <2> DEFINE w == [v EXCEPT !.ver = r.ver, !.etag = r.etag, !.ok = TRUE, !.raced = r.raced]
    <2>1. CASE r.ok /\ v.path = r.path
      <3>1. Show(t, w)
        BY <1>6, <2>1 DEF Ends, SaveEnds
      <3>2. v # NoView
        BY <1>1, <2>1
      <3>3. w \in View
        BY <1>0, <3>2 DEF View
      <3>4. w.path = v.path /\ w.raced = r.raced /\ w.etag = r.etag /\ w.ver = r.ver
        BY <1>0, <3>2 DEF View
      <3>5. v.path \in Paths
        BY <1>6, <2>1 DEF WellAsked
      <3> HIDE DEF w
      <3> QED BY <1>3, <1>6, <2>1, <3>1, <3>3, <3>4, <3>5
    <2>2. CASE ~ (r.ok /\ v.path = r.path)
      <3>1. Show(t, v)
        BY <1>6, <2>2 DEF Ends, SaveEnds
      <3> QED BY <1>3, <1>4, <3>1
    <2> QED BY <2>1, <2>2
  <1>7. CASE r.kind = "rename"
    <2> DEFINE w == [v EXCEPT !.path = r.to]
    <2>1. CASE r.ok /\ v.path = r.path
      <3>1. Show(t, w)
        BY <1>7, <2>1 DEF Ends, RenameEnds
      <3>2. v # NoView
        BY <1>1, <2>1
      <3>3. w \in View
        BY <1>0, <3>2 DEF View
      <3>4. w.path = r.to /\ w.raced = v.raced /\ w.etag = v.etag /\ w.ver = v.ver /\ w.ok = v.ok
        BY <1>0, <3>2 DEF View
      <3>5. v.ok => r.to \in Paths
        BY <1>0, <1>7, <2>1 DEF WellAsked, Siblings
      <3> HIDE DEF w
      <3> QED BY <1>0, <1>3, <3>1, <3>3, <3>4, <3>5
    <2>2. CASE ~ (r.ok /\ v.path = r.path)
      <3>1. Show(t, v)
        BY <1>7, <2>2 DEF Ends, RenameEnds
      <3> QED BY <1>3, <1>4, <3>1
    <2> QED BY <2>1, <2>2
  <1>8. CASE r.kind = "delete"
    <2>1. Show(t, NoView) \/ Show(t, v)
      BY <1>8 DEF Ends, DeleteEnds
    <2> HIDE DEF Fits, v
    <2> QED BY <1>3, <1>4, <2>1
  <1>9. CASE r.kind = "create"
    BY <1>9 DEF Ends, TabInv, storeVars, EtagIsOfContent
  <1> QED BY <1>5, <1>6, <1>7, <1>8, <1>9 DEF Ends


LEMMA ReceiveKeeps ==
  ASSUME ServerInv, TabInv, NEW s \in Slots, Receive(s)
  PROVE  ServerInv' /\ TabInv'
  <1>1. /\ req[s] # Idle /\ req[s].stage = "answered" /\ Ends(req[s])
        /\ req' = [req EXCEPT ![s] = Idle] /\ UNCHANGED serverVars
    BY DEF Receive
  <1>2. WellAsked(req[s]) /\ InTouch(req[s], disk[req[s].conn]) /\ req[s] \in Request
    BY <1>1 DEF ServerInv, Good, WellAsked
  <1>3. TabInv'
    BY <1>1, <1>2, EndsKeep DEF InTouch
  <1> QED BY <1>1, <1>3, PutKeeps DEF Good

LEMMA GiveUpKeeps ==
  ASSUME ServerInv, TabInv, NEW s \in Slots, GiveUp(s)
  PROVE  ServerInv' /\ TabInv'
  <1> DEFINE r == req[s]
             q == [r EXCEPT !.ok = FALSE, !.ver = 0, !.etag = 0, !.raced = FALSE]
             deaf == [r EXCEPT !.deaf = TRUE]
  <1>1. /\ r # Idle /\ Ends(q) /\ UNCHANGED serverVars
        /\ req' = [req EXCEPT ![s] = Idle] \/ req' = [req EXCEPT ![s] = deaf]
    BY DEF GiveUp
  <1>2. WellAsked(r) /\ InTouch(r, disk[r.conn]) /\ r \in Request /\ 0 \in 0..MaxVersion
    BY <1>1, VersionsAssumption DEF ServerInv, Good, WellAsked
  <1>3. TabInv'
    <2>1. q \in Request
      BY <1>2 DEF Request
    <2>2. /\ q.kind = r.kind /\ q.path = r.path /\ q.to = r.to /\ q.stage = r.stage
          /\ q.etag = 0 /\ q.ver = 0
      BY <1>2 DEF Request
    <2>3. Ends(q)
      BY <1>1
    <2> HIDE DEF q
    <2>4. WellAsked(q)
      BY <1>2, <2>1, <2>2 DEF WellAsked
    <2> QED BY <2>1, <2>2, <2>3, <2>4, EndsKeep
  <1>4. Good(deaf, disk)
    <2>1. deaf \in Request
      BY <1>2 DEF Request
    <2>2. /\ deaf.kind = r.kind /\ deaf.path = r.path /\ deaf.to = r.to /\ deaf.stage = r.stage
          /\ deaf.raced = r.raced /\ deaf.etag = r.etag /\ deaf.ver = r.ver /\ deaf.conn = r.conn
          /\ deaf.expect = r.expect /\ deaf.seen = r.seen
      BY <1>2 DEF Request
    <2> HIDE DEF deaf
    <2>3. WellAsked(deaf)
      BY <1>2, <2>1, <2>2 DEF WellAsked
    <2>4. InTouch(deaf, disk[deaf.conn])
      BY <1>2, <2>2 DEF InTouch
    <2> QED BY <2>3, <2>4 DEF Good
  <1>5. Good(Idle, disk)
    BY DEF Good
  <1>6. ServerInv'
    <2> HIDE DEF deaf
    <2> QED BY <1>1, <1>4, <1>5, PutKeeps
  <1> QED BY <1>3, <1>6

\* Files, requests and viewers, whatever any number of dashboards and the
\* agent do to any files.
THEOREM FilesInvariant == FilesSpec => [](ServerInv /\ TabInv)
  <1>1. FilesInit => ServerInv /\ TabInv
    <2> SUFFICES ASSUME FilesInit PROVE ServerInv /\ TabInv
      OBVIOUS
    <2>1. 0 \in 0..MaxVersion
      BY VersionsAssumption
    <2>2. ServerInv
      BY <2>1 DEF FilesInit, ServerInv, Good, OverwritesAreRaced
    <2>3. view = [t \in Tabs |-> NoView] /\ conn = [t \in Tabs |-> "none"]
          /\ loadingFile = [t \in Tabs |-> FALSE] /\ savingFile = [t \in Tabs |-> FALSE]
      BY DEF FilesInit
    <2> QED BY <2>2, <2>3, NothingToShow DEF TabInv, EtagIsOfContent
  <1>2. ServerInv /\ TabInv /\ [FilesNext]_filesVars => ServerInv' /\ TabInv'
    <2> SUFFICES ASSUME ServerInv, TabInv, [FilesNext]_filesVars PROVE ServerInv' /\ TabInv'
      OBVIOUS
    <2>1. UNCHANGED storeVars => TabInv'
      BY DEF storeVars, TabInv, EtagIsOfContent
    <2>2. ASSUME NEW t \in Tabs, TabAction(t) PROVE ServerInv' /\ TabInv'
      BY <2>2, TabActionKeeps
    <2>3. ASSUME NEW s \in Slots, Serve(s) PROVE ServerInv' /\ TabInv'
      BY <2>1, <2>3, ServerKeeps
    <2>4. ASSUME NEW s \in Slots, Receive(s) \/ GiveUp(s) PROVE ServerInv' /\ TabInv'
      BY <2>4, ReceiveKeeps, GiveUpKeeps
    <2>5. ASSUME ExternalWrite \/ ExternalRemove PROVE ServerInv' /\ TabInv'
      BY <2>1, <2>5, OthersKeep
    <2>6. CASE UNCHANGED filesVars
      <3>1. UNCHANGED <<disk, clock, overwritten, req>> /\ UNCHANGED storeVars
        BY <2>6 DEF filesVars, serverVars
      <3> QED BY <2>1, <3>1 DEF ServerInv, OverwritesAreRaced
    <2> QED BY <2>2, <2>3, <2>4, <2>5, <2>6 DEF FilesNext
  <1> QED BY <1>1, <1>2, PTL DEF FilesSpec

\* The files, requests and viewers are well typed (file-service.ts,
\* store/workspace.ts), for any paths, tabs and number of requests.
THEOREM FilesTypeCorrect == FilesSpec => []FilesTypeOK
  <1>1. ServerInv /\ TabInv => FilesTypeOK
    BY DEF ServerInv, TabInv, FilesTypeOK
  <1> QED BY <1>1, FilesInvariant, PTL

\* Between a check and the write that relies on it nothing else protects a
\* file; at any other time the etag of a save and the flag of a new file do
\* (file-service.ts writeFileContent, createItem, renameItem).
THEOREM OnlyRacesOverwrite == FilesSpec => []OverwritesAreRaced
  <1>1. ServerInv => OverwritesAreRaced
    BY DEF ServerInv
  <1> QED BY <1>1, FilesInvariant, PTL

\* The viewer's etag is of the content it shows, unless the file changed
\* while the server read or wrote it (store/workspace.ts openFile, saveFile,
\* renameItem).
THEOREM ViewersKnowTheirContent == FilesSpec => []EtagIsOfContent
  <1>1. TabInv => EtagIsOfContent
    BY DEF TabInv
  <1> QED BY <1>1, FilesInvariant, PTL

-----------------------------------------------------------------------------
(* Paths of the workspace.                                                  *)

Name == STRING \cup {"w", "f"}
Path == Seq(Name)

LEMMA BelowIs ==
  ASSUME NEW p \in Path, NEW q \in Path
  PROVE  Below(p, q) <=> Len(q) <= Len(p) /\ \A i \in 1..Len(q) : p[i] = q[i]
  <1>1. SubSeq(q, 1, Len(q)) = q
    BY SubSeqFull DEF Path
  <1>2. ASSUME Len(q) <= Len(p)
        PROVE  SubSeq(p, 1, Len(q)) = q <=> \A i \in 1..Len(q) : p[i] = q[i]
    <2>1. /\ SubSeq(p, 1, Len(q)) \in Path /\ Len(SubSeq(p, 1, Len(q))) = Len(q)
          /\ \A i \in 1..Len(q) : SubSeq(p, 1, Len(q))[i] = p[i]
      BY <1>2 DEF Path
    <2> QED BY <2>1, SeqEqual DEF Path
  <1> QED BY <1>1, <1>2 DEF Below, IsPrefix

LEMMA Joined ==
  ASSUME NEW p \in Path, NEW q \in Path
  PROVE  /\ p \o q \in Path /\ Len(p \o q) = Len(p) + Len(q)
         /\ Below(p \o q, p) /\ After(p \o q, p) = q
  <1> DEFINE j == p \o q
  <1>1. /\ j \in Path /\ Len(j) = Len(p) + Len(q) /\ Len(p) \in Nat /\ Len(q) \in Nat
        /\ \A i \in 1..(Len(p) + Len(q)) : j[i] = IF i <= Len(p) THEN p[i] ELSE q[i - Len(p)]
    BY ConcatProperties, LenProperties DEF Path
  <1> HIDE DEF j
  <1>2. Below(j, p)
    BY <1>1, BelowIs
  <1>3. /\ After(j, p) \in Path /\ Len(After(j, p)) = Len(q)
        /\ \A i \in 1..Len(q) : After(j, p)[i] = j[Len(p) + i]
    BY <1>1 DEF Path, After
  <1>4. \A i \in 1..Len(q) : After(j, p)[i] = q[i]
    BY <1>1, <1>3
  <1>5. After(j, p) = q
    BY <1>3, <1>4, SeqEqual DEF Path
  <1> QED BY <1>1, <1>2, <1>5 DEF j

LEMMA Parted ==
  ASSUME NEW p \in Path, NEW q \in Path, Below(p, q)
  PROVE  After(p, q) \in Path /\ p = q \o After(p, q)
  <1>1. Len(q) <= Len(p) /\ Len(p) \in Nat /\ Len(q) \in Nat /\ \A i \in 1..Len(q) : p[i] = q[i]
    BY BelowIs DEF Path
  <1>2. /\ After(p, q) \in Path /\ Len(After(p, q)) = Len(p) - Len(q)
        /\ \A i \in 1..(Len(p) - Len(q)) : After(p, q)[i] = p[Len(q) + i]
    BY <1>1 DEF Path, After
  <1>3. /\ q \o After(p, q) \in Path /\ Len(q \o After(p, q)) = Len(p)
        /\ \A i \in 1..Len(p) : (q \o After(p, q))[i] = IF i <= Len(q) THEN q[i] ELSE After(p, q)[i - Len(q)]
    BY <1>1, <1>2, ConcatProperties DEF Path
  <1>4. \A i \in 1..Len(p) : (q \o After(p, q))[i] = p[i]
    BY SMTT(30), <1>1, <1>2, <1>3
  <1> QED BY <1>2, <1>3, <1>4, SeqEqual DEF Path

LEMMA BelowOrder ==
  ASSUME NEW p \in Path, NEW q \in Path, NEW r \in Path
  PROVE  /\ Below(p, p) /\ Below(p, <<>>)
         /\ Below(p, q) /\ Below(q, r) => Below(p, r)
         /\ Below(p, q) /\ Below(q, p) => p = q
         /\ Below(p, q) /\ Below(p, r) /\ Len(q) >= Len(r) => Below(q, r)
  <1>0. Len(p) \in Nat /\ Len(q) \in Nat /\ Len(r) \in Nat /\ <<>> \in Path /\ Len(<<>>) = 0
    BY EmptySeq, LenProperties DEF Path
  <1>1. Below(p, p) /\ Below(p, <<>>)
    BY <1>0, BelowIs
  <1>2. Below(p, q) /\ Below(q, r) => Below(p, r)
    BY <1>0, BelowIs
  <1>3. Below(p, q) /\ Below(q, p) => p = q
    BY <1>0, BelowIs, SeqEqual DEF Path
  <1>4. Below(p, q) /\ Below(p, r) /\ Len(q) >= Len(r) => Below(q, r)
    BY <1>0, BelowIs
  <1> QED BY <1>1, <1>2, <1>3, <1>4

LEMMA BelowJoined ==
  ASSUME NEW p \in Path, NEW q \in Path, NEW r \in Path
  PROVE  /\ Below(p \o q, p \o r) <=> Below(q, r)
         /\ Below(p, q) => Below(p \o r, q)
  <1> DEFINE pq == p \o q
             pr == p \o r
  <1>1. /\ pq \in Path /\ Len(pq) = Len(p) + Len(q)
        /\ pr \in Path /\ Len(pr) = Len(p) + Len(r)
        /\ Len(p) \in Nat /\ Len(q) \in Nat /\ Len(r) \in Nat
        /\ \A i \in 1..(Len(p) + Len(q)) : pq[i] = IF i <= Len(p) THEN p[i] ELSE q[i - Len(p)]
        /\ \A i \in 1..(Len(p) + Len(r)) : pr[i] = IF i <= Len(p) THEN p[i] ELSE r[i - Len(p)]
    BY ConcatProperties, LenProperties DEF Path
  <1> HIDE DEF pq, pr
  <1>2. ASSUME Below(q, r) PROVE Below(pq, pr)
    <2>1. Len(r) <= Len(q) /\ \A i \in 1..Len(r) : q[i] = r[i]
      BY <1>2, BelowIs
    <2>2. ASSUME NEW i \in 1..(Len(p) + Len(r)) PROVE pq[i] = pr[i]
      <3>1. i \in 1..(Len(p) + Len(q)) /\ i \in Nat
        BY <1>1, <2>1
      <3>2. CASE i <= Len(p)
        BY <1>1, <3>1, <3>2
      <3>3. CASE ~ (i <= Len(p))
        <4>1. i - Len(p) \in 1..Len(r)
          BY <1>1, <3>1, <3>3
        <4>2. q[i - Len(p)] = r[i - Len(p)]
          BY <2>1, <4>1
        <4> QED BY <1>1, <3>1, <3>3, <4>2
      <3> QED BY <3>2, <3>3
    <2> QED BY SMTT(30), <1>1, <2>1, <2>2, BelowIs
  <1>3. ASSUME Below(pq, pr) PROVE Below(q, r)
    <2>0. Len(pr) <= Len(pq) /\ \A i \in 1..Len(pr) : pq[i] = pr[i]
      BY <1>1, <1>3, BelowIs
    <2>1. Len(r) <= Len(q) /\ \A i \in 1..(Len(p) + Len(r)) : pq[i] = pr[i]
      <3>1. Len(p) + Len(r) <= Len(p) + Len(q) /\ \A i \in 1..(Len(p) + Len(r)) : pq[i] = pr[i]
        BY <1>1, <2>0
      <3>2. Len(r) <= Len(q)
        BY <1>1, <3>1
      <3> QED BY <3>1, <3>2
    <2>2. ASSUME NEW i \in 1..Len(r) PROVE q[i] = r[i]
      <3> DEFINE k == Len(p) + i
      <3>1. /\ k \in 1..(Len(p) + Len(q)) /\ k \in 1..(Len(p) + Len(r))
            /\ ~ (k <= Len(p)) /\ k - Len(p) = i
        BY <1>1, <2>1
      <3> HIDE DEF k
      <3>2. pq[k] = q[k - Len(p)] /\ pr[k] = r[k - Len(p)]
        BY <1>1, <3>1
      <3> QED BY <2>1, <3>1, <3>2
    <2> QED BY <2>1, <2>2, BelowIs
  <1>4. ASSUME Below(p, q) PROVE Below(pr, q)
    <2>1. Len(q) <= Len(p) /\ Len(q) \in Nat /\ \A i \in 1..Len(q) : p[i] = q[i]
      BY <1>4, BelowIs, LenProperties DEF Path
    <2>2. Len(q) <= Len(pr) /\ \A i \in 1..Len(q) : pr[i] = q[i]
      BY <1>1, <2>1
    <2> QED BY <1>1, <2>2, BelowIs
  <1> QED BY <1>2, <1>3, <1>4 DEF pq, pr

\* A set of natural numbers has a least one.
LEMMA Smallest == ASSUME NEW T \in SUBSET Nat, NEW N \in T PROVE \E n \in T : \A m \in T : n <= m
  <1> DEFINE F == {1..n : n \in T \cap 0..N}
  <1>1. IsFiniteSet(1..N)
    BY FS_Interval
  <1>2. IsWellFoundedOn(StrictSubsetOrdering(1..N), FiniteSubsetsOf(1..N))
    BY <1>1, FS_StrictSubsetOrderingWellFounded
  <1>3. F \subseteq FiniteSubsetsOf(1..N)
    <2>1. \A n \in T \cap 0..N : 1..n \in SUBSET (1..N) /\ IsFiniteSet(1..n)
      BY FS_Interval
    <2> QED BY <2>1 DEF FiniteSubsetsOf
  <1>4. 1..N \in F
    OBVIOUS
  <1>5. PICK x \in F : \A y \in F : <<y, x>> \notin StrictSubsetOrdering(1..N)
    <2> HIDE DEF F
    <2> QED BY <1>2, <1>3, <1>4, WFMin
  <1>6. PICK n \in T \cap 0..N : x = 1..n
    BY <1>5
  <1>7. ASSUME NEW m \in T, m < n PROVE FALSE
    <2>1. 1..m \in F /\ 1..m \subseteq x /\ 1..m # x /\ 1..m \in SUBSET (1..N) /\ x \in SUBSET (1..N)
      <3>1. n \in x /\ n \notin 1..m
        BY <1>6, <1>7
      <3> QED BY <1>6, <1>7, <3>1
    <2>2. <<1..m, x>> \in StrictSubsetOrdering(1..N)
      BY <2>1 DEF StrictSubsetOrdering
    <2> QED BY <2>1, <2>2, <1>5
  <1> QED BY <1>7

-----------------------------------------------------------------------------
(* Repositories.                                                            *)

World ==
    /\ repos \in SUBSET ({RootPath \o d : d \in Dirs} \cup {<<>>})
    /\ changed \in SUBSET Dirs
    /\ untracked \in BOOLEAN

LEMMA Places ==
  /\ RootPath \in Path /\ <<>> \in Path /\ Len(RootPath) = 1 /\ <<"f">> \in Path
  /\ \A d \in Dirs : /\ d \in Path /\ RootPath \o d \in Path /\ RootPath \o d # Nowhere
                     /\ Below(RootPath \o d, RootPath)
  /\ RootPath \o <<>> = RootPath
  /\ <<>> # Nowhere /\ RootPath # Nowhere
  <1>1. RootPath \in Path /\ <<>> \in Path /\ Len(RootPath) = 1 /\ <<"f">> \in Path /\ RootPath[1] = "w"
    <2>0. "w" \in Name /\ "f" \in Name
      BY DEF Name
    <2>1. <<"w">> \in Seq(Name)
      BY <2>0
    <2>2. <<"f">> \in Seq(Name)
      BY <2>0
    <2>3. <<>> \in Seq(Name)
      BY EmptySeq
    <2>4. Len(<<"w">>) = 1 /\ <<"w">>[1] = "w"
      OBVIOUS
    <2> QED BY <2>1, <2>2, <2>3, <2>4 DEF RootPath, Path
  <1>2. Len(Nowhere) = 1 /\ Nowhere[1] = "nowhere" /\ Len(<<>>) = 0
    BY DEF Nowhere
  <1>3. ASSUME NEW d \in Dirs
        PROVE  /\ d \in Path /\ RootPath \o d \in Path /\ RootPath \o d # Nowhere
               /\ Below(RootPath \o d, RootPath)
    <2>1. d \in Path
      BY DirsAssumption, SeqMonotonic DEF Path, Name
    <2>2. RootPath \o d \in Path /\ Below(RootPath \o d, RootPath)
      BY <1>1, <2>1, Joined
    <2>3. (RootPath \o d)[1] = "w"
      BY <1>1, <2>2, BelowIs
    <2> QED BY <1>2, <2>1, <2>2, <2>3
  <1>4. RootPath \o <<>> = RootPath
    BY <1>1, ConcatEmptySeq DEF Path
  <1> QED BY <1>1, <1>2, <1>3, <1>4

\* The top level of a path is the innermost repository around it.
LEMMA TopLevel ==
  ASSUME World, NEW p \in Path
  PROVE  /\ (\E r \in repos : Below(p, r)) <=> TopOf(p) # Nowhere
         /\ TopOf(p) # Nowhere => /\ TopOf(p) \in repos /\ TopOf(p) \in Path /\ Below(p, TopOf(p))
                                  /\ \A r \in repos : Below(p, r) => Below(TopOf(p), r)
         /\ p \in repos => TopOf(p) = p
  <1> DEFINE tops == {r \in repos : Below(p, r)}
  <1>0. repos \subseteq Path /\ Nowhere \notin repos
    BY Places DEF World
  <1>1. CASE tops = {}
    <2>1. TopOf(p) = Nowhere
      BY <1>1 DEF TopOf
    <2>2. p \notin repos
      BY <1>1, BelowOrder
    <2> QED BY <1>1, <2>1, <2>2
  <1>2. CASE tops # {}
    <2> DEFINE T == {Len(p) - Len(r) : r \in tops}
    <2>1. \A r \in tops : Len(p) - Len(r) \in Nat /\ Len(r) \in Nat /\ Len(p) \in Nat
      BY <1>0, BelowIs DEF Path
    <2>2. PICK n \in T : \A m \in T : n <= m
      <3>1. T \in SUBSET Nat /\ T # {}
        BY <1>2, <2>1
      <3> HIDE DEF T
      <3> QED BY <3>1, Smallest
    <2>3. PICK r \in tops : n = Len(p) - Len(r)
      BY <2>2
    <2>4. \A q \in tops : Len(r) >= Len(q)
      <3> SUFFICES ASSUME NEW q \in tops PROVE Len(r) >= Len(q)
        OBVIOUS
      <3>1. n <= Len(p) - Len(q)
        BY <2>2
      <3> QED BY <2>1, <2>3, <3>1
    <2>5. \A q \in tops : Below(r, q)
      BY <1>0, <2>3, <2>4, BelowOrder
    <2>6. TopOf(p) = CHOOSE x \in tops : \A q \in tops : Below(x, q)
      BY <1>2 DEF TopOf
    <2>7. TopOf(p) \in tops /\ \A q \in tops : Below(TopOf(p), q)
      <3> HIDE DEF tops
      <3> QED BY <2>3, <2>5, <2>6
    <2>8. p \in repos => TopOf(p) = p
      BY <1>0, <2>7, BelowOrder
    <2> QED BY <1>0, <1>2, <2>7, <2>8
  <1> QED BY <1>1, <1>2


-----------------------------------------------------------------------------
(* Scopes.                                                                  *)

\* The directory that a scope's commands run in, by its path: it holds a
\* repository, and what the scope shows is in it.
LEMMA ScopeIs ==
  ASSUME World, ~ Enclosed, NEW scope \in Dirs, ScopeContext(scope).mode # "none"
  PROVE  /\ ScopeContext(scope).repoRoot \in Dirs
         /\ ScopeContext(scope).cwd = RootPath \o ScopeContext(scope).repoRoot
         /\ ScopeContext(scope).spec = RootPath \o scope
         /\ ScopeContext(scope).mode = "nested" => ScopeContext(scope).repoRoot = scope
         /\ ScopeContext(scope).mode # "nested" => ScopeContext(scope).repoRoot = <<>>
         /\ ScopeContext(scope).mode = "subpath" => TopOf(RootPath \o scope) # RootPath \o scope
         /\ TopOf(ScopeContext(scope).cwd) \in {Nowhere, ScopeContext(scope).cwd}
  <1> DEFINE ctx == ScopeContext(scope)
  <1>1. TopOf(RootPath) \in {Nowhere, RootPath}
    <2> SUFFICES ASSUME TopOf(RootPath) # Nowhere PROVE TopOf(RootPath) = RootPath
      OBVIOUS
    <2> DEFINE top == TopOf(RootPath)
    <2>1. top \in repos /\ top \in Path /\ Below(RootPath, top) /\ top # <<>>
      BY TopLevel, Places DEF Enclosed
    <2>2. Len(top) = Len(RootPath)
      BY <2>1, Places, BelowIs, EmptySeq DEF Path
    <2>3. Below(top, RootPath)
      BY <2>1, <2>2, Places, BelowIs
    <2> QED BY <2>1, <2>3, Places, BelowOrder
  <1>2. CASE TopOf(RootPath \o scope) = Nowhere
    BY <1>2 DEF ScopeContext, NoContext
  <1>3. CASE TopOf(RootPath \o scope) # Nowhere /\ scope = <<>>
    <2>1. ctx = [mode |-> "root", repoRoot |-> <<>>, cwd |-> RootPath, spec |-> RootPath]
      BY <1>3 DEF ScopeContext, NoContext
    <2>2. <<>> \in Dirs /\ RootPath = RootPath \o <<>>
      BY Places, DirsAssumption
    <2> HIDE DEF ctx
    <2>3. /\ ctx.mode = "root" /\ ctx.repoRoot = <<>> /\ ctx.cwd = RootPath /\ ctx.spec = RootPath
      BY <2>1
    <2>4. ctx.cwd = RootPath \o ctx.repoRoot /\ ctx.spec = RootPath \o scope
      BY <1>3, <2>2, <2>3
    <2>5. ctx.repoRoot \in Dirs /\ TopOf(ctx.cwd) \in {Nowhere, ctx.cwd}
      BY <1>1, <2>2, <2>3
    <2> QED BY <2>3, <2>4, <2>5 DEF ctx
  <1>4. CASE scope # <<>> /\ TopOf(RootPath \o scope) = RootPath \o scope /\ TopOf(RootPath \o scope) # Nowhere
    <2>1. ctx = [mode |-> "nested", repoRoot |-> scope, cwd |-> RootPath \o scope,
                 spec |-> RootPath \o scope]
      BY <1>4 DEF ScopeContext
    <2> QED BY <1>4, <2>1
  <1>5. CASE scope # <<>> /\ TopOf(RootPath \o scope) \notin {Nowhere, RootPath \o scope}
    <2>1. ctx = [mode |-> "subpath", repoRoot |-> <<>>, cwd |-> RootPath, spec |-> RootPath \o scope]
      BY <1>5 DEF ScopeContext, NoContext
    <2>2. <<>> \in Dirs /\ RootPath = RootPath \o <<>>
      BY Places, DirsAssumption
    <2> HIDE DEF ctx
    <2>3. /\ ctx.mode = "subpath" /\ ctx.repoRoot = <<>> /\ ctx.cwd = RootPath
          /\ ctx.spec = RootPath \o scope
      BY <2>1
    <2>4. ctx.cwd = RootPath \o ctx.repoRoot
      BY <2>2, <2>3
    <2>5. ctx.repoRoot \in Dirs /\ TopOf(ctx.cwd) \in {Nowhere, ctx.cwd}
      BY <1>1, <2>2, <2>3
    <2> QED BY <1>5, <2>3, <2>4, <2>5 DEF ctx
  <1> QED BY <1>2, <1>3, <1>4, <1>5

LEMMA Regrouped == \A p, q, r \in Path : (p \o q) \o r = p \o (q \o r)
  <1> SUFFICES ASSUME NEW p \in Path, NEW q \in Path, NEW r \in Path
               PROVE  (p \o q) \o r = p \o (q \o r)
    OBVIOUS
  <1> QED BY SMTT(30), ConcatAssociative DEF Path

\* A file of the directory x, which is y below z, all of it in w.
FitTogether(w, z, y, x, leaf) ==
    /\ x \o leaf = z \o (y \o leaf)
    /\ w \o (x \o leaf) = (w \o x) \o leaf
    /\ (w \o z) \o (y \o leaf) = (w \o x) \o leaf
    /\ After((w \o x) \o leaf, w \o z) = y \o leaf
    /\ Below(x \o leaf, z) /\ After(x \o leaf, z) = y \o leaf
    /\ z = <<>> => y \o leaf = x \o leaf

LEMMA FourParts ==
  ASSUME NEW w \in Path, NEW z \in Path, NEW y \in Path, NEW leaf \in Path, NEW x \in Path
  PROVE  x = z \o y => FitTogether(w, z, y, x, leaf)
  <1>1. y \o leaf \in Path
    BY Joined
  <1>2. w \o z \in Path
    BY Joined
  <1> DEFINE Groups(p) == \A q, r \in Path : (p \o q) \o r = p \o (q \o r)
             GroupsWith(p, q) == \A r \in Path : (p \o q) \o r = p \o (q \o r)
  <1>a. Groups(w) /\ Groups(z)
    BY Regrouped, Zenon
  <1>b. GroupsWith(w, x) /\ GroupsWith(w, z) /\ GroupsWith(z, y)
    BY <1>a, Zenon
  <1>c. (z \o y) \o leaf = z \o (y \o leaf)
    BY <1>b, Zenon
  <1>3. w \o (x \o leaf) = (w \o x) \o leaf
    BY <1>b, Zenon
  <1>4. (w \o z) \o (y \o leaf) = w \o (z \o (y \o leaf))
    BY <1>1, <1>b, Zenon
  <1> HIDE DEF Groups, GroupsWith
  <1> SUFFICES ASSUME x = z \o y PROVE FitTogether(w, z, y, x, leaf)
    OBVIOUS
  <1>5. x \o leaf = z \o (y \o leaf)
    BY <1>c
  <1> DEFINE yl == y \o leaf
             wz == w \o z
  <1>6. yl \in Path /\ wz \in Path
    BY <1>1, <1>2
  <1>7. w \o (z \o yl) = wz \o yl
    BY <1>4
  <1>8. wz \o yl = (w \o x) \o leaf
    BY <1>3, <1>5, <1>7
  <1> HIDE DEF yl, wz
  <1>9. After(wz \o yl, wz) = yl
    BY <1>6, Joined
  <1>10. Below(z \o yl, z) /\ After(z \o yl, z) = yl
    BY <1>6, Joined
  <1>11. <<>> \o yl = yl
    BY <1>6, ConcatEmptySeq DEF Path
  <1>12. x \o leaf = z \o yl
    BY <1>5 DEF yl
  <1> QED BY <1>3, <1>8, <1>9, <1>10, <1>11, <1>12 DEF yl, wz, FitTogether

\* The file f of the directory x, which the repository of z lists in spec, by
\* its path in the workspace.
Located(z, spec, f, x, path) ==
    /\ f = File(x) /\ TopOf(RootPath \o x) = RootPath \o z /\ Below(RootPath \o x, spec)
    /\ JoinScopePath(z, After(f, RootPath \o z)) = path
    /\ StripScopePrefix(z, path) = After(path, z)
    /\ (RootPath \o z) \o After(path, z) = f
    /\ z = <<>> => After(path, z) = path
    /\ RootPath \o path = f
    /\ Below(RootPath \o x, RootPath \o z)

\* What getGitStatus lists in the repository of z, getGitDiff finds again.
LEMMA ListedIsFound ==
  ASSUME World, NEW z \in Dirs, TopOf(RootPath \o z) = RootPath \o z, NEW spec,
         NEW f \in Dirty(RootPath \o z, spec)
  PROVE  \E x \in changed : Located(z, spec, f, x, x \o <<"f">>)
  <1>1. PICK x \in changed : /\ f = File(x) /\ TopOf(RootPath \o x) = TopOf(RootPath \o z)
                             /\ Below(RootPath \o x, spec)
    BY DEF Dirty
  <1>2. x \in Path /\ z \in Path /\ RootPath \o x \in Path /\ RootPath \o z \in Path
        /\ RootPath \o z # Nowhere /\ RootPath \in Path /\ <<"f">> \in Path
    BY Places DEF World
  <1>3. Below(RootPath \o x, RootPath \o z)
    BY ZenonT(60), <1>1, <1>2, TopLevel
  <1>4. Below(x, z)
    BY <1>2, <1>3, BelowJoined
  <1>5. PICK y : y \in Path /\ x = z \o y
    <2>1. After(x, z) \in Path /\ x = z \o After(x, z)
      BY <1>2, <1>4, Parted
    <2> DEFINE y == After(x, z)
    <2> HIDE DEF y
    <2>2. y \in Path /\ x = z \o y
      BY <2>1 DEF y
    <2> QED BY <2>2
  <1>6. f = (RootPath \o x) \o <<"f">>
    BY <1>1 DEF File
  <1>7. FitTogether(RootPath, z, y, x, <<"f">>)
    BY <1>2, <1>5, FourParts
  <1> DEFINE xl == x \o <<"f">>
  <1>8. f = RootPath \o xl /\ After(f, RootPath \o z) = After(xl, z) /\ Below(xl, z)
    BY <1>6, <1>7 DEF FitTogether
  <1>9. StripScopePrefix(z, xl) = After(xl, z)
    BY <1>8 DEF StripScopePrefix
  <1>10. JoinScopePath(z, After(f, RootPath \o z)) = xl
    BY <1>6, <1>7 DEF JoinScopePath, FitTogether
  <1>11. (RootPath \o z) \o After(xl, z) = f /\ (z = <<>> => After(xl, z) = xl)
    BY <1>6, <1>7 DEF FitTogether
  <1> QED
    <2> HIDE DEF xl
    <2>1. Located(z, spec, f, x, xl)
      BY <1>1, <1>3, <1>8, <1>9, <1>10, <1>11 DEF Located
    <2> QED BY <2>1 DEF xl

\* What a status says.
LEMMA StatusIs ==
  ASSUME NEW scope \in Dirs, NEW outcome \in Outcomes
  PROVE  /\ GitStatus(scope, outcome).asked /\ GitStatus(scope, outcome).scope = scope
         /\ \A c \in GitStatus(scope, outcome).changes :
              /\ GitStatus(scope, outcome).available /\ ~ GitStatus(scope, outcome).large
         /\ GitStatus(scope, outcome).available /\ ~ GitStatus(scope, outcome).large =>
              /\ ScopeContext(scope).mode # "none" /\ TopOf(ScopeContext(scope).cwd) # Nowhere
              /\ GitStatus(scope, outcome).changes =
                   {ListedChange(ScopeContext(scope), f) :
                      f \in Dirty(ScopeContext(scope).cwd, ScopeContext(scope).spec)}
  <1> DEFINE ctx == ScopeContext(scope)
             C == {ListedChange(ctx, f) : f \in Dirty(ctx.cwd, ctx.spec)}
             st == GitStatus(scope, outcome)
  <1>1. CASE ctx.mode = "none" \/ TopOf(ctx.cwd) = Nowhere \/ outcome \notin {"done", "big"}
    <2>1. st = [asked |-> TRUE, available |-> FALSE, large |-> FALSE, scope |-> scope, changes |-> {}]
      BY <1>1 DEF GitStatus, NoStatus
    <2> QED BY <2>1
  <1>2. CASE ~ (ctx.mode = "none" \/ TopOf(ctx.cwd) = Nowhere) /\ outcome = "big"
    <2>1. st = [asked |-> TRUE, available |-> TRUE, large |-> TRUE, scope |-> scope, changes |-> {}]
      BY <1>2 DEF GitStatus, NoStatus
    <2> QED BY <2>1
  <1>3. CASE ~ (ctx.mode = "none" \/ TopOf(ctx.cwd) = Nowhere) /\ outcome = "done"
    <2>1. st = [asked |-> TRUE, available |-> TRUE, large |-> FALSE, scope |-> scope, changes |-> C]
      <3> HIDE DEF C
      <3>1. st = [[[NoStatus EXCEPT !.asked = TRUE, !.scope = scope]
                     EXCEPT !.available = TRUE] EXCEPT !.changes = C]
        BY <1>3 DEF GitStatus, C
      <3> QED BY <3>1 DEF NoStatus
    <2> QED BY <1>3, <2>1
  <1> QED BY <1>1, <1>2, <1>3

\* What a diff is of.
LEMMA DiffIs ==
  ASSUME World, ~ Enclosed, NEW scope \in Dirs, NEW outcome \in Outcomes,
         NEW c \in GitStatus(scope, outcome).changes, NEW first \in Outcomes, NEW then \in Outcomes
  PROVE  /\ GitDiff(c, scope, first, then).asked
         /\ GitDiff(c, scope, first, then).shown \in {Nowhere, GitDiff(c, scope, first, then).of}
         /\ GitDiff(c, scope, first, then).done =>
              GitDiff(c, scope, first, then).shown = GitDiff(c, scope, first, then).of
  <1> DEFINE ctx == ScopeContext(scope)
             z == ctx.repoRoot
  <1>1. ctx.mode # "none" /\ TopOf(ctx.cwd) # Nowhere
        /\ \E f \in Dirty(ctx.cwd, ctx.spec) : c = ListedChange(ctx, f)
    BY StatusIs
  <1>2. /\ z \in Dirs /\ ctx.cwd = RootPath \o z /\ TopOf(ctx.cwd) = ctx.cwd
        /\ ctx.mode = "nested" \/ z = <<>>
    BY <1>1, ScopeIs
  <1>3. PICK f \in Dirty(ctx.cwd, ctx.spec) : c = ListedChange(ctx, f)
    BY <1>1
  <1>4. PICK x \in changed : Located(z, ctx.spec, f, x, x \o <<"f">>)
    <2> DEFINE spec == ctx.spec
    <2>1. z \in Dirs /\ TopOf(RootPath \o z) = RootPath \o z /\ f \in Dirty(RootPath \o z, spec)
      BY <1>2, <1>3
    <2> HIDE DEF ctx, z, spec
    <2>2. \E x \in changed : Located(z, spec, f, x, x \o <<"f">>)
      BY <2>1, ListedIsFound
    <2> QED BY <2>2 DEF spec
  <1>5. c.path = x \o <<"f">> /\ c.file = f
    BY <1>2, <1>3, <1>4 DEF ListedChange, Located
  <1> DEFINE rel == IF ctx.mode = "nested" THEN StripScopePrefix(z, c.path) ELSE c.path
             file == ctx.cwd \o rel
             inHere == file \in Dirty(ctx.cwd, ctx.cwd)
             new == first = "done" /\ untracked /\ inHere
  <1>6. rel = After(x \o <<"f">>, z)
    BY <1>2, <1>4, <1>5 DEF Located
  <1>7. file = f
    BY <1>2, <1>4, <1>6 DEF Located
  <1>8. inHere
    <2>1. f = File(x) /\ TopOf(RootPath \o x) = TopOf(ctx.cwd) /\ Below(RootPath \o x, ctx.cwd)
      BY <1>2, <1>4 DEF Located
    <2> QED BY <1>7, <2>1 DEF Dirty
  <1>9. Resolves(c.path)
    <2>1. x \in Dirs /\ x \in Path /\ <<"f">> \in Path /\ Len(<<"f">>) = 1
      BY Places DEF World
    <2>2. Front(x \o <<"f">>) = x
      <3> DEFINE j == x \o <<"f">>
      <3>1. /\ j \in Path /\ Len(j) = Len(x) + 1 /\ Len(x) \in Nat
            /\ \A i \in 1..Len(x) : j[i] = x[i]
        BY <2>1, ConcatProperties, LenProperties DEF Path
      <3> HIDE DEF j
      <3>2. /\ SubSeq(j, 1, Len(x)) \in Path /\ Len(SubSeq(j, 1, Len(x))) = Len(x)
            /\ \A i \in 1..Len(x) : SubSeq(j, 1, Len(x))[i] = j[i]
        BY <3>1 DEF Path
      <3>3. SubSeq(j, 1, Len(x)) = x
        BY <2>1, <3>1, <3>2, SeqEqual DEF Path
      <3>4. Len(j) - 1 = Len(x)
        BY <3>1
      <3> QED BY <3>3, <3>4 DEF Front, j
    <2> QED BY <1>5, <2>1, <2>2 DEF Resolves
  <1>10. Below(RootPath \o c.path, ctx.spec)
    <2>1. /\ RootPath \o x \in Path /\ <<"f">> \in Path /\ ctx.spec \in Path
          /\ f = (RootPath \o x) \o <<"f">>
      BY <1>1, <1>4, Places, ScopeIs DEF World, File, Located
    <2>2. Below((RootPath \o x) \o <<"f">>, ctx.spec)
      BY <1>4, <2>1, BelowJoined DEF Located
    <2> QED BY <1>4, <1>5, <2>1, <2>2 DEF Located
  <1> DEFINE none == [NoDiff EXCEPT !.asked = TRUE, !.of = c.file,
                                    !.done = first = "done" /\ then = "done"]
             last == [none EXCEPT !.shown = IF inHere /\ untracked = new /\ then = "done"
                                            THEN file ELSE Nowhere]
  <1>11. /\ none.asked /\ none.of = f /\ none.shown = Nowhere
         /\ none.done = (first = "done" /\ then = "done")
         /\ DOMAIN none = {"asked", "done", "reason", "of", "shown"}
    <2> DEFINE done == first = "done" /\ then = "done"
               n == [NoDiff EXCEPT !.asked = TRUE, !.of = f, !.done = done]
    <2>1. none = n
      BY <1>5
    <2>2. /\ n.asked /\ n.of = f /\ n.shown = Nowhere /\ n.done = done
          /\ DOMAIN n = {"asked", "done", "reason", "of", "shown"}
      <3> HIDE DEF done
      <3> QED BY DEF NoDiff
    <2> HIDE DEF none, n
    <2> QED BY <2>1, <2>2
  <1>12. last.asked /\ last.of = f /\ last.done = (first = "done" /\ then = "done")
         /\ last.shown = IF inHere /\ untracked = new /\ then = "done" THEN file ELSE Nowhere
    <2> HIDE DEF file, inHere, new, none
    <2> QED BY <1>11
  <1>13. first = "done" /\ then = "done" => last.shown = f
    <2>1. first = "done" => new = untracked
      BY <1>8 DEF World
    <2> HIDE DEF last, new, inHere, file
    <2> QED BY <1>7, <1>8, <1>12, <2>1
  <1>14. GitDiff(c, scope, first, then) \in
           {[none EXCEPT !.reason = "DIFF_TOO_LARGE"], [none EXCEPT !.reason = "DIFF_UNAVAILABLE"],
            [none EXCEPT !.reason = "GIT_UNAVAILABLE"], last}
         /\ (then = "done" => GitDiff(c, scope, first, then) = last)
    <2> HIDE DEF none, last
    <2> QED BY <1>1, <1>9, <1>10 DEF GitDiff, none, last
  <1>15. last.shown \in {Nowhere, f}
    <2> HIDE DEF last, inHere, new
    <2> QED BY <1>7, <1>12
  <1>16. CASE GitDiff(c, scope, first, then) = last
    <2> HIDE DEF last
    <2> QED BY <1>12, <1>13, <1>15, <1>16
  <1>17. CASE GitDiff(c, scope, first, then) # last
    <2>1. /\ GitDiff(c, scope, first, then).asked
          /\ GitDiff(c, scope, first, then).shown = Nowhere
          /\ ~ GitDiff(c, scope, first, then).done
      <3>1. then # "done" /\ \E why : GitDiff(c, scope, first, then) = [none EXCEPT !.reason = why]
        <4> HIDE DEF last, none
        <4> QED BY <1>14, <1>17
      <3>2. PICK why : GitDiff(c, scope, first, then) = [none EXCEPT !.reason = why]
        BY <3>1
      <3> HIDE DEF none
      <3> QED BY <1>11, <3>1, <3>2
    <2> QED BY <2>1
  <1> QED BY <1>16, <1>17


-----------------------------------------------------------------------------
(* The scan.                                                                *)

Upto(d, n) == SubSeq(d, 1, n)

\* A directory that the scan reads, unless it is cut short.
ToRead(d) ==
    /\ d \in Dirs /\ Len(d) < MaxDepth
    /\ \A i \in 1..Len(d) : d[i] \notin Ignored /\ RootPath \o Upto(d, i) \notin repos

\* What ScanFindsRepositories asks for.
Wanted ==
    {d \in Dirs : /\ Len(d) \in 1..MaxDepth
                  /\ RootPath \o d \in repos
                  /\ \A i \in 1..Len(d) : d[i] \notin Ignored
                  /\ \A i \in 1..(Len(d) - 1) : RootPath \o SubSeq(d, 1, i) \notin repos}

ScanInv ==
    /\ scan \in [queue : Seq(Dirs), count : Nat, found : SUBSET Dirs, truncated : BOOLEAN]
    /\ \A k \in 1..Len(scan.queue) : ToRead(scan.queue[k])
    /\ scan.found \ {<<>>} \subseteq Wanted
    /\ \/ scan = NoScan
       \/ scan.truncated
       \/ \A d \in Wanted :
            \/ d \in scan.found
            \/ \E i \in 0..(Len(d) - 1), k \in 1..Len(scan.queue) : scan.queue[k] = Upto(d, i)

LEMMA UptoIs ==
  ASSUME NEW d \in Path, NEW n \in 0..Len(d)
  PROVE  /\ Upto(d, n) \in Path /\ Len(Upto(d, n)) = n
         /\ \A i \in 1..n : Upto(d, n)[i] = d[i]
         /\ n = Len(d) => Upto(d, n) = d
         /\ \A i \in 0..n : Upto(Upto(d, n), i) = Upto(d, i)
         /\ n > 0 => /\ Front(Upto(d, n)) = Upto(d, n - 1) /\ Last(Upto(d, n)) = d[n]
                     /\ Upto(d, n) # <<>>
  <1> DEFINE u == Upto(d, n)
  <1>0. Len(d) \in Nat /\ n \in Nat /\ n <= Len(d)
    BY LenProperties DEF Path
  <1>1. u \in Path /\ Len(u) = n /\ \A i \in 1..n : u[i] = d[i]
    BY <1>0 DEF Path, Upto
  <1>2. n = Len(d) => u = d
    BY SubSeqFull DEF Path, Upto
  <1> HIDE DEF u
  <1>3. ASSUME NEW i \in 0..n PROVE Upto(u, i) = Upto(d, i)
    <2>1. i \in Nat /\ i <= Len(d) /\ i <= Len(u)
      BY <1>0, <1>1
    <2>2. Upto(d, i) \in Path /\ Len(Upto(d, i)) = i /\ \A j \in 1..i : Upto(d, i)[j] = d[j]
      BY <1>0, <2>1 DEF Path, Upto
    <2>3. Upto(u, i) \in Path /\ Len(Upto(u, i)) = i /\ \A j \in 1..i : Upto(u, i)[j] = u[j]
      BY <1>0, <1>1, <2>1 DEF Path, Upto
    <2>4. \A j \in 1..i : Upto(u, i)[j] = Upto(d, i)[j]
      <3> SUFFICES ASSUME NEW j \in 1..i PROVE Upto(u, i)[j] = Upto(d, i)[j]
        OBVIOUS
      <3>1. j \in 1..n
        BY <1>0, <2>1
      <3>2. Upto(u, i)[j] = u[j] /\ Upto(d, i)[j] = d[j] /\ u[j] = d[j]
        BY <1>1, <2>2, <2>3, <3>1
      <3> QED BY <3>2
    <2> DEFINE a == Upto(u, i)
               b == Upto(d, i)
    <2>5. a \in Path /\ b \in Path /\ Len(a) = Len(b) /\ \A j \in 1..Len(a) : a[j] = b[j]
      BY <2>2, <2>3, <2>4
    <2> HIDE DEF a, b
    <2>6. a = b
      BY <2>5, SeqEqual DEF Path
    <2> QED BY <2>6 DEF a, b
  <1>4. ASSUME n > 0 PROVE Front(u) = Upto(d, n - 1) /\ Last(u) = d[n] /\ u # <<>>
    <2>1. n - 1 \in 0..n
      BY <1>0, <1>4
    <2>2. Front(u) = Upto(u, n - 1)
      BY <1>1 DEF Front, Upto
    <2>3. Last(u) = d[n]
      BY <1>0, <1>1, <1>4 DEF Last
    <2>4. u # <<>>
      BY <1>1, <1>4, EmptySeq
    <2> QED BY <1>3, <2>1, <2>2, <2>3, <2>4
  <1> QED BY <1>1, <1>2, <1>3, <1>4 DEF u

LEMMA DirIs ==
  ASSUME NEW d \in Dirs
  PROVE  d \in Path /\ Len(d) \in Nat /\ \A i \in 0..Len(d) : Upto(d, i) \in Dirs
  <1>1. d \in Path
    BY Places
  <1> QED BY <1>1, LenProperties, DirsAssumption DEF Path, Upto

\* The directories below one that is read.
LEMMA ChildIs ==
  ASSUME NEW d, ToRead(d), NEW c \in Children(d)
  PROVE  /\ c \in Dirs /\ Len(c) = Len(d) + 1 /\ c # <<>>
         /\ \A i \in 1..Len(c) : c[i] \notin Ignored
         /\ \A i \in 1..Len(d) : RootPath \o Upto(c, i) \notin repos
         /\ Upto(c, Len(c)) = c
  <1>1. c \in Dirs /\ c # <<>> /\ Front(c) = d /\ Last(c) \notin Ignored /\ d \in Dirs
    BY DEF Children, ToRead
  <1>2. c \in Path /\ Len(c) \in Nat /\ d \in Path /\ Len(d) \in Nat
    BY <1>1, DirIs
  <1>3. Len(c) > 0
    BY <1>1, <1>2, EmptySeq DEF Path
  <1>4. Upto(c, Len(c)) = c /\ d = Upto(c, Len(c) - 1) /\ Last(c) = c[Len(c)]
    BY <1>1, <1>2, <1>3, UptoIs
  <1> DEFINE n == Len(c) - 1
  <1>5. n \in 0..Len(c) /\ n \in Nat /\ Len(c) = n + 1
    BY <1>2, <1>3
  <1> HIDE DEF n
  <1>6. d = Upto(c, n)
    BY <1>4, <1>5 DEF n
  <1>7. Len(d) = n /\ (\A i \in 1..n : d[i] = c[i]) /\ \A i \in 0..n : Upto(d, i) = Upto(c, i)
    BY <1>2, <1>5, <1>6, UptoIs
  <1>8. ASSUME NEW i \in 1..Len(c) PROVE c[i] \notin Ignored
    <2>1. CASE i = Len(c)
      BY <1>1, <1>4, <2>1
    <2>2. CASE i # Len(c)
      <3>1. i \in 1..n
        BY <1>5, <2>2
      <3> QED BY <1>7, <3>1 DEF ToRead
    <2> QED BY <2>1, <2>2
  <1>9. ASSUME NEW i \in 1..Len(d) PROVE RootPath \o Upto(c, i) \notin repos
    <2>1. i \in 0..n /\ Upto(d, i) = Upto(c, i)
      BY <1>7
    <2> QED BY <2>1 DEF ToRead
  <1> QED BY <1>1, <1>4, <1>5, <1>7, <1>8, <1>9

\* The way to a wanted repository, from one directory to the next.
LEMMA NextOnTheWay ==
  ASSUME MaxDepth \in Nat, NEW d \in Wanted, NEW i \in 0..(Len(d) - 1)
  PROVE  /\ i + 1 = Len(d) => d \in Nested(Upto(d, i))
         /\ i + 1 < Len(d) => /\ i + 1 \in 0..(Len(d) - 1)
                              /\ Upto(d, i + 1) \in Deeper(Upto(d, i))
  <1>1. /\ d \in Dirs /\ Len(d) \in 1..MaxDepth /\ RootPath \o d \in repos
        /\ \A j \in 1..Len(d) : d[j] \notin Ignored
        /\ \A j \in 1..(Len(d) - 1) : RootPath \o Upto(d, j) \notin repos
    BY DEF Wanted, Upto
  <1>2. d \in Path /\ Len(d) \in Nat /\ \A j \in 0..Len(d) : Upto(d, j) \in Dirs
    BY <1>1, DirIs
  <1>3. i \in 0..Len(d) /\ i + 1 \in 0..Len(d) /\ i + 1 > 0 /\ (i + 1) - 1 = i /\ i + 1 \in 1..Len(d)
    BY <1>2
  <1> DEFINE c == Upto(d, i + 1)
             p == Upto(d, i)
  <1>4. c \in Dirs /\ c # <<>> /\ Front(c) = p /\ Last(c) = d[i + 1] /\ Len(p) = i
        /\ (i + 1 = Len(d) => c = d)
    BY <1>2, <1>3, UptoIs
  <1>5. c \in Children(p)
    BY <1>1, <1>3, <1>4 DEF Children
  <1>6. i + 1 = Len(d) => d \in Nested(p)
    BY <1>1, <1>4, <1>5 DEF Nested
  <1>7. ASSUME i + 1 < Len(d) PROVE i + 1 \in 0..(Len(d) - 1) /\ c \in Deeper(p)
    <2>1. i + 1 \in 1..(Len(d) - 1) /\ i + 1 \in 0..(Len(d) - 1) /\ i + 1 < MaxDepth
      BY <1>1, <1>2, <1>3, <1>7
    <2>2. RootPath \o c \notin repos
      BY <1>1, <2>1
    <2>3. Len(p) + 1 < MaxDepth
      BY <1>4, <2>1
    <2> QED BY <1>5, <2>1, <2>2, <2>3 DEF Deeper, Nested
  <1> QED BY <1>6, <1>7

\* A row of the members of a finite set that repeats none has them all.
LEMMA AllInRow ==
  ASSUME NEW D, IsFiniteSet(D), NEW row \in [1..Cardinality(D) -> D], IsInjective(row), NEW x \in D
  PROVE  \E k \in 1..Cardinality(D) : row[k] = x
  <1> SUFFICES ASSUME \A k \in 1..Cardinality(D) : row[k] # x PROVE FALSE
    OBVIOUS
  <1>1. Cardinality(D) \in Nat
    BY FS_CardinalityType
  <1>2. IsFiniteSet(1..Cardinality(D)) /\ Cardinality(1..Cardinality(D)) = Cardinality(D)
    BY <1>1, FS_Interval
  <1>3. IsFiniteSet(D \ {x}) /\ Cardinality(D \ {x}) = Cardinality(D) - 1
    BY FS_RemoveElement
  <1>4. row \in [1..Cardinality(D) -> D \ {x}]
    OBVIOUS
  <1>5. Cardinality(D \ {x}) < Cardinality(1..Cardinality(D))
    BY <1>1, <1>2, <1>3
  <1>6. \E a, b \in 1..Cardinality(D) : a # b /\ row[a] = row[b]
    <2> DEFINE S == 1..Cardinality(D)
               T == D \ {x}
    <2>1. /\ IsFiniteSet(S) /\ IsFiniteSet(T) /\ Cardinality(T) < Cardinality(S)
          /\ row \in [S -> T]
      BY <1>2, <1>3, <1>4, <1>5
    <2> HIDE DEF S, T
    <2>2. \E a, b \in S : a # b /\ row[a] = row[b]
      BY <2>1, FS_PigeonHole
    <2> QED BY <2>2 DEF S
  <1> QED BY <1>6 DEF IsInjective


\* One directory is read, or the scan is cut short.
LEMMA ScanKeeps ==
  ASSUME World, ScanInv, ScanDirectory
  PROVE  ScanInv'
  <1> DEFINE q == scan.queue
             d0 == Head(q)
  <1>0. /\ q \in Seq(Dirs) /\ q # <<>> /\ scan.count \in Nat /\ scan.found \in SUBSET Dirs
        /\ scan.truncated \in BOOLEAN /\ UNCHANGED world
        /\ scan \in [queue : Seq(Dirs), count : Nat, found : SUBSET Dirs, truncated : BOOLEAN]
        /\ \A k \in 1..Len(q) : ToRead(q[k])
        /\ scan.found \ {<<>>} \subseteq Wanted
    BY DEF ScanInv, ScanDirectory
  <1>1. UNCHANGED repos
    BY <1>0 DEF world
  <1>2. Wanted' = Wanted /\ \A d : ToRead(d)' = ToRead(d)
    BY <1>1 DEF Wanted, ToRead
  <1>3. CASE scan.count >= MaxDirs
    <2>1. scan' = [scan EXCEPT !.queue = <<>>, !.truncated = TRUE]
      BY <1>3 DEF ScanDirectory
    <2>2. /\ scan' \in [queue : Seq(Dirs), count : Nat, found : SUBSET Dirs, truncated : BOOLEAN]
          /\ scan'.queue = <<>> /\ scan'.truncated /\ scan'.found = scan.found
      <3>1. <<>> \in Seq(Dirs)
        BY EmptySeq
      <3> HIDE DEF q
      <3> QED BY <1>0, <2>1, <3>1
    <2> QED BY <1>0, <1>2, <2>2 DEF ScanInv
  <1>4. CASE ~ (scan.count >= MaxDirs)
    <2>1. PICK more \in [1..Cardinality(Deeper(d0)) -> Deeper(d0)] :
             /\ IsInjective(more)
             /\ scan' = [scan EXCEPT !.queue = Tail(@) \o more, !.count = @ + 1,
                                     !.found = @ \cup Nested(d0)]
      BY <1>4 DEF ScanDirectory
    <2>2. /\ Len(q) \in Nat /\ Len(q) > 0 /\ d0 = q[1] /\ d0 \in Dirs /\ Tail(q) \in Seq(Dirs)
          /\ Len(Tail(q)) = Len(q) - 1 /\ \A k \in 1..(Len(q) - 1) : Tail(q)[k] = q[k + 1]
      <3> HIDE DEF q
      <3> QED BY <1>0, HeadTailProperties, EmptySeq, LenProperties
    <2>3. ToRead(d0)
      BY <1>0, <2>2
    <2>4. Deeper(d0) \subseteq Dirs /\ IsFiniteSet(Deeper(d0))
      <3>1. Deeper(d0) \subseteq Dirs
        BY DEF Deeper, Children
      <3> QED BY <3>1, FS_Subset, DirsAssumption
    <2> DEFINE D == Deeper(d0)
               n == Cardinality(D)
               t == Tail(q)
               new == t \o more
    <2>5. n \in Nat /\ more \in Seq(D) /\ more \in Seq(Dirs) /\ Len(more) = n
      <3>1. n \in Nat
        BY <2>4, FS_CardinalityType
      <3>2. more \in [1..n -> D]
        OBVIOUS
      <3>3. more \in Seq(D) /\ Len(more) = n
        <4> HIDE DEF n, D
        <4> QED BY <3>1, <3>2
      <3>4. more \in Seq(Dirs)
        <4> HIDE DEF n
        <4> QED BY <2>4, <3>3, SeqMonotonic
      <3> QED BY <3>1, <3>3, <3>4
    <2>6. /\ new \in Seq(Dirs) /\ Len(new) = Len(t) + n
          /\ \A k \in 1..(Len(t) + n) : new[k] = IF k <= Len(t) THEN t[k] ELSE more[k - Len(t)]
      <3> HIDE DEF n, t, D
      <3>1. t \in Seq(Dirs)
        BY <2>2 DEF t
      <3> QED BY <2>5, <3>1, ConcatProperties
    <2>7. Nested(d0) \subseteq Dirs
      BY DEF Nested, Children
    <2>8. /\ scan' \in [queue : Seq(Dirs), count : Nat, found : SUBSET Dirs, truncated : BOOLEAN]
          /\ scan'.queue = new /\ scan'.found = scan.found \cup Nested(d0)
          /\ scan'.truncated = scan.truncated /\ scan'.count = scan.count + 1
      <3> DEFINE N == Nested(d0)
      <3>1. scan' = [scan EXCEPT !.queue = new, !.count = @ + 1, !.found = @ \cup N]
        BY <2>1
      <3>2. N \subseteq Dirs
        BY <2>7
      <3> HIDE DEF new, N
      <3>3. new \in Seq(Dirs)
        BY <2>6
      <3>4. /\ scan'.queue = new /\ scan'.found = scan.found \cup N
            /\ scan'.truncated = scan.truncated /\ scan'.count = scan.count + 1
        BY <1>0, <3>1
      <3>5. scan' \in [queue : Seq(Dirs), count : Nat, found : SUBSET Dirs, truncated : BOOLEAN]
        <4>1. scan.count + 1 \in Nat /\ scan.found \cup N \in SUBSET Dirs
          BY <1>0, <3>2
        <4>2. scan' = [queue |-> new, count |-> scan.count + 1, found |-> scan.found \cup N,
                       truncated |-> scan.truncated]
          BY <1>0, <3>1
        <4> HIDE DEF q, d0, D, n, t
        <4>3. scan.truncated \in BOOLEAN
          BY <1>0
        <4> QED BY <3>3, <4>1, <4>2, <4>3
      <3> QED BY <3>4, <3>5 DEF N
    <2> HIDE DEF new
    <2>9. ASSUME NEW c \in D PROVE ToRead(c)
      <3>1. c \in Children(d0) /\ RootPath \o c \notin repos /\ Len(d0) + 1 < MaxDepth
        BY <2>9 DEF Deeper, Nested
      <3>2. /\ c \in Dirs /\ Len(c) = Len(d0) + 1
            /\ \A i \in 1..Len(c) : c[i] \notin Ignored
            /\ \A i \in 1..Len(d0) : RootPath \o Upto(c, i) \notin repos
            /\ Upto(c, Len(c)) = c
        BY <2>3, <3>1, ChildIs
      <3>3. Len(d0) \in Nat
        BY <2>2, DirIs
      <3>4. \A i \in 1..Len(c) : i \in 1..Len(d0) \/ i = Len(c)
        BY <3>2, <3>3
      <3>5. \A i \in 1..Len(c) : RootPath \o Upto(c, i) \notin repos
        BY <3>1, <3>2, <3>4
      <3> QED BY <3>1, <3>2, <3>5 DEF ToRead
    <2>10. ASSUME NEW c \in Nested(d0) PROVE c \in Wanted
      <3>1. c \in Children(d0) /\ RootPath \o c \in repos
        BY <2>10 DEF Nested
      <3>2. /\ c \in Dirs /\ Len(c) = Len(d0) + 1
            /\ \A i \in 1..Len(c) : c[i] \notin Ignored
            /\ \A i \in 1..Len(d0) : RootPath \o Upto(c, i) \notin repos
        BY <2>3, <3>1, ChildIs
      <3>3. Len(d0) \in Nat /\ Len(d0) < MaxDepth /\ MaxDepth \in Nat
        BY <2>2, <2>3, DirIs, LimitsAssumption DEF ToRead
      <3>4. Len(c) \in 1..MaxDepth /\ Len(c) - 1 = Len(d0)
        BY <3>2, <3>3
      <3> QED BY <3>1, <3>2, <3>4 DEF Wanted, Upto
    <2>11. \A k \in 1..Len(new) : ToRead(new[k])
      <3> SUFFICES ASSUME NEW k \in 1..Len(new) PROVE ToRead(new[k])
        OBVIOUS
      <3>0. Len(t) \in Nat /\ n \in Nat /\ k \in 1..(Len(t) + n) /\ Len(t) = Len(q) - 1
        BY <2>2, <2>5, <2>6
      <3>1. CASE k <= Len(t)
        <4>1. k \in 1..(Len(q) - 1) /\ k + 1 \in 1..Len(q)
          BY <2>2, <3>0, <3>1
        <4>2. new[k] = q[k + 1]
          BY <2>2, <2>6, <3>0, <3>1, <4>1
        <4> QED BY <1>0, <4>1, <4>2
      <3>2. CASE ~ (k <= Len(t))
        <4>1. k - Len(t) \in 1..n
          BY <3>0, <3>2
        <4>2. new[k] = more[k - Len(t)] /\ more[k - Len(t)] \in D
          BY <2>5, <2>6, <3>0, <3>2, <4>1
        <4> QED BY <2>9, <4>2
      <3> QED BY <3>1, <3>2
    <2>12. ASSUME NEW d \in Wanted, NEW i \in 0..(Len(d) - 1), NEW k \in 1..Len(q), q[k] = Upto(d, i)
           PROVE  \/ d \in scan'.found
                  \/ \E j \in 0..(Len(d) - 1), m \in 1..Len(new) : new[m] = Upto(d, j)
      <3>1. CASE k = 1
        <4>0. d0 = Upto(d, i) /\ d \in Dirs /\ Len(d) \in Nat /\ MaxDepth \in Nat
          BY <2>2, <2>12, <3>1, DirIs, LimitsAssumption DEF Wanted
        <4>1. CASE i + 1 = Len(d)
          <5>1. d \in Nested(d0)
            BY <4>0, <4>1, NextOnTheWay
          <5> QED BY <2>8, <5>1
        <4>2. CASE i + 1 # Len(d)
          <5>0. i + 1 < Len(d)
            BY <4>0, <4>2
          <5>1. i + 1 \in 0..(Len(d) - 1) /\ Upto(d, i + 1) \in D
            BY <4>0, <5>0, NextOnTheWay
          <5>2. PICK m \in 1..n : more[m] = Upto(d, i + 1)
            BY <2>1, <2>4, <5>1, AllInRow
          <5>3. /\ Len(t) + m \in 1..(Len(t) + n) /\ ~ (Len(t) + m <= Len(t))
                /\ (Len(t) + m) - Len(t) = m
            BY <2>2, <2>5
          <5> DEFINE l == Len(t) + m
          <5>4. l \in 1..Len(new) /\ new[l] = Upto(d, i + 1)
            <6>1. l \in 1..(Len(t) + n) /\ ~ (l <= Len(t)) /\ l - Len(t) = m
              BY <5>3
            <6> HIDE DEF l
            <6>2. new[l] = more[l - Len(t)]
              BY <2>6, <6>1
            <6> QED BY <2>6, <5>2, <6>1, <6>2
          <5> HIDE DEF l
          <5> QED BY <5>1, <5>4
        <4> QED BY <4>1, <4>2
      <3>2. CASE k # 1
        <4> DEFINE m == k - 1
        <4>1. m \in 1..(Len(q) - 1) /\ m + 1 = k
          BY <2>2, <3>2
        <4> HIDE DEF m
        <4>2. t[m] = q[k] /\ m <= Len(t) /\ m \in 1..(Len(t) + n)
          BY <2>2, <2>5, <4>1
        <4>3. new[m] = Upto(d, i) /\ m \in 1..Len(new)
          BY <2>6, <2>12, <4>2
        <4> QED BY <4>3
      <3> QED BY <3>1, <3>2
    <2>13. \/ scan.truncated
           \/ \A d \in Wanted :
                \/ d \in scan.found
                \/ \E i \in 0..(Len(d) - 1), k \in 1..Len(q) : q[k] = Upto(d, i)
      <3>1. scan # NoScan
        BY <1>0 DEF NoScan, ScanStart
      <3> QED BY <3>1 DEF ScanInv
    <2>14. \/ scan'.truncated
           \/ \A d \in Wanted :
                \/ d \in scan'.found
                \/ \E i \in 0..(Len(d) - 1), k \in 1..Len(new) : new[k] = Upto(d, i)
      <3>1. CASE scan.truncated
        BY <2>8, <3>1
      <3>2. ASSUME NEW d \in Wanted, d \in scan.found PROVE d \in scan'.found
        BY <2>8, <3>2
      <3> QED BY <2>12, <2>13, <3>1, <3>2
    <2>15. scan'.found \ {<<>>} \subseteq Wanted
      BY <1>0, <2>8, <2>10
    <2>16. \A k \in 1..Len(scan'.queue) : ToRead(scan'.queue[k])
      BY <2>8, <2>11
    <2> QED BY <1>2, <2>8, <2>14, <2>15, <2>16 DEF ScanInv, Upto
  <1> QED BY <1>3, <1>4


-----------------------------------------------------------------------------
(* What the services answer.                                                *)

StatusInv ==
    gitStatus = NoStatus
      \/ \E scope \in Dirs, outcome \in Outcomes : gitStatus = GitStatus(scope, outcome)

DiffInv ==
    diff = NoDiff
      \/ \E c \in gitStatus.changes, scope \in Dirs, first, then \in Outcomes :
           gitStatus.scope = scope /\ diff = GitDiff(c, scope, first, then)

GitInv == World /\ ScanInv /\ StatusInv /\ DiffInv

\* The repositories and changes stay as they are.
LEMMA SameAnswers ==
  ASSUME UNCHANGED world, NEW scope, NEW outcome, NEW c, NEW first, NEW then
  PROVE  /\ GitStatus(scope, outcome)' = GitStatus(scope, outcome)
         /\ GitDiff(c, scope, first, then)' = GitDiff(c, scope, first, then)
  <1>0. UNCHANGED <<repos, changed, untracked>>
    BY DEF world
  <1>1. \A p : TopOf(p)' = TopOf(p)
    BY <1>0 DEF TopOf
  <1>2. \A cwd, spec : Dirty(cwd, spec)' = Dirty(cwd, spec)
    BY <1>0, <1>1 DEF Dirty
  <1>3. ScopeContext(scope)' = ScopeContext(scope)
    BY <1>1 DEF ScopeContext
  <1>4. \A ctx, f : ListedChange(ctx, f)' = ListedChange(ctx, f)
    BY <1>1 DEF ListedChange
  <1>5. GitStatus(scope, outcome)' = GitStatus(scope, outcome)
    BY <1>1, <1>2, <1>3, <1>4 DEF GitStatus
  <1>6. GitDiff(c, scope, first, then)' = GitDiff(c, scope, first, then)
    BY <1>0, <1>2, <1>3 DEF GitDiff
  <1> QED BY <1>5, <1>6

LEMMA GitStarts == GitInit => GitInv
  <1> SUFFICES ASSUME GitInit PROVE GitInv
    OBVIOUS
  <1>1. World
    BY DEF GitInit, World
  <1>2. scan \in [queue : Seq(Dirs), count : Nat, found : SUBSET Dirs, truncated : BOOLEAN]
        /\ scan.queue = <<>> /\ scan.found = {} /\ scan = NoScan
    <2>1. <<>> \in Seq(Dirs)
      BY EmptySeq
    <2> QED BY <2>1 DEF GitInit, NoScan, ScanStart
  <1>3. ScanInv
    BY <1>2 DEF ScanInv
  <1> QED BY <1>1, <1>3 DEF GitInit, GitInv, StatusInv, DiffInv

LEMMA ScanStarts ==
  ASSUME World, ListScopes
  PROVE  ScanInv'
  <1> DEFINE some == IF TopOf(RootPath) # Nowhere THEN {<<>>} ELSE {}
  <1>1. scan' = [ScanStart EXCEPT !.found = some] /\ some \subseteq {<<>>}
    BY DEF ListScopes
  <1>2. <<>> \in Dirs /\ <<<<>>>> \in Seq(Dirs) /\ Len(<<<<>>>>) = 1 /\ <<<<>>>>[1] = <<>>
    BY DirsAssumption
  <1>3. scan' = [queue |-> <<<<>>>>, count |-> 0, found |-> some, truncated |-> FALSE]
    <2> HIDE DEF some
    <2> QED BY <1>1 DEF ScanStart
  <1>4. /\ scan' \in [queue : Seq(Dirs), count : Nat, found : SUBSET Dirs, truncated : BOOLEAN]
        /\ scan'.queue = <<<<>>>> /\ scan'.found = some
    <2>1. some \in SUBSET Dirs
      BY <1>1, <1>2
    <2> HIDE DEF some
    <2> QED BY <1>2, <1>3, <2>1
  <1>5. ToRead(<<>>)'
    BY <1>2, LimitsAssumption DEF ToRead
  <1>6. \A k \in 1..Len(scan'.queue) : k = 1 /\ scan'.queue[k] = <<>>
    BY <1>2, <1>4
  <1>7. ASSUME NEW d \in Wanted'
        PROVE  \E i \in 0..(Len(d) - 1), k \in 1..Len(scan'.queue) : scan'.queue[k] = Upto(d, i)
    <2>1. d \in Dirs /\ Len(d) \in 1..MaxDepth
      BY <1>7 DEF Wanted
    <2>2. 0 \in 0..(Len(d) - 1) /\ Upto(d, 0) = <<>>
      BY <2>1, LimitsAssumption, SubSeqEmpty DEF Upto
    <2>3. 1 \in 1..Len(scan'.queue) /\ scan'.queue[1] = <<>>
      BY <1>2, <1>4
    <2> QED BY <2>2, <2>3
  <1> QED BY <1>1, <1>4, <1>5, <1>6, <1>7 DEF ScanInv

LEMMA GitKeeps ==
  ASSUME GitInv, [GitNext]_repoVars
  PROVE  GitInv'
  <1>0. UNCHANGED world
    BY DEF GitNext, repoVars, ListScopes, ScanDirectory, ReadStatus, AskDiff
  <1>1. World'
    BY <1>0 DEF GitInv, World, world
  <1>2. UNCHANGED scan => ScanInv'
    <2>1. Wanted' = Wanted /\ \A d : ToRead(d)' = ToRead(d)
      BY <1>0 DEF world, Wanted, ToRead
    <2> QED BY <2>1 DEF GitInv, ScanInv
  <1>3. ScanInv'
    BY <1>2, ScanStarts, ScanKeeps DEF GitInv, GitNext, repoVars, ReadStatus, AskDiff
  <1>4. UNCHANGED gitStatus => StatusInv'
    <2> SUFFICES ASSUME UNCHANGED gitStatus, NEW scope \in Dirs, NEW outcome \in Outcomes,
                        gitStatus = GitStatus(scope, outcome)
                 PROVE  gitStatus' = GitStatus(scope, outcome)'
      BY DEF GitInv, StatusInv
    <2> QED BY <1>0, SameAnswers
  <1>5. UNCHANGED <<gitStatus, diff>> => DiffInv'
    <2> SUFFICES ASSUME UNCHANGED <<gitStatus, diff>>, NEW c \in gitStatus.changes,
                        NEW scope \in Dirs, NEW first \in Outcomes, NEW then \in Outcomes,
                        gitStatus.scope = scope, diff = GitDiff(c, scope, first, then)
                 PROVE  DiffInv'
      BY DEF GitInv, DiffInv
    <2>1. diff' = GitDiff(c, scope, first, then)'
      BY <1>0, SameAnswers
    <2>2. gitStatus'.scope = scope /\ c \in gitStatus'.changes
      OBVIOUS
    <2> QED BY <2>1, <2>2 DEF DiffInv
  <1>6. CASE ReadStatus
    <2>1. PICK scope \in Dirs, outcome \in Outcomes : gitStatus' = GitStatus(scope, outcome)
      BY <1>6 DEF ReadStatus
    <2>2. gitStatus' = GitStatus(scope, outcome)'
      BY <1>0, <2>1, SameAnswers
    <2>3. StatusInv'
      BY <2>2 DEF StatusInv
    <2>4. gitStatus = NoStatus
      BY <1>6, StatusIs DEF GitInv, StatusInv, ReadStatus
    <2>5. diff = NoDiff /\ diff' = diff
      BY <1>6, <2>4 DEF GitInv, DiffInv, NoStatus, ReadStatus
    <2> QED BY <1>1, <1>3, <2>3, <2>5 DEF GitInv, DiffInv
  <1>7. CASE AskDiff
    <2>1. PICK c \in gitStatus.changes, first \in Outcomes, then \in Outcomes :
             diff' = GitDiff(c, gitStatus.scope, first, then)
      BY <1>7 DEF AskDiff
    <2>2. PICK scope \in Dirs : scope = gitStatus.scope
      <3>1. gitStatus # NoStatus
        BY <2>1 DEF NoStatus
      <3>2. PICK s \in Dirs, outcome \in Outcomes : gitStatus = GitStatus(s, outcome)
        BY <3>1 DEF GitInv, StatusInv
      <3> QED BY <3>2, StatusIs
    <2>3. diff' = GitDiff(c, scope, first, then)' /\ gitStatus' = gitStatus
      BY <1>0, <1>7, <2>1, <2>2, SameAnswers DEF AskDiff
    <2>4. DiffInv'
      BY <2>2, <2>3 DEF DiffInv
    <2> QED BY <1>1, <1>3, <1>4, <2>3, <2>4 DEF GitInv
  <1>8. CASE ~ ReadStatus /\ ~ AskDiff
    <2>1. UNCHANGED <<gitStatus, diff>>
      BY <1>8 DEF GitNext, repoVars, ListScopes, ScanDirectory
    <2> QED BY <1>1, <1>3, <1>4, <1>5, <2>1 DEF GitInv
  <1> QED BY <1>6, <1>7, <1>8

\* What is known of the scan, the status and the diff, for any tree of
\* directories, any repositories in it or around it, and any limits.
THEOREM GitInvariant == GitSpec => []GitInv
  BY GitStarts, GitKeeps, PTL DEF GitSpec

\* The diff of a listed change is of that file (git-service.ts getGitStatus,
\* getGitDiff), for every scope and every outcome of the commands.
THEOREM DiffsAreOfListedFiles == GitSpec => []DiffIsOfListedFile
  <1>1. GitInv => DiffIsOfListedFile
    <2> SUFFICES ASSUME GitInv, ~ Enclosed
                 PROVE  diff.shown \in {Nowhere, diff.of} /\ (diff.done => diff.shown = diff.of)
      BY DEF DiffIsOfListedFile
    <2>1. CASE diff = NoDiff
      BY <2>1 DEF NoDiff
    <2>2. ASSUME NEW c \in gitStatus.changes, NEW scope \in Dirs,
                 NEW first \in Outcomes, NEW then \in Outcomes,
                 gitStatus.scope = scope, diff = GitDiff(c, scope, first, then)
          PROVE  diff.shown \in {Nowhere, diff.of} /\ (diff.done => diff.shown = diff.of)
      <3>1. gitStatus # NoStatus
        BY <2>2 DEF NoStatus
      <3>2. PICK s \in Dirs, outcome \in Outcomes : gitStatus = GitStatus(s, outcome)
        BY <3>1 DEF GitInv, StatusInv
      <3>3. s = scope /\ c \in GitStatus(scope, outcome).changes
        BY <2>2, <3>2, StatusIs
      <3> QED BY <2>2, <3>3, DiffIs DEF GitInv
    <2> QED BY <2>1, <2>2 DEF GitInv, DiffInv
  <1> QED BY <1>1, GitInvariant, PTL

\* A scope of the scan's list shows the changes of its repository and no
\* other's (git-service.ts listGitScopes, resolveScopeContext).
THEOREM ScopesShowTheirRepository == GitSpec => []ListedScopesShowTheirRepository
  <1>1. GitInv => ListedScopesShowTheirRepository
    <2> SUFFICES ASSUME GitInv, gitStatus.available, ~ gitStatus.large,
                        gitStatus.scope \in scan.found, ~ Enclosed
                 PROVE  {c.file : c \in gitStatus.changes}
                          = {File(d) : d \in {x \in changed :
                                                TopOf(RootPath \o x) = RootPath \o gitStatus.scope}}
      BY DEF ListedScopesShowTheirRepository
    <2>1. gitStatus # NoStatus
      BY DEF NoStatus
    <2>2. PICK scope \in Dirs, outcome \in Outcomes : gitStatus = GitStatus(scope, outcome)
      BY <2>1 DEF GitInv, StatusInv
    <2> DEFINE ctx == ScopeContext(scope)
    <2>3. /\ gitStatus.scope = scope /\ ctx.mode # "none" /\ TopOf(ctx.cwd) # Nowhere
          /\ gitStatus.changes = {ListedChange(ctx, f) : f \in Dirty(ctx.cwd, ctx.spec)}
      BY <2>2, StatusIs
    <2>4. /\ ctx.repoRoot \in Dirs /\ ctx.cwd = RootPath \o ctx.repoRoot
          /\ ctx.spec = RootPath \o scope /\ TopOf(ctx.cwd) = ctx.cwd
          /\ ctx.mode = "nested" => ctx.repoRoot = scope
          /\ ctx.mode # "nested" => ctx.repoRoot = <<>>
      BY <2>3, ScopeIs DEF GitInv
    <2>5. ctx.repoRoot = scope
      <3>1. CASE scope = <<>>
        BY <2>4, <3>1
      <3>2. CASE scope # <<>>
        <4>1. scope \in Wanted
          BY <2>3, <3>2 DEF GitInv, ScanInv
        <4>2. RootPath \o scope \in repos /\ RootPath \o scope \in Path
          BY <4>1, Places DEF Wanted
        <4>3. TopOf(RootPath \o scope) = RootPath \o scope
          BY <4>2, TopLevel DEF GitInv
        <4>4. ctx.mode = "nested"
          BY <3>2, <4>2, <4>3, Places DEF ScopeContext
        <4> QED BY <2>4, <4>4
      <3> QED BY <3>1, <3>2
    <2>6. Dirty(ctx.cwd, ctx.spec)
            = {File(d) : d \in {x \in changed : TopOf(RootPath \o x) = RootPath \o scope}}
      <3>1. ctx.cwd = RootPath \o scope /\ ctx.spec = RootPath \o scope
            /\ TopOf(RootPath \o scope) = RootPath \o scope
        BY <2>4, <2>5
      <3>2. ASSUME NEW x \in changed, TopOf(RootPath \o x) = RootPath \o scope
            PROVE  Below(RootPath \o x, RootPath \o scope)
        <4>1. RootPath \o x \in Path /\ RootPath \o scope # Nowhere
          BY Places DEF GitInv, World
        <4> QED BY <3>2, <4>1, TopLevel DEF GitInv
      <3> QED BY <3>1, <3>2 DEF Dirty
    <2>7. {c.file : c \in gitStatus.changes} = Dirty(ctx.cwd, ctx.spec)
      <3>1. \A f : ListedChange(ctx, f).file = f
        BY DEF ListedChange
      <3> HIDE DEF ctx
      <3> QED BY <2>3, <3>1
    <2> QED BY <2>3, <2>6, <2>7
  <1> QED BY <1>1, GitInvariant, PTL

\* A scan that is not cut short has found each repository that it should
\* (git-service.ts listGitScopes), in whatever order directories are read.
THEOREM ScansFindRepositories == GitSpec => []ScanFindsRepositories
  <1>1. GitInv => ScanFindsRepositories
    <2> SUFFICES ASSUME GitInv, scan.count > 0, scan.queue = <<>>, ~ scan.truncated
                 PROVE  scan.found \ {<<>>} = Wanted
      BY DEF ScanFindsRepositories, Wanted
    <2>1. scan # NoScan
      BY DEF NoScan, ScanStart
    <2>2. Len(scan.queue) = 0
      BY EmptySeq
    <2>3. Wanted \subseteq scan.found
      BY <2>1, <2>2 DEF GitInv, ScanInv
    <2>4. \A d \in Wanted : d # <<>>
      <3> SUFFICES ASSUME NEW d \in Wanted PROVE d # <<>>
        OBVIOUS
      <3>1. Len(d) \in 1..MaxDepth /\ Len(<<>>) = 0 /\ MaxDepth \in Nat
        BY EmptySeq, LimitsAssumption DEF Wanted
      <3> QED BY <3>1
    <2> QED BY <2>3, <2>4 DEF GitInv, ScanInv
  <1> QED BY <1>1, GitInvariant, PTL
==============================================================================
