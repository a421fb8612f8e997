------------------------ MODULE QueryPlanning_proofs ------------------------
(***************************************************************************)
(* Proofs about QueryPlanning and the conversation it plans for, for every *)
(* set of clients, deployments, questions and patterns, every window and   *)
(* budget of turns, and every number of turns and passes.                  *)
(***************************************************************************)
EXTENDS QueryPlanning, SequenceTheorems, WellFoundedInduction, TLAPS

-----------------------------------------------------------------------------
(* Positions and sequences *)

(* The smaller of two naturals comes first in an order in which every set  *)
(* of naturals has a first one.                                            *)
LEMMA NatOrder ==
  \E R : IsWellFoundedOn(R, Nat) /\ \A x, y \in Nat : y < x => <<y, x>> \in R
<1> DEFINE Less == OpToRel(<, Nat)
<1>1. IsWellFoundedOn(Less, Nat)
  BY NatLessThanWellFounded
<1>2. \A x, y \in Nat : y < x => <<y, x>> \in Less
  BY DEF OpToRel
<1> HIDE DEF Less
<1>3. QED
  BY <1>1, <1>2

(* Any set of naturals has a least one: this is what the proofs below take *)
(* instead of an induction, the first position where a claim fails.        *)
LEMMA Smallest ==
  ASSUME NEW T \in SUBSET Nat, T # {}
  PROVE  \E m \in T : \A n \in T : m <= n
<1>1. PICK R : IsWellFoundedOn(R, Nat) /\ \A x, y \in Nat : y < x => <<y, x>> \in R
  BY NatOrder
<1>2. PICK m \in T : \A y \in T : <<y, m>> \notin R
  BY <1>1, WFMin
<1>3. ASSUME NEW n \in T
      PROVE  m <= n
  <2>1. ~(n < m)
    BY <1>1, <1>2
  <2>2. QED
    BY <2>1
<1>4. QED
  BY <1>3

(* Of the positions 1 to n, Max gives the last one of a set. *)
LEMMA Greatest ==
  ASSUME NEW n \in Nat, NEW I \in SUBSET (1..n), I # {}
  PROVE  Max(I) \in I /\ \A k \in I : k <= Max(I)
<1> DEFINE T == {n - i : i \in I}
<1>1. T \in SUBSET Nat /\ T # {}
  <2>1. \A i \in I : i \in 1..n /\ n - i \in Nat
    OBVIOUS
  <2>2. PICK i \in I : TRUE
    OBVIOUS
  <2>3. n - i \in T
    OBVIOUS
  <2> QED
    BY <2>1, <2>3
<1>2. PICK m \in T : \A t \in T : m <= t
  BY <1>1, Smallest
<1>3. PICK i \in I : m = n - i
  OBVIOUS
<1>4. \A k \in I : k <= i
  <2> SUFFICES ASSUME NEW k \in I
               PROVE  k <= i
    OBVIOUS
  <2>1. n - i <= n - k
    BY <1>2, <1>3
  <2> QED
    BY <2>1
<1> HIDE DEF T
<1>5. QED
  BY <1>4 DEF Max

(* Min gives a member of the set, as the search of the first route needs. *)
LEMMA Least ==
    ASSUME NEW I \in SUBSET Nat, I # {}
    PROVE  Min(I) \in I
BY Smallest DEF Min

(* Sequences of one and of two elements, as the queries of a route are     *)
(* written.                                                                *)
LEMMA Tuples ==
    ASSUME NEW S, NEW x \in S, NEW y \in S
    PROVE  /\ <<x>> \in Seq(S) /\ <<x>> # <<>> /\ <<x>>[1] = x
           /\ <<x, y>> \in Seq(S) /\ <<x, y>> # <<>> /\ <<x, y>>[1] = x
OBVIOUS

(* What comes first stays first when more is put after it. *)
LEMMA Joined ==
    ASSUME NEW S, NEW s \in Seq(S), s # <<>>, NEW t \in Seq(S)
    PROVE  s \o t \in Seq(S) /\ s \o t # <<>> /\ (s \o t)[1] = s[1]
<1>1. Len(s) \in Nat \ {0} /\ Len(t) \in Nat
  BY EmptySeq, LenProperties
<1>2. /\ s \o t \in Seq(S) /\ Len(s \o t) = Len(s) + Len(t)
      /\ \A i \in 1 .. Len(s) + Len(t) : (s \o t)[i] = IF i <= Len(s) THEN s[i] ELSE t[i - Len(s)]
  BY ConcatProperties
<1>3. s \o t # <<>>
  BY <1>1, <1>2, EmptySeq
<1> QED
  BY <1>1, <1>2, <1>3

(* Appending keeps the elements and their places, as the history of a      *)
(* conversation and the queries of a plan do.                              *)
LEMMA Appended ==
    ASSUME NEW S, NEW s \in Seq(S), NEW e \in S
    PROVE  /\ Append(s, e) \in Seq(S) /\ Len(Append(s, e)) = Len(s) + 1
           /\ \A i \in 1..Len(s) : Append(s, e)[i] = s[i]
           /\ Append(s, e)[Len(s) + 1] = e
<1>1. \A i \in 1..Len(s) : Append(s, e)[i] = s[i]
  OBVIOUS
<1>2. Append(s, e) \in Seq(S) /\ Len(Append(s, e)) = Len(s) + 1 /\ Append(s, e)[Len(s) + 1] = e
  BY AppendProperties
<1> QED
  BY <1>1, <1>2

-----------------------------------------------------------------------------
(* Routes and scopes *)

(* The phases before a plan is made, and those after it. *)
Unplanned == {"idle", "asked", "resolved", "planning"}
Passes == {"planned", "lookups", "base", "translation", "translated", "evidence", "done", "failed"}

(* Where each task may still be at work: the base searches until they are   *)
(* awaited, the translation until it is awaited after them.                 *)
TasksAwaited ==
    /\ phase \in Unplanned \cup Passes
    /\ phase \notin {"lookups", "base", "translation", "failed"} => translation = "none"
    /\ phase \notin {"lookups", "base", "failed"} => base = "none"

(* What ScopeKept asks of one scope. *)
ScopeSound(scope, wants) ==
    LET limit == IF deployment.mode = "LEGACY" THEN EnabledTypes(deployment.available)
                 ELSE SelectedTypes(deployment.providers)
    IN  /\ deployment.mode # "LEGACY" => scope # {} /\ scope \subseteq limit
        /\ deployment.mode = "LEGACY" /\ deployment.available \notin {{}, Providers} =>
              scope # {} /\ scope \subseteq limit
        /\ scope = {} /\ wants # {} /\ deployment.available # {} =>
              wants \cap deployment.types = {}

(* The plan keeps its route and its types over the passes, and every search *)
(* is in one of the scopes it leads to.                                     *)
PlanKept ==
    /\ phase \in Unplanned => searched = {}
    /\ phase \in {"planning"} \cup Passes => deployment \in Deployments
    /\ phase \in Passes =>
          /\ DOMAIN plan = DOMAIN NoPlan
          /\ AttachmentSearch => plan.types = {"ISSUE", "ATTACHMENT"}
          /\ ~AttachmentSearch => ScopeSound(plan.types, plan.wants)
          /\ allowed = IF plan.types = {} THEN deployment.types ELSE plan.types
          /\ \A pair \in searched : pair[2] \in Scopes

PlanInv == TasksAwaited /\ PlanKept

(* A route that is left with no types wanted none, or none of the project's.*)
LEMMA RouteTypes ==
    ASSUME NEW p
    PROVE  Route(p).types = {} /\ Route(p).wants # {} =>
               Route(p).wants \cap deployment.types = {}
<1> DEFINE I == {i \in 1..Len(Routes(p)) : Routes(p)[i].taken}
<1>1. Len(Routes(p)) = 11 /\ Routes(p)[11].taken
  BY DEF Routes, Direct, ByIntent, By
<1>2. I \in SUBSET (1..11) /\ 11 \in I
  BY <1>1
<1>3. RouteNumber(p) = Min(I)
  BY <1>2 DEF RouteNumber, SelectInSeq
<1>4. RouteNumber(p) \in 1..11
  <2> HIDE DEF I
  <2>1. I \in SUBSET Nat /\ I # {}
    BY <1>2
  <2>2. Min(I) \in I
    BY <2>1, Least
  <2> QED
    BY <1>2, <1>3, <2>2
<1>5. ASSUME NEW taken
      PROVE  ByIntent(taken, p).types = {} /\ ByIntent(taken, p).wants # {} =>
                 ByIntent(taken, p).wants \cap deployment.types = {}
  BY DEF ByIntent, By, Narrowed
<1>6. ASSUME NEW i \in 1..11
      PROVE  Routes(p)[i].types = {} /\ Routes(p)[i].wants # {} =>
                 Routes(p)[i].wants \cap deployment.types = {}
  <2>1. CASE i = 1
    <3>1. Routes(p)[1] = ByIntent(followup = "subtopic", p)
      BY DEF Routes, ContextualRoute
    <3> QED
      BY <2>1, <3>1, <1>5
  <2>2. CASE i \in 2..6
    BY <2>2, SMTT(30) DEF Routes, CodeInventory, SingleRecord, StructuredEntity, EntityAttribute,
                StructuredInventory, By
  <2>3. CASE i \in 7..10
    BY <2>3, SMTT(30) DEF Routes, ImplementationFlow, FeatureInventory, EntityOverview, ProjectOverview, By
  <2>4. CASE i = 11
    <3>1. Routes(p)[11] = ByIntent(TRUE, p)
      BY DEF Routes, Direct
    <3> QED
      BY <2>4, <3>1, <1>5
  <2> QED
    BY <2>1, <2>2, <2>3, <2>4
<1> QED
  BY <1>4, <1>6 DEF Route

(* A provider that is selected or enabled has types to search.              *)
LEMMA ProvidersHaveTypes ==
    ASSUME NEW providers \in SUBSET Providers, providers # {}
    PROVE  SelectedTypes(providers) # {} /\ EnabledTypes(providers) # {}
<1>1. PICK q \in providers : q \in {"JIRA", "GITHUB", "CONFLUENCE"}
  BY DEF Providers
<1>2. CASE q = "JIRA"
  BY <1>1, <1>2 DEF SelectedTypes, EnabledTypes
<1>3. CASE q = "GITHUB"
  BY <1>1, <1>3 DEF SelectedTypes, EnabledTypes
<1>4. CASE q = "CONFLUENCE"
  BY <1>1, <1>4 DEF SelectedTypes, EnabledTypes
<1> QED
  BY <1>1, <1>2, <1>3, <1>4

(* Narrowing to a limit that is not empty never leads outside of it.        *)
LEMMA WithinFacts ==
    ASSUME NEW types, NEW limit, limit # {}
    PROVE  Within(types, limit) # {} /\ Within(types, limit) \subseteq limit
BY DEF Within

(* The scope of a plan is sound, unless it is that of the attachments.      *)
LEMMA PlannedScopeSound ==
    ASSUME NEW p, deployment \in Deployments
    PROVE  ScopeSound(WithinProviders(Route(p).types), Route(p).wants)
<1> DEFINE types == Route(p).types
<1> DEFINE scope == WithinProviders(types)
<1>1. /\ deployment \in Deployment
      /\ deployment.providers \in SUBSET Providers /\ deployment.available \in SUBSET Providers
      /\ deployment.mode # "LEGACY" => deployment.providers # {}
      /\ deployment.providers \subseteq deployment.available
  BY DeploymentsAssumption DEF Deployment
<1>2. CASE deployment.mode # "LEGACY"
  <2>1. SelectedTypes(deployment.providers) # {}
    BY <1>1, <1>2, ProvidersHaveTypes
  <2>2. scope = Within(types, SelectedTypes(deployment.providers))
    BY <1>2 DEF WithinProviders
  <2> QED
    BY <1>2, <2>1, <2>2, WithinFacts DEF ScopeSound
<1>3. CASE deployment.mode = "LEGACY" /\ deployment.available # Providers
  <2>1. deployment.available # {} => EnabledTypes(deployment.available) # {}
    BY <1>1, ProvidersHaveTypes
  <2>2. scope = Within(types, EnabledTypes(deployment.available))
    BY <1>3 DEF WithinProviders
  <2> QED
    BY <1>3, <2>1, <2>2, WithinFacts DEF ScopeSound
<1>4. CASE deployment.mode = "LEGACY" /\ deployment.available = Providers
  <2>1. scope = types
    BY <1>4 DEF WithinProviders
  <2> QED
    BY <1>4, <2>1, RouteTypes DEF ScopeSound
<1> QED
  BY <1>2, <1>3, <1>4

-----------------------------------------------------------------------------
(* The steps of a plan *)

(* Before a question is asked, nothing is planned or searched.              *)
LEMMA InitPlanInv == Init => PlanInv
BY DEF Init, ConversationInit, PlanInv, TasksAwaited, PlanKept, Unplanned, Passes

(* What a step leaves alone leaves the sound scopes and the searches of the *)
(* plan as they are.                                                        *)
PlanSame ==
    /\ deployment' = deployment /\ DOMAIN plan' = DOMAIN plan
    /\ plan'.intent = plan.intent /\ plan'.wants = plan.wants
    /\ plan'.types = plan.types /\ plan'.attachments = plan.attachments

LEMMA KeptByPlanSame ==
    ASSUME PlanSame
    PROVE  /\ AttachmentSearch' = AttachmentSearch /\ Scopes' = Scopes
           /\ ScopeSound(plan.types, plan.wants) => ScopeSound(plan.types, plan.wants)'
<1>1. AttachmentSearch' = AttachmentSearch
  BY DEF PlanSame, AttachmentSearch
<1>2. SearchScope' = SearchScope
  BY DEF PlanSame, SearchScope
<1>3. Scopes' = Scopes
  BY <1>2 DEF PlanSame, Scopes
<1>4. ScopeSound(plan.types, plan.wants) => ScopeSound(plan.types, plan.wants)'
  BY DEF PlanSame, ScopeSound, EnabledTypes, SelectedTypes
<1> QED
  BY <1>1, <1>3, <1>4

(* The scope that is searched is the scope that is planned.                 *)
LEMMA SearchedAsPlanned ==
    ASSUME PlanKept, phase \in Passes
    PROVE  SearchScope = plan.types
BY DEF PlanKept, SearchScope, AttachmentSearch

(* A step of the passes that keeps the plan's scope, and searches in it,    *)
(* keeps PlanKept.                                                          *)
LEMMA PassKeepsPlan ==
    ASSUME PlanKept, phase \in Passes, phase' \in Passes, PlanSame, allowed' = allowed,
           \A pair \in searched' : pair \in searched \/ pair[2] \in Scopes
    PROVE  PlanKept'
<1>1. phase' \notin Unplanned
  BY DEF Passes, Unplanned
<1>2. deployment' \in Deployments
  BY DEF PlanKept, PlanSame
<1>3. DOMAIN plan' = DOMAIN NoPlan'
  BY DEF PlanKept, PlanSame, NoPlan
<1>4. AttachmentSearch' => plan'.types = {"ISSUE", "ATTACHMENT"}
  BY KeptByPlanSame DEF PlanKept, PlanSame
<1>5. ~AttachmentSearch' => ScopeSound(plan.types, plan.wants)'
  BY KeptByPlanSame DEF PlanKept
<1>6. allowed' = IF plan'.types = {} THEN deployment'.types ELSE plan'.types
  BY DEF PlanKept, PlanSame
<1>7. \A pair \in searched' : pair[2] \in Scopes'
  BY KeptByPlanSame DEF PlanKept
<1> QED
  BY <1>1, <1>2, <1>3, <1>4, <1>5, <1>6, <1>7 DEF PlanKept

(* Planning begins the passes with nothing searched and a sound scope.      *)
LEMMA PlanningKeepsPlan ==
    ASSUME PlanKept, PlanQueries
    PROVE  PlanKept'
<1>1. PICK p \in PatternSets : \E q \in QueriesOf(p) :
          plan' = [intent |-> Route(p).intent, wants |-> Route(p).wants,
                   types |-> PlannedScope(Route(p).intent, p, Route(p).types),
                   queries |-> q.queries, slot |-> q.slot,
                   attachments |-> "attachments" \in p, section |-> "section" \in p]
  BY DEF PlanQueries
<1>2. deployment \in Deployments /\ deployment' = deployment /\ searched' = {}
  BY DEF PlanQueries, PlanKept, Unplanned
<1>3. phase' = "planned" /\ allowed' = IF plan'.types = {} THEN deployment.types ELSE plan'.types
  BY DEF PlanQueries
<1>4. AttachmentSearch' <=> plan'.intent = "DELIVERY" /\ "attachments" \in p
  <2> DEFINE named == "attachments" \in p
  <2>1. \E q \in QueriesOf(p) :
           plan' = [intent |-> Route(p).intent, wants |-> Route(p).wants,
                    types |-> PlannedScope(Route(p).intent, p, Route(p).types),
                    queries |-> q.queries, slot |-> q.slot,
                    attachments |-> named, section |-> "section" \in p]
    BY <1>1, Zenon
  <2>2. plan'.attachments = named
    <3> HIDE DEF named
    <3> QED
      BY <2>1
  <2> QED
    BY <2>2, Zenon DEF AttachmentSearch
<1>5. plan'.types = IF AttachmentSearch' THEN {"ISSUE", "ATTACHMENT"}
                    ELSE WithinProviders(Route(p).types)
  BY <1>1, <1>4 DEF PlannedScope, AttachmentScope
<1>6. ~AttachmentSearch' => ScopeSound(plan'.types, plan'.wants)
  BY <1>1, <1>2, <1>5, PlannedScopeSound
<1>7. ~AttachmentSearch' => ScopeSound(plan.types, plan.wants)'
  BY <1>2, <1>6 DEF ScopeSound, EnabledTypes, SelectedTypes
<1>8. DOMAIN plan' = DOMAIN NoPlan'
  BY <1>1 DEF NoPlan
<1>9. /\ AttachmentSearch' => plan'.types = {"ISSUE", "ATTACHMENT"}
      /\ allowed' = IF plan'.types = {} THEN deployment'.types ELSE plan'.types
      /\ \A pair \in searched' : pair[2] \in Scopes'
      /\ phase' \notin Unplanned /\ deployment' \in Deployments
  BY <1>2, <1>3, <1>5 DEF Unplanned
<1> QED
  BY <1>7, <1>8, <1>9 DEF PlanKept

(* Whatever the passes do, the plan is kept.                                *)
LEMMA SearchKeepsPlan ==
    ASSUME PlanInv, Search
    PROVE  PlanKept'
<1> USE DEF PlanInv
<1>1. phase \in Passes \/ BaseEnds \/ TranslationEnds
  BY DEF Search, LoadSection, StartSearches, LookUp, AwaitBase, DropTranslation,
         SearchTranslated, TranslatedFound, PassEnds, RecoverQuery, Fail, Cancel, Passes
<1>2. phase \in Passes
  BY <1>1 DEF TasksAwaited, BaseEnds, TranslationEnds, Unplanned, Passes
<1>3. DOMAIN plan = {"intent", "wants", "types", "queries", "slot", "attachments", "section"}
  BY <1>2 DEF PlanKept, NoPlan
<1>4. SearchScope = plan.types
  BY <1>2, SearchedAsPlanned
<1>5. PlanSame /\ allowed' = allowed
  <2>1. CASE LoadSection
    BY <2>1, <1>3, <1>4 DEF LoadSection, PlanSame
  <2>2. CASE StartSearches \/ BaseEnds \/ TranslationEnds \/ LookUp \/ AwaitBase
    BY <2>2 DEF StartSearches, BaseEnds, TranslationEnds, LookUp, AwaitBase, PlanSame
  <2>3. CASE DropTranslation
    BY <2>3, <1>3, <1>4 DEF DropTranslation, PlanSame
  <2>4. CASE SearchTranslated
    BY <2>4, <1>3, <1>4 DEF SearchTranslated, PlanSame
  <2>5. CASE TranslatedFound \/ PassEnds \/ Fail \/ Cancel
    BY <2>5 DEF TranslatedFound, PassEnds, Fail, Cancel, PlanSame, planningVars
  <2>6. CASE RecoverQuery
    BY <2>6, <1>3 DEF RecoverQuery, PlanSame
  <2> QED
    BY <2>1, <2>2, <2>3, <2>4, <2>5, <2>6 DEF Search
<1>6. phase' \in Passes
  BY <1>2 DEF Search, LoadSection, StartSearches, BaseEnds, TranslationEnds, LookUp, AwaitBase,
         DropTranslation, SearchTranslated, TranslatedFound, PassEnds, RecoverQuery, Fail,
         Cancel, Passes
<1>7. \A pair \in searched' : pair \in searched \/ pair[2] \in Scopes
  <2>1. ASSUME NEW queries, SearchFor(queries)
        PROVE  \A pair \in searched' : pair \in searched \/ pair[2] \in Scopes
    BY <2>1 DEF SearchFor
  <2>2. CASE StartSearches \/ SearchTranslated
    BY <2>1, <2>2 DEF StartSearches, SearchTranslated
  <2>3. CASE ~(StartSearches \/ SearchTranslated)
    BY <2>3 DEF Search, LoadSection, BaseEnds, TranslationEnds, LookUp, AwaitBase,
           DropTranslation, TranslatedFound, PassEnds, RecoverQuery, Fail, Cancel, planningVars
  <2> QED
    BY <2>2, <2>3
<1> QED
  BY <1>2, <1>5, <1>6, <1>7, PassKeepsPlan

(* While a conversation goes on, or its last turn is followed, nothing is   *)
(* planned.                                                                 *)
LEMMA ConversationKeepsInv ==
    ASSUME PlanInv, (Converse /\ UNCHANGED planningVars) \/ Follow
    PROVE  PlanInv'
<1> USE DEF PlanInv, Unplanned, Passes
<1>1. phase \in {"idle", "asked", "resolved"} /\ phase' \in Unplanned
  BY DEF Converse, Ask, Clarify, ResolveConversation, Answered, Refused, Follow
<1>2. /\ searched' = searched /\ base' = base /\ translation' = translation
      /\ phase' = "planning" => deployment' \in Deployments
  BY DEF Converse, Ask, Clarify, ResolveConversation, Answered, Refused, Follow, planningVars
<1>3. TasksAwaited'
  BY <1>1, <1>2 DEF TasksAwaited
<1>4. PlanKept'
  BY <1>1, <1>2 DEF PlanKept
<1> QED
  BY <1>3, <1>4

(* No step of the passes leaves a task behind, but Fail and Cancel.         *)
LEMMA TasksStep ==
    ASSUME PlanInv, PlanQueries \/ Search
    PROVE  TasksAwaited'
<1> USE DEF PlanInv, TasksAwaited, Unplanned, Passes
<1>1. CASE PlanQueries
  BY <1>1 DEF PlanQueries
<1>2. CASE LoadSection \/ StartSearches \/ BaseEnds \/ TranslationEnds \/ LookUp
  BY <1>2 DEF LoadSection, StartSearches, BaseEnds, TranslationEnds, LookUp
<1>3. CASE AwaitBase \/ DropTranslation \/ SearchTranslated
  BY <1>3 DEF AwaitBase, DropTranslation, SearchTranslated
<1>4. CASE TranslatedFound \/ PassEnds \/ RecoverQuery
  BY <1>4 DEF TranslatedFound, PassEnds, RecoverQuery, planningVars
<1>5. CASE Fail \/ Cancel
  BY <1>5 DEF Fail, Cancel
<1> QED
  BY <1>1, <1>2, <1>3, <1>4, <1>5 DEF Search

(* Every step of the model keeps the tasks and the plan.                    *)
LEMMA NextPlanInv == PlanInv /\ [Next]_vars => PlanInv'
<1> SUFFICES ASSUME PlanInv, [Next]_vars PROVE PlanInv'
  OBVIOUS
<1>1. CASE (Converse /\ UNCHANGED planningVars) \/ Follow
  BY <1>1, ConversationKeepsInv
<1>2. CASE PlanQueries
  BY <1>2, TasksStep, PlanningKeepsPlan DEF PlanInv
<1>3. CASE Search
  BY <1>3, TasksStep, SearchKeepsPlan DEF PlanInv
<1>4. CASE Ended \/ UNCHANGED vars
  <2>1. UNCHANGED vars
    BY <1>4 DEF Ended
  <2>2. TasksAwaited'
    BY <2>1 DEF vars, planningVars, PlanInv, TasksAwaited
  <2>3. PlanSame /\ allowed' = allowed /\ searched' = searched /\ phase' = phase
    BY <2>1 DEF vars, planningVars, PlanSame
  <2>4. PlanKept'
    <3>1. CASE phase \in Passes
      <4>1. phase' \in Passes /\ \A pair \in searched' : pair \in searched
        BY <2>3, <3>1
      <4> QED
        BY <2>3, <3>1, <4>1, PassKeepsPlan DEF PlanInv
    <3>2. CASE phase \in Unplanned
      <4>1. phase' \notin Passes /\ searched' = {}
        BY <2>3, <3>2 DEF PlanInv, PlanKept, Unplanned, Passes
      <4>2. phase' = "planning" => deployment' \in Deployments
        BY <2>3, <3>2 DEF PlanInv, PlanKept, PlanSame
      <4> QED
        BY <4>1, <4>2 DEF PlanKept
    <3> QED
      BY <3>1, <3>2 DEF PlanInv, TasksAwaited
  <2> QED
    BY <2>2, <2>4 DEF PlanInv
<1> QED
  BY <1>1, <1>2, <1>3, <1>4 DEF Next

-----------------------------------------------------------------------------
(* The conversation *)

(* What _deterministic_subject reads of one kind of turn: the latest       *)
(* named.                                                                  *)
LatestIn(subjects) ==
    LET i == SelectLastInSeq(subjects, LAMBDA s : s # NoTopic)
    IN  IF i = 0 THEN NoTopic ELSE subjects[i]

(* The latest of a sequence is in it, unless all are unnamed; and it is    *)
(* the last one, when that one is named.                                   *)
LEMMA LatestFacts ==
  ASSUME NEW S, NEW subjects \in Seq(S)
  PROVE  /\ LatestIn(subjects) # NoTopic =>
               \E i \in 1..Len(subjects) : LatestIn(subjects) = subjects[i]
         /\ subjects # <<>> /\ subjects[Len(subjects)] # NoTopic =>
               LatestIn(subjects) = subjects[Len(subjects)]
<1> DEFINE I == {i \in 1..Len(subjects) : subjects[i] # NoTopic}
<1>1. Len(subjects) \in Nat /\ I \in SUBSET (1..Len(subjects))
  BY LenProperties
<1>2. LatestIn(subjects) = LET j == IF I # {} THEN Max(I) ELSE 0
                           IN  IF j = 0 THEN NoTopic ELSE subjects[j]
  BY DEF LatestIn, SelectLastInSeq
<1>3. CASE I = {}
  <2>1. LatestIn(subjects) = NoTopic
    BY <1>2, <1>3
  <2>2. subjects # <<>> => Len(subjects) \in 1..Len(subjects)
    BY EmptySeq, LenProperties
  <2> QED
    BY <1>3, <2>1, <2>2
<1>4. CASE I # {}
  <2>1. Max(I) \in I /\ \A k \in I : k <= Max(I)
    <3> HIDE DEF I
    <3> QED
      BY <1>1, <1>4, Greatest
  <2>2. LatestIn(subjects) = subjects[Max(I)] /\ Max(I) \in 1..Len(subjects)
    BY <1>2, <1>4, <2>1
  <2>3. subjects # <<>> /\ subjects[Len(subjects)] # NoTopic => Len(subjects) \in I
    BY <1>1, EmptySeq
  <2>4. subjects # <<>> /\ subjects[Len(subjects)] # NoTopic => Max(I) = Len(subjects)
    BY <2>1, <2>2, <2>3
  <2> QED
    BY <2>2, <2>4
<1> QED
  BY <1>3, <1>4

(* _deterministic_subject: what the user was about, else what was          *)
(* answered.                                                               *)
LEMMA LatestRead ==
  ASSUME NEW history
  PROVE  LET users == LatestIn([i \in DOMAIN history |-> history[i].subject])
             answers == LatestIn([i \in DOMAIN history |-> history[i].about])
         IN  DeterministicSubject(history) = IF users # NoTopic THEN users ELSE answers
BY DEF DeterministicSubject, LatestIn

(* What a turn of the conversation keeps. *)
Named == Topics \cup {NoTopic}
(* What a turn of the conversation keeps. *)
Turn == [topic : Named, subject : Named, carried : Named, about : Topics, mentions : SUBSET Topics]

(* The turns are turns of some topic: a turn is about what was resolved    *)
(* for it or about nothing, and its answer mentions what it was about.     *)
TurnsTyped ==
    /\ turns \in Seq(Turn)
    /\ \A i \in 1..Len(turns) : /\ turns[i].subject \in {NoTopic, turns[i].topic}
                                /\ turns[i].about \in turns[i].mentions

(* Something was said about the topic in some turn of the conversation. *)
Said(topic) == \E i \in 1..Len(turns) : topic \in turns[i].mentions \cup {turns[i].topic}

(* The active subject the client sends back is a topic that was said; it   *)
(* is the topic of the last turn, or what that one carried over, unless    *)
(* the last turn was resolved without either.                              *)
Remembered ==
    /\ active \in Named
    /\ active # NoTopic => Said(active)
    /\ turns # <<>> =>
          LET last == turns[Len(turns)]
          IN  /\ "context" \in client =>
                    \/ active \in {NoTopic, last.topic, last.carried}
                    \/ last.subject = NoTopic /\ last.carried = NoTopic
              /\ "context" \in client /\ active = NoTopic => last.carried = NoTopic

(* The inductive invariant of the conversation. A turn asked or resolved   *)
(* keeps its question, and its resolution is one the code makes of the     *)
(* conversation as it is, so the properties of a resolved turn follow.     *)
ConversationInv ==
    phase \in {"idle", "asked", "resolved"} =>
        /\ TurnsTyped /\ Remembered
        /\ phase \in {"asked", "resolved"} => asked \in Questions
        /\ phase = "resolved" => resolved \in Resolutions(asked)

(* The last n turns of a history are turns of it, and end as it ends. *)
LEMMA LastTurnsFacts ==
  ASSUME NEW S, NEW history \in Seq(S), NEW n \in Nat \ {0}
  PROVE  LET short == LastTurns(history, n)
         IN  /\ short \in Seq(S)
             /\ \A i \in 1..Len(short) : \E j \in 1..Len(history) : short[i] = history[j]
             /\ history # <<>> => short # <<>> /\ short[Len(short)] = history[Len(history)]
<1> DEFINE first == IF Len(history) > n THEN Len(history) - n + 1 ELSE 1
<1> DEFINE short == SubSeq(history, first, Len(history))
<1>1. Len(history) \in Nat /\ first \in 1 .. Len(history) + 1
      /\ (history # <<>> => Len(history) > 0 /\ first <= Len(history))
  BY EmptySeq, LenProperties
<1>2. \A i \in first..Len(history) : history[i] \in S
  BY <1>1, ElementOfSeq
<1>3. LastTurns(history, n) = short
  BY DEF LastTurns
<1> HIDE DEF first
<1>4. /\ short \in Seq(S)
      /\ Len(short) = IF first <= Len(history) THEN Len(history) - first + 1 ELSE 0
      /\ \A i \in 1 .. Len(history) - first + 1 : short[i] = history[first + i - 1]
  BY <1>1, <1>2, SubSeqProperties
<1> HIDE DEF short
<1>5. \A i \in 1..Len(short) : \E j \in 1..Len(history) : short[i] = history[j]
  <2> SUFFICES ASSUME NEW i \in 1..Len(short)
               PROVE  \E j \in 1..Len(history) : short[i] = history[j]
    OBVIOUS
  <2>1. first + i - 1 \in 1..Len(history) /\ i \in 1 .. Len(history) - first + 1
    BY <1>1, <1>4
  <2> QED
    BY <1>4, <2>1
<1>6. history # <<>> => short # <<>> /\ short[Len(short)] = history[Len(history)]
  <2> SUFFICES ASSUME history # <<>>
               PROVE  short # <<>> /\ short[Len(short)] = history[Len(history)]
    OBVIOUS
  <2>1. Len(short) = Len(history) - first + 1 /\ Len(short) \in 1 .. Len(history) - first + 1
    BY <1>1, <1>4
  <2>2. short[Len(short)] = history[first + Len(short) - 1] /\ first + Len(short) - 1 = Len(history)
    BY <1>1, <1>4, <2>1
  <2>3. short # <<>>
    BY <1>1, <2>1, EmptySeq
  <2> QED
    BY <2>2, <2>3
<1> QED
  BY <1>3, <1>4, <1>5, <1>6

(* What a request carries and the budget leaves is of the conversation,    *)
(* and ends in its last turn: the bounds only ever forget the oldest.      *)
LEMMA HistoryFacts ==
  ASSUME TurnsTyped
  PROVE  LET h == BoundedHistory
         IN  /\ h \in Seq(Turn) /\ HistorySent \in Seq(Turn)
             /\ \A i \in 1..Len(h) : \E j \in 1..Len(turns) : h[i] = turns[j]
             /\ h # <<>> => turns # <<>> /\ h[Len(h)] = turns[Len(turns)]
<1>1. BudgetTurns \in Nat \ {0} /\ WindowTurns \in Nat \ {0}
  BY WindowAssumption
<1>2. turns \in Seq(Turn)
  BY DEF TurnsTyped
<1>3. CASE "history" \in client
  <2> DEFINE sent == LastTurns(turns, WindowTurns)
  <2> DEFINE h == LastTurns(sent, BudgetTurns)
  <2>1. /\ sent \in Seq(Turn)
        /\ \A i \in 1..Len(sent) : \E j \in 1..Len(turns) : sent[i] = turns[j]
        /\ turns # <<>> => sent # <<>> /\ sent[Len(sent)] = turns[Len(turns)]
    BY <1>1, <1>2, LastTurnsFacts
  <2>2. turns = <<>> => sent = <<>>
    <3> SUFFICES ASSUME turns = <<>>
                 PROVE  sent = <<>>
      OBVIOUS
    <3>1. \A i \in 1..Len(sent) : FALSE
      BY <2>1, EmptySeq
    <3>2. sent # <<>> => Len(sent) \in Nat \ {0}
      BY <2>1, EmptySeq
    <3> HIDE DEF sent
    <3> QED
      BY <3>1, <3>2
  <2> HIDE DEF sent
  <2>3. /\ h \in Seq(Turn)
        /\ \A i \in 1..Len(h) : \E j \in 1..Len(sent) : h[i] = sent[j]
        /\ sent # <<>> => h # <<>> /\ h[Len(h)] = sent[Len(sent)]
    BY <1>1, <2>1, LastTurnsFacts
  <2>4. sent = <<>> => h = <<>>
    <3> SUFFICES ASSUME sent = <<>>
                 PROVE  h = <<>>
      OBVIOUS
    <3>1. \A i \in 1..Len(h) : FALSE
      BY <2>3, EmptySeq
    <3>2. h # <<>> => Len(h) \in Nat \ {0}
      BY <2>3, EmptySeq
    <3> HIDE DEF h
    <3> QED
      BY <3>1, <3>2
  <2>5. BoundedHistory = h /\ HistorySent = sent
    BY <1>3 DEF BoundedHistory, HistorySent, sent
  <2> HIDE DEF h
  <2>6. \A i \in 1..Len(h) : \E j \in 1..Len(turns) : h[i] = turns[j]
    BY <2>1, <2>3
  <2> QED
    BY <2>1, <2>2, <2>3, <2>4, <2>5, <2>6
<1>4. CASE "history" \notin client
  <2>1. HistorySent = <<>>
    BY <1>4 DEF HistorySent
  <2>2. HistorySent \in Seq(Turn) /\ Len(HistorySent) = 0
    BY <2>1, EmptySeq
  <2>3. /\ BoundedHistory \in Seq(Turn)
        /\ \A i \in 1..Len(BoundedHistory) : \E j \in 1..Len(HistorySent) :
              BoundedHistory[i] = HistorySent[j]
    <3> DEFINE sent == HistorySent
    <3>1. sent \in Seq(Turn)
      BY <2>2
    <3> HIDE DEF sent
    <3> DEFINE h == LastTurns(sent, BudgetTurns)
    <3>2. /\ h \in Seq(Turn)
          /\ \A i \in 1..Len(h) : \E j \in 1..Len(sent) : h[i] = sent[j]
      BY <1>1, <3>1, LastTurnsFacts
    <3>3. h = BoundedHistory
      BY DEF BoundedHistory, sent
    <3> HIDE DEF h
    <3> QED
      BY <3>2, <3>3 DEF sent
  <2>4. BoundedHistory = <<>>
    <3>1. BoundedHistory # <<>> => Len(BoundedHistory) \in Nat \ {0}
      BY <2>3, EmptySeq
    <3>2. \A i \in 1..Len(BoundedHistory) : FALSE
      BY <2>2, <2>3
    <3> QED
      BY <3>1, <3>2
  <2> QED
    BY <2>1, <2>2, <2>4
<1> QED
  BY <1>3, <1>4

(* The subject found in the history is a topic of the conversation, and it *)
(* is the one the last turn was resolved to, when there is one.            *)
LEMMA DeterministicFacts ==
  ASSUME TurnsTyped
  PROVE  LET h == BoundedHistory
             subject == DeterministicSubject(h)
         IN  /\ subject # NoTopic => Said(subject) /\ subject \in Named
             /\ h # <<>> /\ h[Len(h)].subject # NoTopic => subject = h[Len(h)].subject
<1> DEFINE h == BoundedHistory
<1>1. /\ h \in Seq(Turn)
      /\ \A i \in 1..Len(h) : \E j \in 1..Len(turns) : h[i] = turns[j]
  BY HistoryFacts
<1> HIDE DEF h
<1> DEFINE users == [i \in DOMAIN h |-> h[i].subject]
<1> DEFINE answers == [i \in DOMAIN h |-> h[i].about]
<1>2. Len(h) \in Nat /\ DOMAIN h = 1..Len(h) /\ \A i \in 1..Len(h) : h[i] \in Turn
  BY <1>1, LenProperties, ElementOfSeq
<1>3. users \in Seq(Named) /\ answers \in Seq(Topics) /\ Len(users) = Len(h) /\ Len(answers) = Len(h)
  BY <1>2 DEF Turn
<1>4. DeterministicSubject(h) = IF LatestIn(users) # NoTopic THEN LatestIn(users) ELSE LatestIn(answers)
  BY LatestRead
<1>5. \A i \in 1..Len(h) : /\ users[i] # NoTopic => Said(users[i]) /\ users[i] \in Named
                           /\ Said(answers[i]) /\ answers[i] \in Named
  <2> SUFFICES ASSUME NEW i \in 1..Len(h)
               PROVE  /\ users[i] # NoTopic => Said(users[i]) /\ users[i] \in Named
                      /\ Said(answers[i]) /\ answers[i] \in Named
    OBVIOUS
  <2>1. PICK j \in 1..Len(turns) : h[i] = turns[j]
    BY <1>1
  <2>2. h[i] \in Turn /\ users[i] = h[i].subject /\ answers[i] = h[i].about
    BY <1>2
  <2>3. turns[j].subject \in {NoTopic, turns[j].topic} /\ turns[j].about \in turns[j].mentions
    BY <2>1 DEF TurnsTyped
  <2> QED
    BY <2>1, <2>2, <2>3 DEF Said, Turn, Named
<1> HIDE DEF users, answers
<1>6. LatestIn(users) # NoTopic => \E i \in 1..Len(h) : LatestIn(users) = users[i]
  BY <1>3, LatestFacts
<1>7. LatestIn(answers) # NoTopic => \E i \in 1..Len(h) : LatestIn(answers) = answers[i]
  BY <1>3, LatestFacts
<1>8. h # <<>> /\ h[Len(h)].subject # NoTopic => LatestIn(users) = h[Len(h)].subject
  <2> SUFFICES ASSUME h # <<>>, h[Len(h)].subject # NoTopic
               PROVE  LatestIn(users) = h[Len(h)].subject
    OBVIOUS
  <2>1. Len(h) \in 1..Len(h)
    BY <1>1, EmptySeq
  <2>2. users[Len(h)] = h[Len(h)].subject
    BY <1>2, <2>1 DEF users
  <2>3. users # <<>> /\ users[Len(users)] # NoTopic
    BY <1>3, <2>1, <2>2, EmptySeq
  <2> QED
    BY <1>3, <2>2, <2>3, LatestFacts
<1>9. DeterministicSubject(h) # NoTopic => Said(DeterministicSubject(h)) /\ DeterministicSubject(h) \in Named
  BY <1>4, <1>5, <1>6, <1>7
<1>10. h # <<>> /\ h[Len(h)].subject # NoTopic => DeterministicSubject(h) = h[Len(h)].subject
  BY <1>4, <1>8
<1> QED
  BY <1>9, <1>10 DEF h

(* What a follow-up is taken to be about, as FollowsLatestSubject has it. *)
Follows(topic) ==
    /\ turns # <<>>
    /\ LET last == turns[Len(turns)]
       IN  \/ topic \in {last.about, last.topic, last.carried}
           \/ last.subject = NoTopic /\ (last.carried = NoTopic \/ "context" \notin client)

(* The active subject that was sent is one a follow-up may be about. *)
LEMMA SubjectSentFollows ==
  ASSUME TurnsTyped, Remembered, SubjectSent # NoTopic
  PROVE  Said(SubjectSent) /\ SubjectSent \in Named /\ Follows(SubjectSent)
<1>1. "context" \in client /\ SubjectSent = active
  BY DEF SubjectSent
<1>2. Said(active) /\ active \in Named
  BY <1>1 DEF Remembered
<1>3. turns # <<>>
  BY <1>2, EmptySeq DEF Said
<1> QED
  BY <1>1, <1>2, <1>3 DEF Remembered, Follows

(* So is the subject found in the history, when none was sent. *)
LEMMA DeterministicFollows ==
  ASSUME TurnsTyped, Remembered, SubjectSent = NoTopic,
         BoundedHistory # <<>>
  PROVE  Follows(DeterministicSubject(BoundedHistory))
<1> DEFINE h == BoundedHistory
<1> DEFINE last == turns[Len(turns)]
<1>1. turns # <<>> /\ h[Len(h)] = last
  BY HistoryFacts
<1>2. Len(turns) \in 1..Len(turns)
  BY <1>1, EmptySeq DEF TurnsTyped
<1>3. last.subject \in {NoTopic, last.topic}
  BY <1>2 DEF TurnsTyped
<1>4. last.subject # NoTopic => DeterministicSubject(h) = last.topic
  BY <1>1, <1>3, DeterministicFacts
<1>5. "context" \in client => last.carried = NoTopic
  BY <1>1 DEF SubjectSent, Remembered
<1> QED
  BY <1>1, <1>4, <1>5 DEF Follows

(* A rewrite of the model that is taken names only what was asked or said. *)
LEMMA SafeRewriteSaid ==
  ASSUME TurnsTyped, NEW q, q.topic \in Named,
         NEW t \in SafeRewrites(q, BoundedHistory)
  PROVE  t \in Named /\ (t = q.topic \/ Said(t))
<1> DEFINE h == BoundedHistory
<1>1. CASE t = q.topic
  BY <1>1
<1>2. CASE \E i \in DOMAIN h : t \in h[i].mentions \cup {h[i].topic}
  <2>1. PICK i \in DOMAIN h : t \in h[i].mentions \cup {h[i].topic}
    BY <1>2
  <2>2. h \in Seq(Turn) /\ \A k \in 1..Len(h) : \E j \in 1..Len(turns) : h[k] = turns[j]
    BY HistoryFacts
  <2> HIDE DEF h
  <2>3. i \in 1..Len(h) /\ h[i] \in Turn
    BY <2>1, <2>2, LenProperties, ElementOfSeq
  <2>4. PICK j \in 1..Len(turns) : h[i] = turns[j]
    BY <2>2, <2>3
  <2> QED
    BY <2>1, <2>3, <2>4 DEF Said, Turn, Named
<1> QED
  BY <1>1, <1>2 DEF SafeRewrites

(* What every resolution is, of all the ways to make one: what it carries  *)
(* was asked or said, a suffix is about the latest subject, and a question *)
(* that is complete is left as it is.                                      *)
LEMMA ResolutionFacts ==
  ASSUME TurnsTyped, Remembered, NEW q \in Questions, NEW r \in Resolutions(q)
  PROVE  /\ r.how \in {"asked", "standalone", "suffix", "model"} /\ r.carries \in Named
         /\ r.carries # NoTopic => r.carries = q.topic \/ Said(r.carries)
         /\ r.how \in {"asked", "standalone"} => r.carries = NoTopic
         /\ r.how = "suffix" => r.carries # NoTopic /\ Follows(r.carries)
         /\ r.how = "model" => SubjectSent = NoTopic
         /\ q.complete /\ q.form = "plain" => r = Unresolved
<1> DEFINE history == BoundedHistory
<1> DEFINE model(topic) == [how |-> "model", carries |-> topic]
<1> DEFINE standalone == [how |-> "standalone", carries |-> NoTopic]
<1>1. q.topic \in Named
  BY QuestionsAssumption DEF Named
<1>2. q.complete /\ q.form = "plain" => r = Unresolved
  <2> SUFFICES ASSUME q.complete, q.form = "plain"
               PROVE  r = Unresolved
    OBVIOUS
  <2>1. q.topic # NoTopic /\ ~q.points /\ Explicit(q)
    BY QuestionsAssumption DEF Explicit
  <2>2. Decision(q, Known) = "NOT_NEEDED"
    BY <2>1 DEF Decision
  <2>3. ~ContextualSubtopic(q, history)
    BY DEF ContextualSubtopic
  <2> QED
    BY <2>2, <2>3 DEF Resolutions, Needed
<1>3. \/ r = Unresolved \/ r = standalone
      \/ SubjectSent # NoTopic /\ r = Suffix(SubjectSent)
      \/ SubjectSent = NoTopic /\ history # <<>> /\ DeterministicSubject(history) # NoTopic
            /\ r = Suffix(DeterministicSubject(history))
      \/ SubjectSent = NoTopic /\ \E t \in SafeRewrites(q, history) : r = model(t)
  <2>1. r \in ModelRewrites(q, history) =>
           r = Unresolved \/ \E t \in SafeRewrites(q, history) : r = model(t)
    BY DEF ModelRewrites
  <2> HIDE DEF model, history
  <2> QED
    BY <2>1 DEF Resolutions, history
<1>4. CASE r = Unresolved \/ r = standalone
  BY <1>2, <1>4 DEF Unresolved, Named
<1>5. CASE SubjectSent # NoTopic /\ r = Suffix(SubjectSent)
  BY <1>2, <1>5, SubjectSentFollows DEF Suffix
<1>6. CASE SubjectSent = NoTopic /\ history # <<>> /\ DeterministicSubject(history) # NoTopic
              /\ r = Suffix(DeterministicSubject(history))
  <2>1. Said(DeterministicSubject(history)) /\ DeterministicSubject(history) \in Named
    BY <1>6, DeterministicFacts
  <2>2. Follows(DeterministicSubject(history))
    BY <1>6, DeterministicFollows
  <2>3. r.how = "suffix" /\ r.carries = DeterministicSubject(history)
    BY <1>6 DEF Suffix
  <2> QED
    BY <1>2, <1>6, <2>1, <2>2, <2>3
<1>7. CASE SubjectSent = NoTopic /\ \E t \in SafeRewrites(q, history) : r = model(t)
  <2>1. PICK t \in SafeRewrites(q, history) : r = model(t)
    BY <1>7
  <2>2. t \in Named /\ (t = q.topic \/ Said(t))
    BY <1>1, <2>1, SafeRewriteSaid
  <2>3. r.how = "model" /\ r.carries = t
    BY <2>1
  <2> QED
    BY <1>2, <1>7, <2>2, <2>3
<1> QED
  BY <1>3, <1>4, <1>5, <1>6, <1>7

(* The context of a turn is its own subject, or the one before. *)
LEMMA ContextFacts ==
  ASSUME NEW q, NEW r, NEW existing,
         r.how \in {"asked", "standalone", "suffix", "model"},
         r.how \in {"asked", "standalone"} => r.carries = NoTopic
  PROVE  LET context == ContextSubject(q, r, existing)
         IN  \/ context \in {q.topic, r.carries} /\ context # NoTopic
             \/ context = existing /\ ResolvedSubject(q, r) = NoTopic /\ SubjectOf(q) = NoTopic
             \/ context = existing /\ r.how \in {"suffix", "model"} /\ r.carries = NoTopic
BY DEF ContextSubject, ResolvedSubject, Either, SubjectOf

(* A conversation begins with nothing said and no active subject. *)
LEMMA InitConversation == Init => ConversationInv
<1> SUFFICES ASSUME Init PROVE TurnsTyped /\ Remembered /\ phase = "idle"
  BY DEF ConversationInv
<1>1. turns = <<>> /\ active = NoTopic /\ phase = "idle"
  BY DEF Init, ConversationInit
<1>2. turns \in Seq(Turn) /\ Len(turns) = 0
  BY <1>1, EmptySeq
<1> QED
  BY <1>1, <1>2 DEF TurnsTyped, Remembered, Named

(* An answered turn is added, and its subject kept, as the invariant says. *)
LEMMA AnsweredKeeps ==
  ASSUME TurnsTyped, Remembered, asked \in Questions, resolved \in Resolutions(asked), Answered
  PROVE  TurnsTyped' /\ Remembered'
<1> DEFINE r == resolved
<1> DEFINE q == asked
<1>1. PICK about \in AnswerTopics, also \in Topics :
         turns' = Append(turns, [topic |-> q.topic, subject |-> SubjectOf(q), carried |-> r.carries,
                                 about |-> about, mentions |-> {about, also}])
  BY DEF Answered
<1> DEFINE last == [topic |-> q.topic, subject |-> SubjectOf(q), carried |-> r.carries,
                    about |-> about, mentions |-> {about, also}]
<1>2. /\ r.how \in {"asked", "standalone", "suffix", "model"} /\ r.carries \in Named
      /\ r.carries # NoTopic => r.carries = q.topic \/ Said(r.carries)
      /\ r.how \in {"asked", "standalone"} => r.carries = NoTopic
      /\ r.how = "suffix" => r.carries # NoTopic /\ Follows(r.carries)
      /\ r.how = "model" => SubjectSent = NoTopic
  BY ResolutionFacts
<1>3. q.topic \in Named /\ about \in Topics /\ SubjectOf(q) \in {NoTopic, q.topic}
  BY <1>2, QuestionsAssumption DEF Named, AnswerTopics, SubjectOf
<1>4. last \in Turn
  BY <1>2, <1>3 DEF Turn, Named
<1>5. /\ last.topic = q.topic /\ last.subject = SubjectOf(q) /\ last.carried = r.carries
      /\ last.about = about /\ last.mentions = {about, also}
  OBVIOUS
<1> HIDE DEF last, r, q
<1>6. turns \in Seq(Turn) /\ turns' = Append(turns, last)
  BY <1>1 DEF last, TurnsTyped
<1>7. /\ turns' \in Seq(Turn) /\ Len(turns') = Len(turns) + 1 /\ turns' # <<>>
      /\ \A i \in 1..Len(turns) : turns'[i] = turns[i]
      /\ turns'[Len(turns) + 1] = last
  <2>1. Len(turns) \in Nat
    BY <1>6, LenProperties
  <2>2. Append(turns, last) # <<>>
    BY <1>4, <1>6, AppendProperties
  <2> QED
    BY <1>4, <1>6, <2>1, <2>2, AppendProperties
<1>8. Len(turns) \in Nat
  BY <1>6, LenProperties
<1>9. TurnsTyped'
  <2> SUFFICES ASSUME NEW i \in 1..Len(turns')
               PROVE  /\ turns'[i].subject \in {NoTopic, turns'[i].topic}
                      /\ turns'[i].about \in turns'[i].mentions
    BY <1>7 DEF TurnsTyped
  <2>1. CASE i \in 1..Len(turns)
    BY <1>7, <2>1 DEF TurnsTyped
  <2>2. CASE i = Len(turns) + 1
    BY <1>3, <1>5, <1>7, <2>2
  <2> QED
    BY <1>7, <1>8, <2>1, <2>2
<1> DEFINE SaidNow(t) == \E i \in 1..Len(turns') : t \in turns'[i].mentions \cup {turns'[i].topic}
<1>10. ASSUME NEW t, Said(t) \/ t \in {q.topic, about}
       PROVE  SaidNow(t)
  <2>1. CASE Said(t)
    <3>1. PICK i \in 1..Len(turns) : t \in turns[i].mentions \cup {turns[i].topic}
      BY <2>1 DEF Said
    <3>2. i \in 1..Len(turns') /\ turns'[i] = turns[i]
      BY <1>7, <1>8
    <3> QED
      BY <3>1, <3>2 DEF Said
  <2>2. CASE t \in {q.topic, about}
    <3>1. Len(turns) + 1 \in 1..Len(turns')
      BY <1>7, <1>8
    <3> QED
      BY <1>5, <1>7, <2>2, <3>1 DEF Said
  <2> QED
    BY <1>10, <2>1, <2>2
<1>11. /\ active' = ContextSubject(q, r, SubjectSent) /\ client' = client
  BY DEF Answered, r, q
<1>12. \/ active' \in {q.topic, r.carries} /\ active' # NoTopic
       \/ active' = SubjectSent /\ ResolvedSubject(q, r) = NoTopic /\ SubjectOf(q) = NoTopic
       \/ active' = SubjectSent /\ r.how \in {"suffix", "model"} /\ r.carries = NoTopic
  BY <1>2, <1>11, ContextFacts
<1>13. SubjectSent # NoTopic => SubjectSent \in Named /\ Said(SubjectSent)
  BY DEF SubjectSent, Remembered
<1>14. active' \in Named /\ (active' # NoTopic => SaidNow(active'))
  BY <1>2, <1>3, <1>10, <1>12, <1>13 DEF Named
<1>15. turns'[Len(turns')] = last
  BY <1>7
<1>16. \/ active' \in {NoTopic, last.topic, last.carried}
       \/ last.subject = NoTopic /\ last.carried = NoTopic
  <2>1. CASE active' = SubjectSent /\ ResolvedSubject(q, r) = NoTopic /\ SubjectOf(q) = NoTopic
    BY <1>2, <1>5, <2>1 DEF ResolvedSubject
  <2>2. CASE active' = SubjectSent /\ r.how \in {"suffix", "model"} /\ r.carries = NoTopic
    BY <1>2, <2>2
  <2> QED
    BY <1>5, <1>12, <2>1, <2>2
<1>17. active' = NoTopic => last.carried = NoTopic
  BY <1>2, <1>5, <1>12 DEF ResolvedSubject
<1> QED
  <2>1. active' # NoTopic => Said(active)'
    BY <1>14 DEF Said
  <2>2. turns' # <<>> =>
          LET new == turns'[Len(turns')]
          IN  /\ "context" \in client' =>
                    \/ active' \in {NoTopic, new.topic, new.carried}
                    \/ new.subject = NoTopic /\ new.carried = NoTopic
              /\ "context" \in client' /\ active' = NoTopic => new.carried = NoTopic
    BY <1>15, <1>16, <1>17
  <2> QED
    BY <1>9, <1>14, <2>1, <2>2 DEF Remembered, Named

(* Every step keeps the invariant of the conversation. *)
LEMMA NextConversation == ConversationInv /\ [Next]_vars => ConversationInv'
<1> SUFFICES ASSUME ConversationInv, [Next]_vars
             PROVE  ConversationInv'
  OBVIOUS
<1>1. ASSUME UNCHANGED <<client, turns, active>>, TurnsTyped, Remembered
      PROVE  TurnsTyped' /\ Remembered'
  BY <1>1 DEF TurnsTyped, Remembered, Said
<1>2. CASE Ask
  <2>1. asked' \in Questions /\ phase' = "asked" /\ UNCHANGED <<client, turns, active>>
    BY <1>2 DEF Ask
  <2>2. phase = "idle"
    BY <1>2 DEF Ask
  <2> QED
    BY <1>1, <2>1, <2>2 DEF ConversationInv
<1>3. CASE Clarify \/ Refused
  <2>1. phase' = "idle" /\ UNCHANGED <<client, turns, active>> /\ phase \in {"asked", "resolved"}
    BY <1>3 DEF Clarify, Refused
  <2> QED
    BY <1>1, <2>1 DEF ConversationInv
<1>4. CASE ResolveConversation
  <2>1. /\ phase = "asked" /\ phase' = "resolved" /\ UNCHANGED <<client, turns, active, asked>>
        /\ resolved' \in Resolutions(asked)
    BY <1>4 DEF ResolveConversation
  <2>2. Resolutions(asked)' = Resolutions(asked)
    BY <2>1 DEF Resolutions, BoundedHistory, HistorySent, SubjectSent
  <2> QED
    BY <1>1, <2>1, <2>2 DEF ConversationInv
<1>5. CASE Answered
  <2>1. phase = "resolved" /\ phase' = "idle"
    BY <1>5 DEF Answered
  <2> QED
    BY <1>5, <2>1, AnsweredKeeps DEF ConversationInv
<1>6. CASE Follow \/ PlanQueries
  BY <1>6 DEF Follow, PlanQueries, ConversationInv
<1>7. CASE Search /\ ~(BaseEnds \/ TranslationEnds)
  <2>1. phase' \notin {"idle", "asked", "resolved"}
    BY <1>7 DEF Search, LoadSection, StartSearches, LookUp, AwaitBase, DropTranslation,
         SearchTranslated, TranslatedFound, PassEnds, RecoverQuery, Fail, Cancel
  <2> QED
    BY <2>1 DEF ConversationInv
<1>8. CASE UNCHANGED <<client, turns, active, asked, resolved, phase>>
  <2>1. Resolutions(asked)' = Resolutions(asked)
    BY <1>8 DEF Resolutions, BoundedHistory, HistorySent, SubjectSent
  <2> QED
    BY <1>1, <1>8, <2>1 DEF ConversationInv
<1>9. CASE Ended \/ UNCHANGED vars \/ BaseEnds \/ TranslationEnds
  BY <1>8, <1>9 DEF Ended, vars, BaseEnds, TranslationEnds, conversationVars
<1> QED
  BY <1>2, <1>3, <1>4, <1>5, <1>6, <1>7, <1>9 DEF Next, Converse, Search

-----------------------------------------------------------------------------
(* The queries *)

(* The queries by where they come from: the question and its variants,     *)
(* those of a route or of the model, and the slot that waits for one.      *)
Own == {"question", "anchored", "corrected", "corrected terms"}
Written == Own \cup {"route query", "second route query", "translated", "translated terms",
                     "candidate", "translated candidate", "hypothesis", "recovery"}
Queries == Written \cup {""}

(* The plan searches this query. *)
HasQuery(query) == \E i \in 1..Len(plan.queries) : plan.queries[i] = query

(* The queries of a plan: within the variants allowed, none empty but the  *)
(* slot of the deferred translation, which is the last one and of the      *)
(* first pass only; and the first pass has the question itself.            *)
QueriesPlanned ==
    /\ attempt \in Nat \ {0}
    /\ plan.queries \in Seq(Queries) /\ Len(plan.queries) <= MaxVariants
    /\ plan.slot \in {0, Len(plan.queries)}
    /\ phase \in {"planned", "lookups", "base", "translation"} =>
          /\ plan.slot > 0 => plan.queries[plan.slot] = ""
          /\ \A i \in 1..Len(plan.queries) : i # plan.slot => plan.queries[i] # ""
    /\ plan.slot > 0 => attempt = 1 /\ ~HasQuery("translated") /\ ~HasQuery("translated terms")
    /\ attempt = 1 /\ phase = "planned" => HasQuery("question")

(* The slot is there for as long as the translation is awaited, and no     *)
(* longer.                                                                 *)
SlotAwaited ==
    /\ phase \in {"lookups", "base", "translation"} => (translation = "none" <=> plan.slot = 0)
    /\ phase \in {"translated", "evidence", "done"} => plan.slot = 0

(* What was searched: nothing empty, the question in the first pass, then  *)
(* of each pass what it planned, and before a recovered pass nothing of    *)
(* what it plans.                                                          *)
QueriesSearched ==
    /\ \A pair \in searched : pair[1] # ""
    /\ repeated => attempt > 2
    /\ phase = "lookups" /\ attempt = 1 => \E pair \in searched : pair[1] = "question"
    /\ attempt = 1 => /\ phase = "planned" => searched = {}
                      /\ \A pair \in searched : HasQuery(pair[1])
    /\ attempt = 2 /\ phase = "planned" => \A pair \in searched : ~HasQuery(pair[1])

(* The inductive invariant of the queries. *)
QueriesKept ==
    /\ phase \in Unplanned => searched = {} /\ ~repeated /\ plan = NoPlan
    /\ phase \in Passes => QueriesPlanned /\ SlotAwaited /\ QueriesSearched

(* Cutting the queries to the variants allowed keeps the first ones. *)
LEMMA TruncatedFacts ==
    ASSUME NEW S, NEW s \in Seq(S)
    PROVE  /\ Truncated(s) \in Seq(S)
           /\ Len(Truncated(s)) = IF Len(s) < MaxVariants THEN Len(s) ELSE MaxVariants
           /\ \A i \in 1..Len(Truncated(s)) : Truncated(s)[i] = s[i]
<1> DEFINE n == IF Len(s) < MaxVariants THEN Len(s) ELSE MaxVariants
<1>1. Len(s) \in Nat /\ n \in 0..Len(s)
  BY LenProperties, VariantsAssumption
<1>2. \A i \in 1..n : s[i] \in S
  BY <1>1, ElementOfSeq
<1>3. Truncated(s) = SubSeq(s, 1, n)
  BY DEF Truncated
<1> HIDE DEF n
<1>4. /\ SubSeq(s, 1, n) \in Seq(S) /\ Len(SubSeq(s, 1, n)) = IF 1 <= n THEN n - 1 + 1 ELSE 0
      /\ \A i \in 1 .. n - 1 + 1 : SubSeq(s, 1, n)[i] = s[1 + i - 1]
  BY <1>1, <1>2, SubSeqProperties
<1>5. Len(SubSeq(s, 1, n)) = n /\ \A i \in 1..n : SubSeq(s, 1, n)[i] = s[i]
  BY <1>1, <1>4
<1> QED
  BY <1>3, <1>4, <1>5 DEF n

(* The queries made of the question alone begin with it. *)
LEMMA OwnFacts ==
    ASSUME NEW p, NEW own \in OwnQueries(p)
    PROVE  own \in Seq(Own) /\ own # <<>> /\ own[1] = "question"
<1>1. PICK a \in AnchoredQueries, c \in CorrectedQueries(p) : own = <<"question">> \o a \o c
  BY DEF OwnQueries
<1>2. a \in Seq(Own)
  <2>1. a = <<>> \/ a = <<"anchored">>
    BY <1>1 DEF AnchoredQueries
  <2>2. "anchored" \in Own
    BY DEF Own
  <2>3. <<>> \in Seq(Own)
    BY EmptySeq
  <2>4. <<"anchored">> \in Seq(Own)
    BY <2>2, Tuples
  <2> QED
    BY <2>1, <2>3, <2>4, Zenon
<1>3. c \in Seq(Own)
  <2>1. c = <<>> \/ c = <<"corrected">> \/ c = <<"corrected", "corrected terms">>
    BY <1>1 DEF CorrectedQueries
  <2>2. "corrected" \in Own /\ "corrected terms" \in Own
    BY DEF Own
  <2>3. <<>> \in Seq(Own)
    BY EmptySeq
  <2>4. <<"corrected">> \in Seq(Own)
    BY <2>2, Tuples
  <2>5. <<"corrected", "corrected terms">> \in Seq(Own)
    BY <2>2, Tuples
  <2> QED
    BY <2>1, <2>3, <2>4, <2>5, Zenon
<1> DEFINE q == <<"question">>
<1>4. q \in Seq(Own) /\ q # <<>> /\ q[1] = "question"
  BY DEF Own
<1> HIDE DEF q, Own
<1>5. q \o a \in Seq(Own) /\ q \o a # <<>> /\ (q \o a)[1] = "question"
  BY <1>2, <1>4, Joined
<1> DEFINE qa == q \o a
<1> HIDE DEF qa
<1>6. qa \in Seq(Own) /\ qa # <<>> /\ qa[1] = "question" /\ own = qa \o c
  BY <1>1, <1>5 DEF qa, q
<1> QED
  BY <1>3, <1>6, Joined

(* What the queries of a new plan are, with or without a slot. *)
QueriesWell(queries, slot) ==
    /\ queries \in Seq(Queries) /\ Len(queries) \in 1..MaxVariants
    /\ queries[1] = "question"
    /\ slot \in {0, Len(queries)}
    /\ slot > 0 => queries[slot] = ""
    /\ \A i \in 1..Len(queries) : i # slot => queries[i] # ""
    /\ slot > 0 => \A i \in 1..Len(queries) : queries[i] \notin {"translated", "translated terms"}

(* Queries that are all written and begin with the question, cut to the    *)
(* variants allowed, are well.                                             *)
LEMMA WrittenWell ==
    ASSUME NEW s \in Seq(Written), s # <<>>, s[1] = "question"
    PROVE  QueriesWell(Truncated(s), 0)
<1>1. Len(s) \in Nat \ {0} /\ MaxVariants \in Nat \ {0}
  BY EmptySeq, VariantsAssumption
<1>2. /\ Truncated(s) \in Seq(Written) /\ Len(Truncated(s)) \in 1..MaxVariants
      /\ \A i \in 1..Len(Truncated(s)) : Truncated(s)[i] = s[i]
  BY <1>1, TruncatedFacts
<1>3. \A i \in 1..Len(Truncated(s)) : Truncated(s)[i] \in Written
  BY <1>2, ElementOfSeq
<1>4. Truncated(s) \in Seq(Queries)
  BY <1>2, SeqMonotonic DEF Queries
<1>5. \A i \in 1..Len(Truncated(s)) : Truncated(s)[i] # "" /\ i # 0
  <2>1. \A x \in Written : x # ""
    BY DEF Written, Own
  <2>2. \A i \in 1..Len(Truncated(s)) : i # 0
    BY <1>2
  <2> QED
    BY <1>3, <2>1, <2>2
<1>6. Truncated(s)[1] = "question"
  BY <1>1, <1>2
<1>7. ~(0 > 0)
  OBVIOUS
<1> QED
  BY <1>2, <1>4, <1>5, <1>6, <1>7, Zenon DEF QueriesWell

(* The queries of a route taken without the model are well. *)
LEMMA RouteWell ==
    ASSUME NEW p, NEW q \in RouteQueries(p)
    PROVE  QueriesWell(q.queries, q.slot)
<1> DEFINE s == <<"question", "route query">>
<1> DEFINE t == IF CodeInventory(p).taken THEN <<>> ELSE <<"second route query">>
<1>1. {"question", "route query", "second route query"} \subseteq Written
  BY DEF Written, Own
<1>2. s \in Seq(Written) /\ s # <<>> /\ s[1] = "question"
  BY <1>1, Tuples
<1>3. t \in Seq(Written)
  BY <1>1, EmptySeq, Tuples
<1>4. q = [queries |-> Truncated(s \o t), slot |-> 0]
  BY DEF RouteQueries
<1> HIDE DEF s, t
<1>5. QueriesWell(Truncated(s \o t), 0)
  BY <1>2, <1>3, Joined, WrittenWell
<1> QED
  BY <1>4, <1>5

(* So are those of a translation that is made at once. *)
LEMMA EagerWell ==
    ASSUME NEW p, NEW q \in EagerQueries(p)
    PROVE  QueriesWell(q.queries, q.slot)
<1>1. PICK own \in OwnQueries(p) : \E t \in TranslatedQueries(p) : \E m \in PlannerQueries(p, own \o t, t) :
         q = [queries |-> Truncated(own \o t \o m), slot |-> 0]
  <2> DEFINE all == UNION {UNION {{own \o t \o m : m \in PlannerQueries(p, own \o t, t)} :
                                t \in TranslatedQueries(p)} : own \in OwnQueries(p)}
  <2>1. PICK x \in all : q = [queries |-> Truncated(x), slot |-> 0]
    BY Zenon DEF EagerQueries
  <2>2. PICK own \in OwnQueries(p) :
           x \in UNION {{own \o t \o m : m \in PlannerQueries(p, own \o t, t)} : t \in TranslatedQueries(p)}
    BY Zenon
  <2>3. PICK t \in TranslatedQueries(p) : x \in {own \o t \o m : m \in PlannerQueries(p, own \o t, t)}
    BY <2>2, Zenon
  <2>4. \E m \in PlannerQueries(p, own \o t, t) : x = own \o t \o m
    BY <2>3, Zenon
  <2> QED
    BY <2>1, <2>4, Zenon
<1>2. PICK t \in TranslatedQueries(p) : \E m \in PlannerQueries(p, own \o t, t) :
         q = [queries |-> Truncated(own \o t \o m), slot |-> 0]
  BY <1>1
<1>3. PICK m \in PlannerQueries(p, own \o t, t) :
         q = [queries |-> Truncated(own \o t \o m), slot |-> 0]
  BY <1>2
<1>4. own \in Seq(Written) /\ own # <<>> /\ own[1] = "question"
  <2>1. own \in Seq(Own) /\ own # <<>> /\ own[1] = "question" /\ Own \subseteq Written
    BY OwnFacts DEF Written
  <2> QED
    BY <2>1, SeqMonotonic
<1>5. t \in Seq(Written)
  <2>1. t = <<>> \/ t = <<"translated">> \/ t = <<"translated", "translated terms">>
    BY DEF TranslatedQueries
  <2>2. "translated" \in Written /\ "translated terms" \in Written
    BY DEF Written, Own
  <2>3. <<>> \in Seq(Written)
    BY EmptySeq
  <2>4. <<"translated">> \in Seq(Written)
    BY <2>2, Tuples
  <2>5. <<"translated", "translated terms">> \in Seq(Written)
    BY <2>2, Tuples
  <2> QED
    BY <2>1, <2>3, <2>4, <2>5, Zenon
<1>6. m \in Seq(Written)
  <2> DEFINE plans == {<<>>, <<"candidate">>, <<"candidate", "translated candidate">>}
  <2>1. ASSUME NEW n \in plans
        PROVE  n \in Seq(Written) /\ Append(n, "hypothesis") \in Seq(Written)
    <3>1. "candidate" \in Written /\ "translated candidate" \in Written /\ "hypothesis" \in Written
      BY DEF Written, Own
    <3>2. n = <<>> \/ n = <<"candidate">> \/ n = <<"candidate", "translated candidate">>
      OBVIOUS
    <3>3. n \in Seq(Written)
      <4>1. <<>> \in Seq(Written) /\ <<"candidate">> \in Seq(Written)
        BY <3>1, EmptySeq, Tuples
      <4>2. <<"candidate", "translated candidate">> \in Seq(Written)
        BY <3>1, Tuples
      <4> QED
        BY <3>2, <4>1, <4>2, Zenon
    <3> QED
      BY <3>1, <3>3, AppendProperties
  <2>2. m \in plans \/ \E n \in plans : m = Append(n, "hypothesis")
    BY <1>3 DEF PlannerQueries
  <2> QED
    BY <2>1, <2>2
<1> DEFINE s == own \o t
<1>7. s \in Seq(Written) /\ s # <<>> /\ s[1] = "question"
  BY <1>4, <1>5, Joined
<1> HIDE DEF s
<1>8. QueriesWell(Truncated(s \o m), 0)
  BY <1>6, <1>7, Joined, WrittenWell
<1> QED
  BY <1>3, <1>8 DEF s

(* So are those of a translation that is deferred: the slot is last, also  *)
(* when the variants allowed are so few that one must give way to it.      *)
LEMMA DeferredWell ==
    ASSUME NEW p, NEW q \in DeferredQueries(p)
    PROVE  QueriesWell(q.queries, q.slot)
<1>1. PICK own \in OwnQueries(p) :
         q = [queries |-> Truncated(Append(own, "")),
              slot |-> IF Len(own) < MaxVariants THEN Len(own) + 1 ELSE 0]
  BY DEF DeferredQueries
<1>2. own \in Seq(Own) /\ own # <<>> /\ own[1] = "question"
  BY OwnFacts
<1>3. Len(own) \in Nat \ {0} /\ MaxVariants \in Nat \ {0}
  BY <1>2, EmptySeq, VariantsAssumption
<1>4. \A i \in 1..Len(own) : own[i] \in Own
  BY <1>2, ElementOfSeq
<1>5. own \in Seq(Queries)
  BY <1>2, SeqMonotonic DEF Queries, Written
<1> DEFINE s == Append(own, "")
<1>6. /\ s \in Seq(Queries) /\ Len(s) = Len(own) + 1
      /\ \A i \in 1..Len(own) : s[i] = own[i]
      /\ s[Len(own) + 1] = ""
  <2>1. "" \in Queries
    BY DEF Queries
  <2> QED
    BY <1>5, <2>1, Appended, ZenonT(30)
<1> HIDE DEF s
<1>7. /\ Truncated(s) \in Seq(Queries)
      /\ Len(Truncated(s)) = IF Len(s) < MaxVariants THEN Len(s) ELSE MaxVariants
      /\ \A i \in 1..Len(Truncated(s)) : Truncated(s)[i] = s[i]
  BY <1>6, TruncatedFacts
<1> DEFINE slot == IF Len(own) < MaxVariants THEN Len(own) + 1 ELSE 0
<1> DEFINE all == Truncated(s)
<1> DEFINE n == Len(own)
<1>8. n \in Nat \ {0} /\ slot = IF n < MaxVariants THEN n + 1 ELSE 0
  BY <1>3
<1>9. Len(all) = IF n + 1 < MaxVariants THEN n + 1 ELSE MaxVariants
  BY <1>6, <1>7
<1>10. all[1] = own[1] /\ all \in Seq(Queries)
  <2>1. 1 \in 1..Len(all) /\ 1 \in 1..Len(own)
    BY <1>3, <1>8, <1>9
  <2>2. all \in Seq(Queries) /\ all[1] = s[1]
    BY <1>7, <2>1
  <2> QED
    BY <1>6, <2>1, <2>2
<1>11. \A i \in 1..Len(all) : i \in 1..n => all[i] # "" /\ all[i] \notin {"translated", "translated terms"}
  BY <1>4, <1>6, <1>7 DEF Own
<1>12. \A i \in 1..Len(all) : i = n + 1 => all[i] = ""
  BY <1>6, <1>7
<1> HIDE DEF slot, n, all
<1>13. Len(all) \in 1..MaxVariants /\ slot \in {0, Len(all)} /\ (slot > 0 => slot = n + 1)
  BY <1>3, <1>8, <1>9
<1>14. \A i \in 1..Len(all) : i \in 1..n \/ (i = n + 1 /\ slot = n + 1)
  <2>1. ASSUME NEW i \in 1..Len(all), i \notin 1..n
        PROVE  i = n + 1 /\ slot = n + 1
    <3>1. n < i /\ i <= Len(all) /\ i \in Nat
      BY <1>3, <1>8, <1>9, <2>1
    <3>2. n < MaxVariants /\ i = n + 1
      BY <1>3, <1>8, <1>9, <3>1
    <3> QED
      BY <1>8, <3>2
  <2> QED
    BY <2>1, Zenon
<1>15. \A i \in 1..Len(all) : i # slot => all[i] # ""
  BY <1>11, <1>14
<1>16. slot > 0 => all[slot] = ""
  <2> SUFFICES ASSUME slot > 0
               PROVE  all[slot] = ""
    OBVIOUS
  <2>1. slot = n + 1 /\ slot \in 1..Len(all)
    BY <1>3, <1>8, <1>9
  <2> QED
    BY <1>12, <2>1
<1>17. slot > 0 => \A i \in 1..Len(all) : all[i] \notin {"translated", "translated terms"}
  BY <1>11, <1>12, <1>14
<1>18. QueriesWell(all, slot)
  BY <1>2, <1>10, <1>13, <1>15, <1>17, <1>16 DEF QueriesWell
<1>19. q.queries = all /\ q.slot = slot
  BY <1>1 DEF s, all, slot
<1> QED
  BY <1>18, <1>19

(* So are those of every plan. *)
LEMMA QueriesOfWell ==
    ASSUME NEW p, NEW q \in QueriesOf(p)
    PROVE  QueriesWell(q.queries, q.slot)
BY RouteWell, EagerWell, DeferredWell DEF QueriesOf

(* Before a question is asked there are no queries. *)
LEMMA InitQueries == Init => QueriesKept
BY DEF Init, ConversationInit, QueriesKept, Unplanned, Passes

(* A plan begins its first pass with queries that are well. *)
LEMMA PlanQueriesKeeps ==
    ASSUME QueriesKept, PlanQueries
    PROVE  QueriesKept'
<1>1. /\ searched' = {} /\ ~repeated' /\ attempt' = 1 /\ phase' = "planned"
  BY DEF PlanQueries, QueriesKept, Unplanned
<1>2. PICK p \in PatternSets : \E q \in QueriesOf(p) : plan'.queries = q.queries /\ plan'.slot = q.slot
  BY DEF PlanQueries
<1>3. PICK q \in QueriesOf(p) : plan'.queries = q.queries /\ plan'.slot = q.slot
  BY <1>2
<1>4. QueriesWell(plan'.queries, plan'.slot)
  BY <1>3, QueriesOfWell
<1>5. Len(plan'.queries) \in 1..MaxVariants /\ MaxVariants \in Nat \ {0}
  BY <1>4, VariantsAssumption DEF QueriesWell
<1>6. QueriesPlanned'
  <2>1. 1 \in 1..Len(plan'.queries) /\ Len(plan'.queries) <= MaxVariants
    BY <1>5
  <2>2. HasQuery("question")'
    BY <1>4, <2>1 DEF QueriesWell, HasQuery
  <2>3. plan'.slot > 0 => ~HasQuery("translated")' /\ ~HasQuery("translated terms")'
    BY <1>4 DEF QueriesWell, HasQuery
  <2>4. /\ plan'.queries \in Seq(Queries) /\ plan'.slot \in {0, Len(plan'.queries)}
        /\ plan'.slot > 0 => plan'.queries[plan'.slot] = ""
        /\ \A i \in 1..Len(plan'.queries) : i # plan'.slot => plan'.queries[i] # ""
    BY <1>4 DEF QueriesWell
  <2>5. attempt' \in Nat \ {0}
    BY <1>1
  <2> QED
    BY <1>1, <2>1, <2>2, <2>3, <2>4, <2>5 DEF QueriesPlanned
<1>7. QueriesSearched' /\ SlotAwaited'
  BY <1>1 DEF QueriesSearched, SlotAwaited
<1> QED
  BY <1>1, <1>6, <1>7 DEF QueriesKept, Unplanned

(* A step of a pass that leaves the plan, the pass and what was searched   *)
(* as they are keeps what is said of the queries.                          *)
LEMMA SameQueries ==
    ASSUME QueriesPlanned, QueriesSearched,
           UNCHANGED <<attempt, searched, repeated>>,
           plan'.queries = plan.queries, plan'.slot \in {0, plan.slot},
           phase' # "planned", phase' = "lookups" => phase = "lookups",
           phase' \in {"lookups", "base", "translation"} =>
              phase \in {"lookups", "base", "translation"} /\ plan'.slot = plan.slot
    PROVE  QueriesPlanned' /\ QueriesSearched'
<1>1. \A query : HasQuery(query)' <=> HasQuery(query)
  BY DEF HasQuery
<1>2. QueriesPlanned'
  <2>1. attempt' \in Nat \ {0} /\ plan'.queries \in Seq(Queries) /\ Len(plan'.queries) <= MaxVariants
    BY DEF QueriesPlanned
  <2>2. plan'.slot \in {0, Len(plan'.queries)}
    BY DEF QueriesPlanned
  <2>3. plan'.slot > 0 => attempt' = 1 /\ ~HasQuery("translated")' /\ ~HasQuery("translated terms")'
    <3>1. plan.slot > 0 => attempt = 1 /\ ~HasQuery("translated") /\ ~HasQuery("translated terms")
      BY DEF QueriesPlanned
    <3>2. plan'.slot > 0 => plan.slot > 0
      OBVIOUS
    <3> QED
      BY <1>1, <3>1, <3>2
  <2>4. phase' \in {"lookups", "base", "translation"} =>
          /\ plan'.slot > 0 => plan'.queries[plan'.slot] = ""
          /\ \A i \in 1..Len(plan'.queries) : i # plan'.slot => plan'.queries[i] # ""
    BY DEF QueriesPlanned
  <2> QED
    BY <2>1, <2>2, <2>3, <2>4 DEF QueriesPlanned
<1>3. QueriesSearched'
  BY <1>1 DEF QueriesSearched, HasQuery
<1> QED
  BY <1>2, <1>3

(* The searches that start are those of the plan, but for its slot, in     *)
(* each of its scopes.                                                     *)
LEMMA StartSearchesKeeps ==
    ASSUME QueriesPlanned, QueriesSearched, StartSearches
    PROVE  QueriesPlanned' /\ SlotAwaited' /\ QueriesSearched'
<1> DEFINE own == {plan.queries[i] : i \in DOMAIN plan.queries \ {plan.slot}}
<1> DEFINE pairs == own \X Scopes
<1>1. searched' = searched \cup pairs /\ repeated' = (repeated \/ pairs \cap searched # {})
  BY DEF StartSearches, SearchFor
<1> HIDE DEF own, pairs
<1>2. /\ phase = "planned" /\ phase' = "lookups" /\ UNCHANGED <<plan, attempt>>
      /\ translation' = IF plan.slot > 0 THEN "running" ELSE "none"
  BY DEF StartSearches
<1>3. DOMAIN plan.queries = 1..Len(plan.queries) /\ Len(plan.queries) \in Nat
  BY LenProperties DEF QueriesPlanned
<1>4. ASSUME NEW pair \in pairs
      PROVE  pair[1] # "" /\ HasQuery(pair[1])
  <2>1. PICK q \in own, scope \in Scopes : pair = <<q, scope>>
    BY DEF pairs
  <2>2. PICK i \in 1..Len(plan.queries) : i # plan.slot /\ q = plan.queries[i]
    BY <1>3 DEF own
  <2>3. plan.queries[i] # ""
    BY <1>2, <2>2 DEF QueriesPlanned
  <2>4. pair[1] = q
    BY <2>1
  <2>5. HasQuery(q)
    BY <2>2 DEF HasQuery
  <2>6. q # ""
    BY <2>2, <2>3
  <2> QED
    BY <2>4, <2>5, <2>6
<1>5. attempt = 1 => \E pair \in pairs : pair[1] = "question"
  <2> SUFFICES ASSUME attempt = 1
               PROVE  \E pair \in pairs : pair[1] = "question"
    OBVIOUS
  <2>1. PICK i \in 1..Len(plan.queries) : plan.queries[i] = "question"
    BY <1>2 DEF QueriesPlanned, HasQuery
  <2>2. i # plan.slot
    <3>1. plan.slot > 0 => plan.queries[plan.slot] = ""
      BY <1>2 DEF QueriesPlanned
    <3>2. i = plan.slot => plan.slot > 0
      BY <1>3
    <3> QED
      BY <2>1, <3>1, <3>2
  <2>3. "question" \in own
    BY <1>3, <2>1, <2>2 DEF own
  <2>4. PICK scope \in Scopes : TRUE
    BY DEF Scopes
  <2>5. <<"question", scope>> \in pairs
    BY <2>3 DEF pairs
  <2> DEFINE pair == <<"question", scope>>
  <2>6. pair[1] = "question"
    OBVIOUS
  <2> HIDE DEF pair
  <2> QED
    BY <2>5, <2>6 DEF pair
<1>6. attempt <= 2 => pairs \cap searched = {}
  <2>1. CASE attempt = 1
    BY <1>2, <2>1 DEF QueriesSearched
  <2>2. CASE attempt = 2
    <3>1. \A pair \in searched : ~HasQuery(pair[1])
      BY <1>2, <2>2 DEF QueriesSearched
    <3> QED
      BY <1>4, <3>1
  <2>3. attempt \in Nat \ {0}
    BY DEF QueriesPlanned
  <2> QED
    BY <2>1, <2>2, <2>3
<1>7. QueriesPlanned' /\ SlotAwaited'
  <2>1. QueriesPlanned'
    BY <1>2 DEF QueriesPlanned, HasQuery
  <2>2. plan.slot \in Nat
    <3>1. plan.slot \in {0, Len(plan.queries)}
      BY DEF QueriesPlanned
    <3> QED
      BY <1>3, <3>1
  <2>3. translation' = "none" <=> plan.slot = 0
    BY <1>2, <2>2
  <2> QED
    BY <1>2, <2>1, <2>3 DEF SlotAwaited
<1>8. \A query : HasQuery(query)' <=> HasQuery(query)
  BY <1>2 DEF HasQuery
<1>9. QueriesSearched'
  <2>1. \A pair \in searched' : pair[1] # ""
    BY <1>1, <1>2, <1>4 DEF QueriesSearched
  <2>2. repeated' => attempt' > 2
    <3>1. attempt \in Nat
      BY DEF QueriesPlanned
    <3>2. repeated => attempt > 2
      BY DEF QueriesSearched
    <3>3. repeated' => repeated \/ pairs \cap searched # {}
      BY <1>1, Zenon
    <3>4. ~(attempt <= 2) => attempt > 2
      BY <3>1
    <3> QED
      BY <1>2, <1>6, <3>2, <3>3, <3>4, Zenon
  <2>3. attempt' = 1 => /\ \E pair \in searched' : pair[1] = "question"
                        /\ \A pair \in searched' : HasQuery(pair[1])
    BY <1>1, <1>2, <1>4, <1>5 DEF QueriesSearched
  <2> QED
    BY <1>2, <2>1, <2>2, <2>3 DEF QueriesSearched, HasQuery
<1> QED
  BY <1>7, <1>9

(* A translation that is not used leaves no slot. *)
LEMMA DropTranslationKeeps ==
    ASSUME DOMAIN plan = DOMAIN NoPlan, QueriesPlanned, SlotAwaited, QueriesSearched, DropTranslation
    PROVE  QueriesPlanned' /\ SlotAwaited' /\ QueriesSearched'
<1> DEFINE n == Len(plan.queries)
<1>1. phase = "translation" /\ translation = "rejected" /\ phase' = "evidence"
      /\ UNCHANGED <<attempt, searched, repeated>>
  BY DEF DropTranslation
<1>2. plan'.queries = RemoveAt(plan.queries, plan.slot) /\ plan'.slot = 0
  BY DEF DropTranslation, NoPlan
<1>3. plan.queries \in Seq(Queries) /\ n \in Nat /\ n <= MaxVariants /\ MaxVariants \in Nat
  BY LenProperties, VariantsAssumption DEF QueriesPlanned
<1>4. plan.slot # 0
  BY <1>1 DEF SlotAwaited
<1>5. plan.slot = n /\ n > 0
  <2>1. plan.slot \in {0, n}
    BY DEF QueriesPlanned
  <2> HIDE DEF n
  <2> QED
    BY <1>3, <1>4, <2>1
<1>6. attempt = 1
  BY <1>5 DEF QueriesPlanned
<1>7. plan'.queries = SubSeq(plan.queries, 1, n - 1) \o SubSeq(plan.queries, n + 1, n)
  BY <1>2, <1>5 DEF RemoveAt
<1> HIDE DEF n
<1> DEFINE front == SubSeq(plan.queries, 1, n - 1)
<1>8. \A i \in 1 .. n - 1 : plan.queries[i] \in Queries
  BY <1>3, ElementOfSeq DEF n
<1>9. /\ front \in Seq(Queries) /\ Len(front) = n - 1
      /\ \A i \in 1 .. n - 1 : front[i] = plan.queries[i]
  <2>1. /\ front \in Seq(Queries) /\ Len(front) = IF 1 <= n - 1 THEN n - 1 - 1 + 1 ELSE 0
        /\ \A i \in 1 .. n - 1 - 1 + 1 : front[i] = plan.queries[1 + i - 1]
    BY <1>3, <1>8, SubSeqProperties
  <2> QED
    BY <1>3, <1>5, <2>1
<1>10. plan'.queries = front
  <2>1. SubSeq(plan.queries, n + 1, n) = <<>>
    BY <1>3, SubSeqEmpty
  <2> HIDE DEF front
  <2> QED
    BY <1>7, <1>9, <2>1, ConcatEmptySeq DEF front
<1> HIDE DEF front
<1>11. QueriesPlanned'
  <2>1. plan'.queries \in Seq(Queries) /\ Len(plan'.queries) <= MaxVariants
    BY <1>3, <1>5, <1>9, <1>10
  <2>2. attempt' \in Nat \ {0} /\ plan'.slot \in {0, Len(plan'.queries)} /\ ~(plan'.slot > 0)
    BY <1>1, <1>2, <1>6
  <2> QED
    BY <1>1, <2>1, <2>2 DEF QueriesPlanned
<1>12. SlotAwaited'
  BY <1>1, <1>2 DEF SlotAwaited
<1>13. ASSUME NEW pair \in searched
       PROVE  HasQuery(pair[1])'
  <2>1. HasQuery(pair[1]) /\ pair[1] # ""
    BY <1>6 DEF QueriesSearched
  <2>2. PICK i \in 1..Len(plan.queries) : plan.queries[i] = pair[1]
    BY <2>1 DEF HasQuery
  <2>3. plan.queries[n] = ""
    BY <1>1, <1>5 DEF QueriesPlanned
  <2>4. i # n /\ i \in 1..n
    BY <2>1, <2>2, <2>3 DEF n
  <2>5. i \in 1 .. n - 1
    BY <1>3, <2>4
  <2>6. i \in 1..Len(plan'.queries) /\ plan'.queries[i] = pair[1]
    BY <1>9, <1>10, <2>2, <2>5
  <2> QED
    BY <2>6 DEF HasQuery
<1>14. QueriesSearched'
  BY <1>1, <1>6, <1>13 DEF QueriesSearched, HasQuery
<1> QED
  BY <1>11, <1>12, <1>14

(* A translation that is used takes the slot, or leaves it when it says    *)
(* what is searched already; then nothing is searched twice.               *)
LEMMA SearchTranslatedKeeps ==
    ASSUME DOMAIN plan = DOMAIN NoPlan, QueriesPlanned, SlotAwaited, QueriesSearched, SearchTranslated
    PROVE  QueriesPlanned' /\ SlotAwaited' /\ QueriesSearched'
<1> DEFINE n == Len(plan.queries)
<1> DEFINE own == [plan.queries EXCEPT ![plan.slot] = "translated"]
<1>1. phase = "translation" /\ translation = "accepted" /\ phase' = "translated" /\ attempt' = attempt
  BY DEF SearchTranslated
<1>2. plan.queries \in Seq(Queries) /\ n \in Nat /\ n <= MaxVariants /\ MaxVariants \in Nat
  BY LenProperties, VariantsAssumption DEF QueriesPlanned
<1>3. plan.slot = n /\ n > 0
  <2>1. plan.slot # 0
    BY <1>1 DEF SlotAwaited
  <2>2. plan.slot \in {0, n}
    BY DEF QueriesPlanned
  <2> HIDE DEF n
  <2> QED
    BY <1>2, <2>1, <2>2
<1>4. attempt = 1 /\ ~HasQuery("translated") /\ ~HasQuery("translated terms")
  BY <1>3 DEF QueriesPlanned
<1>5. attempt = 1 /\ attempt \in Nat /\ 1 \in Nat
  BY <1>4
<1>6. PICK terms :
         LET queries == own \o (IF n < MaxVariants THEN terms ELSE <<>>)
         IN  /\ terms = <<>> \/ terms = <<"translated terms">>
             /\ SearchFor({queries[i] : i \in plan.slot..Len(queries)})
             /\ plan' = [plan EXCEPT !.queries = queries, !.slot = 0, !.types = SearchScope]
  BY DEF SearchTranslated
<1> DEFINE more == IF n < MaxVariants THEN terms ELSE <<>>
<1> DEFINE queries == own \o more
<1> DEFINE new == {queries[i] : i \in plan.slot..Len(queries)}
<1>7. SearchFor(new) /\ plan'.queries = queries /\ plan'.slot = 0
  BY <1>6 DEF NoPlan
<1>8. /\ more \in Seq(Queries) /\ n + Len(more) <= MaxVariants /\ Len(more) \in Nat
      /\ \A i \in 1..Len(more) : more[i] = "translated terms"
  <2> HIDE DEF n
  <2>1. \/ more = <<>>
        \/ more = <<"translated terms">> /\ n < MaxVariants
    BY <1>6
  <2> HIDE DEF more
  <2>2. CASE more = <<>>
    <3>1. more \in Seq(Queries) /\ Len(more) = 0
      BY <2>2, EmptySeq
    <3> QED
      BY <1>2, <3>1
  <2>3. CASE more = <<"translated terms">> /\ n < MaxVariants
    <3>1. "translated terms" \in Queries
      BY DEF Queries, Written
    <3>2. more \in Seq(Queries)
      BY <2>3, <3>1, Tuples
    <3>3. Len(more) = 1
      BY <2>3
    <3>4. more[1] = "translated terms"
      BY <2>3
    <3>5. n < MaxVariants
      BY <2>3
    <3>6. n + Len(more) <= MaxVariants /\ Len(more) \in Nat
      BY <1>2, <3>3, <3>5
    <3>7. \A i \in 1..Len(more) : i = 1
      BY <3>3
    <3> QED
      BY <3>2, <3>4, <3>6, <3>7
  <2> QED
    BY <2>1, <2>2, <2>3
<1> HIDE DEF n, more
<1>9. /\ own \in Seq(Queries) /\ Len(own) = n /\ own[n] = "translated"
      /\ \A i \in 1 .. n : i # n => own[i] = plan.queries[i]
  <2>1. "translated" \in Queries
    BY DEF Queries, Written
  <2>2. n \in 1..Len(plan.queries) /\ n = Len(plan.queries)
    BY <1>2, <1>3 DEF n
  <2>3. own = [plan.queries EXCEPT ![n] = "translated"]
    BY <1>3
  <2> HIDE DEF own
  <2> QED
    BY <1>2, <2>1, <2>2, <2>3, ExceptSeq
<1> HIDE DEF own
<1>10. /\ queries \in Seq(Queries) /\ Len(queries) = n + Len(more)
      /\ \A i \in 1 .. n + Len(more) : queries[i] = IF i <= n THEN own[i] ELSE more[i - n]
  BY <1>8, <1>9, ConcatProperties, ZenonT(30)
<1> HIDE DEF queries
<1>11. \A q \in new : /\ q \in {"translated", "translated terms"}
                      /\ \E i \in 1..Len(queries) : queries[i] = q
  <2> SUFFICES ASSUME NEW i \in plan.slot..Len(queries)
               PROVE  queries[i] \in {"translated", "translated terms"} /\ i \in 1..Len(queries)
    OBVIOUS
  <2>1. i \in 1 .. n + Len(more) /\ n <= i
    <3>1. i \in n .. n + Len(more) /\ n > 0 /\ n \in Nat
      BY <1>2, <1>3, <1>10
    <3>2. Len(more) \in Nat
      BY <1>8
    <3> QED
      BY <3>1, <3>2
  <2>2. CASE i = n
    <3>1. queries[i] = own[n]
      BY <1>10, <2>1, <2>2
    <3> QED
      BY <1>9, <1>10, <2>1, <3>1
  <2>3. CASE i # n
    <3>1. i - n \in 1..Len(more) /\ ~(i <= n)
      <4>1. n \in Nat /\ Len(more) \in Nat
        BY <1>2, <1>8
      <4> QED
        BY <2>1, <2>3, <4>1
    <3>2. queries[i] = more[i - n]
      BY <1>10, <2>1, <3>1
    <3> QED
      BY <1>8, <1>10, <2>1, <3>1, <3>2
  <2> QED
    BY <2>2, <2>3
<1> HIDE DEF new
<1> DEFINE pairs == new \X Scopes
<1>12. searched' = searched \cup pairs /\ repeated' = (repeated \/ pairs \cap searched # {})
  BY <1>7 DEF SearchFor
<1>13. \A pair \in pairs : pair[1] \in new
  OBVIOUS
<1> HIDE DEF pairs
<1>14. pairs \cap searched = {}
  <2> SUFFICES ASSUME NEW pair \in pairs, pair \in searched
               PROVE  FALSE
    OBVIOUS
  <2>1. HasQuery(pair[1])
    BY <1>4 DEF QueriesSearched
  <2> QED
    BY <1>4, <1>11, <1>13, <2>1
<1>15. ~repeated'
  <2>1. ~repeated
    <3>1. repeated => attempt > 2
      BY DEF QueriesSearched
    <3>2. ~(attempt > 2)
      BY <1>5
    <3> QED
      BY <3>1, <3>2
  <2> QED
    BY <1>12, <1>14, <2>1, Zenon
<1>16. \A pair \in searched' : pair[1] # "" /\ HasQuery(pair[1])'
  <2>1. ASSUME NEW pair \in pairs
        PROVE  pair[1] # "" /\ HasQuery(pair[1])'
    <3>1. pair[1] \in new
      BY <1>13
    <3> QED
      BY <1>7, <1>11, <3>1 DEF HasQuery
  <2>2. ASSUME NEW pair \in searched
        PROVE  pair[1] # "" /\ HasQuery(pair[1])'
    <3>1. HasQuery(pair[1]) /\ pair[1] # ""
      BY <1>4 DEF QueriesSearched
    <3>2. PICK i \in 1..Len(plan.queries) : plan.queries[i] = pair[1]
      BY <3>1 DEF HasQuery
    <3>3. plan.queries[n] = ""
      BY <1>1, <1>3 DEF QueriesPlanned
    <3>4. i # n /\ i \in 1..n
      BY <3>1, <3>2, <3>3 DEF n
    <3>5. i \in 1..n + Len(more) /\ i <= n
      <4>1. n \in Nat /\ Len(more) \in Nat
        BY <1>2, <1>8
      <4> QED
        BY <3>4, <4>1
    <3>6. i \in 1..Len(plan'.queries) /\ plan'.queries[i] = pair[1]
      BY <1>7, <1>9, <1>10, <3>2, <3>4, <3>5
    <3> QED
      BY <3>1, <3>6 DEF HasQuery
  <2> QED
    BY <1>12, <2>1, <2>2
<1>17. QueriesPlanned'
  <2>1. plan'.queries \in Seq(Queries) /\ Len(plan'.queries) <= MaxVariants
    BY <1>7, <1>8, <1>10
  <2>2. attempt' \in Nat \ {0} /\ plan'.slot \in {0, Len(plan'.queries)} /\ ~(plan'.slot > 0)
    BY <1>1, <1>5, <1>7
  <2> QED
    BY <1>1, <1>4, <2>1, <2>2 DEF QueriesPlanned
<1>18. SlotAwaited'
  BY <1>1, <1>7 DEF SlotAwaited
<1>19. QueriesSearched'
  BY <1>1, <1>4, <1>15, <1>16 DEF QueriesSearched, HasQuery
<1> QED
  BY <1>17, <1>18, <1>19

(* A recovered pass plans one query, which the pass before did not search. *)
LEMMA RecoverQueryKeeps ==
    ASSUME DOMAIN plan = DOMAIN NoPlan, QueriesPlanned, SlotAwaited, QueriesSearched, RecoverQuery
    PROVE  QueriesPlanned' /\ SlotAwaited' /\ QueriesSearched'
<1>1. /\ phase = "evidence" /\ attempt' = attempt + 1 /\ UNCHANGED <<searched, repeated>>
      /\ plan.slot = 0
  BY DEF RecoverQuery, SlotAwaited
<1>2. attempt \in Nat \ {0} /\ MaxVariants \in Nat \ {0}
  BY VariantsAssumption DEF QueriesPlanned
<1>3. attempt' \in Nat \ {0, 1} /\ (attempt' = 2 => attempt = 1)
  BY <1>1, <1>2
<1>4. repeated' => attempt' > 2
  <2>1. repeated => attempt > 2
    BY DEF QueriesSearched
  <2>2. attempt > 2 => attempt' > 2
    BY <1>1, <1>2
  <2> QED
    BY <1>1, <2>1, <2>2
<1>5. \A pair \in searched' : pair[1] # ""
  BY <1>1 DEF QueriesSearched
<1>6. CASE phase' = "done" /\ plan' = [plan EXCEPT !.queries = <<>>]
  <2>1. plan'.queries = <<>> /\ plan'.slot = 0
    BY <1>1, <1>6 DEF NoPlan
  <2>2. plan'.queries \in Seq(Queries) /\ Len(plan'.queries) = 0
    BY <2>1, EmptySeq
  <2>3. Len(plan'.queries) <= MaxVariants /\ plan'.slot \in {0, Len(plan'.queries)} /\ ~(plan'.slot > 0)
    BY <1>2, <2>1, <2>2
  <2>4. QueriesPlanned'
    BY <1>3, <1>6, <2>2, <2>3 DEF QueriesPlanned
  <2> QED
    BY <1>3, <1>4, <1>5, <1>6, <2>1, <2>4 DEF SlotAwaited, QueriesSearched
<1>7. CASE phase' = "planned" /\ \E query \in RecoveryCandidates : plan' = [plan EXCEPT !.queries = <<query>>]
  <2>1. PICK query \in RecoveryCandidates : plan' = [plan EXCEPT !.queries = <<query>>]
    BY <1>7
  <2>2. query \in Queries /\ query # "" /\ query \notin {plan.queries[i] : i \in DOMAIN plan.queries}
    BY DEF RecoveryCandidates, Queries, Written, Own
  <2>3. plan'.queries = <<query>> /\ plan'.slot = 0
    BY <1>1, <2>1 DEF NoPlan
  <2>4. plan'.queries \in Seq(Queries) /\ Len(plan'.queries) = 1 /\ plan'.queries[1] = query
    <3>1. <<query>> \in Seq(Queries)
      BY <2>2, Tuples
    <3> QED
      BY <2>3, <3>1
  <2>5. Len(plan'.queries) <= MaxVariants /\ plan'.slot \in {0, Len(plan'.queries)} /\ ~(plan'.slot > 0)
    BY <1>2, <2>3, <2>4
  <2>6. \A i \in 1..Len(plan'.queries) : plan'.queries[i] = query
    BY <2>4
  <2>7. QueriesPlanned'
    BY <1>3, <2>2, <2>4, <2>5, <2>6 DEF QueriesPlanned
  <2>8. attempt' = 2 => \A pair \in searched' : ~HasQuery(pair[1])'
    <3> SUFFICES ASSUME attempt' = 2, NEW pair \in searched
                 PROVE  ~HasQuery(pair[1])'
      BY <1>1
    <3>1. HasQuery(pair[1])
      BY <1>3 DEF QueriesSearched
    <3>2. DOMAIN plan.queries = 1..Len(plan.queries)
      BY LenProperties DEF QueriesPlanned
    <3>3. pair[1] # query
      BY <2>2, <3>1, <3>2 DEF HasQuery
    <3> QED
      BY <2>6, <3>3 DEF HasQuery
  <2> QED
    BY <1>3, <1>4, <1>5, <1>7, <2>7, <2>8 DEF SlotAwaited, QueriesSearched, HasQuery
<1> QED
  BY <1>6, <1>7 DEF RecoverQuery

(* Every step of a pass keeps the queries. *)
LEMMA SearchKeepsQueries ==
    ASSUME DOMAIN plan = DOMAIN NoPlan, phase \in Passes, QueriesKept, Search
    PROVE  QueriesKept'
<1>1. QueriesPlanned /\ SlotAwaited /\ QueriesSearched
  BY DEF QueriesKept
<1> SUFFICES QueriesPlanned' /\ SlotAwaited' /\ QueriesSearched'
  <2>1. phase' \in Passes
    BY DEF Search, LoadSection, StartSearches, BaseEnds, TranslationEnds, LookUp, AwaitBase,
         DropTranslation, SearchTranslated, TranslatedFound, PassEnds, RecoverQuery, Fail,
         Cancel, Passes
  <2> QED
    BY <2>1 DEF QueriesKept, Unplanned, Passes
<1>2. CASE LoadSection
  <2>1. /\ phase = "planned" /\ phase' = "evidence" /\ UNCHANGED <<attempt, searched, repeated>>
        /\ plan'.queries = plan.queries /\ plan'.slot = 0
    BY <1>2 DEF LoadSection, NoPlan
  <2>2. QueriesPlanned' /\ QueriesSearched'
    BY <1>1, <2>1, SameQueries
  <2> QED
    BY <2>1, <2>2 DEF SlotAwaited
<1>3. CASE StartSearches
  BY <1>1, <1>3, StartSearchesKeeps
<1>4. CASE BaseEnds \/ TranslationEnds
  <2>1. /\ UNCHANGED <<phase, plan, attempt, searched, repeated>>
        /\ translation' = "none" <=> translation = "none"
    BY <1>4 DEF BaseEnds, TranslationEnds
  <2>2. QueriesPlanned' /\ QueriesSearched'
    BY <1>1, <2>1 DEF QueriesPlanned, QueriesSearched, HasQuery
  <2> QED
    BY <1>1, <2>1, <2>2 DEF SlotAwaited
<1>5. CASE LookUp \/ AwaitBase
  <2>1. /\ UNCHANGED <<plan, attempt, searched, repeated, translation>>
        /\ phase' # "planned" /\ (phase' = "lookups" => phase = "lookups")
        /\ phase \in {"lookups", "base"} /\ phase' \in {"lookups", "base", "translation", "evidence"}
        /\ phase' = "evidence" => translation = "none"
    BY <1>5 DEF LookUp, AwaitBase
  <2>2. QueriesPlanned' /\ QueriesSearched'
    BY <1>1, <2>1, SameQueries
  <2> QED
    BY <1>1, <2>1, <2>2 DEF SlotAwaited
<1>6. CASE DropTranslation
  BY <1>1, <1>6, DropTranslationKeeps
<1>7. CASE SearchTranslated
  BY <1>1, <1>7, SearchTranslatedKeeps
<1>8. CASE TranslatedFound \/ PassEnds
  <2>1. /\ UNCHANGED <<plan, attempt, searched, repeated, translation>>
        /\ phase \in {"translated", "evidence"} /\ phase' \in {"evidence", "done"}
    BY <1>8 DEF TranslatedFound, PassEnds, planningVars
  <2>2. QueriesPlanned' /\ QueriesSearched'
    BY <1>1, <2>1, SameQueries
  <2> QED
    BY <1>1, <2>1, <2>2 DEF SlotAwaited
<1>9. CASE RecoverQuery
  BY <1>1, <1>9, RecoverQueryKeeps
<1>10. CASE Fail \/ Cancel
  <2>1. UNCHANGED <<plan, attempt, searched, repeated>> /\ phase' = "failed"
    BY <1>10 DEF Fail, Cancel
  <2>2. QueriesPlanned' /\ QueriesSearched'
    BY <1>1, <2>1, SameQueries
  <2> QED
    BY <2>1, <2>2 DEF SlotAwaited
<1> QED
  BY <1>2, <1>3, <1>4, <1>5, <1>6, <1>7, <1>8, <1>9, <1>10 DEF Search

(* Every step keeps the queries. *)
LEMMA NextQueries == PlanInv /\ QueriesKept /\ [Next]_vars => QueriesKept'
<1> SUFFICES ASSUME PlanInv, QueriesKept, [Next]_vars
             PROVE  QueriesKept'
  OBVIOUS
<1>1. phase \in Unplanned \cup Passes
  BY DEF PlanInv, TasksAwaited
<1>2. CASE (Converse /\ UNCHANGED planningVars) \/ Follow
  <2>1. phase \in {"idle", "asked", "resolved"} /\ phase' \in Unplanned
    BY <1>2 DEF Converse, Ask, Clarify, ResolveConversation, Answered, Refused, Follow, Unplanned
  <2>2. UNCHANGED <<plan, searched, repeated>>
    BY <1>2 DEF planningVars, Follow
  <2> QED
    BY <2>1, <2>2 DEF QueriesKept, Unplanned, Passes, NoPlan
<1>3. CASE PlanQueries
  BY <1>3, PlanQueriesKeeps
<1>4. CASE Search
  <2>1. phase \in Passes
    BY <1>1, <1>4 DEF PlanInv, TasksAwaited, Unplanned, Passes, Search, LoadSection, StartSearches,
         BaseEnds, TranslationEnds, LookUp, AwaitBase, DropTranslation, SearchTranslated,
         TranslatedFound, PassEnds, RecoverQuery, Fail, Cancel
  <2>2. DOMAIN plan = DOMAIN NoPlan
    BY <2>1 DEF PlanInv, PlanKept
  <2> QED
    BY <1>4, <2>1, <2>2, SearchKeepsQueries
<1>5. CASE Ended \/ UNCHANGED vars
  <2>1. UNCHANGED <<phase, plan, attempt, searched, repeated, translation>>
    BY <1>5 DEF Ended, vars, planningVars
  <2> QED
    BY <1>1, <2>1, ZenonT(30) DEF QueriesKept, QueriesPlanned, QueriesSearched, SlotAwaited, HasQuery,
         Unplanned, Passes, NoPlan
<1> QED
  BY <1>2, <1>3, <1>4, <1>5 DEF Next

(* The invariant is enough for the queries of a pass that has its          *)
(* evidence.                                                               *)
LEMMA QueriesKeptSound ==
    ASSUME phase \in Unplanned \cup Passes, QueriesKept
    PROVE  QueriesSound
<1>1. Len(<<>>) = 0 /\ MaxVariants \in Nat
  BY VariantsAssumption
<1>2. CASE phase \in Unplanned
  <2>1. searched = {} /\ ~repeated /\ plan = NoPlan /\ phase # "lookups"
    BY <1>2 DEF QueriesKept, Unplanned
  <2>2. plan.queries = <<>>
    BY <2>1 DEF NoPlan
  <2> QED
    BY <1>1, <2>1, <2>2 DEF QueriesSound
<1>3. CASE phase \in Passes
  BY <1>3 DEF QueriesKept, QueriesPlanned, QueriesSearched, QueriesSound
<1> QED
  BY <1>2, <1>3
-----------------------------------------------------------------------------
(* The theorems *)

(* The tasks and the plan are where the inductive invariant has them.       *)
THEOREM PlanInvariant == Spec => []PlanInv
<1>1. QED
  BY InitPlanInv, NextPlanInv, PTL DEF Spec

(* A request that ends well, or goes on to its evidence, has awaited every  *)
(* task it started, through any number of passes.                           *)
THEOREM OnlyFailuresLeaveTasks == Spec => []OrphansOnlyAfterFailure
<1>1. PlanInv => OrphansOnlyAfterFailure
  BY DEF PlanInv, TasksAwaited, OrphansOnlyAfterFailure
<1>2. QED
  BY <1>1, PlanInvariant, PTL

(* What is kept of the plan is enough for the scope.                        *)
LEMMA PlanInvScope == PlanInv => ScopeKept
<1> SUFFICES ASSUME PlanInv, NEW pair \in searched
             PROVE  /\ IF pair[2] = {} THEN allowed = deployment.types ELSE pair[2] \subseteq allowed
                    /\ AttachmentSearch \/ ScopeSound(pair[2], plan.wants)
  BY DEF ScopeKept, AllowedCoversSearched, ScopeSound
<1>1. phase \in Passes
  BY DEF PlanInv, PlanKept, TasksAwaited
<1>2. SearchScope = plan.types
  BY <1>1, SearchedAsPlanned DEF PlanInv
<1>3. pair[2] \in Scopes
  BY <1>1 DEF PlanInv, PlanKept
<1>4. pair[2] = plan.types \/ \E type \in plan.types : pair[2] = {type}
  BY <1>2, <1>3 DEF Scopes
<1>5. IF pair[2] = {} THEN allowed = deployment.types ELSE pair[2] \subseteq allowed
  BY <1>1, <1>4 DEF PlanInv, PlanKept
<1>6. ~AttachmentSearch => ScopeSound(pair[2], plan.wants)
  BY <1>1, <1>4 DEF PlanInv, PlanKept, ScopeSound
<1> QED
  BY <1>5, <1>6

(* The searches of every pass, recovered and translated ones included, stay *)
(* within the providers selected for the request and within what the final  *)
(* gate admits, but for attachments of issues.                              *)
THEOREM ScopeIsKept == Spec => []ScopeKept
<1>1. QED
  BY PlanInvScope, PlanInvariant, PTL

(* The conversation is as its inductive invariant has it, through any      *)
(* number of turns and for every client, window and budget.                *)
THEOREM ConversationInvariant == Spec => []ConversationInv
<1>1. QED
  BY InitConversation, NextConversation, PTL DEF Spec

(* A follow-up that is completed with a subject is about what the last     *)
(* turn was about, resolved to or carried over; an older subject is only   *)
(* returned to when the last turn named none and kept none                 *)
(* (conversation.py: _deterministic_subject, contextualize).               *)
THEOREM FollowUpsAreAboutTheLatest == Spec => []FollowsLatestSubject
<1>1. ConversationInv => FollowsLatestSubject
  <2> SUFFICES ASSUME ConversationInv, phase = "resolved", resolved.how = "suffix"
               PROVE  LET last == Last(turns)
                      IN  \/ resolved.carries \in {last.about, last.topic, last.carried}
                          \/ last.subject = NoTopic
                                /\ (last.carried = NoTopic \/ "context" \notin client)
    BY DEF FollowsLatestSubject
  <2>1. TurnsTyped /\ Remembered /\ asked \in Questions /\ resolved \in Resolutions(asked)
    BY DEF ConversationInv
  <2>2. Follows(resolved.carries)
    BY <2>1, ResolutionFacts
  <2> QED
    BY <2>2 DEF Follows, Last
<1>2. QED
  BY <1>1, ConversationInvariant, PTL

(* A rewritten question carries only what was asked or said in a turn of   *)
(* the conversation, and a complete question is never rewritten.           *)
THEOREM RewritesAreOfTheConversation == Spec => []RewrittenFromConversation
<1>1. ConversationInv => RewrittenFromConversation
  <2> SUFFICES ASSUME ConversationInv, phase = "resolved"
               PROVE  /\ resolved.carries # NoTopic =>
                            \/ resolved.carries = asked.topic
                            \/ \E i \in DOMAIN turns : resolved.carries \in
                                  turns[i].mentions \cup {turns[i].topic}
                      /\ asked.complete /\ asked.form = "plain" => resolved = Unresolved
    BY DEF RewrittenFromConversation
  <2>1. TurnsTyped /\ Remembered /\ asked \in Questions /\ resolved \in Resolutions(asked)
    BY DEF ConversationInv
  <2>2. DOMAIN turns = 1..Len(turns)
    BY <2>1, LenProperties DEF TurnsTyped
  <2>3. resolved.carries # NoTopic => resolved.carries = asked.topic \/ Said(resolved.carries)
    BY <2>1, ResolutionFacts
  <2>4. asked.complete /\ asked.form = "plain" => resolved = Unresolved
    BY <2>1, ResolutionFacts
  <2> QED
    BY <2>2, <2>3, <2>4 DEF Said
<1>2. QED
  BY <1>1, ConversationInvariant, PTL

(* The queries of every pass are as their inductive invariant has them. *)
THEOREM QueriesInvariant == Spec => []QueriesKept
<1>1. PlanInv /\ QueriesKept /\ [Next]_vars => QueriesKept'
  BY NextQueries
<1>2. QED
  BY <1>1, InitQueries, PlanInvariant, PTL DEF Spec

THEOREM QueriesAreSound == Spec => []QueriesSound
<1>1. PlanInv => phase \in Unplanned \cup Passes
  BY DEF PlanInv, TasksAwaited
<1>2. PlanInv /\ QueriesKept => QueriesSound
  BY <1>1, QueriesKeptSound
<1>3. QED
  BY <1>2, PlanInvariant, QueriesInvariant, PTL
=============================================================================
