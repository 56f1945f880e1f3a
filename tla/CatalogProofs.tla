----------------------------- MODULE CatalogProofs -----------------------------
(***************************************************************************)
(* What validation decides, for every catalog and every event: the checks  *)
(* that are behind the current stage have held, and the walk over a view's *)
(* joins has not left the group of inputs it started in.                   *)
(***************************************************************************)
EXTENDS Catalog, TLAPS

PastStream == {"joins", "views", "walk", "fields", "accepted"}

PastJoins == {"views", "walk", "fields", "accepted"}

Sound(j) == IsJoin(j) /\ WellFormed(j) /\ CardinalityHolds(j)

(* The joins before the current one are sound.                             *)
JoinsInv ==
    /\ stage = "joins" => \A k \in DOMAIN catalog.joins : k < index => Sound(catalog.joins[k])
    /\ stage \in PastJoins => \A k \in DOMAIN catalog.joins : Sound(catalog.joins[k])

(* An accepted catalog and an event share no private field.                *)
StoredInv ==
    /\ stage \in PastStream => Stream \in DOMAIN catalog.datasets /\ NothingLeaks
    /\ DOMAIN stored \cap Forbidden = {}
    /\ Stream \in DOMAIN catalog.datasets => DOMAIN stored \subseteq StreamFields
    /\ \A n \in DOMAIN stored : stored[n] # "other"

Crosses(j, S) == Participants(j) \cap S # {} /\ Participants(j) \ S # {}

(* The walk has seen the neighbours of the inputs it visited, and a group  *)
(* of inputs no join crosses holds all it has seen or none of it.          *)
Seen == visited \cup pending

WalkInv ==
    stage = "walk" =>
        /\ index \in DOMAIN catalog.views
        /\ Declared(TheView)
        /\ Seen # {}
        /\ Seen \subseteq TheView.inputs
        /\ \A d \in visited : Adjacent(TheView, d) \subseteq Seen
        /\ \A S \in SUBSET TheView.inputs :
              (\A j \in JoinsOf(TheView) : ~Crosses(j, S)) =>
                  Seen \subseteq S \/ Seen \cap S = {}

CatalogInv == TypeOK /\ JoinsInv /\ StoredInv /\ WalkInv /\ WalkDecidesConnectivity

-----------------------------------------------------------------------------
(* Before the first check nothing is known and nothing stored.             *)
LEMMA CatalogInitially == Init => CatalogInv
  BY CatalogsAssumption
     DEF Init, CatalogInv, TypeOK, Codes, JoinsInv, PastStream, PastJoins, StoredInv,
         WalkInv, WalkDecidesConnectivity, NoFields

(* A refusal outside the walk only sets the code.                          *)
LEMMA RefusalKeeps ==
    ASSUME CatalogInv, NEW c \in Codes, Refuse(c), stage # "walk"
    PROVE  CatalogInv'
  BY DEF Refuse, CatalogInv, TypeOK, JoinsInv, PastStream, PastJoins, StoredInv, Sound,
         WalkInv, WalkDecidesConnectivity, NothingLeaks, StreamFields, CardinalityHolds,
         Unique, TheView, Connected, JoinsOf

(* The steps up to the views.                                              *)
LEMMA GotoKeeps ==
    ASSUME CatalogInv, NEW s, NEW i \in Nat \ {0}, Goto(s, i),
           s \in {"datasets", "stream", "joins", "views", "fields", "accepted"},
           s \in PastStream => Stream \in DOMAIN catalog.datasets /\ NothingLeaks,
           s = "joins" =>
               \A k \in DOMAIN catalog.joins : k < i => Sound(catalog.joins[k]),
           s \in PastJoins => \A k \in DOMAIN catalog.joins : Sound(catalog.joins[k]),
           s = "fields" => i = index /\ Connected(TheView)
    PROVE  CatalogInv'
  <1> USE DEF CatalogInv, Goto
  <1>1. TypeOK'
    BY DEF TypeOK
  <1>2. JoinsInv'
    BY DEF JoinsInv, Sound, CardinalityHolds, Unique, PastJoins
  <1>3. StoredInv'
    BY DEF StoredInv, NothingLeaks, StreamFields, PastStream
  <1>4. WalkInv'
    BY DEF WalkInv
  <1>5. WalkDecidesConnectivity'
    BY DEF WalkDecidesConnectivity, Connected, TheView, JoinsOf
  <1>. QED
    BY <1>1, <1>2, <1>3, <1>4, <1>5

(* A projection leaves validation alone, and stores fields of the contract *)
(* only, each with a value of its type.                                    *)
LEMMA ProjectKeeps ==
    ASSUME CatalogInv, NEW e \in Events, Project(e)
    PROVE  CatalogInv'
  <1> USE DEF CatalogInv, Project
  <1>1. TypeOK'
    BY EventsAssumption DEF TypeOK
  <1>2. JoinsInv'
    BY DEF JoinsInv, Sound, CardinalityHolds, Unique, PastJoins
  <1>3. StoredInv'
    BY EventsAssumption
       DEF StoredInv, NothingLeaks, StreamFields, PastStream, Contract, Fits
  <1>4. WalkInv' /\ WalkDecidesConnectivity'
    BY DEF WalkInv, WalkDecidesConnectivity, Connected, TheView, JoinsOf, Seen, Adjacent,
           Declared, Single
  <1>. QED
    BY <1>1, <1>2, <1>3, <1>4

-----------------------------------------------------------------------------
(* A declared join is between inputs of the view: one that crosses a group *)
(* of inputs is an edge out of it.                                         *)
LEMMA CrossingIsAdjacent ==
    ASSUME NEW v, Declared(v), NEW S, NEW j \in JoinsOf(v), Crosses(j, S)
    PROVE  \E x \in S, y \in v.inputs \ S : y \in Adjacent(v, x)
  <1>1. PICK x \in Participants(j), y \in Participants(j) : x \in S /\ y \notin S
    BY DEF Crosses
  <1>2. Participants(j) = {x, y} /\ x # y
    BY <1>1 DEF Participants
  <1>3. y \in v.inputs
    BY <1>1 DEF Declared
  <1>. QED
    BY <1>1, <1>2, <1>3 DEF Adjacent

(* ... and the neighbours of an input are on its side of a group no join   *)
(* crosses.                                                                *)
LEMMA AdjacentIsUncrossed ==
    ASSUME NEW v, NEW S, \A j \in JoinsOf(v) : ~Crosses(j, S),
           NEW x, NEW y \in Adjacent(v, x)
    PROVE  x \in S <=> y \in S
  BY DEF Adjacent, Crosses

(* The view of an index in range is one.                                   *)
LEMMA ViewIsTyped ==
    ASSUME TypeOK, NEW i \in DOMAIN catalog.views
    PROVE  IsView(catalog.views[i])
  BY DEF TypeOK, IsCatalog

(* Opening a view of several inputs begins its walk at one of them.        *)
LEMMA OpenKeeps ==
    ASSUME CatalogInv, OpenGraph
    PROVE  CatalogInv'
  <1>1. PICK d \in TheView.inputs : pending' = {d}
    BY DEF OpenGraph
  <1>2. index \in DOMAIN catalog.views /\ TheView' = TheView
    BY DEF OpenGraph, NextView, CatalogInv, TypeOK, IsCatalog, TheView
  <1>3. IsView(TheView)
    BY <1>2, ViewIsTyped DEF CatalogInv, TheView
  <1>4. TypeOK'
    BY <1>1, <1>3 DEF OpenGraph, CatalogInv, TypeOK, IsView
  <1>5. JoinsInv' /\ StoredInv'
    BY DEF OpenGraph, NextView, At, CatalogInv, JoinsInv, StoredInv, NothingLeaks,
           StreamFields, Sound, CardinalityHolds, Unique, PastJoins, PastStream
  <1>6. Seen' = {d} /\ visited' = {} /\ JoinsOf(TheView)' = JoinsOf(TheView)
    BY <1>1, <1>2 DEF OpenGraph, Seen, JoinsOf
  <1>7. Declared(TheView)'
    BY <1>2, <1>6 DEF OpenGraph, Declared, Single
  <1>8. WalkInv'
    BY <1>1, <1>2, <1>6, <1>7 DEF OpenGraph, WalkInv
  <1>9. WalkDecidesConnectivity'
    BY DEF OpenGraph, NextView, At, WalkDecidesConnectivity
  <1>. QED
    BY <1>4, <1>5, <1>8, <1>9 DEF CatalogInv

(* A visit of one input keeps what the walk knows.                         *)
LEMMA VisitKeeps ==
    ASSUME CatalogInv, Visit
    PROVE  CatalogInv'
  <1> DEFINE v == TheView
  <1>1. PICK d \in pending : /\ visited' = visited \cup {d}
                             /\ pending' = (pending \ {d}) \cup (Adjacent(v, d) \ visited')
    BY DEF Visit
  <1>2. stage = "walk" /\ index \in DOMAIN catalog.views /\ Declared(v)
        /\ Seen \subseteq v.inputs
    BY DEF Visit, At, CatalogInv, WalkInv
  <1>3. IsView(v)
    BY <1>2, ViewIsTyped DEF CatalogInv, TheView
  <1>4. Seen' = Seen \cup Adjacent(v, d) /\ Adjacent(v, d) \subseteq v.inputs
    BY <1>1 DEF Seen, Adjacent
  <1>5. /\ v' = v /\ JoinsOf(v)' = JoinsOf(v) /\ Declared(v)' = Declared(v)
        /\ \A x : Adjacent(v, x)' = Adjacent(v, x)
    BY DEF Visit, TheView, JoinsOf, Declared, Single, Adjacent
  <1>6. TypeOK'
    BY <1>1, <1>2, <1>3, <1>4 DEF Visit, CatalogInv, TypeOK, IsView, Seen
  <1>7. JoinsInv' /\ StoredInv'
    BY DEF Visit, CatalogInv, JoinsInv, StoredInv, NothingLeaks, StreamFields, Sound,
           CardinalityHolds, Unique, PastJoins, PastStream
  <1>8. WalkInv'
    <2>1. \A x \in visited' : Adjacent(v, x) \subseteq Seen'
      BY <1>1, <1>2, <1>4 DEF CatalogInv, WalkInv
    <2>2. ASSUME NEW S \in SUBSET v.inputs, \A j \in JoinsOf(v) : ~Crosses(j, S)
          PROVE  Seen' \subseteq S \/ Seen' \cap S = {}
      <3>1. Seen \subseteq S \/ Seen \cap S = {}
        BY <1>2, <2>2 DEF CatalogInv, WalkInv
      <3>2. \A y \in Adjacent(v, d) : d \in S <=> y \in S
        BY <2>2, AdjacentIsUncrossed
      <3>3. d \in Seen
        BY <1>1 DEF Seen
      <3>. QED
        BY <1>4, <3>1, <3>2, <3>3
    <2>. QED
      BY <1>2, <1>4, <1>5, <2>1, <2>2 DEF Visit, WalkInv, CatalogInv
  <1>9. WalkDecidesConnectivity'
    BY <1>2 DEF Visit, At, WalkDecidesConnectivity
  <1>. QED
    BY <1>6, <1>7, <1>8, <1>9 DEF CatalogInv

(* A walk that visited every input found the view connected ...            *)
LEMMA WalkConnects ==
    ASSUME CatalogInv, Connects
    PROVE  Connected(TheView)
  <1> SUFFICES ASSUME NEW S \in (SUBSET TheView.inputs) \ {{}, TheView.inputs},
                      \A j \in JoinsOf(TheView) : ~Crosses(j, S)
               PROVE  FALSE
    BY DEF Connected, Crosses
  <1>. QED
    BY DEF CatalogInv, WalkInv, Connects, At, Seen

(* ... and one that did not has found a group of inputs left apart.        *)
LEMMA WalkDisconnects ==
    ASSUME CatalogInv, DoesNotConnect
    PROVE  ~Connected(TheView)
  <1>1. /\ Declared(TheView) /\ Seen = visited /\ visited # {}
        /\ visited \subseteq TheView.inputs /\ visited # TheView.inputs
        /\ \A d \in visited : Adjacent(TheView, d) \subseteq visited
    BY DEF CatalogInv, WalkInv, DoesNotConnect, At, Seen
  <1>2. \A j \in JoinsOf(TheView) : ~Crosses(j, visited)
    BY <1>1, CrossingIsAdjacent
  <1>. QED
    BY <1>1, <1>2 DEF Connected, Crosses

-----------------------------------------------------------------------------
(* Every check keeps the invariant.                                        *)
LEMMA CheckKeeps ==
    ASSUME CatalogInv, Check
    PROVE  CatalogInv'
  <1>1. CASE CheckPrivacy \/ CheckDatasets
    BY <1>1, GotoKeeps DEF CheckPrivacy, CheckDatasets, PastStream, PastJoins
  <1>2. CASE CheckStream
    <2>1. \A k \in DOMAIN catalog.joins : ~(k < 1)
      BY DEF CatalogInv, TypeOK, IsCatalog
    <2>. QED
      BY <1>2, <2>1, GotoKeeps DEF CheckStream, PastJoins
  <1>3. CASE CheckJoin
    <2>1. stage = "joins" /\ index \in DOMAIN catalog.joins /\ index \in Nat \ {0}
      BY <1>3 DEF CheckJoin, NextJoin, At, CatalogInv, TypeOK, IsCatalog
    <2>2. Sound(catalog.joins[index])
      BY <1>3, <2>1 DEF CheckJoin, Sound, CatalogInv, TypeOK, IsCatalog
    <2>3. \A k \in DOMAIN catalog.joins : k < index + 1 => Sound(catalog.joins[k])
      <3>1. \A k \in DOMAIN catalog.joins : k < index + 1 => k < index \/ k = index
        BY <2>1 DEF CatalogInv, TypeOK, IsCatalog
      <3>. QED
        BY <2>1, <2>2, <3>1 DEF CatalogInv, JoinsInv
    <2>4. Stream \in DOMAIN catalog.datasets /\ NothingLeaks
      BY <2>1 DEF CatalogInv, StoredInv, PastStream
    <2>. QED
      BY <1>3, <2>1, <2>3, <2>4, GotoKeeps DEF CheckJoin, PastJoins
  <1>4. CASE JoinsChecked
    <2>1. \A k \in DOMAIN catalog.joins : Sound(catalog.joins[k])
      BY <1>4 DEF JoinsChecked, At, CatalogInv, JoinsInv, TypeOK, IsCatalog
    <2>2. Stream \in DOMAIN catalog.datasets /\ NothingLeaks
      BY <1>4 DEF JoinsChecked, At, CatalogInv, StoredInv, PastStream
    <2>. QED
      BY <1>4, <2>1, <2>2, GotoKeeps DEF JoinsChecked
  <1>5. ASSUME stage \in PastJoins
        PROVE  /\ \A k \in DOMAIN catalog.joins : Sound(catalog.joins[k])
               /\ Stream \in DOMAIN catalog.datasets /\ NothingLeaks
               /\ index \in Nat \ {0} /\ index + 1 \in Nat \ {0}
    BY <1>5 DEF CatalogInv, JoinsInv, StoredInv, TypeOK, PastStream, PastJoins
  <1>6. CASE OpenSingle
    <2>1. Connected(TheView)
      BY <1>6 DEF OpenSingle, Single, Connected
    <2>2. stage \in PastJoins
      BY <1>6 DEF OpenSingle, NextView, At, PastJoins
    <2>. QED
      BY <1>5, <1>6, <2>1, <2>2, GotoKeeps DEF OpenSingle
  <1>7. CASE Connects
    <2>1. stage \in PastJoins
      BY <1>7 DEF Connects, At, PastJoins
    <2>. QED
      BY <1>5, <1>7, <2>1, WalkConnects, GotoKeeps DEF Connects
  <1>8. CASE CheckFields \/ Accept
    <2>1. stage \in PastJoins
      BY <1>8 DEF CheckFields, Accept, At, PastJoins
    <2>. QED
      BY <1>5, <1>8, <2>1, GotoKeeps DEF CheckFields, Accept
  <1>9. CASE OpenGraph \/ Visit
    BY <1>9, OpenKeeps, VisitKeeps
  <1>10. CASE DoesNotConnect
    <2>1. ~Connected(TheView) /\ stage = "walk"
      BY <1>10, WalkDisconnects DEF DoesNotConnect, At
    <2>2. TypeOK' /\ WalkDecidesConnectivity'
      BY <1>10, <2>1 DEF DoesNotConnect, Refuse, CatalogInv, TypeOK, Codes,
                         WalkDecidesConnectivity, Connected, TheView, JoinsOf
    <2>3. JoinsInv' /\ StoredInv'
      BY <1>10 DEF DoesNotConnect, Refuse, CatalogInv, JoinsInv, StoredInv, NothingLeaks,
                   StreamFields, Sound, CardinalityHolds, Unique, PastJoins, PastStream
    <2>4. WalkInv'
      BY <1>10 DEF DoesNotConnect, Refuse, CatalogInv, WalkInv, Seen, TheView, Declared,
                   Single, Adjacent, JoinsOf
    <2>. QED
      BY <2>2, <2>3, <2>4 DEF CatalogInv
  <1>11. CASE \/ PrivacyMissing \/ RefuseDatasets \/ RefuseStream \/ RefuseJoin \/ NoJoins
              \/ ViewUndeclared \/ FieldsUndeclared \/ NoViews
    BY <1>11, RefusalKeeps
       DEF PrivacyMissing, RefuseDatasets, RefuseStream, RefuseJoin, NoJoins, ViewUndeclared,
           FieldsUndeclared, NoViews, NextJoin, NextView, At, Fault, Codes
  <1>. QED
    BY ONLY Check, <1>1, <1>2, <1>3, <1>4, <1>6, <1>7, <1>8, <1>9, <1>10, <1>11 DEF Check

(* What is behind the current stage has held, at every step.               *)
THEOREM CatalogInvariance == Spec => []CatalogInv
  <1>1. CatalogInv /\ UNCHANGED vars => CatalogInv'
    BY DEF vars, CatalogInv, TypeOK, JoinsInv, StoredInv, NothingLeaks, StreamFields, Sound,
           CardinalityHolds, Unique, WalkInv, WalkDecidesConnectivity, Seen, TheView,
           Declared, Single, Adjacent, JoinsOf, Connected
  <1>2. CatalogInv /\ [Next]_vars => CatalogInv'
    BY <1>1, CheckKeeps, ProjectKeeps DEF Next
  <1>. QED
    BY CatalogInitially, <1>2, PTL DEF Spec

-----------------------------------------------------------------------------
(* Type correctness of validation and projection.                          *)
THEOREM CatalogTypeCorrect == Spec => []TypeOK
  BY CatalogInvariance, PTL DEF CatalogInv

(* The walk over the joins of a view decides whether they connect it, in   *)
(* any order, from any start and over any number of inputs.                *)
THEOREM WalkIsExact == Spec => []WalkDecidesConnectivity
  BY CatalogInvariance, PTL DEF CatalogInv

(* A sound join keeps its cardinality on every row.                        *)
LEMMA SoundKeepsRows ==
    ASSUME NEW j, Sound(j)
    PROVE  /\ AtMostOneRight(j)
           /\ j.cardinality # "many_to_one" => AtMostOneLeft(j)
  <1>1. DOMAIN j.left = DOMAIN j.right
    BY DEF Sound, IsJoin, WellFormed
  <1>2. AtMostOneRight(j)
    BY <1>1 DEF Sound, CardinalityHolds, Unique, FieldsOf, AtMostOneRight, Meet, SameKey
  <1>3. ASSUME j.cardinality # "many_to_one"
        PROVE  AtMostOneLeft(j)
    BY <1>1, <1>3 DEF Sound, CardinalityHolds, Unique, FieldsOf, AtMostOneLeft, Meet, SameKey
  <1>. QED
    BY <1>2, <1>3

(* No join of an accepted catalog multiplies rows, whatever rows hold.     *)
THEOREM AcceptedJoinsKeepRows == Spec => []JoinsKeepRows
  <1>1. CatalogInv => JoinsKeepRows
    BY SoundKeepsRows DEF CatalogInv, JoinsInv, PastJoins, JoinsKeepRows, Range
  <1>. QED
    BY <1>1, CatalogInvariance, PTL

(* What the projection stores has no private field, of either list.        *)
THEOREM PrivateIsNeverStored == Spec => []PrivateFieldsStayOut
  <1>1. CatalogInv => PrivateFieldsStayOut
    BY DEF CatalogInv, StoredInv, PastStream, NothingLeaks, PrivateFieldsStayOut
  <1>. QED
    BY <1>1, CatalogInvariance, PTL
=============================================================================
