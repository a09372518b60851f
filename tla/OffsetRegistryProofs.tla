------------------------ MODULE OffsetRegistryProofs ------------------------
(***************************************************************************)
(* What the searches of the offset registry return, for every registry.    *)
(***************************************************************************)
EXTENDS OffsetRegistry, WellFoundedInduction, TLAPS

-----------------------------------------------------------------------------
(* The least and the greatest element of a set of positions.               *)

LEMMA MinIsLeast ==
  ASSUME NEW S \in SUBSET Nat, S # {}
  PROVE  /\ Min(S) \in S
         /\ \A y \in S : Min(S) <= y
<1> DEFINE Less == {ss \in Nat \X Nat : ss[1] < ss[2]}
<1>1. IsWellFoundedOn(Less, Nat)
  BY NatLessThanWellFounded DEF OpToRel
<1>2. PICK x \in S : \A y \in S : ~(<<y, x>> \in Less)
  <2> HIDE DEF Less
  <2> QED
    BY <1>1, WFMin
<1>3. \A y \in S : x <= y
  <2> SUFFICES ASSUME NEW y \in S PROVE x <= y
    OBVIOUS
  <2>1. <<y, x>> \notin Less
    BY <1>2
  <2> QED
    BY <2>1
<1> QED
  BY <1>3 DEF Min

LEMMA MaxIsGreatest ==
  ASSUME NEW n \in Nat, NEW S \in SUBSET (0 .. n), S # {}
  PROVE  /\ Max(S) \in S
         /\ \A y \in S : y <= Max(S)
<1> DEFINE R == {n - y : y \in S}
<1>1. R \in SUBSET Nat /\ R # {}
  <2>1. \A y \in S : n - y \in Nat
    <3> SUFFICES ASSUME NEW y \in S PROVE n - y \in Nat
      OBVIOUS
    <3>1. y \in Int /\ y <= n
      OBVIOUS
    <3> QED
      BY <3>1
  <2>2. R \in SUBSET Nat
    BY <2>1, Zenon
  <2>3. PICK y \in S : TRUE
    BY Zenon
  <2>4. n - y \in R
    BY Zenon
  <2> QED
    BY <2>2, <2>4, Zenon
<1>2. Min(R) \in R /\ \A z \in R : Min(R) <= z
  BY <1>1, MinIsLeast
<1>3. PICK x \in S : Min(R) = n - x
  BY <1>2
<1>4. \A y \in S : y <= x
  <2> SUFFICES ASSUME NEW y \in S PROVE y <= x
    OBVIOUS
  <2>1. n - y \in R
    BY Zenon
  <2>2. n - x <= n - y
    BY <1>2, <1>3, <2>1
  <2> QED
    BY <2>2
<1> QED
  BY <1>4 DEF Max

-----------------------------------------------------------------------------
(* The searches.                                                           *)

(* searchForIndex returns the first position whose row has the key, or -1  *)
(* (NotFound) when no row has it.                                          *)
THEOREM SearchForIndexIsFirst ==
  ASSUME registry \in Seq(OffsetRow), NEW r
  PROVE  /\ SearchForIndex(r) \in 0 .. Len(registry)
         /\ SearchForIndex(r) = NotFound =>
              \A i \in 1 .. Len(registry) : ~SameKey(registry[i], r)
         /\ SearchForIndex(r) # NotFound =>
              /\ SameKey(registry[SearchForIndex(r)], r)
              /\ \A i \in 1 .. Len(registry) :
                   SameKey(registry[i], r) => SearchForIndex(r) <= i
<1> DEFINE found == {i \in 1 .. Len(registry) : SameKey(registry[i], r)}
<1>1. CASE found = {}
  <2>1. SearchForIndex(r) = NotFound
    BY <1>1 DEF SearchForIndex
  <2> QED
    BY <1>1, <2>1 DEF NotFound
<1>2. CASE found # {}
  <2>1. found \in SUBSET Nat
    OBVIOUS
  <2>2. Min(found) \in found /\ \A i \in found : Min(found) <= i
    BY <1>2, <2>1, MinIsLeast
  <2>3. SearchForIndex(r) = Min(found)
    BY <1>2 DEF SearchForIndex
  <2> HIDE DEF found
  <2>4. SearchForIndex(r) \in 1 .. Len(registry) /\ SameKey(registry[SearchForIndex(r)], r)
    BY <2>2, <2>3 DEF found
  <2>5. \A i \in 1 .. Len(registry) : SameKey(registry[i], r) => SearchForIndex(r) <= i
    BY <2>2, <2>3 DEF found
  <2> QED
    BY <2>4, <2>5 DEF NotFound
<1> QED
  BY <1>1, <1>2

(* While every row was made on one node, the vector search with that node  *)
(* finds exactly the rows of the topic and type, although it compares the  *)
(* node id of the first one only.                                          *)
THEOREM VectorSearchIsExact ==
  ASSUME registry \in Seq(OffsetRow), NEW t, NEW node, NEW type,
         \A i \in 1 .. Len(registry) : registry[i].nodeId = node
  PROVE  SearchByCriteriaVector(t, node, type) =
           {i \in 1 .. Len(registry) : registry[i].topic = t /\ registry[i].type = type}
<1> DEFINE ofType == {i \in 1 .. Len(registry) :
                        registry[i].topic = t /\ registry[i].type = type}
           onNode == {i \in ofType : registry[i].nodeId = node}
<1>1. onNode = ofType
  OBVIOUS
<1>2. SearchByCriteriaVector(t, node, type) =
        IF onNode = {} THEN {} ELSE {i \in ofType : i >= Min(onNode)}
  BY DEF SearchByCriteriaVector
<1>3. CASE ofType = {}
  BY <1>1, <1>2, <1>3
<1>4. CASE ofType # {}
  <2>1. ofType \in SUBSET Nat
    OBVIOUS
  <2>2. \A i \in ofType : Min(ofType) <= i /\ Min(ofType) \in Nat /\ i \in Nat
    BY <1>4, <2>1, MinIsLeast
  <2>3. SearchByCriteriaVector(t, node, type) = {i \in ofType : i >= Min(ofType)}
    BY <1>1, <1>2, <1>4
  <2> HIDE DEF ofType
  <2> QED
    BY <2>2, <2>3 DEF ofType
<1> QED
  BY <1>3, <1>4

(* The last row the vector search finds is a row of the topic and type,    *)
(* whatever the nodes of the rows.                                         *)
THEOREM VectorSearchLast ==
  ASSUME registry \in Seq(OffsetRow), NEW t, NEW node, NEW type,
         SearchByCriteriaVector(t, node, type) # {}
  PROVE  LET last == Max(SearchByCriteriaVector(t, node, type))
         IN  /\ last \in 1 .. Len(registry)
             /\ registry[last].topic = t
             /\ registry[last].type = type
<1> DEFINE found == SearchByCriteriaVector(t, node, type)
           ofType == {i \in 1 .. Len(registry) :
                        registry[i].topic = t /\ registry[i].type = type}
<1>1. found \subseteq ofType
  BY DEF SearchByCriteriaVector
<1>2. found \in SUBSET (0 .. Len(registry)) /\ Len(registry) \in Nat
  BY <1>1
<1>3. Max(found) \in found
  BY <1>2, MaxIsGreatest
<1> QED
  BY <1>1, <1>3

=============================================================================
