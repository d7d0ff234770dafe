-------------------------- MODULE AnnotationStore --------------------------
(***************************************************************************)
(* The append-only stores of gold annotation: AnnotationStore with its     *)
(* retirements (annotation/store.py), ReviewStore and DeepReviewStore      *)
(* (annotation/review.py).                                                 *)
(*                                                                         *)
(* An annotation carries its predecessor in place of the predecessor's id, *)
(* so it stands for its own content hash: writing the same content twice   *)
(* is one record. Directories are read in the order of the hashes, which   *)
(* has nothing to do with the order of writing: a new record is inserted   *)
(* anywhere, and keeps its place. A record without gold is one whose       *)
(* question is expected to be refused; it stays without gold.              *)
(***************************************************************************)
EXTENDS Naturals, FiniteSets, SequencesExt

CONSTANTS
    Item,
    Clause,         \* the clauses of the corpus
    Drafted,        \* the gold a proposal may be drafted with
    NoAnnotation

ASSUME AnnotationAssumption == Drafted \subseteq SUBSET Clause

VARIABLES
    annos,          \* the stored annotations of each item, in hash order
    retired,        \* the items with a retirement
    reviews,        \* ReviewStore
    findings        \* DeepReviewStore

annotationVars == <<annos, retired, reviews, findings>>

\* The annotations of an item: a root, or an amendment of a stored one.
Annotation(i) ==
    [item : {i}, gold : SUBSET Clause, via : {"root"}, pred : {NoAnnotation}]
    \cup [item : {i}, gold : SUBSET Clause, via : {"pool", "deep"}, pred : ToSet(annos[i])]

AnnotationInit ==
    /\ annos = [i \in Item |-> <<>>]
    /\ retired = {} /\ reviews = {} /\ findings = {}

AnnotationTypeOK ==
    /\ annos \in [Item -> Seq(UNION {Annotation(i) : i \in Item})]
    /\ \A i \in Item : ToSet(annos[i]) \subseteq Annotation(i)
    /\ retired \subseteq Item
    /\ \A v \in reviews : v.item \in Item
    /\ \A f \in findings :
         \E i \in Item : f.anno \in ToSet(annos[i]) /\ f.added \subseteq Clause
-----------------------------------------------------------------------------
\* The directories after x has been written: unchanged if it is there.
Insertions(s, x) ==
    IF x \in ToSet(s) THEN {s} ELSE {InsertAt(s, n, x) : n \in 1..Len(s) + 1}

StoredAnnotations == UNION {ToSet(annos[i]) : i \in Item}

\* _heads and _annotation_heads: the records nothing names as predecessor.
HeadsOf(i) == {a \in ToSet(annos[i]) : \A b \in ToSet(annos[i]) : b.pred # a}

\* _annotation_heads raises for an item with two heads.
HeadsReadable == \A i \in Item : Cardinality(HeadsOf(i)) <= 1

CurrentHead(i) == IF HeadsOf(i) = {} THEN NoAnnotation
                  ELSE CHOOSE a \in HeadsOf(i) : TRUE

RootRecord(i, g) == [item |-> i, gold |-> g, via |-> "root", pred |-> NoAnnotation]

\* create: one root for an item, and a replay of the same root is accepted.
MayCreate(a) == \A b \in ToSet(annos[a.item]) : b.pred = NoAnnotation => b = a

Create(a) ==
    /\ MayCreate(a)
    /\ \E s \in Insertions(annos[a.item], a) : annos' = [annos EXCEPT ![a.item] = s]

\* amend copies the record it is given; nothing asks whether it is a head.
\* _enforce_answerability refuses gold for an expected refusal.
Successor(a, added, via) ==
    [item |-> a.item, gold |-> a.gold \cup added, via |-> via, pred |-> a]

Amend(a, added, via) ==
    /\ a.gold # {} \/ added = {}
    /\ \E s \in Insertions(annos[a.item], Successor(a, added, via)) :
         annos' = [annos EXCEPT ![a.item] = s]

\* retire, given the head that it reads as the item's current one.
Retire(i) ==
    /\ i \notin retired
    /\ HeadsOf(i) # {}
    /\ retired' = retired \cup {i}
    /\ UNCHANGED <<annos, reviews, findings>>
=============================================================================
