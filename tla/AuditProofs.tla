---------------------------- MODULE AuditProofs ----------------------------
(***************************************************************************)
(* Proofs about GoldAudit. The stores only grow, and a session holds what  *)
(* it read of them and what it has written: that is enough for the order   *)
(* of the records and for what a seal names, although a check may be stale *)
(* when the write that it was made for happens. Nothing is claimed about   *)
(* which decisions stand.                                                  *)
(***************************************************************************)
EXTENDS GoldAudit, SequenceTheorems, WellFoundedInduction, TLAPS

\* The stored decisions that are judgements.
Judgements == {d \in StoredDecisions : ~Blocked(d)}

\* What a decision says of itself, whatever is stored.
Formed(d) ==
    /\ d.item \in DOMAIN d.run /\ d.anno = d.run[d.item]
    /\ d.outcome \in Outcome /\ d.sel \subseteq Clause /\ d.by \in Stamp
    /\ (d.sel # {}) <=> (d.outcome = "extended")

\* What applying a decision makes of its annotation.
Effect(d) == Successor(d.anno, d.sel, "pool")

\* The parts of the invariant speak of the stored annotations A, the stored
\* decisions D, the judgements H, the runs R, the retired items G, the
\* applications P, the findings F and the reviews V.

Annotations(A) ==
    [item : Item, gold : SUBSET Clause, via : {"root"}, pred : {NoAnnotation}]
    \cup [item : Item, gold : SUBSET Clause, via : {"pool", "deep"}, pred : A]

\* Every amendment has a stored predecessor, and its evidence.
Evidence(A, H, F, V) ==
    /\ A \subseteq Annotations(A)
    /\ \A a \in A :
         /\ a.via # "root" => a.pred.item = a.item
         /\ a.via = "pool" => \E d \in H : Effect(d) = a /\ d.sel \cap d.anno.gold = {}
         /\ a.via = "deep" => [anno |-> a.pred, added |-> a.gold \ a.pred.gold] \in F
    /\ \A v \in V : v.item \in Item /\ (v.anno # NoAnnotation => v.anno \in A)
    /\ \A f \in F : f.anno \in A /\ f.added \subseteq Clause

Registered(r, A) == \A i \in DOMAIN r : i \in Item /\ r[i] \in A /\ r[i].item = i

\* Each enumeration lists the records of its item.
AnnoShelf ==
    /\ annos \in [Item -> Seq(StoredAnnotations)]
    /\ \A i \in Item : \A a \in ToSet(annos[i]) : a.item = i

DecShelf ==
    /\ decs \in [Item -> Seq(StoredDecisions)]
    /\ \A i \in Item : \A d \in ToSet(decs[i]) : d.item = i

Recorded(D, R) == \A d \in D : d.run \in R /\ Formed(d)

Replaced(S, D) == \A s \in S : s.old \in D /\ s.new \in D /\ Blocked(s.old)

Applied(P, H, A) ==
    \A a \in P : /\ a = [dec |-> a.dec, succ |-> Effect(a.dec)]
                 /\ a.dec \in H /\ a.succ = Effect(a.dec) /\ a.succ \in A

\* The named decisions certify a run: about each item that is not retired they
\* hold one, which is a judgement and was applied.
Certified(run, named, G, P) ==
    \A i \in DOMAIN run \ G : \E d \in named :
      /\ \A e \in named : e.item = i => e = d
      /\ d.run = run /\ d.item = i /\ ~Blocked(d)
      /\ \E a \in P : a.dec = d

Sealed ==
    \A s \in seals : /\ s.run \in runs /\ s.decs \subseteq StoredDecisions
                     /\ Certified(s.run, s.decs, retired, apps)

AuthorOK(u, A, F) ==
    /\ u = [at |-> u.at, anno |-> u.anno, added |-> u.added, run |-> u.run]
    /\ u.at \in {"idle", "reviewed", "reading", "found", "registering"}
    /\ u.at \in {"reviewed", "reading", "found"} => u.anno \in A
    /\ u.at = "found" => /\ u.added \subseteq Clause /\ u.added \cap u.anno.gold = {}
                         /\ [anno |-> u.anno, added |-> u.added] \in F
    /\ u.at = "registering" => Registered(u.run, A)

\* A listing of the decisions, as it was when it was read.
Known(known, D) ==
    \A i \in Item : known[i] \in Seq(D) /\ \A d \in ToSet(known[i]) : d.item = i

\* What a session saw of the heads.
Seen(seen, run, D) ==
    /\ DOMAIN seen = DOMAIN run
    /\ \A i \in DOMAIN run : seen[i] # NoDecision =>
         seen[i] \in D /\ seen[i].run = run /\ seen[i].item = i

\* Where a session holds a listing, has not yet seen the heads, works on an
\* item, has an answer, and has seen that the answer adds no gold twice.
Listing == {"supersessions", "swapping", "comparing", "blocked", "applying", "checking"}
Starting == {"idle", "heads", "decisions", "supersessions"}
Replacing == {"replacing", "swapping", "replaced", "superseding"}
Recording == {"comparing", "writing", "decided", "amended"}
Answered == Replacing \cup Recording \cup {"deciding"}

SessionOK(s, D, H, A, R, G, P) ==
    /\ s \in [at : {s.at}, run : {s.run}, heads : {s.heads}, seen : {s.seen},
              known : {s.known}, gone : {s.gone}, applied : {s.applied}, todo : {s.todo},
              item : {s.item}, old : {s.old}, dec : {s.dec}]
    /\ s.at \in SessionPc
    /\ s.at # "idle" =>
         /\ s.run \in R /\ s.todo \subseteq DOMAIN s.run /\ s.gone \subseteq G
         /\ s.applied \subseteq D /\ \A d \in s.applied : \E a \in P : a.dec = d
    /\ IF s.at \in Listing THEN Known(s.known, D) ELSE s.known = <<>>
    /\ s.at \notin Starting => Seen(s.seen, s.run, D)
    /\ s.at \in Answered \cup {"asked"} => s.item \in DOMAIN s.run
    /\ s.at \in Replacing \/ (s.at = "asked" /\ s.old # NoDecision) =>
         s.old \in D /\ Blocked(s.old)
    /\ s.at \in Answered => Formed(s.dec) /\ s.dec.run = s.run /\ s.dec.item = s.item
    /\ s.at = "superseding" => s.dec \in D
    /\ s.at \in Recording => s.dec.sel \cap s.dec.anno.gold = {}
    /\ s.at \in {"decided", "amended"} => s.dec \in H
    /\ s.at = "amended" => Effect(s.dec) \in A
    /\ s.at = "signing" => Certified(s.run, s.applied, G, P)

SessionsOK ==
    /\ DOMAIN session = Reviewer
    /\ \A r \in Reviewer : SessionOK(session[r], StoredDecisions, Judgements,
                                      StoredAnnotations, runs, retired, apps)

StoreInv ==
    /\ AnnoShelf /\ DecShelf /\ retired \subseteq Item
    /\ Evidence(StoredAnnotations, Judgements, findings, reviews)
    /\ \A r \in runs : Registered(r, StoredAnnotations)
    /\ Recorded(StoredDecisions, runs)
    /\ Replaced(supers, StoredDecisions)
    /\ Applied(apps, Judgements, StoredAnnotations)
    /\ Sealed

GoldInv ==
    /\ StoreInv
    /\ AuthorOK(author, StoredAnnotations, findings)
    /\ SessionsOK
    /\ opens \in 0..MaxOpens
-----------------------------------------------------------------------------
(* Sequences and their last places.                                        *)

\* A non-empty set of numbers has a least one.
LEMMA LeastNumber ==
    ASSUME NEW T, T \subseteq Nat, T # {}
    PROVE  \E x \in T : \A y \in T : x <= y
PROOF
<1> DEFINE R == OpToRel(<, Nat)
<1>1. IsWellFoundedOn(R, Nat)
  BY NatLessThanWellFounded
<1>2. PICK x \in T : \A y \in T : ~(<<y, x>> \in R)
  <2> HIDE DEF R
  <2> QED BY <1>1, WFMin, Zenon
<1>3. \A y \in T : <<y, x>> \in R <=> y < x
  BY DEF OpToRel
<1>4. \A y \in T : ~(y < x)
  BY <1>2, <1>3
<1> HIDE DEF R
<1>5. \A y \in T : x <= y
  BY <1>4, SMT
<1> QED BY <1>5

\* A non-empty set of places in a sequence has a last one, which Max returns.
LEMMA LastPlace ==
    ASSUME NEW n \in Nat, NEW T, T \subseteq 1..n, T # {}
    PROVE  Max(T) \in T /\ \A y \in T : y <= Max(T)
PROOF
<1> DEFINE U == {n - y : y \in T}
<1>0. \A y \in T : y \in Int /\ 1 <= y /\ y <= n
  OBVIOUS
<1>1. U \subseteq Nat /\ U # {}
  <2>1. \A y \in T : n - y \in Nat
    BY <1>0
  <2>2. PICK y \in T : TRUE
    OBVIOUS
  <2> QED BY <2>1, <2>2
<1>2. PICK u \in U : \A v \in U : u <= v
  <2> HIDE DEF U
  <2> QED BY <1>1, LeastNumber
<1>3. PICK x \in T : u = n - x
  OBVIOUS
<1>4. \A y \in T : x >= y
  <2> TAKE y \in T
  <2>1. n - y \in U
    OBVIOUS
  <2> HIDE DEF U
  <2>2. n - x <= n - y
    BY <1>2, <1>3, <2>1
  <2> QED BY <1>0, <2>2
<1>5. \E z \in T : \A y \in T : z >= y
  BY <1>4
<1>6. Max(T) \in T /\ \A y \in T : Max(T) >= y
  BY <1>5 DEF Max
<1>7. \A y \in T : y \in Int
  OBVIOUS
<1> QED BY <1>6, <1>7

\* t is s with x at place n and the later records one place further on.
Inserted(S, s, n, x, t) ==
    /\ t \in Seq(S \cup {x}) /\ Len(t) = Len(s) + 1
    /\ \A k \in 1..Len(s) + 1 :
         t[k] = IF k < n THEN s[k] ELSE IF k = n THEN x ELSE s[k - 1]

\* What a directory holds after a write.
LEMMA InsertionContents ==
    ASSUME NEW S, NEW s \in Seq(S), NEW x, NEW n \in 1..Len(s) + 1
    PROVE  Inserted(S, s, n, x, InsertAt(s, n, x))
PROOF
<1> DEFINE a == SubSeq(s, 1, n - 1)
           b == SubSeq(s, n, Len(s))
<1>1. /\ a \in Seq(S \cup {x}) /\ Len(a) = n - 1
      /\ \A k \in 1..n - 1 : a[k] = s[k]
  OBVIOUS
<1>2. /\ b \in Seq(S \cup {x}) /\ Len(b) = Len(s) - n + 1
      /\ \A k \in 1..Len(s) - n + 1 : b[k] = s[k + n - 1]
  OBVIOUS
<1> DEFINE c == <<x>>
<1>3. c \in Seq(S \cup {x}) /\ Len(c) = 1 /\ c[1] = x
  OBVIOUS
<1>0. n \in Nat /\ n >= 1 /\ Len(s) \in Nat /\ n <= Len(s) + 1
  OBVIOUS
<1>4. InsertAt(s, n, x) = a \o c \o b
  BY DEF InsertAt
<1> HIDE DEF a, b, c
<1>5. /\ a \o c \in Seq(S \cup {x}) /\ Len(a \o c) = n
      /\ \A k \in 1..n - 1 : (a \o c)[k] = s[k]
      /\ (a \o c)[n] = x
  <2>1. a \o c \in Seq(S \cup {x}) /\ Len(a \o c) = Len(a) + Len(c)
    BY <1>1, <1>3, ConcatProperties, Zenon
  <2>2. \A k \in 1..n - 1 : (a \o c)[k] = a[k]
    BY <1>1, <1>3
  <2>3. (a \o c)[n] = c[1]
    <3>1. \A k \in 1..Len(a) + Len(c) :
            (a \o c)[k] = IF k <= Len(a) THEN a[k] ELSE c[k - Len(a)]
      BY <1>1, <1>3, ConcatProperties, Zenon
    <3>2. n \in 1..Len(a) + Len(c) /\ ~(n <= Len(a)) /\ n - Len(a) = 1
      BY <1>0, <1>1, <1>3
    <3>3. (a \o c)[n] = c[n - Len(a)]
      BY <3>1, <3>2
    <3> QED BY <3>2, <3>3
  <2> QED BY <2>1, <2>2, <2>3, <1>0, <1>1, <1>3
<1> DEFINE d == a \o c
<1> HIDE DEF d
<1>6. /\ d \in Seq(S \cup {x}) /\ Len(d) = n /\ d[n] = x
      /\ \A k \in 1..n - 1 : d[k] = s[k]
  BY <1>5 DEF d
<1>7. /\ d \o b \in Seq(S \cup {x}) /\ Len(d \o b) = Len(s) + 1
      /\ \A k \in 1..n : (d \o b)[k] = d[k]
      /\ \A k \in n + 1..Len(s) + 1 : (d \o b)[k] = b[k - n]
  BY <1>2, <1>6
<1>8. \A k \in n + 1..Len(s) + 1 : b[k - n] = s[k - 1]
  BY <1>2
<1> DEFINE e == d \o b
<1>9. InsertAt(s, n, x) = e
  BY <1>4 DEF d
<1>10. \A k \in 1..Len(s) + 1 :
         e[k] = IF k < n THEN s[k] ELSE IF k = n THEN x ELSE s[k - 1]
  <2> TAKE k \in 1..Len(s) + 1
  <2>1. CASE k < n
    BY <2>1, <1>6, <1>7
  <2>2. CASE k = n
    <3>1. (d \o b)[n] = d[n]
      BY <1>0, <1>7
    <3> QED BY <2>2, <3>1, <1>0, <1>6
  <2>3. CASE k > n
    <3>1. k \in n + 1..Len(s) + 1 /\ ~(k < n) /\ k # n
      BY <2>3, <1>0
    <3>2. e[k] = s[k - 1]
      BY <3>1, <1>7, <1>8
    <3> HIDE DEF e
    <3> QED BY <3>1, <3>2
  <2>4. k < n \/ k = n \/ k > n
    BY <1>0
  <2> QED BY <2>1, <2>2, <2>3, <2>4
<1> HIDE DEF e
<1>11. Inserted(S, s, n, x, e)
  BY <1>7, <1>10 DEF e, Inserted
<1> QED BY <1>9, <1>11

\* t lists what s does, and x.
Holds(S, s, x, t) == t \in Seq(S \cup {x}) /\ ToSet(t) = ToSet(s) \cup {x}

\* A write adds its record and keeps every other one.
LEMMA InsertionSet ==
    ASSUME NEW S, NEW s \in Seq(S), NEW x, NEW t \in Insertions(s, x)
    PROVE  Holds(S, s, x, t)
PROOF
<1> USE DEF Holds
<1>1. CASE x \in ToSet(s)
  BY <1>1 DEF Insertions, ToSet
<1>2. CASE x \notin ToSet(s)
  <2>1. PICK n \in 1..Len(s) + 1 : t = InsertAt(s, n, x)
    BY <1>2 DEF Insertions
  <2>2. /\ t \in Seq(S \cup {x}) /\ Len(t) = Len(s) + 1
        /\ \A k \in 1..Len(s) + 1 :
             t[k] = IF k < n THEN s[k] ELSE IF k = n THEN x ELSE s[k - 1]
    <3>1. Inserted(S, s, n, x, t)
      BY <2>1, InsertionContents
    <3> QED BY <3>1 DEF Inserted
  <2>3. DOMAIN t = 1..Len(s) + 1 /\ DOMAIN s = 1..Len(s) /\ Len(s) \in Nat
    BY <2>2
  <2>4. t[n] = x /\ \A k \in 1..n - 1 : t[k] = s[k]
    BY <2>2
  <2>5. \A k \in n..Len(s) : t[k + 1] = s[k]
    BY <2>2, <2>3
  <2>6. ToSet(s) \subseteq ToSet(t)
    <3> SUFFICES ASSUME NEW e \in ToSet(s) PROVE e \in ToSet(t)
      OBVIOUS
    <3>1. PICK k \in 1..Len(s) : e = s[k]
      BY <2>3 DEF ToSet
    <3>2. k \in 1..n - 1 \/ k \in n..Len(s)
      BY <2>3
    <3> QED BY <3>1, <3>2, <2>3, <2>4, <2>5 DEF ToSet
  <2>7. ToSet(t) \subseteq ToSet(s) \cup {x}
    <3> SUFFICES ASSUME NEW e \in ToSet(t) PROVE e \in ToSet(s) \cup {x}
      OBVIOUS
    <3>1. PICK k \in 1..Len(s) + 1 : e = t[k]
      BY <2>3 DEF ToSet
    <3>2. k = n \/ (k < n /\ k \in 1..Len(s)) \/ (k > n /\ k - 1 \in 1..Len(s))
      BY <2>3
    <3>3. CASE k = n
      BY <3>1, <3>3, <2>4
    <3>4. CASE k < n /\ k \in 1..Len(s)
      BY <3>1, <3>4, <2>2, <2>3 DEF ToSet
    <3>5. CASE k > n /\ k - 1 \in 1..Len(s)
      <4>1. t[k] = s[k - 1]
        BY <3>5, <2>2
      <4> QED BY <4>1, <3>1, <3>5, <2>3 DEF ToSet
    <3> QED BY <3>2, <3>3, <3>4, <3>5
  <2> QED BY <2>2, <2>3, <2>4, <2>6, <2>7 DEF ToSet
<1> QED BY <1>1, <1>2

-----------------------------------------------------------------------------
(* What is read and written of the decisions.                              *)

LEMMA DecShelfFacts ==
    ASSUME DecShelf, NEW i \in Item
    PROVE  /\ decs[i] \in Seq(StoredDecisions) /\ ToSet(decs[i]) \subseteq StoredDecisions
           /\ \A d \in ToSet(decs[i]) : d.item = i
           /\ \A d \in StoredDecisions : d.item = i => d \in ToSet(decs[i])
PROOF
<1>1. decs[i] \in Seq(StoredDecisions)
  BY DEF DecShelf
<1>2. \A d \in ToSet(decs[i]) : d.item = i
  BY DEF DecShelf
<1>3. ASSUME NEW d \in StoredDecisions, d.item = i PROVE d \in ToSet(decs[i])
  <2>1. PICK j \in Item : d \in ToSet(decs[j])
    BY DEF StoredDecisions
  <2>2. d.item = j
    BY <2>1 DEF DecShelf
  <2> QED BY <1>3, <2>1, <2>2
<1>4. ToSet(decs[i]) \subseteq StoredDecisions
  BY DEF StoredDecisions
<1> QED BY <1>1, <1>2, <1>3, <1>4

\* A decision read as the head of a listing is one of the listing, of that run.
LEMMA HeadRead ==
    ASSUME NEW D, NEW ds \in Seq(D), NEW r
    PROVE  \/ HeadDecision(ds, r) = NoDecision
           \/ HeadDecision(ds, r) \in ToSet(ds) /\ HeadDecision(ds, r).run = r
PROOF
<1> DEFINE T == Standing(ds, r)
<1>1. T \subseteq 1..Len(ds) /\ Len(ds) \in Nat /\ DOMAIN ds = 1..Len(ds)
  BY DEF Standing
<1>2. \A n \in T : ds[n].run = r
  BY DEF Standing
<1>3. HeadDecision(ds, r) = IF T = {} THEN NoDecision ELSE ds[Max(T)]
  BY DEF HeadDecision
<1> HIDE DEF T
<1>4. T # {} => Max(T) \in T
  BY <1>1, LastPlace
<1> QED BY <1>1, <1>2, <1>3, <1>4 DEF ToSet

\* So are the decisions read as standing.
LEMMA HeadsRead ==
    ASSUME NEW ds, NEW r, NEW d \in HeadDecisions(ds, r)
    PROVE  d \in ToSet(ds) /\ d.run = r
PROOF
  BY DEF HeadDecisions, Standing, ToSet

LEMMA DecisionWritten ==
    ASSUME DecShelf, NEW x, x.item \in Item, WriteDecision(x)
    PROVE  DecShelf' /\ StoredDecisions' = StoredDecisions \cup {x}
PROOF
<1> DEFINE j == x.item
<1>1. PICK t \in Insertions(decs[j], x) : decs' = [decs EXCEPT ![j] = t]
  BY DEF WriteDecision
<1>2. decs[j] \in Seq(StoredDecisions) /\ decs \in [Item -> Seq(StoredDecisions)]
  BY DecShelfFacts DEF DecShelf
<1>3. t \in Seq(StoredDecisions \cup {x}) /\ ToSet(t) = ToSet(decs[j]) \cup {x}
  <2>1. Holds(StoredDecisions, decs[j], x, t)
    BY <1>1, <1>2, InsertionSet
  <2> QED BY <2>1 DEF Holds
<1>4. decs'[j] = t /\ \A i \in Item : i # j => decs'[i] = decs[i]
  BY <1>1, <1>2
<1>5. StoredDecisions' = StoredDecisions \cup {x}
  <2>1. StoredDecisions' = UNION {ToSet(decs'[i]) : i \in Item}
    BY DEF StoredDecisions
  <2>2. \A i \in Item : ToSet(decs'[i]) = ToSet(decs[i]) \cup (IF i = j THEN {x} ELSE {})
    BY <1>3, <1>4
  <2> QED BY <2>1, <2>2 DEF StoredDecisions
<1>6. DecShelf'
  <2> DEFINE D == StoredDecisions \cup {x}
  <2>1. \A i \in Item : decs[i] \in Seq(D)
    BY <1>2
  <2>2. decs' \in [Item -> Seq(D)]
    BY <1>1, <1>2, <1>3, <2>1
  <2>3. \A i \in Item : \A d \in ToSet(decs'[i]) : d.item = i
    BY <1>3, <1>4 DEF DecShelf
  <2> QED BY <1>5, <2>2, <2>3 DEF DecShelf
<1> QED BY <1>5, <1>6

\* A write to an annotation shelf.
WriteAnnotation(x) ==
    \E t \in Insertions(annos[x.item], x) : annos' = [annos EXCEPT ![x.item] = t]

LEMMA AnnotationWritten ==
    ASSUME AnnoShelf, NEW x, x.item \in Item, WriteAnnotation(x)
    PROVE  AnnoShelf' /\ StoredAnnotations' = StoredAnnotations \cup {x}
PROOF
<1> DEFINE j == x.item
           A == StoredAnnotations \cup {x}
<1>1. PICK t \in Insertions(annos[j], x) : annos' = [annos EXCEPT ![j] = t]
  BY DEF WriteAnnotation
<1>2. annos[j] \in Seq(StoredAnnotations) /\ annos \in [Item -> Seq(StoredAnnotations)]
  BY DEF AnnoShelf
<1>3. t \in Seq(A) /\ ToSet(t) = ToSet(annos[j]) \cup {x}
  <2>1. Holds(StoredAnnotations, annos[j], x, t)
    BY <1>1, <1>2, InsertionSet
  <2> QED BY <2>1 DEF Holds
<1>4. annos'[j] = t /\ \A i \in Item : i # j => annos'[i] = annos[i]
  BY <1>1, <1>2
<1>5. StoredAnnotations' = A
  <2>1. StoredAnnotations' = UNION {ToSet(annos'[i]) : i \in Item}
    BY DEF StoredAnnotations
  <2>2. \A i \in Item : ToSet(annos'[i]) = ToSet(annos[i]) \cup (IF i = j THEN {x} ELSE {})
    BY <1>3, <1>4
  <2> QED BY <2>1, <2>2 DEF StoredAnnotations
<1>6. AnnoShelf'
  <2>1. \A i \in Item : annos[i] \in Seq(A)
    BY <1>2
  <2>2. annos' \in [Item -> Seq(A)]
    BY <1>1, <1>2, <1>3, <2>1
  <2>3. \A i \in Item : \A a \in ToSet(annos'[i]) : a.item = i
    BY <1>3, <1>4 DEF AnnoShelf
  <2> QED BY <1>5, <2>2, <2>3 DEF AnnoShelf
<1> QED BY <1>5, <1>6

-----------------------------------------------------------------------------
(* The stores only grow, and what was true of them stays true.             *)

Grows ==
    /\ StoredDecisions \subseteq StoredDecisions' /\ Judgements \subseteq Judgements'
    /\ StoredAnnotations \subseteq StoredAnnotations'
    /\ runs \subseteq runs' /\ retired \subseteq retired'
    /\ apps \subseteq apps' /\ findings \subseteq findings'

\* What was certified stays so.
LEMMA CertifiedStays ==
    ASSUME NEW run, NEW named, NEW G, NEW P, NEW G2, NEW P2,
           Certified(run, named, G, P), G \subseteq G2, P \subseteq P2
    PROVE  Certified(run, named, G2, P2)
PROOF
  BY DEF Certified

LEMMA ListingStays ==
    ASSUME NEW known, NEW D, NEW D2, Known(known, D), D \subseteq D2
    PROVE  Known(known, D2)
PROOF
<1>1. ASSUME NEW i \in Item PROVE known[i] \in Seq(D2)
  <2>1. known[i] \in Seq(D)
    BY DEF Known
  <2> QED BY <2>1
<1> QED BY <1>1 DEF Known

LEMMA SessionStays ==
    ASSUME NEW s, NEW D, NEW H, NEW A, NEW R, NEW G, NEW P,
           NEW D2, NEW H2, NEW A2, NEW R2, NEW G2, NEW P2,
           SessionOK(s, D, H, A, R, G, P),
           D \subseteq D2, H \subseteq H2, A \subseteq A2,
           R \subseteq R2, G \subseteq G2, P \subseteq P2
    PROVE  SessionOK(s, D2, H2, A2, R2, G2, P2)
PROOF
<1>1. Known(s.known, D) => Known(s.known, D2)
  BY ListingStays
<1>2. Certified(s.run, s.applied, G, P) => Certified(s.run, s.applied, G2, P2)
  BY CertifiedStays
<1>3. Seen(s.seen, s.run, D) => Seen(s.seen, s.run, D2)
  BY DEF Seen
<1> QED BY <1>1, <1>2, <1>3 DEF SessionOK

LEMMA AuthorStays ==
    ASSUME NEW u, NEW A, NEW F, NEW A2, NEW F2, AuthorOK(u, A, F),
           A \subseteq A2, F \subseteq F2
    PROVE  AuthorOK(u, A2, F2)
PROOF
  BY DEF AuthorOK, Registered

LEMMA SessionsStay ==
    ASSUME SessionsOK, Grows, UNCHANGED session
    PROVE  SessionsOK'
PROOF
<1>1. ASSUME NEW r \in Reviewer
      PROVE  SessionOK(session'[r], StoredDecisions', Judgements', StoredAnnotations',
                       runs', retired', apps')
  <2>1. SessionOK(session[r], StoredDecisions, Judgements, StoredAnnotations, runs, retired, apps)
    BY DEF SessionsOK
  <2>2. session'[r] = session[r]
    OBVIOUS
  <2> QED BY <2>1, <2>2, SessionStays DEF Grows
<1> QED BY <1>1 DEF SessionsOK

LEMMA SessionMoves ==
    ASSUME SessionsOK, Grows, NEW r \in Reviewer, NEW s, session' = [session EXCEPT ![r] = s],
           SessionOK(s, StoredDecisions', Judgements', StoredAnnotations', runs', retired', apps')
    PROVE  SessionsOK'
PROOF
<1>1. ASSUME NEW q \in Reviewer
      PROVE  SessionOK(session'[q], StoredDecisions', Judgements', StoredAnnotations',
                       runs', retired', apps')
  <2>1. CASE q = r
    <3>1. session'[r] = s
      BY DEF SessionsOK
    <3> QED BY <2>1, <3>1
  <2>2. CASE q # r
    <3>1. SessionOK(session[q], StoredDecisions, Judgements, StoredAnnotations, runs, retired, apps)
      BY DEF SessionsOK
    <3>2. session'[q] = session[q]
      BY <2>2 DEF SessionsOK
    <3> QED BY <3>1, <3>2, SessionStays DEF Grows
  <2> QED BY <2>1, <2>2
<1>2. DOMAIN session' = Reviewer
  BY DEF SessionsOK
<1> QED BY <1>1, <1>2 DEF SessionsOK

\* Only the author moves.
LEMMA AuthorMoves ==
    ASSUME GoldInv, StoreInv', Grows, UNCHANGED <<session, opens>>,
           AuthorOK(author', StoredAnnotations', findings')
    PROVE  GoldInv'
PROOF
<1>1. SessionsOK'
  BY SessionsStay DEF GoldInv
<1> QED BY <1>1 DEF GoldInv

\* Only one session moves.
LEMMA OneSessionMoves ==
    ASSUME GoldInv, StoreInv', Grows, UNCHANGED <<author, opens>>,
           NEW r \in Reviewer, NEW s, session' = [session EXCEPT ![r] = s],
           SessionOK(s, StoredDecisions', Judgements', StoredAnnotations', runs', retired', apps')
    PROVE  GoldInv'
PROOF
<1>1. SessionsOK'
  BY SessionMoves DEF GoldInv
<1>2. AuthorOK(author', StoredAnnotations', findings')
  <2>1. AuthorOK(author, StoredAnnotations, findings)
    BY DEF GoldInv
  <2> QED BY <2>1, AuthorStays DEF Grows
<1> QED BY <1>1, <1>2 DEF GoldInv

LEMMA DecisionsUnchanged ==
    ASSUME DecShelf, UNCHANGED decs
    PROVE  StoredDecisions' = StoredDecisions /\ Judgements' = Judgements /\ DecShelf'
PROOF
<1>1. StoredDecisions' = StoredDecisions
  BY DEF StoredDecisions
<1>2. Judgements' = Judgements
  BY <1>1 DEF Judgements
<1> QED BY <1>1, <1>2 DEF DecShelf

LEMMA AnnotationsUnchanged ==
    ASSUME AnnoShelf, UNCHANGED annos
    PROVE  StoredAnnotations' = StoredAnnotations /\ AnnoShelf'
PROOF
<1>1. StoredAnnotations' = StoredAnnotations
  BY DEF StoredAnnotations
<1> QED BY <1>1 DEF AnnoShelf

LEMMA SealsStay ==
    ASSUME Sealed, Grows, UNCHANGED seals
    PROVE  Sealed'
PROOF
<1> SUFFICES ASSUME NEW s \in seals
             PROVE  /\ s.run \in runs' /\ s.decs \subseteq StoredDecisions'
                    /\ Certified(s.run, s.decs, retired', apps')
  BY DEF Sealed
<1>1. /\ s.run \in runs /\ s.decs \subseteq StoredDecisions
      /\ Certified(s.run, s.decs, retired, apps)
  BY DEF Sealed
<1>2. Certified(s.run, s.decs, retired', apps')
  BY <1>1, CertifiedStays DEF Grows
<1> QED BY <1>1, <1>2 DEF Grows

-----------------------------------------------------------------------------
(* What each kind of write does to the stores.                             *)

LEMMA RunItems ==
    ASSUME StoreInv
    PROVE  \A r \in runs : DOMAIN r \subseteq Item
PROOF
  BY DEF StoreInv, Registered

LEMMA StoresUnchanged ==
    ASSUME StoreInv, UNCHANGED <<annotationVars, poolVars>>
    PROVE  /\ StoreInv' /\ Grows
           /\ StoredAnnotations' = StoredAnnotations /\ StoredDecisions' = StoredDecisions
           /\ Judgements' = Judgements
PROOF
<1>1. UNCHANGED <<annos, retired, reviews, findings, runs, decs, supers, apps, seals>>
  BY DEF annotationVars, poolVars
<1>2. /\ StoredDecisions' = StoredDecisions /\ Judgements' = Judgements /\ DecShelf'
  BY <1>1, DecisionsUnchanged DEF StoreInv
<1>3. StoredAnnotations' = StoredAnnotations /\ AnnoShelf'
  BY <1>1, AnnotationsUnchanged DEF StoreInv
<1>4. Grows
  BY <1>1, <1>2, <1>3 DEF Grows
<1>5. Sealed'
  BY <1>1, <1>4, SealsStay DEF StoreInv
<1> QED BY <1>1, <1>2, <1>3, <1>4, <1>5 DEF StoreInv

\* What an annotation must have behind it when it is written.
Founded(x, A, H, F) ==
    /\ x \in Annotations(A)
    /\ x.via # "root" => x.pred.item = x.item
    /\ x.via = "pool" => \E d \in H : Effect(d) = x /\ d.sel \cap d.anno.gold = {}
    /\ x.via = "deep" => [anno |-> x.pred, added |-> x.gold \ x.pred.gold] \in F

LEMMA EvidenceGrows ==
    ASSUME NEW A, NEW H, NEW F, NEW V, Evidence(A, H, F, V), NEW x, Founded(x, A, H, F)
    PROVE  Evidence(A \cup {x}, H, F, V)
PROOF
<1> DEFINE B == A \cup {x}
<1>1. Annotations(A) \subseteq Annotations(B)
  BY DEF Annotations
<1>2. B \subseteq Annotations(B)
  BY <1>1 DEF Evidence, Founded
<1>3. ASSUME NEW a \in B
      PROVE  /\ a.via # "root" => a.pred.item = a.item
             /\ a.via = "pool" => \E d \in H : Effect(d) = a /\ d.sel \cap d.anno.gold = {}
             /\ a.via = "deep" => [anno |-> a.pred, added |-> a.gold \ a.pred.gold] \in F
  <2>1. CASE a \in A
    BY <2>1 DEF Evidence
  <2>2. CASE a = x
    BY <2>2 DEF Founded
  <2> QED BY <2>1, <2>2
<1>4. /\ \A v \in V : v.item \in Item /\ (v.anno # NoAnnotation => v.anno \in B)
      /\ \A f \in F : f.anno \in B /\ f.added \subseteq Clause
  BY DEF Evidence
<1> QED BY <1>2, <1>3, <1>4 DEF Evidence

LEMMA AnnotationStored ==
    ASSUME StoreInv, NEW x, WriteAnnotation(x),
           Founded(x, StoredAnnotations, Judgements, findings),
           UNCHANGED <<retired, reviews, findings, poolVars>>
    PROVE  /\ StoreInv' /\ Grows /\ x \in StoredAnnotations'
           /\ StoredDecisions' = StoredDecisions /\ Judgements' = Judgements
PROOF
<1>1. UNCHANGED <<retired, reviews, findings, runs, decs, supers, apps, seals>>
  BY DEF poolVars
<1>2. /\ StoredDecisions' = StoredDecisions /\ Judgements' = Judgements /\ DecShelf'
  BY <1>1, DecisionsUnchanged DEF StoreInv
<1>3. x.item \in Item
  BY DEF Founded, Annotations
<1>4. StoredAnnotations' = StoredAnnotations \cup {x} /\ AnnoShelf'
  BY <1>3, AnnotationWritten DEF StoreInv
<1>5. Grows
  BY <1>1, <1>2, <1>4 DEF Grows
<1>6. Sealed'
  BY <1>1, <1>5, SealsStay DEF StoreInv
<1>7. Evidence(StoredAnnotations', Judgements', findings', reviews')
  BY <1>1, <1>2, <1>4, EvidenceGrows DEF StoreInv
<1>8. \A r \in runs' : Registered(r, StoredAnnotations')
  BY <1>1, <1>4 DEF StoreInv, Registered
<1>9. Applied(apps', Judgements', StoredAnnotations')
  BY <1>1, <1>2, <1>4 DEF StoreInv, Applied
<1> QED BY <1>1, <1>2, <1>4, <1>5, <1>6, <1>7, <1>8, <1>9 DEF StoreInv

\* Decisions written or superseded disturb nothing else.
LEMMA DecisionsStored ==
    ASSUME StoreInv, DecShelf', StoredDecisions \subseteq StoredDecisions',
           Recorded(StoredDecisions', runs),
           Replaced(supers', StoredDecisions'),
           UNCHANGED <<annotationVars, runs, apps, seals>>
    PROVE  StoreInv' /\ Grows /\ StoredAnnotations' = StoredAnnotations
PROOF
<1>1. UNCHANGED <<annos, retired, reviews, findings>>
  BY DEF annotationVars
<1>2. StoredAnnotations' = StoredAnnotations /\ AnnoShelf'
  BY <1>1, AnnotationsUnchanged DEF StoreInv
<1>3. Judgements \subseteq Judgements'
  BY DEF Judgements
<1>4. Grows
  BY <1>1, <1>2, <1>3 DEF Grows
<1>5. Sealed'
  BY <1>4, SealsStay DEF StoreInv
<1>6. Evidence(StoredAnnotations', Judgements', findings', reviews')
  BY <1>1, <1>2, <1>3 DEF StoreInv, Evidence
<1>7. Applied(apps', Judgements', StoredAnnotations')
  BY <1>2, <1>3 DEF StoreInv, Applied
<1> QED BY <1>1, <1>2, <1>4, <1>5, <1>6, <1>7 DEF StoreInv

\* Retirements, reviews, findings, runs and applications that are added.
LEMMA RecordsAdded ==
    ASSUME StoreInv, UNCHANGED <<annos, decs, supers, seals>>,
           retired \subseteq retired', retired' \subseteq Item,
           runs \subseteq runs', apps \subseteq apps', findings \subseteq findings',
           \A v \in reviews' \ reviews :
             v.item \in Item /\ (v.anno # NoAnnotation => v.anno \in StoredAnnotations),
           \A f \in findings' \ findings : f.anno \in StoredAnnotations /\ f.added \subseteq Clause,
           \A r \in runs' \ runs : Registered(r, StoredAnnotations),
           \A a \in apps' \ apps : Applied({a}, Judgements, StoredAnnotations)
    PROVE  /\ StoreInv' /\ Grows
           /\ StoredAnnotations' = StoredAnnotations /\ StoredDecisions' = StoredDecisions
           /\ Judgements' = Judgements
PROOF
<1>1. /\ StoredDecisions' = StoredDecisions /\ Judgements' = Judgements /\ DecShelf'
  BY DecisionsUnchanged DEF StoreInv
<1>2. StoredAnnotations' = StoredAnnotations /\ AnnoShelf'
  BY AnnotationsUnchanged DEF StoreInv
<1>3. Grows
  BY <1>1, <1>2 DEF Grows
<1>4. Sealed'
  BY <1>3, SealsStay DEF StoreInv
<1>5. Evidence(StoredAnnotations, Judgements, findings', reviews')
  BY DEF StoreInv, Evidence
<1>6. Applied(apps', Judgements, StoredAnnotations)
  BY DEF StoreInv, Applied
<1>7. Recorded(StoredDecisions, runs')
  BY DEF StoreInv, Recorded
<1>8. \A r \in runs' : Registered(r, StoredAnnotations)
  BY DEF StoreInv
<1> QED BY <1>1, <1>2, <1>3, <1>4, <1>5, <1>6, <1>7, <1>8 DEF StoreInv

-----------------------------------------------------------------------------
(* The author's steps.                                                     *)

LEMMA AuthorIdle ==
    ASSUME NEW A, NEW F
    PROVE  AuthorOK(NoAuthor, A, F)
PROOF
  BY DEF AuthorOK, NoAuthor

LEMMA RootFounded ==
    ASSUME NEW i \in Item, NEW g \in Drafted, NEW A, NEW H, NEW F
    PROVE  Founded(RootRecord(i, g), A, H, F) /\ RootRecord(i, g).item = i
PROOF
<1>1. g \in SUBSET Clause
  BY AnnotationAssumption
<1>2. RootRecord(i, g) \in [item : Item, gold : SUBSET Clause, via : {"root"}, pred : {NoAnnotation}]
  BY <1>1 DEF RootRecord
<1>3. RootRecord(i, g).via = "root" /\ RootRecord(i, g).item = i
  BY DEF RootRecord
<1> QED BY <1>2, <1>3 DEF Founded, Annotations

LEMMA AddStep ==
    ASSUME GoldInv, NEW i \in Item, NEW g \in Drafted, Add(i, g)
    PROVE  GoldInv'
PROOF
<1> DEFINE x == RootRecord(i, g)
<1>1. /\ WriteAnnotation(x) /\ UNCHANGED <<retired, reviews, findings, poolVars>>
      /\ UNCHANGED <<author, session, opens>>
  BY DEF Add, Create, WriteAnnotation
<1>2. StoreInv' /\ Grows
  <2>1. Founded(x, StoredAnnotations, Judgements, findings)
    BY RootFounded
  <2> QED BY <1>1, <2>1, AnnotationStored DEF GoldInv
<1>3. AuthorOK(author', StoredAnnotations', findings')
  <2>1. AuthorOK(author, StoredAnnotations, findings)
    BY DEF GoldInv
  <2> QED BY <1>1, <1>2, <2>1, AuthorStays DEF Grows
<1> QED BY <1>1, <1>2, <1>3, AuthorMoves

LEMMA ReviewAcceptStep ==
    ASSUME GoldInv, NEW i \in Item, NEW g \in Drafted, ReviewAccept(i, g)
    PROVE  GoldInv'
PROOF
<1> DEFINE x == RootRecord(i, g)
<1>1. /\ WriteAnnotation(x) /\ UNCHANGED <<retired, reviews, findings, poolVars>>
      /\ UNCHANGED <<session, opens>>
      /\ author' = [NoAuthor EXCEPT !.at = "reviewed", !.anno = x]
  BY DEF ReviewAccept, Create, WriteAnnotation
<1>2. StoreInv' /\ Grows /\ x \in StoredAnnotations'
  <2>1. Founded(x, StoredAnnotations, Judgements, findings)
    BY RootFounded
  <2> QED BY <1>1, <2>1, AnnotationStored DEF GoldInv
<1>3. AuthorOK(author', StoredAnnotations', findings')
  <2> HIDE DEF x
  <2> QED BY <1>1, <1>2 DEF AuthorOK, NoAuthor
<1> QED BY <1>1, <1>2, <1>3, AuthorMoves

LEMMA ReviewDecidedStep ==
    ASSUME GoldInv, ReviewDecided
    PROVE  GoldInv'
PROOF
<1> DEFINE v == [item |-> author.anno.item, anno |-> author.anno]
<1>1. /\ author.at = "reviewed" /\ reviews' = reviews \cup {v} /\ author' = NoAuthor
      /\ UNCHANGED <<annos, retired, findings, runs, decs, supers, apps, seals, session, opens>>
  BY DEF ReviewDecided, poolVars
<1>2. author.anno \in StoredAnnotations
  BY <1>1 DEF GoldInv, AuthorOK
<1>3. author.anno.item \in Item
  BY <1>2 DEF GoldInv, StoreInv, Evidence, Annotations
<1>4. StoreInv' /\ Grows
  BY <1>1, <1>2, <1>3, RecordsAdded DEF GoldInv, StoreInv
<1> QED BY <1>1, <1>4, AuthorIdle, AuthorMoves

LEMMA ReviewRejectStep ==
    ASSUME GoldInv, NEW i \in Item, ReviewReject(i)
    PROVE  GoldInv'
PROOF
<1>1. /\ reviews' = reviews \cup {[item |-> i, anno |-> NoAnnotation]}
      /\ UNCHANGED <<annos, retired, findings, runs, decs, supers, apps, seals>>
      /\ UNCHANGED <<author, session, opens>>
  BY DEF ReviewReject, poolVars
<1>2. StoreInv' /\ Grows
  BY <1>1, RecordsAdded DEF GoldInv, StoreInv
<1>3. AuthorOK(author', StoredAnnotations', findings')
  <2>1. AuthorOK(author, StoredAnnotations, findings)
    BY DEF GoldInv
  <2> QED BY <1>1, <1>2, <2>1, AuthorStays DEF Grows
<1> QED BY <1>1, <1>2, <1>3, AuthorMoves

LEMMA DeepOpenStep ==
    ASSUME GoldInv, NEW i \in Item, DeepOpen(i)
    PROVE  GoldInv'
PROOF
<1> DEFINE x == Last(annos[i])
<1>1. /\ annos[i] # <<>> /\ UNCHANGED <<annotationVars, poolVars, session, opens>>
      /\ author' = [NoAuthor EXCEPT !.at = "reading", !.anno = x]
  BY DEF DeepOpen
<1>2. x \in StoredAnnotations
  <2>1. annos[i] \in Seq(StoredAnnotations)
    BY DEF GoldInv, StoreInv, AnnoShelf
  <2> QED BY <1>1, <2>1 DEF Last
<1>3. StoreInv' /\ Grows /\ StoredAnnotations' = StoredAnnotations
  BY <1>1, StoresUnchanged DEF GoldInv
<1>4. AuthorOK(author', StoredAnnotations', findings')
  <2> HIDE DEF x
  <2> QED BY <1>1, <1>2, <1>3 DEF AuthorOK, NoAuthor
<1> QED BY <1>1, <1>3, <1>4, AuthorMoves

LEMMA DeepFindingStep ==
    ASSUME GoldInv, NEW added \in SUBSET Clause, DeepFinding(added)
    PROVE  GoldInv'
PROOF
<1> DEFINE f == [anno |-> author.anno, added |-> added]
<1>1. /\ author.at = "reading" /\ added \cap author.anno.gold = {}
      /\ findings' = findings \cup {f}
      /\ author' = IF added = {} THEN NoAuthor
                   ELSE [author EXCEPT !.at = "found", !.added = added]
      /\ UNCHANGED <<annos, retired, reviews, runs, decs, supers, apps, seals, session, opens>>
  BY DEF DeepFinding, poolVars
<1>2. author.anno \in StoredAnnotations
  BY <1>1 DEF GoldInv, AuthorOK
<1>3. StoreInv' /\ Grows /\ StoredAnnotations' = StoredAnnotations
  BY <1>1, <1>2, RecordsAdded DEF GoldInv, StoreInv
<1>4. AuthorOK(author', StoredAnnotations', findings')
  <2>1. CASE added = {}
    BY <1>1, <2>1, AuthorIdle
  <2>2. CASE added # {}
    <3>1. AuthorOK(author, StoredAnnotations, findings)
      BY DEF GoldInv
    <3> QED BY <1>1, <1>2, <1>3, <2>2, <3>1 DEF AuthorOK
  <2> QED BY <2>1, <2>2
<1> QED BY <1>1, <1>3, <1>4, AuthorMoves

\* A stored judgement, of clauses that were not gold, has this effect.
Backed(x, H) == \E d \in H : Effect(d) = x /\ d.sel \cap d.anno.gold = {}

LEMMA SuccessorFounded ==
    ASSUME NEW A, NEW H, NEW F, NEW V, Evidence(A, H, F, V), NEW a \in A,
           NEW added \in SUBSET Clause, added \cap a.gold = {}, NEW via \in {"pool", "deep"},
           via = "pool" => Backed(Successor(a, added, via), H),
           via = "deep" => [anno |-> a, added |-> added] \in F
    PROVE  /\ Founded(Successor(a, added, via), A, H, F)
           /\ Successor(a, added, via).item = a.item
PROOF
<1> DEFINE x == Successor(a, added, via)
<1>1. a.item \in Item /\ a.gold \in SUBSET Clause
  BY DEF Evidence, Annotations
<1>2. x \in [item : Item, gold : SUBSET Clause, via : {"pool", "deep"}, pred : A]
  BY <1>1 DEF Successor
<1>3. /\ x.item = a.item /\ x.via = via /\ x.pred = a /\ x.gold = a.gold \cup added
  BY DEF Successor
<1>4. x.gold \ x.pred.gold = added
  BY <1>3
<1> HIDE DEF x
<1>5. Founded(x, A, H, F)
  BY <1>2, <1>3, <1>4 DEF Founded, Annotations, Backed, x
<1> QED BY <1>3, <1>5 DEF x

LEMMA DeepAmendStep ==
    ASSUME GoldInv, DeepAmend
    PROVE  GoldInv'
PROOF
<1> DEFINE x == Successor(author.anno, author.added, "deep")
<1>1. /\ author.at = "found" /\ author' = NoAuthor /\ UNCHANGED <<session, opens>>
      /\ UNCHANGED <<retired, reviews, findings, poolVars>>
      /\ \E s \in Insertions(annos[author.anno.item], x) :
           annos' = [annos EXCEPT ![author.anno.item] = s]
  BY DEF DeepAmend, Amend
<1>2. /\ author.anno \in StoredAnnotations /\ author.added \in SUBSET Clause
      /\ author.added \cap author.anno.gold = {}
      /\ [anno |-> author.anno, added |-> author.added] \in findings
  BY <1>1 DEF GoldInv, AuthorOK
<1>3. Founded(x, StoredAnnotations, Judgements, findings) /\ x.item = author.anno.item
  BY <1>2, SuccessorFounded DEF GoldInv, StoreInv
<1> HIDE DEF x
<1>4. WriteAnnotation(x)
  BY <1>1, <1>3 DEF WriteAnnotation
<1>5. StoreInv' /\ Grows
  BY <1>1, <1>3, <1>4, AnnotationStored DEF GoldInv
<1> QED BY <1>1, <1>5, AuthorIdle, AuthorMoves

LEMMA RetireStep ==
    ASSUME GoldInv, NEW i \in Item, RetireItem(i)
    PROVE  GoldInv'
PROOF
<1>1. /\ retired' = retired \cup {i}
      /\ UNCHANGED <<annos, reviews, findings, runs, decs, supers, apps, seals>>
      /\ UNCHANGED <<author, session, opens>>
  BY DEF RetireItem, Retire, poolVars
<1>2. StoreInv' /\ Grows
  BY <1>1, RecordsAdded DEF GoldInv, StoreInv
<1>3. AuthorOK(author', StoredAnnotations', findings')
  <2>1. AuthorOK(author, StoredAnnotations, findings)
    BY DEF GoldInv
  <2> QED BY <1>1, <1>2, <2>1, AuthorStays DEF Grows
<1> QED BY <1>1, <1>2, <1>3, AuthorMoves

LEMMA RegisterOpenStep ==
    ASSUME GoldInv, RegisterOpen
    PROVE  GoldInv'
PROOF
<1> DEFINE wanted == {i \in Item : HeadsOf(i) # {}} \ (retired \cup Audited)
           run == [i \in wanted |-> CurrentHead(i)]
<1>1. /\ UNCHANGED <<annotationVars, poolVars, session, opens>>
      /\ author' = [NoAuthor EXCEPT !.at = "registering", !.run = run]
  BY DEF RegisterOpen
<1>2. Registered(run, StoredAnnotations)
  <2>1. \A i \in wanted : i \in Item /\ CurrentHead(i) \in HeadsOf(i)
    BY DEF CurrentHead
  <2>2. \A i \in wanted : CurrentHead(i) \in ToSet(annos[i])
    BY <2>1 DEF HeadsOf
  <2>3. \A i \in wanted : CurrentHead(i) \in StoredAnnotations /\ CurrentHead(i).item = i
    BY <2>1, <2>2 DEF StoredAnnotations, GoldInv, StoreInv, AnnoShelf
  <2>4. DOMAIN run = wanted /\ \A i \in wanted : run[i] = CurrentHead(i)
    OBVIOUS
  <2> HIDE DEF wanted, run
  <2> QED BY <2>1, <2>3, <2>4 DEF Registered
<1>3. StoreInv' /\ Grows /\ StoredAnnotations' = StoredAnnotations
  BY <1>1, StoresUnchanged DEF GoldInv
<1> HIDE DEF run
<1>4. AuthorOK(author', StoredAnnotations', findings')
  BY <1>1, <1>2, <1>3 DEF AuthorOK, NoAuthor
<1> QED BY <1>1, <1>3, <1>4, AuthorMoves

LEMMA RegisterStep ==
    ASSUME GoldInv, Register
    PROVE  GoldInv'
PROOF
<1>1. /\ author.at = "registering" /\ runs' = runs \cup {author.run} /\ author' = NoAuthor
      /\ UNCHANGED <<annos, retired, reviews, findings, decs, supers, apps, seals>>
      /\ UNCHANGED <<session, opens>>
  BY DEF Register, CreateRun, annotationVars
<1>2. Registered(author.run, StoredAnnotations)
  BY <1>1 DEF GoldInv, AuthorOK
<1>3. StoreInv' /\ Grows
  BY <1>1, <1>2, RecordsAdded DEF GoldInv, StoreInv
<1> QED BY <1>1, <1>3, AuthorIdle, AuthorMoves

LEMMA AuthorStopsStep ==
    ASSUME GoldInv, AuthorStops
    PROVE  GoldInv'
PROOF
<1>1. UNCHANGED <<annotationVars, poolVars, session, opens>> /\ author' = NoAuthor
  BY DEF AuthorStops
<1>2. StoreInv' /\ Grows
  BY <1>1, StoresUnchanged DEF GoldInv
<1> QED BY <1>1, <1>2, AuthorIdle, AuthorMoves

LEMMA AuthorSteps ==
    ASSUME GoldInv, AuthorStep
    PROVE  GoldInv'
PROOF
  BY AddStep, ReviewAcceptStep, ReviewRejectStep, DeepOpenStep, RetireStep, DeepFindingStep,
     ReviewDecidedStep, DeepAmendStep, RegisterOpenStep, RegisterStep, AuthorStopsStep
  DEF AuthorStep

-----------------------------------------------------------------------------
(* The steps of a review session.                                          *)

LEMMA SessionIdle ==
    ASSUME NEW D, NEW H, NEW A, NEW R, NEW G, NEW P
    PROVE  SessionOK(NoSession, D, H, A, R, G, P)
PROOF
  BY DEF NoSession, SessionOK, SessionPc, Listing, Starting, Replacing, Recording, Answered

LEMMA SessionFact ==
    ASSUME GoldInv, NEW r \in Reviewer
    PROVE  /\ SessionOK(session[r], StoredDecisions, Judgements, StoredAnnotations,
                        runs, retired, apps)
           /\ DOMAIN session = Reviewer
PROOF
  BY DEF GoldInv, SessionsOK

\* Steps that only move the session.
LEMMA ReadingStep ==
    ASSUME GoldInv, NEW r \in Reviewer, NEW z, session' = [session EXCEPT ![r] = z],
           UNCHANGED <<annotationVars, poolVars, author, opens>>,
           SessionOK(z, StoredDecisions, Judgements, StoredAnnotations, runs, retired, apps)
    PROVE  GoldInv'
PROOF
<1>1. /\ StoreInv' /\ Grows
      /\ StoredAnnotations' = StoredAnnotations /\ StoredDecisions' = StoredDecisions
      /\ Judgements' = Judgements
  BY StoresUnchanged DEF GoldInv
<1>2. UNCHANGED <<runs, retired, apps>>
  BY DEF annotationVars, poolVars
<1> QED BY <1>1, <1>2, OneSessionMoves

LEMMA OpenStep ==
    ASSUME GoldInv, NEW r \in Reviewer, NEW run \in runs, Open(r, run)
    PROVE  GoldInv'
PROOF
<1> DEFINE z == [NoSession EXCEPT !.at = "heads", !.run = run]
<1>1. /\ opens < MaxOpens /\ opens' = opens + 1 /\ session' = [session EXCEPT ![r] = z]
      /\ UNCHANGED <<annotationVars, poolVars, author>>
  BY DEF Open
<1>2. /\ StoreInv' /\ Grows
      /\ StoredAnnotations' = StoredAnnotations /\ StoredDecisions' = StoredDecisions
      /\ Judgements' = Judgements
  BY <1>1, StoresUnchanged DEF GoldInv
<1>3. UNCHANGED <<runs, retired, apps, findings>>
  BY <1>1 DEF annotationVars, poolVars
<1>4. z \in [at : {"heads"}, run : {run}, heads : {<<>>}, seen : {<<>>}, known : {<<>>},
            gone : {{}}, applied : {{}}, todo : {{}}, item : {NoAnnotation},
            old : {NoDecision}, dec : {NoDecision}]
  BY DEF NoSession
<1> HIDE DEF z
<1>5. SessionOK(z, StoredDecisions, Judgements, StoredAnnotations, runs, retired, apps)
  BY <1>4 DEF SessionOK, SessionPc, Listing, Starting, Replacing, Recording, Answered
<1>6. SessionsOK'
  BY <1>1, <1>2, <1>3, <1>5, SessionMoves DEF GoldInv
<1>7. AuthorOK(author', StoredAnnotations', findings')
  BY <1>1, <1>2, <1>3 DEF GoldInv
<1>8. opens' \in 0..MaxOpens
  BY <1>1, AuditAssumption DEF GoldInv
<1> QED BY <1>2, <1>6, <1>7, <1>8 DEF GoldInv

LEMMA ReadHeadsStep ==
    ASSUME GoldInv, NEW r \in Reviewer, ReadHeads(r)
    PROVE  GoldInv'
PROOF
<1> DEFINE s == session[r]
           heads == [i \in DOMAIN s.run |-> CurrentHead(i)]
           z == [s EXCEPT !.at = "decisions", !.heads = heads]
<1>1. /\ s.at = "heads"
      /\ session' = [session EXCEPT ![r] = z]
      /\ UNCHANGED <<annotationVars, poolVars, author, opens>>
  BY DEF ReadHeads, At
<1>2. SessionOK(s, StoredDecisions, Judgements, StoredAnnotations, runs, retired, apps)
  BY SessionFact
<1> HIDE DEF s
<1> HIDE DEF heads
<1>3. z \in [at : {"decisions"}, run : {s.run}, heads : {heads}, seen : {s.seen},
             known : {s.known}, gone : {s.gone}, applied : {s.applied}, todo : {s.todo},
             item : {s.item}, old : {s.old}, dec : {s.dec}]
  BY <1>1, <1>2 DEF SessionOK
<1> HIDE DEF z
<1>4. SessionOK(z, StoredDecisions, Judgements, StoredAnnotations, runs, retired, apps)
  BY <1>1, <1>2, <1>3
    DEF SessionOK, SessionPc, Listing, Starting, Replacing, Recording, Answered
<1> QED BY <1>1, <1>4, ReadingStep

\* Where read_decisions is called, and where it leads.
Listed(from, to, s) ==
    \/ from = "decisions" /\ to = "supersessions"
    \/ from = "replacing" /\ to = "swapping"
    \/ from = "deciding" /\ to = "comparing" /\ s.dec.sel \cap s.dec.anno.gold = {}
    \/ from = "items" /\ to = "blocked"
    \/ from = "sealing" /\ to = "applying"

LEMMA ReadDecisionsStep ==
    ASSUME GoldInv, NEW r \in Reviewer, NEW from, NEW to, Listed(from, to, session[r]),
           ReadDecisions(r, from, to)
    PROVE  GoldInv'
PROOF
<1> DEFINE s == session[r]
           z == [s EXCEPT !.at = to, !.known = decs]
<1>1. /\ s.at = from /\ Listed(from, to, s)
      /\ session' = [session EXCEPT ![r] = z]
      /\ UNCHANGED <<annotationVars, poolVars, author, opens>>
  BY DEF ReadDecisions, At
<1>2. SessionOK(s, StoredDecisions, Judgements, StoredAnnotations, runs, retired, apps)
  BY SessionFact
<1> HIDE DEF s
<1>3. Known(decs, StoredDecisions)
  BY DecShelfFacts DEF Known, GoldInv, StoreInv
<1>4. z \in [at : {to}, run : {s.run}, heads : {s.heads}, seen : {s.seen}, known : {decs},
             gone : {s.gone}, applied : {s.applied}, todo : {s.todo}, item : {s.item},
             old : {s.old}, dec : {s.dec}]
  BY <1>1, <1>2 DEF SessionOK
<1> HIDE DEF z
<1>5. SessionOK(z, StoredDecisions, Judgements, StoredAnnotations, runs, retired, apps)
  BY <1>1, <1>2, <1>3, <1>4
    DEF SessionOK, SessionPc, Listing, Starting, Replacing, Recording, Answered, Listed
<1> QED BY <1>1, <1>5, ReadingStep

LEMMA ReadSupersessionsStep ==
    ASSUME GoldInv, NEW r \in Reviewer, ReadSupersessions(r)
    PROVE  GoldInv'
PROOF
<1> DEFINE s == session[r]
           seen == [i \in DOMAIN s.run |-> HeadDecision(s.known[i], s.run)]
           z == [s EXCEPT !.at = "applications", !.known = <<>>, !.seen = seen]
<1>1. /\ s.at = "supersessions"
      /\ session' = [session EXCEPT ![r] = z]
      /\ UNCHANGED <<annotationVars, poolVars, author, opens>>
  BY DEF ReadSupersessions, At
<1>2. SessionOK(s, StoredDecisions, Judgements, StoredAnnotations, runs, retired, apps)
  BY SessionFact
<1> HIDE DEF s
<1>3. s.run \in runs /\ Known(s.known, StoredDecisions)
  BY <1>1, <1>2 DEF SessionOK, Listing
<1>4. Seen(seen, s.run, StoredDecisions)
  <2>1. DOMAIN s.run \subseteq Item
    BY <1>3, RunItems DEF GoldInv
  <2>2. ASSUME NEW i \in DOMAIN s.run, seen[i] # NoDecision
        PROVE  seen[i] \in StoredDecisions /\ seen[i].run = s.run /\ seen[i].item = i
    <3> DEFINE h == HeadDecision(s.known[i], s.run)
    <3>1. seen[i] = h
      OBVIOUS
    <3>2. s.known[i] \in Seq(StoredDecisions) /\ \A d \in ToSet(s.known[i]) : d.item = i
      BY <1>3, <2>1 DEF Known
    <3>3. h \in ToSet(s.known[i]) /\ h.run = s.run
      BY <2>2, <3>1, <3>2, HeadRead
    <3> HIDE DEF h
    <3>4. h \in StoredDecisions
      BY <3>2, <3>3 DEF ToSet
    <3> QED BY <3>1, <3>2, <3>3, <3>4
  <2> QED BY <2>2 DEF Seen
<1> HIDE DEF seen
<1>5. z \in [at : {"applications"}, run : {s.run}, heads : {s.heads}, seen : {seen},
             known : {<<>>}, gone : {s.gone}, applied : {s.applied}, todo : {s.todo},
             item : {s.item}, old : {s.old}, dec : {s.dec}]
  BY <1>1, <1>2 DEF SessionOK
<1> HIDE DEF z
<1>6. SessionOK(z, StoredDecisions, Judgements, StoredAnnotations, runs, retired, apps)
  BY <1>1, <1>2, <1>3, <1>4, <1>5
    DEF SessionOK, SessionPc, Listing, Starting, Replacing, Recording, Answered
<1> QED BY <1>1, <1>6, ReadingStep

\* Where read_applications is called, and where it leads.
Fetched(from, to) ==
    \/ from = "applications" /\ to = "retirements"
    \/ from = "applied" /\ to = "items"
    \/ from = "applying" /\ to = "checking"

LEMMA ReadApplicationsStep ==
    ASSUME GoldInv, NEW r \in Reviewer, NEW from, NEW to, Fetched(from, to),
           ReadApplications(r, from, to)
    PROVE  GoldInv'
PROOF
<1> DEFINE s == session[r]
           applied == AppliedTo(s.run)
           z == [s EXCEPT !.at = to, !.applied = applied]
<1>1. /\ s.at = from /\ Fetched(from, to)
      /\ session' = [session EXCEPT ![r] = z]
      /\ UNCHANGED <<annotationVars, poolVars, author, opens>>
  BY DEF ReadApplications, At
<1>2. SessionOK(s, StoredDecisions, Judgements, StoredAnnotations, runs, retired, apps)
  BY SessionFact
<1> HIDE DEF s
<1>3. applied \subseteq StoredDecisions /\ \A d \in applied : \E a \in apps : a.dec = d
  <2>1. \A d \in applied : \E a \in apps : a.dec = d
    BY DEF AppliedTo
  <2> HIDE DEF applied
  <2> QED BY <2>1 DEF GoldInv, StoreInv, Applied, Judgements
<1> HIDE DEF applied
<1>4. z \in [at : {to}, run : {s.run}, heads : {s.heads}, seen : {s.seen},
             known : {s.known}, gone : {s.gone}, applied : {applied}, todo : {s.todo},
             item : {s.item}, old : {s.old}, dec : {s.dec}]
  BY <1>1, <1>2 DEF SessionOK
<1> HIDE DEF z
<1>5. SessionOK(z, StoredDecisions, Judgements, StoredAnnotations, runs, retired, apps)
  BY <1>1, <1>2, <1>3, <1>4
    DEF SessionOK, SessionPc, Listing, Starting, Replacing, Recording, Answered, Fetched
<1> QED BY <1>1, <1>5, ReadingStep

LEMMA ReadRetirementsStep ==
    ASSUME GoldInv, NEW r \in Reviewer, ReadRetirements(r)
    PROVE  GoldInv'
PROOF
<1> DEFINE s == session[r]
           z == [s EXCEPT !.at = "items", !.gone = retired, !.todo = DOMAIN s.run]
<1>1. /\ s.at = "retirements"
      /\ session' = [session EXCEPT ![r] = z]
      /\ UNCHANGED <<annotationVars, poolVars, author, opens>>
  BY DEF ReadRetirements, At
<1>2. SessionOK(s, StoredDecisions, Judgements, StoredAnnotations, runs, retired, apps)
  BY SessionFact
<1> HIDE DEF s
<1>3. z \in [at : {"items"}, run : {s.run}, heads : {s.heads}, seen : {s.seen},
             known : {s.known}, gone : {retired}, applied : {s.applied},
             todo : {DOMAIN s.run}, item : {s.item}, old : {s.old}, dec : {s.dec}]
  BY <1>1, <1>2 DEF SessionOK
<1> HIDE DEF z
<1>4. SessionOK(z, StoredDecisions, Judgements, StoredAnnotations, runs, retired, apps)
  BY <1>1, <1>2, <1>3
    DEF SessionOK, SessionPc, Listing, Starting, Replacing, Recording, Answered
<1> QED BY <1>1, <1>4, ReadingStep

LEMMA SkipItemStep ==
    ASSUME GoldInv, NEW r \in Reviewer, NEW i \in Item, SkipItem(r, i)
    PROVE  GoldInv'
PROOF
<1> DEFINE s == session[r]
           z == [s EXCEPT !.todo = @ \ {i}]
<1>1. /\ s.at = "items"
      /\ session' = [session EXCEPT ![r] = z]
      /\ UNCHANGED <<annotationVars, poolVars, author, opens>>
  BY DEF SkipItem, At
<1>2. SessionOK(s, StoredDecisions, Judgements, StoredAnnotations, runs, retired, apps)
  BY SessionFact
<1> HIDE DEF s
<1>3. z \in [at : {"items"}, run : {s.run}, heads : {s.heads}, seen : {s.seen},
             known : {s.known}, gone : {s.gone}, applied : {s.applied},
             todo : {s.todo \ {i}}, item : {s.item}, old : {s.old}, dec : {s.dec}]
  BY <1>1, <1>2 DEF SessionOK
<1> HIDE DEF z
<1>4. SessionOK(z, StoredDecisions, Judgements, StoredAnnotations, runs, retired, apps)
  BY <1>1, <1>2, <1>3
    DEF SessionOK, SessionPc, Listing, Starting, Replacing, Recording, Answered
<1> QED BY <1>1, <1>4, ReadingStep

LEMMA TakeStoredStep ==
    ASSUME GoldInv, NEW r \in Reviewer, NEW i \in Item, TakeStored(r, i)
    PROVE  GoldInv'
PROOF
<1> DEFINE s == session[r]
           z == [s EXCEPT !.at = "deciding", !.item = i, !.dec = s.seen[i],
                          !.old = NoDecision]
<1>1. /\ s.at = "items" /\ i \in s.todo /\ s.seen[i] # NoDecision
      /\ session' = [session EXCEPT ![r] = z]
      /\ UNCHANGED <<annotationVars, poolVars, author, opens>>
  BY DEF TakeStored, At
<1>2. SessionOK(s, StoredDecisions, Judgements, StoredAnnotations, runs, retired, apps)
  BY SessionFact
<1> HIDE DEF s
<1>3. /\ i \in DOMAIN s.run /\ s.seen[i] \in StoredDecisions
      /\ s.seen[i].run = s.run /\ s.seen[i].item = i
  BY <1>1, <1>2 DEF SessionOK, Starting, Seen
<1>4. Formed(s.seen[i])
  BY <1>3 DEF GoldInv, StoreInv, Recorded
<1>5. z \in [at : {"deciding"}, run : {s.run}, heads : {s.heads}, seen : {s.seen},
             known : {s.known}, gone : {s.gone}, applied : {s.applied}, todo : {s.todo},
             item : {i}, old : {NoDecision}, dec : {s.seen[i]}]
  BY <1>1, <1>2 DEF SessionOK
<1> HIDE DEF z
<1>6. SessionOK(z, StoredDecisions, Judgements, StoredAnnotations, runs, retired, apps)
  BY <1>1, <1>2, <1>3, <1>4, <1>5
    DEF SessionOK, SessionPc, Listing, Starting, Replacing, Recording, Answered
<1> QED BY <1>1, <1>6, ReadingStep

LEMMA AskStep ==
    ASSUME GoldInv, NEW r \in Reviewer, NEW i \in Item, Ask(r, i)
    PROVE  GoldInv'
PROOF
<1> DEFINE s == session[r]
           z == [s EXCEPT !.at = "asked", !.item = i, !.old = s.seen[i]]
<1>1. /\ s.at = "items" /\ i \in s.todo /\ (s.seen[i] = NoDecision \/ Blocked(s.seen[i]))
      /\ session' = [session EXCEPT ![r] = z]
      /\ UNCHANGED <<annotationVars, poolVars, author, opens>>
  BY DEF Ask, At
<1>2. SessionOK(s, StoredDecisions, Judgements, StoredAnnotations, runs, retired, apps)
  BY SessionFact
<1> HIDE DEF s
<1>3. i \in DOMAIN s.run /\ (s.seen[i] # NoDecision => s.seen[i] \in StoredDecisions)
  BY <1>1, <1>2 DEF SessionOK, Starting, Seen
<1>4. z \in [at : {"asked"}, run : {s.run}, heads : {s.heads}, seen : {s.seen},
             known : {s.known}, gone : {s.gone}, applied : {s.applied}, todo : {s.todo},
             item : {i}, old : {s.seen[i]}, dec : {s.dec}]
  BY <1>1, <1>2 DEF SessionOK
<1> HIDE DEF z
<1>5. SessionOK(z, StoredDecisions, Judgements, StoredAnnotations, runs, retired, apps)
  BY <1>1, <1>2, <1>3, <1>4
    DEF SessionOK, SessionPc, Listing, Starting, Replacing, Recording, Answered
<1> QED BY <1>1, <1>5, ReadingStep

\* What a reviewer may answer.
LEMMA ChoiceFormed ==
    ASSUME NEW s, s.item \in DOMAIN s.run, NEW d \in Choice(s)
    PROVE  Formed(d) /\ d.run = s.run /\ d.item = s.item
PROOF
<1>1. /\ d.run = s.run /\ d.item = s.item /\ d.anno = s.run[s.item] /\ d.by \in Stamp
      /\ \/ d.outcome \in {"complete", "blocked"} /\ d.sel = {}
         \/ d.outcome = "extended" /\ d.sel \in (SUBSET Candidate) \ {{}}
  BY DEF Choice
<1>2. d.sel \subseteq Clause
  BY <1>1, AuditAssumption
<1> QED BY <1>1, <1>2 DEF Formed, Outcome

LEMMA AnswerStep ==
    ASSUME GoldInv, NEW r \in Reviewer, Answer(r)
    PROVE  GoldInv'
PROOF
<1> DEFINE s == session[r]
           at == IF s.old = NoDecision THEN "deciding" ELSE "replacing"
<1>1. PICK d \in Choice(s) : session' = [session EXCEPT ![r].dec = d, ![r].at = at]
  BY DEF Answer
<1> DEFINE z == [s EXCEPT !.dec = d, !.at = at]
<1>2. /\ s.at = "asked" /\ session' = [session EXCEPT ![r] = z]
      /\ UNCHANGED <<annotationVars, poolVars, author, opens>>
  BY <1>1 DEF Answer, At
<1>3. SessionOK(s, StoredDecisions, Judgements, StoredAnnotations, runs, retired, apps)
  BY SessionFact
<1> HIDE DEF s
<1>4. s.item \in DOMAIN s.run
  BY <1>2, <1>3 DEF SessionOK
<1>5. Formed(d) /\ d.run = s.run /\ d.item = s.item
  BY <1>4, ChoiceFormed
<1>6. z \in [at : {at}, run : {s.run}, heads : {s.heads}, seen : {s.seen}, known : {s.known},
            gone : {s.gone}, applied : {s.applied}, todo : {s.todo}, item : {s.item},
            old : {s.old}, dec : {d}]
  BY <1>3 DEF SessionOK
<1>7. at \in {"deciding", "replacing"} /\ (at = "replacing" => s.old # NoDecision)
  OBVIOUS
<1> HIDE DEF z, at
<1>8. SessionOK(z, StoredDecisions, Judgements, StoredAnnotations, runs, retired, apps)
  BY <1>2, <1>3, <1>4, <1>5, <1>6, <1>7
    DEF SessionOK, SessionPc, Listing, Starting, Replacing, Recording, Answered
<1> QED BY <1>2, <1>8, ReadingStep

LEMMA SwapStep ==
    ASSUME GoldInv, NEW r \in Reviewer, Swap(r)
    PROVE  GoldInv'
PROOF
<1> DEFINE s == session[r]
           z == [s EXCEPT !.at = "replaced", !.known = <<>>]
<1>1. /\ s.at = "swapping"
      /\ session' = [session EXCEPT ![r] = z]
      /\ UNCHANGED <<annotationVars, poolVars, author, opens>>
  BY DEF Swap, At
<1>2. SessionOK(s, StoredDecisions, Judgements, StoredAnnotations, runs, retired, apps)
  BY SessionFact
<1> HIDE DEF s
<1>3. z \in [at : {"replaced"}, run : {s.run}, heads : {s.heads}, seen : {s.seen},
             known : {<<>>}, gone : {s.gone}, applied : {s.applied}, todo : {s.todo},
             item : {s.item}, old : {s.old}, dec : {s.dec}]
  BY <1>1, <1>2 DEF SessionOK
<1> HIDE DEF z
<1>4. SessionOK(z, StoredDecisions, Judgements, StoredAnnotations, runs, retired, apps)
  BY <1>1, <1>2, <1>3
    DEF SessionOK, SessionPc, Listing, Starting, Replacing, Recording, Answered
<1> QED BY <1>1, <1>4, ReadingStep

\* A decision of a registered run is written.
LEMMA DecisionStored ==
    ASSUME StoreInv, NEW x, Formed(x), x.run \in runs, WriteDecision(x),
           UNCHANGED <<annotationVars, runs, supers, apps, seals>>
    PROVE  StoreInv' /\ Grows /\ x \in StoredDecisions'
PROOF
<1>1. x.item \in Item
  BY RunItems DEF Formed
<1>2. DecShelf' /\ StoredDecisions' = StoredDecisions \cup {x}
  BY <1>1, DecisionWritten DEF StoreInv
<1>3. Recorded(StoredDecisions', runs) /\ Replaced(supers', StoredDecisions')
  BY <1>2 DEF StoreInv, Recorded, Replaced
<1> QED BY <1>2, <1>3, DecisionsStored

LEMMA ReplaceStep ==
    ASSUME GoldInv, NEW r \in Reviewer, Replace(r)
    PROVE  GoldInv'
PROOF
<1> DEFINE s == session[r]
           z == [s EXCEPT !.at = "superseding"]
<1>1. /\ s.at = "replaced" /\ WriteDecision(s.dec) /\ session' = [session EXCEPT ![r] = z]
      /\ UNCHANGED <<annotationVars, runs, supers, apps, seals, author, opens>>
  BY DEF Replace, At
<1>2. SessionOK(s, StoredDecisions, Judgements, StoredAnnotations, runs, retired, apps)
  BY SessionFact
<1> HIDE DEF s
<1>3. Formed(s.dec) /\ s.dec.run \in runs
  BY <1>1, <1>2 DEF SessionOK, Answered, Replacing
<1>4. StoreInv' /\ Grows /\ s.dec \in StoredDecisions'
  BY <1>1, <1>3, DecisionStored DEF GoldInv
<1>5. SessionOK(s, StoredDecisions', Judgements', StoredAnnotations', runs', retired', apps')
  BY <1>2, <1>4, SessionStays DEF Grows
<1>6. z \in [at : {"superseding"}, run : {s.run}, heads : {s.heads}, seen : {s.seen},
            known : {s.known}, gone : {s.gone}, applied : {s.applied}, todo : {s.todo},
            item : {s.item}, old : {s.old}, dec : {s.dec}]
  BY <1>2 DEF SessionOK
<1> HIDE DEF z
<1>7. SessionOK(z, StoredDecisions', Judgements', StoredAnnotations', runs', retired', apps')
  BY <1>1, <1>4, <1>5, <1>6
    DEF SessionOK, SessionPc, Listing, Starting, Replacing, Recording, Answered
<1> QED BY <1>1, <1>4, <1>7, OneSessionMoves

\* The session goes on with the next item.
LEMMA NextItemOK ==
    ASSUME NEW s, NEW D, NEW H, NEW A, NEW R, NEW G, NEW P,
           SessionOK(s, D, H, A, R, G, P), s.at \notin Starting, s.known = <<>>
    PROVE  SessionOK(NextItem(s), D, H, A, R, G, P)
PROOF
<1> DEFINE z == NextItem(s)
<1>1. z \in [at : {"items"}, run : {s.run}, heads : {s.heads}, seen : {s.seen},
            known : {s.known}, gone : {s.gone}, applied : {s.applied},
            todo : {s.todo \ {s.item}}, item : {s.item}, old : {s.old}, dec : {s.dec}]
  BY DEF SessionOK, NextItem
<1> HIDE DEF z
<1>2. SessionOK(z, D, H, A, R, G, P)
  BY <1>1 DEF SessionOK, SessionPc, Listing, Starting, Replacing, Recording, Answered
<1> QED BY <1>2 DEF z

LEMMA SupersedeStep ==
    ASSUME GoldInv, NEW r \in Reviewer, Supersede(r)
    PROVE  GoldInv'
PROOF
<1> DEFINE s == session[r]
           z == IF Blocked(s.dec) THEN NextItem(s) ELSE [s EXCEPT !.at = "deciding"]
<1>1. /\ s.at = "superseding" /\ supers' = supers \cup {[old |-> s.old, new |-> s.dec]}
      /\ session' = [session EXCEPT ![r] = z]
      /\ UNCHANGED <<annotationVars, runs, decs, apps, seals, author, opens>>
  BY DEF Supersede, WriteSupersession, At
<1>2. SessionOK(s, StoredDecisions, Judgements, StoredAnnotations, runs, retired, apps)
  BY SessionFact
<1> HIDE DEF s
<1>3. s.old \in StoredDecisions /\ Blocked(s.old) /\ s.dec \in StoredDecisions
  BY <1>1, <1>2 DEF SessionOK, Replacing
<1>4. SessionOK(z, StoredDecisions, Judgements, StoredAnnotations, runs, retired, apps)
  <2>1. CASE Blocked(s.dec)
    <3>1. s.known = <<>> /\ s.at \notin Starting
      BY <1>1, <1>2 DEF SessionOK, Listing, Starting
    <3>2. SessionOK(NextItem(s), StoredDecisions, Judgements, StoredAnnotations,
                    runs, retired, apps)
      BY <1>2, <3>1, NextItemOK
    <3> QED BY <2>1, <3>2
  <2>2. CASE ~Blocked(s.dec)
    <3>1. z \in [at : {"deciding"}, run : {s.run}, heads : {s.heads}, seen : {s.seen},
                known : {s.known}, gone : {s.gone}, applied : {s.applied}, todo : {s.todo},
                item : {s.item}, old : {s.old}, dec : {s.dec}]
      BY <1>2, <2>2 DEF SessionOK
    <3> HIDE DEF z
    <3> QED BY <1>1, <1>2, <3>1
      DEF SessionOK, SessionPc, Listing, Starting, Replacing, Recording, Answered
  <2> QED BY <2>1, <2>2
<1>5. StoreInv' /\ Grows
  <2>1. DecShelf' /\ StoredDecisions' = StoredDecisions
    BY <1>1, DecisionsUnchanged DEF GoldInv, StoreInv
  <2>2. Recorded(StoredDecisions', runs) /\ Replaced(supers', StoredDecisions')
    BY <1>1, <1>3, <2>1 DEF GoldInv, StoreInv, Replaced
  <2> QED BY <1>1, <2>1, <2>2, DecisionsStored DEF GoldInv
<1>6. SessionOK(z, StoredDecisions', Judgements', StoredAnnotations', runs', retired', apps')
  BY <1>4, <1>5, SessionStays DEF Grows
<1> HIDE DEF z
<1> QED BY <1>1, <1>5, <1>6, OneSessionMoves

\* create_decision returns with a decision that is stored.
LEMMA DecidedOK ==
    ASSUME NEW s, NEW D, NEW H, NEW A, NEW R, NEW G, NEW P,
           SessionOK(s, D, H, A, R, G, P), s.at = "writing",
           ~Blocked(s.dec) => s.dec \in H
    PROVE  SessionOK(Decided(s), D, H, A, R, G, P)
PROOF
<1> DEFINE z == Decided(s)
<1>1. CASE Blocked(s.dec)
  <2>1. z = NextItem(s) /\ s.at \notin Starting /\ s.known = <<>>
    BY <1>1 DEF Decided, Starting, SessionOK, Listing
  <2>2. SessionOK(NextItem(s), D, H, A, R, G, P)
    BY <2>1, NextItemOK
  <2> QED BY <2>1, <2>2
<1>2. CASE ~Blocked(s.dec)
  <2>1. z \in [at : {"decided"}, run : {s.run}, heads : {s.heads}, seen : {s.seen},
              known : {s.known}, gone : {s.gone}, applied : {s.applied}, todo : {s.todo},
              item : {s.item}, old : {s.old}, dec : {s.dec}]
    BY <1>2 DEF SessionOK, Decided
  <2> HIDE DEF z
  <2>2. SessionOK(z, D, H, A, R, G, P)
    BY <1>2, <2>1 DEF SessionOK, SessionPc, Listing, Starting, Replacing, Recording, Answered
  <2> QED BY <2>2 DEF z
<1> QED BY <1>1, <1>2

LEMMA CompareStep ==
    ASSUME GoldInv, NEW r \in Reviewer, Compare(r)
    PROVE  GoldInv'
PROOF
<1> DEFINE s == session[r]
           read == [s EXCEPT !.known = <<>>]
           w == [s EXCEPT !.at = "writing", !.known = <<>>]
           head == HeadDecision(s.known[s.item], s.run)
           z == IF head = s.dec THEN Decided(read) ELSE w
<1>1. /\ s.at = "comparing" /\ session' = [session EXCEPT ![r] = z]
      /\ UNCHANGED <<annotationVars, poolVars, author, opens>>
  BY DEF Compare, At
<1>2. SessionOK(s, StoredDecisions, Judgements, StoredAnnotations, runs, retired, apps)
  BY SessionFact
<1> HIDE DEF s
<1>3. /\ Formed(s.dec) /\ s.run \in runs /\ s.item \in DOMAIN s.run
      /\ Known(s.known, StoredDecisions)
  BY <1>1, <1>2 DEF SessionOK, Answered, Recording, Listing
<1>4. w \in [at : {"writing"}, run : {s.run}, heads : {s.heads}, seen : {s.seen},
            known : {<<>>}, gone : {s.gone}, applied : {s.applied}, todo : {s.todo},
            item : {s.item}, old : {s.old}, dec : {s.dec}]
  BY <1>2 DEF SessionOK
<1>5. Decided(read) = Decided(w)
  <2>1. NextItem(read) = NextItem(w) /\ read.dec = w.dec
    BY <1>2 DEF SessionOK, NextItem
  <2>2. [read EXCEPT !.at = "decided"] = [w EXCEPT !.at = "decided"]
    BY <1>2 DEF SessionOK
  <2> QED BY <2>1, <2>2 DEF Decided
<1>6. SessionOK(w, StoredDecisions, Judgements, StoredAnnotations, runs, retired, apps)
  <2> HIDE DEF w
  <2> QED BY <1>1, <1>2, <1>4
    DEF SessionOK, SessionPc, Listing, Starting, Replacing, Recording, Answered
<1>7. w.at = "writing" /\ w.dec = s.dec
  <2> HIDE DEF w
  <2> QED BY <1>4
<1>8. head = s.dec => s.dec \in StoredDecisions
  <2>1. s.known[s.item] \in Seq(StoredDecisions)
    BY <1>3, RunItems DEF Known, GoldInv
  <2>2. head = NoDecision \/ head \in ToSet(s.known[s.item])
    BY <2>1, HeadRead
  <2>3. s.dec # NoDecision
    BY <1>3 DEF Formed, Outcome, NoDecision
  <2> HIDE DEF head
  <2> QED BY <2>1, <2>2, <2>3 DEF ToSet
<1>9. SessionOK(z, StoredDecisions, Judgements, StoredAnnotations, runs, retired, apps)
  <2> HIDE DEF w, read, head
  <2>1. CASE head = s.dec
    <3>1. ~Blocked(w.dec) => w.dec \in Judgements
      BY <1>7, <1>8, <2>1 DEF Judgements
    <3>2. SessionOK(Decided(w), StoredDecisions, Judgements, StoredAnnotations, runs, retired, apps)
      BY <1>6, <1>7, <3>1, DecidedOK
    <3> QED BY <1>5, <2>1, <3>2
  <2>2. CASE head # s.dec
    BY <1>6, <2>2
  <2> QED BY <2>1, <2>2
<1> HIDE DEF z
<1> QED BY <1>1, <1>9, ReadingStep

LEMMA RecordStep ==
    ASSUME GoldInv, NEW r \in Reviewer, Record(r)
    PROVE  GoldInv'
PROOF
<1> DEFINE s == session[r]
           z == Decided(s)
<1>1. /\ s.at = "writing" /\ WriteDecision(s.dec) /\ session' = [session EXCEPT ![r] = z]
      /\ UNCHANGED <<annotationVars, runs, supers, apps, seals, author, opens>>
  BY DEF Record, At
<1>2. SessionOK(s, StoredDecisions, Judgements, StoredAnnotations, runs, retired, apps)
  BY SessionFact
<1> HIDE DEF s
<1>3. Formed(s.dec) /\ s.dec.run \in runs
  BY <1>1, <1>2 DEF SessionOK, Answered, Recording
<1>4. StoreInv' /\ Grows /\ s.dec \in StoredDecisions'
  BY <1>1, <1>3, DecisionStored DEF GoldInv
<1>5. SessionOK(s, StoredDecisions', Judgements', StoredAnnotations', runs', retired', apps')
  BY <1>2, <1>4, SessionStays DEF Grows
<1>6. ~Blocked(s.dec) => s.dec \in Judgements'
  BY <1>4 DEF Judgements
<1>7. SessionOK(z, StoredDecisions', Judgements', StoredAnnotations', runs', retired', apps')
  BY <1>1, <1>5, <1>6, DecidedOK
<1> HIDE DEF z
<1> QED BY <1>1, <1>4, <1>7, OneSessionMoves

LEMMA ApplyAmendStep ==
    ASSUME GoldInv, NEW r \in Reviewer, ApplyAmend(r)
    PROVE  GoldInv'
PROOF
<1> DEFINE s == session[r]
           z == [s EXCEPT !.at = "amended"]
           d == s.dec
           x == Successor(d.anno, d.sel, "pool")
<1>1. /\ s.at = "decided" /\ session' = [session EXCEPT ![r] = z]
      /\ UNCHANGED <<retired, reviews, findings, poolVars, author, opens>>
      /\ \E t \in Insertions(annos[d.anno.item], x) : annos' = [annos EXCEPT ![d.anno.item] = t]
  BY DEF ApplyAmend, Amend, At
<1>2. SessionOK(s, StoredDecisions, Judgements, StoredAnnotations, runs, retired, apps)
  BY SessionFact
<1> HIDE DEF s
<1>3. /\ Formed(d) /\ d \in Judgements /\ d.sel \cap d.anno.gold = {}
      /\ d.run \in runs /\ d.item \in DOMAIN d.run
  BY <1>1, <1>2 DEF SessionOK, Answered, Recording, Formed
<1>4. d.anno \in StoredAnnotations /\ d.sel \in SUBSET Clause
  <2>1. Registered(d.run, StoredAnnotations)
    BY <1>3 DEF GoldInv, StoreInv
  <2> QED BY <1>3, <2>1 DEF Formed, Registered
<1>5. x = Effect(d)
  BY DEF Effect
<1>6. Founded(x, StoredAnnotations, Judgements, findings) /\ x.item = d.anno.item
  <2>1. Backed(x, Judgements)
    BY <1>3, <1>5 DEF Backed
  <2>2. Evidence(StoredAnnotations, Judgements, findings, reviews)
    BY DEF GoldInv, StoreInv
  <2> HIDE DEF d
  <2>3. ASSUME NEW via \in {"pool", "deep"}, via = "pool"
        PROVE  /\ Founded(Successor(d.anno, d.sel, via), StoredAnnotations, Judgements, findings)
               /\ Successor(d.anno, d.sel, via).item = d.anno.item
    <3> DEFINE added == d.sel
               a == d.anno
    <3>1. /\ added \in SUBSET Clause /\ added \cap a.gold = {} /\ a \in StoredAnnotations
          /\ Backed(Successor(a, added, via), Judgements)
      BY <1>3, <1>4, <2>1, <2>3
    <3> HIDE DEF added, a
    <3>2. via = "deep" => [anno |-> a, added |-> added] \in findings
      BY <2>3
    <3>3. /\ Founded(Successor(a, added, via), StoredAnnotations, Judgements, findings)
          /\ Successor(a, added, via).item = a.item
      BY <2>2, <3>1, <3>2, SuccessorFounded
    <3> QED BY <3>3 DEF a, added
  <2> QED BY <2>3
<1> HIDE DEF x
<1>7. WriteAnnotation(x)
  BY <1>1, <1>6 DEF WriteAnnotation
<1>8. StoreInv' /\ Grows /\ x \in StoredAnnotations'
  BY <1>1, <1>6, <1>7, AnnotationStored DEF GoldInv
<1>9. SessionOK(s, StoredDecisions', Judgements', StoredAnnotations', runs', retired', apps')
  BY <1>2, <1>8, SessionStays DEF Grows
<1>10. z \in [at : {"amended"}, run : {s.run}, heads : {s.heads}, seen : {s.seen},
             known : {s.known}, gone : {s.gone}, applied : {s.applied}, todo : {s.todo},
             item : {s.item}, old : {s.old}, dec : {s.dec}]
  BY <1>2 DEF SessionOK
<1> HIDE DEF z
<1>11. SessionOK(z, StoredDecisions', Judgements', StoredAnnotations', runs', retired', apps')
  BY <1>1, <1>5, <1>8, <1>9, <1>10
    DEF SessionOK, SessionPc, Listing, Starting, Replacing, Recording, Answered
<1> QED BY <1>1, <1>8, <1>11, OneSessionMoves

LEMMA ApplyRecordStep ==
    ASSUME GoldInv, NEW r \in Reviewer, ApplyRecord(r)
    PROVE  GoldInv'
PROOF
<1> DEFINE s == session[r]
           d == s.dec
           x == Effect(d)
           seen == [s.seen EXCEPT ![s.item] = d]
           z == [s EXCEPT !.at = "applied", !.todo = @ \ {s.item}, !.seen = seen]
<1>1. /\ s.at = "amended" /\ apps' = apps \cup {[dec |-> d, succ |-> x]}
      /\ session' = [session EXCEPT ![r] = z]
      /\ UNCHANGED <<annotationVars, runs, decs, supers, seals, author, opens>>
  BY DEF ApplyRecord, CreateApplication, Effect, At
<1>2. SessionOK(s, StoredDecisions, Judgements, StoredAnnotations, runs, retired, apps)
  BY SessionFact
<1> HIDE DEF s
<1>3. /\ d \in Judgements /\ x \in StoredAnnotations /\ d.run = s.run /\ d.item = s.item
      /\ s.item \in DOMAIN s.run /\ Seen(s.seen, s.run, StoredDecisions)
  BY <1>1, <1>2 DEF SessionOK, Answered, Recording, Starting
<1>4. /\ StoreInv' /\ Grows
      /\ StoredAnnotations' = StoredAnnotations /\ StoredDecisions' = StoredDecisions
      /\ Judgements' = Judgements
  <2> HIDE DEF x
  <2>1. \A a \in apps' \ apps : Applied({a}, Judgements, StoredAnnotations)
    BY <1>1, <1>3 DEF Applied, x
  <2>2. /\ UNCHANGED <<annos, decs, supers, seals, retired, reviews, findings, runs>>
        /\ apps \subseteq apps' /\ retired \subseteq Item
    BY <1>1 DEF annotationVars, GoldInv, StoreInv
  <2> QED BY <2>1, <2>2, RecordsAdded DEF GoldInv
<1>5. SessionOK(s, StoredDecisions', Judgements', StoredAnnotations', runs', retired', apps')
  BY <1>2, <1>4, SessionStays DEF Grows
<1>6. z \in [at : {"applied"}, run : {s.run}, heads : {s.heads}, seen : {seen},
            known : {s.known}, gone : {s.gone}, applied : {s.applied},
            todo : {s.todo \ {s.item}}, item : {s.item}, old : {s.old}, dec : {s.dec}]
  <2> HIDE DEF seen
  <2> QED BY <1>2 DEF SessionOK
<1>7. Seen(seen, s.run, StoredDecisions')
  <2>1. DOMAIN seen = DOMAIN s.run
    BY <1>3 DEF Seen
  <2>2. seen[s.item] = d /\ \A i \in DOMAIN s.run : i # s.item => seen[i] = s.seen[i]
    BY <1>3 DEF Seen
  <2>3. d \in StoredDecisions
    BY <1>3 DEF Judgements
  <2> HIDE DEF seen, d
  <2> QED BY <1>3, <1>4, <2>1, <2>2, <2>3 DEF Seen
<1> HIDE DEF z, seen
<1>8. SessionOK(z, StoredDecisions', Judgements', StoredAnnotations', runs', retired', apps')
  BY <1>1, <1>5, <1>6, <1>7
    DEF SessionOK, SessionPc, Listing, Starting, Replacing, Recording, Answered
<1> QED BY <1>1, <1>4, <1>8, OneSessionMoves

LEMMA NoneBlockedStep ==
    ASSUME GoldInv, NEW r \in Reviewer, NoneBlocked(r)
    PROVE  GoldInv'
PROOF
<1> DEFINE s == session[r]
           z == [s EXCEPT !.at = "sealing", !.known = <<>>]
<1>1. /\ s.at = "blocked"
      /\ session' = [session EXCEPT ![r] = z]
      /\ UNCHANGED <<annotationVars, poolVars, author, opens>>
  BY DEF NoneBlocked, At
<1>2. SessionOK(s, StoredDecisions, Judgements, StoredAnnotations, runs, retired, apps)
  BY SessionFact
<1> HIDE DEF s
<1>3. z \in [at : {"sealing"}, run : {s.run}, heads : {s.heads}, seen : {s.seen},
             known : {<<>>}, gone : {s.gone}, applied : {s.applied}, todo : {s.todo},
             item : {s.item}, old : {s.old}, dec : {s.dec}]
  BY <1>1, <1>2 DEF SessionOK
<1> HIDE DEF z
<1>4. SessionOK(z, StoredDecisions, Judgements, StoredAnnotations, runs, retired, apps)
  BY <1>1, <1>2, <1>3
    DEF SessionOK, SessionPc, Listing, Starting, Replacing, Recording, Answered
<1> QED BY <1>1, <1>4, ReadingStep

\* seal_run found one judgement of each item that is not retired, and its
\* application; what it found stays true until the seal is written.
LEMMA CheckStep ==
    ASSUME GoldInv, NEW r \in Reviewer, Check(r)
    PROVE  GoldInv'
PROOF
<1> DEFINE s == session[r]
           live == DOMAIN s.run \ s.gone
           heads == UNION {HeadDecisions(s.known[i], s.run) : i \in live}
           z == [s EXCEPT !.at = "signing", !.known = <<>>, !.applied = heads]
<1>1. /\ s.at = "checking" /\ heads = s.applied
      /\ \A i \in live : \E d \in heads : HeadDecisions(s.known[i], s.run) = {d}
      /\ \A d \in heads : ~Blocked(d)
      /\ session' = [session EXCEPT ![r] = z]
      /\ UNCHANGED <<annotationVars, poolVars, author, opens>>
  BY DEF Check, SealAccepts, SealedDecisions, At
<1>2. SessionOK(s, StoredDecisions, Judgements, StoredAnnotations, runs, retired, apps)
  BY SessionFact
<1> HIDE DEF s
<1>3. /\ s.run \in runs /\ s.gone \subseteq retired /\ Known(s.known, StoredDecisions)
      /\ \A d \in s.applied : \E a \in apps : a.dec = d
  BY <1>1, <1>2 DEF SessionOK, Listing
<1>4. \A i \in live : \A d \in HeadDecisions(s.known[i], s.run) : d.item = i /\ d.run = s.run
  <2> TAKE i \in live
  <2> TAKE d \in HeadDecisions(s.known[i], s.run)
  <2>1. i \in Item
    BY <1>3, RunItems DEF GoldInv
  <2>2. d \in ToSet(s.known[i]) /\ d.run = s.run
    BY HeadsRead
  <2> QED BY <1>3, <2>1, <2>2 DEF Known
<1>5. Certified(s.run, heads, retired, apps)
  <2> SUFFICES ASSUME NEW i \in DOMAIN s.run \ retired
               PROVE  \E d \in heads : /\ \A e \in heads : e.item = i => e = d
                                       /\ d.run = s.run /\ d.item = i /\ ~Blocked(d)
                                       /\ \E a \in apps : a.dec = d
    BY DEF Certified
  <2>1. i \in live
    BY <1>3
  <2>2. PICK d \in heads : HeadDecisions(s.known[i], s.run) = {d}
    BY <1>1, <2>1
  <2>3. d.run = s.run /\ d.item = i
    BY <1>4, <2>1, <2>2
  <2>4. ASSUME NEW e \in heads, e.item = i PROVE e = d
    <3>1. PICK j \in live : e \in HeadDecisions(s.known[j], s.run)
      OBVIOUS
    <3>2. j = i
      BY <1>4, <2>4, <3>1
    <3> QED BY <2>2, <3>1, <3>2
  <2> HIDE DEF heads, live
  <2> QED BY <1>1, <1>3, <2>2, <2>3, <2>4
<1> HIDE DEF heads, live
<1>6. z \in [at : {"signing"}, run : {s.run}, heads : {s.heads}, seen : {s.seen},
             known : {<<>>}, gone : {s.gone}, applied : {heads}, todo : {s.todo},
             item : {s.item}, old : {s.old}, dec : {s.dec}]
  BY <1>1, <1>2 DEF SessionOK
<1> HIDE DEF z
<1>7. SessionOK(z, StoredDecisions, Judgements, StoredAnnotations, runs, retired, apps)
  BY <1>1, <1>2, <1>3, <1>4, <1>5, <1>6
    DEF SessionOK, SessionPc, Listing, Starting, Replacing, Recording, Answered
<1> QED BY <1>1, <1>7, ReadingStep

LEMMA SealStep ==
    ASSUME GoldInv, NEW r \in Reviewer, Seal(r)
    PROVE  GoldInv'
PROOF
<1> DEFINE s == session[r]
           q == [run |-> s.run, decs |-> s.applied]
<1>1. /\ s.at = "signing" /\ seals' = seals \cup {q}
      /\ session' = [session EXCEPT ![r] = NoSession]
      /\ UNCHANGED <<annotationVars, runs, decs, supers, apps, author, opens>>
  BY DEF Seal, WriteSeal, At
<1>2. SessionOK(s, StoredDecisions, Judgements, StoredAnnotations, runs, retired, apps)
  BY SessionFact
<1> HIDE DEF s
<1>3. /\ s.run \in runs /\ s.applied \subseteq StoredDecisions
      /\ Certified(s.run, s.applied, retired, apps)
  BY <1>1, <1>2 DEF SessionOK
<1>4. UNCHANGED <<annos, retired, reviews, findings>>
  BY <1>1 DEF annotationVars
<1>5. StoredDecisions' = StoredDecisions /\ Judgements' = Judgements /\ DecShelf'
  BY <1>1, DecisionsUnchanged DEF GoldInv, StoreInv
<1>6. StoredAnnotations' = StoredAnnotations /\ AnnoShelf'
  BY <1>4, AnnotationsUnchanged DEF GoldInv, StoreInv
<1>7. Grows
  BY <1>1, <1>4, <1>5, <1>6 DEF Grows
<1>8. q.run = s.run /\ q.decs = s.applied
  OBVIOUS
<1> HIDE DEF q
<1>9. Sealed'
  <2>1. ASSUME NEW w \in seals'
        PROVE  /\ w.run \in runs /\ w.decs \subseteq StoredDecisions
               /\ Certified(w.run, w.decs, retired, apps)
    <3>1. CASE w \in seals
      BY <3>1 DEF GoldInv, StoreInv, Sealed
    <3>2. CASE w = q
      BY <3>2, <1>3, <1>8
    <3> QED BY <1>1, <3>1, <3>2
  <2> QED BY <1>1, <1>4, <1>5, <2>1 DEF Sealed
<1>10. StoreInv'
  BY <1>1, <1>4, <1>5, <1>6, <1>9 DEF GoldInv, StoreInv
<1> QED BY <1>1, <1>7, <1>10, SessionIdle, OneSessionMoves

LEMMA SessionStopsStep ==
    ASSUME GoldInv, NEW r \in Reviewer, SessionStops(r)
    PROVE  GoldInv'
PROOF
<1>1. /\ session' = [session EXCEPT ![r] = NoSession]
      /\ UNCHANGED <<annotationVars, poolVars, author, opens>>
  BY DEF SessionStops
<1> QED BY <1>1, SessionIdle, ReadingStep

LEMMA ListingSteps ==
    ASSUME GoldInv, NEW r \in Reviewer,
           \/ ReadDecisions(r, "decisions", "supersessions")
           \/ ReadDecisions(r, "replacing", "swapping")
           \/ Decide(r) \/ Finish(r)
           \/ ReadDecisions(r, "sealing", "applying")
    PROVE  GoldInv'
PROOF
<1>1. CASE ReadDecisions(r, "decisions", "supersessions")
  BY <1>1, ReadDecisionsStep DEF Listed
<1>2. CASE ReadDecisions(r, "replacing", "swapping")
  BY <1>2, ReadDecisionsStep DEF Listed
<1>3. CASE Decide(r)
  <2>1. /\ Listed("deciding", "comparing", session[r])
        /\ ReadDecisions(r, "deciding", "comparing")
    BY <1>3 DEF Decide, Listed
  <2> QED BY <2>1, ReadDecisionsStep
<1>4. CASE Finish(r)
  <2>1. Listed("items", "blocked", session[r]) /\ ReadDecisions(r, "items", "blocked")
    BY <1>4 DEF Finish, Listed
  <2> QED BY <2>1, ReadDecisionsStep
<1>5. CASE ReadDecisions(r, "sealing", "applying")
  BY <1>5, ReadDecisionsStep DEF Listed
<1> QED BY <1>1, <1>2, <1>3, <1>4, <1>5

LEMMA FetchingSteps ==
    ASSUME GoldInv, NEW r \in Reviewer,
           \/ ReadApplications(r, "applications", "retirements")
           \/ ReadApplications(r, "applied", "items")
           \/ ReadApplications(r, "applying", "checking")
    PROVE  GoldInv'
PROOF
  BY ReadApplicationsStep DEF Fetched

LEMMA SessionSteps ==
    ASSUME GoldInv, NEW r \in Reviewer, SessionStep(r)
    PROVE  GoldInv'
PROOF
  BY OpenStep, ReadHeadsStep, ListingSteps, ReadSupersessionsStep, FetchingSteps,
     ReadRetirementsStep, SkipItemStep, TakeStoredStep, AskStep, AnswerStep, SwapStep,
     ReplaceStep, SupersedeStep, CompareStep, RecordStep, ApplyAmendStep, ApplyRecordStep,
     NoneBlockedStep, CheckStep, SealStep, SessionStopsStep
  DEF SessionStep

-----------------------------------------------------------------------------
(* The theorems.                                                           *)

LEMMA GoldInit ==
    ASSUME Init
    PROVE  GoldInv
PROOF
<1>1. /\ annos = [i \in Item |-> <<>>] /\ decs = [i \in Item |-> <<>>]
      /\ retired = {} /\ reviews = {} /\ findings = {}
      /\ runs = {} /\ supers = {} /\ apps = {} /\ seals = {}
      /\ author = NoAuthor /\ session = [r \in Reviewer |-> NoSession] /\ opens = 0
  BY DEF Init, AnnotationInit, PoolInit
<1>2. StoredAnnotations = {} /\ StoredDecisions = {}
  BY <1>1 DEF StoredAnnotations, StoredDecisions, ToSet
<1>3. AnnoShelf /\ DecShelf
  <2>1. \A X : <<>> \in Seq(X)
    OBVIOUS
  <2>2. annos \in [Item -> Seq(StoredAnnotations)] /\ decs \in [Item -> Seq(StoredDecisions)]
    BY <1>1, <2>1
  <2>3. \A i \in Item : ToSet(annos[i]) = {} /\ ToSet(decs[i]) = {}
    BY <1>1 DEF ToSet
  <2> QED BY <2>2, <2>3 DEF AnnoShelf, DecShelf
<1>4. StoreInv
  <2>1. Evidence(StoredAnnotations, Judgements, findings, reviews)
    BY <1>1, <1>2 DEF Evidence
  <2>2. Recorded(StoredDecisions, runs) /\ Replaced(supers, StoredDecisions)
    BY <1>1, <1>2 DEF Recorded, Replaced
  <2>3. Applied(apps, Judgements, StoredAnnotations) /\ Sealed
    BY <1>1 DEF Applied, Sealed
  <2> QED BY <1>1, <1>3, <2>1, <2>2, <2>3 DEF StoreInv
<1>5. SessionsOK
  <2>1. \A r \in Reviewer : session[r] = NoSession
    BY <1>1
  <2> QED BY <1>1, <2>1, SessionIdle DEF SessionsOK
<1>6. opens \in 0..MaxOpens
  BY <1>1, AuditAssumption
<1> QED BY <1>1, <1>4, <1>5, <1>6, AuthorIdle DEF GoldInv

LEMMA GoldStutters ==
    ASSUME GoldInv, UNCHANGED vars
    PROVE  GoldInv'
PROOF
<1>1. UNCHANGED <<annotationVars, poolVars, author, session, opens>>
  BY DEF vars
<1>2. StoreInv' /\ Grows
  BY <1>1, StoresUnchanged DEF GoldInv
<1>3. AuthorOK(author', StoredAnnotations', findings')
  <2>1. AuthorOK(author, StoredAnnotations, findings)
    BY DEF GoldInv
  <2> QED BY <1>1, <1>2, <2>1, AuthorStays DEF Grows
<1> QED BY <1>1, <1>2, <1>3, AuthorMoves

\* In every behaviour of the annotation commands, whatever the number of
\* reviewers, items and runs, and whatever is written between a check and the
\* write it was made for, the stores and the sessions agree: every amendment
\* and application follows a stored judgement, only blocked decisions are
\* superseded, and every seal names one applied judgement of each of its items.
THEOREM GoldInvariance == Spec => []GoldInv
PROOF
<1>1. Init => GoldInv
  BY GoldInit
<1>2. GoldInv /\ [Next]_vars => GoldInv'
  <2> SUFFICES ASSUME GoldInv, [Next]_vars PROVE GoldInv'
    OBVIOUS
  <2>1. CASE AuthorStep
    BY <2>1, AuthorSteps
  <2>2. CASE \E r \in Reviewer : SessionStep(r)
    BY <2>2, SessionSteps
  <2>3. CASE UNCHANGED vars
    BY <2>3, GoldStutters
  <2> QED BY <2>1, <2>2, <2>3 DEF Next
<1> QED BY <1>1, <1>2, PTL DEF Spec

\* The decision, finding or annotation that explains a change of the gold is
\* stored before the change (apply_decision, _annotation_deep_review,
\* _annotation_review), for any number of interrupted and competing commands.
THEOREM EvidenceIsKept == Spec => []EvidenceBeforeEffect
PROOF
<1>1. GoldInv => EvidenceBeforeEffect
  <2> SUFFICES ASSUME GoldInv PROVE EvidenceBeforeEffect
    OBVIOUS
  <2>1. Evidence(StoredAnnotations, Judgements, findings, reviews)
    BY DEF GoldInv, StoreInv
  <2>2. ASSUME NEW a \in StoredAnnotations, a.via = "pool"
        PROVE  \E d \in StoredDecisions :
                 d.anno = a.pred /\ d.sel = a.gold \ a.pred.gold /\ d.outcome # "blocked"
    <3>1. PICK d \in Judgements : Effect(d) = a /\ d.sel \cap d.anno.gold = {}
      BY <2>1, <2>2 DEF Evidence
    <3>2. a.pred = d.anno /\ a.gold = d.anno.gold \cup d.sel
      BY <3>1 DEF Effect, Successor
    <3>3. d \in StoredDecisions /\ d.outcome # "blocked"
      BY DEF Judgements, Blocked
    <3>4. d.sel = a.gold \ a.pred.gold
      BY <3>1, <3>2
    <3> QED BY <3>2, <3>3, <3>4
  <2> QED BY <2>1, <2>2 DEF Evidence, EvidenceBeforeEffect
<1> QED BY <1>1, GoldInvariance, PTL

\* What a seal names was decided, applied and added to the gold, about every
\* item of its run that is not retired, whatever other processes write between
\* the checks of seal_run and create_seal and the seal (seal_run, create_seal).
THEOREM SealsAreEarned == Spec => []SealIsEarned
PROOF
<1>1. GoldInv => SealIsEarned
  <2> SUFFICES ASSUME GoldInv, NEW s \in seals, NEW i \in DOMAIN s.run \ retired
               PROVE  \E d \in s.decs :
                        /\ \A e \in s.decs : e.item = i => e = d
                        /\ d.run = s.run /\ d.item = i /\ d.anno = s.run[i] /\ ~Blocked(d)
                        /\ \E a \in apps : a.dec = d /\ a.succ \in StoredAnnotations
                              /\ a.succ.pred = s.run[i] /\ a.succ.gold = s.run[i].gold \cup d.sel
    BY DEF SealIsEarned
  <2>1. s.decs \subseteq StoredDecisions /\ Certified(s.run, s.decs, retired, apps)
    BY DEF GoldInv, StoreInv, Sealed
  <2>2. PICK d \in s.decs :
          /\ \A e \in s.decs : e.item = i => e = d
          /\ d.run = s.run /\ d.item = i /\ ~Blocked(d)
          /\ \E a \in apps : a.dec = d
    BY <2>1 DEF Certified
  <2>3. PICK a \in apps : a.dec = d
    BY <2>2
  <2>4. d \in StoredDecisions /\ a.succ = Effect(d) /\ a.succ \in StoredAnnotations
    BY <2>1, <2>3 DEF GoldInv, StoreInv, Applied
  <2>5. d.anno = s.run[i]
    BY <2>2, <2>4 DEF GoldInv, StoreInv, Recorded, Formed
  <2>6. a.succ.pred = s.run[i] /\ a.succ.gold = s.run[i].gold \cup d.sel
    BY <2>4, <2>5 DEF Effect, Successor
  <2> QED BY <2>2, <2>3, <2>4, <2>5, <2>6
<1> QED BY <1>1, GoldInvariance, PTL

LEMMA AnnoShelfFacts ==
    ASSUME AnnoShelf, NEW a \in StoredAnnotations
    PROVE  a.item \in Item /\ a \in ToSet(annos[a.item])
PROOF
<1>1. PICK i \in Item : a \in ToSet(annos[i])
  BY DEF StoredAnnotations
<1>2. a.item = i
  BY <1>1 DEF AnnoShelf
<1> QED BY <1>1, <1>2

LEMMA AnnotationTypes ==
    ASSUME StoreInv
    PROVE  AnnotationTypeOK
PROOF
<1>1. AnnoShelf /\ Evidence(StoredAnnotations, Judgements, findings, reviews) /\ retired \subseteq Item
  BY DEF StoreInv
<1>2. ASSUME NEW i \in Item, NEW a \in ToSet(annos[i])
      PROVE  a \in Annotation(i)
  <2>1. a \in StoredAnnotations /\ a.item = i
    BY <1>1 DEF StoredAnnotations, AnnoShelf
  <2>2. a \in Annotations(StoredAnnotations) /\ (a.via # "root" => a.pred.item = a.item)
    BY <1>1, <2>1 DEF Evidence
  <2>3. CASE a \in [item : Item, gold : SUBSET Clause, via : {"root"}, pred : {NoAnnotation}]
    <3>1. a \in [item : {i}, gold : SUBSET Clause, via : {"root"}, pred : {NoAnnotation}]
      BY <2>1, <2>3
    <3> QED BY <3>1 DEF Annotation
  <2>4. CASE a \in [item : Item, gold : SUBSET Clause, via : {"pool", "deep"},
                    pred : StoredAnnotations]
    <3>1. a.pred \in ToSet(annos[i])
      <4>1. a.pred \in StoredAnnotations /\ a.via # "root"
        BY <2>4
      <4> QED BY <1>1, <2>1, <2>2, <4>1, AnnoShelfFacts
    <3>2. a \in [item : {i}, gold : SUBSET Clause, via : {"pool", "deep"}, pred : ToSet(annos[i])]
      BY <2>1, <2>4, <3>1
    <3> QED BY <3>2 DEF Annotation
  <2> QED BY <2>2, <2>3, <2>4 DEF Annotations
<1>3. annos \in [Item -> Seq(UNION {Annotation(i) : i \in Item})]
  <2> DEFINE X == UNION {Annotation(i) : i \in Item}
  <2>1. ASSUME NEW i \in Item PROVE annos[i] \in Seq(X)
    <3>1. annos[i] \in Seq(StoredAnnotations)
      BY <1>1 DEF AnnoShelf
    <3>2. \A n \in 1..Len(annos[i]) : annos[i][n] \in ToSet(annos[i])
      BY <3>1 DEF ToSet
    <3>3. \A n \in 1..Len(annos[i]) : annos[i][n] \in X
      BY <1>2, <3>2
    <3> HIDE DEF X
    <3> QED BY <3>1, <3>3
  <2> HIDE DEF X
  <2>2. annos \in [Item -> Seq(X)]
    BY <1>1, <2>1 DEF AnnoShelf
  <2> QED BY <2>2 DEF X
<1>4. \A v \in reviews : v.item \in Item
  BY <1>1 DEF Evidence
<1>5. \A f \in findings : \E i \in Item : f.anno \in ToSet(annos[i]) /\ f.added \subseteq Clause
  BY <1>1, AnnoShelfFacts DEF Evidence
<1> QED BY <1>1, <1>2, <1>3, <1>4, <1>5 DEF AnnotationTypeOK

\* The stores and the commands in progress hold what their types say: every
\* record refers to stored ones, and a session to its run, its decisions and
\* its applications.
THEOREM TypeCorrect == Spec => []TypeOK
PROOF
<1>1. GoldInv => TypeOK
  <2> SUFFICES ASSUME GoldInv PROVE TypeOK
    OBVIOUS
  <2>0. StoreInv
    BY DEF GoldInv
  <2>1. AnnotationTypeOK
    BY <2>0, AnnotationTypes
  <2>2. PoolTypeOK
    <3>1. \A r \in runs : \A i \in DOMAIN r : i \in Item /\ r[i] \in ToSet(annos[i])
      BY <2>0, AnnoShelfFacts DEF StoreInv, Registered
    <3>2. decs \in [Item -> Seq(StoredDecisions)]
      BY <2>0 DEF StoreInv, DecShelf
    <3>3. \A i \in Item : \A d \in ToSet(decs[i]) : IsDecision(d) /\ d.item = i
      <4> TAKE i \in Item
      <4> TAKE d \in ToSet(decs[i])
      <4>1. d \in StoredDecisions /\ d.item = i
        BY <2>0 DEF StoreInv, DecShelf, StoredDecisions
      <4> QED BY <2>0, <4>1 DEF StoreInv, Recorded, Formed, IsDecision
    <3>4. \A s \in supers : {s.old, s.new} \subseteq StoredDecisions
      BY <2>0 DEF StoreInv, Replaced
    <3>5. \A a \in apps : a.dec \in StoredDecisions /\ a.succ \in StoredAnnotations
      BY <2>0 DEF StoreInv, Applied, Judgements
    <3>6. \A s \in seals : s.run \in runs /\ s.decs \subseteq StoredDecisions
      BY <2>0 DEF StoreInv, Sealed
    <3> QED BY <3>1, <3>2, <3>3, <3>4, <3>5, <3>6 DEF PoolTypeOK
  <2>3. /\ author.at \in {"idle", "reviewed", "reading", "found", "registering"}
        /\ opens \in 0..MaxOpens
    BY DEF GoldInv, AuthorOK
  <2>4. ASSUME NEW r \in Reviewer
        PROVE  LET s == session[r] IN
               /\ s.at \in SessionPc
               /\ s.at # "idle" => /\ s.run \in runs /\ s.todo \subseteq DOMAIN s.run
                                   /\ s.gone \subseteq retired
                                   /\ s.applied \subseteq StoredDecisions
               /\ s.known # <<>> => \A i \in Item : ToSet(s.known[i]) \subseteq ToSet(decs[i])
               /\ s.at \in {"superseding", "decided", "amended"} => s.dec \in StoredDecisions
    <3> DEFINE s == session[r]
    <3>1. SessionOK(s, StoredDecisions, Judgements, StoredAnnotations, runs, retired, apps)
      BY SessionFact
    <3>2. Judgements \subseteq StoredDecisions
      BY DEF Judgements
    <3> HIDE DEF s
    <3>3. /\ s.at \in SessionPc
          /\ s.at # "idle" => /\ s.run \in runs /\ s.todo \subseteq DOMAIN s.run
                              /\ s.gone \subseteq retired
                              /\ s.applied \subseteq StoredDecisions
          /\ s.known # <<>> => Known(s.known, StoredDecisions)
          /\ s.at \in {"superseding", "decided", "amended"} => s.dec \in StoredDecisions
      BY <3>1, <3>2 DEF SessionOK
    <3>4. ASSUME NEW i \in Item, s.known # <<>>
          PROVE  ToSet(s.known[i]) \subseteq ToSet(decs[i])
      <4>1. s.known[i] \in Seq(StoredDecisions) /\ \A d \in ToSet(s.known[i]) : d.item = i
        BY <3>3, <3>4 DEF Known
      <4>2. ToSet(s.known[i]) \subseteq StoredDecisions
        BY <4>1 DEF ToSet
      <4> QED BY <2>0, <4>1, <4>2, DecShelfFacts DEF StoreInv
    <3> QED BY <3>3, <3>4 DEF s
  <2> QED BY <2>1, <2>2, <2>3, <2>4 DEF TypeOK
<1> QED BY <1>1, GoldInvariance, PTL
====
