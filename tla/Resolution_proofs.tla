------------------------- MODULE Resolution_proofs -------------------------
(***************************************************************************)
(* What the merge of the configuration layers leaves, for any number of     *)
(* layers, any documents and any keys in the filter.  None of the three     *)
(* properties speaks of a merge that is under way, so the invariant MergeInv *)
(* does: what has been visited stands as the document says, and of what the *)
(* earlier layers said the rest is left that no visited path overwrites.    *)
(***************************************************************************)
EXTENDS Resolution, TLAPS

Tree(doc) ==
    /\ DOMAIN doc \subseteq Paths
    /\ \A p \in DOMAIN doc : \A q \in Above(p) : IsObject(doc, q)

Entry == [layer: Sources, doc: UNION {Documents(layer) : layer \in Sources}]

\* Paths of the document at hand that deep_merge has come to.
Visited == IF merged = <<>> THEN {} ELSE DOMAIN AtHand.doc \ todo

\* A value said before the document at hand is left as long as no visited path takes it.
Spared(p) == p \notin Visited /\ \A q \in Above(p) \cap Visited : IsObject(AtHand.doc, q)

MergedInv ==
    /\ merged \in Seq(Entry) /\ Len(merged) <= Len(Layers) + 1
    /\ \A i \in 1..Len(merged) : merged[i].doc \in Documents(merged[i].layer)
    /\ merged = <<>> => todo = {} /\ resolved = <<>>
    /\ merged # <<>> => todo \subseteq DOMAIN AtHand.doc
    /\ \A p \in Visited : Above(p) \cap todo = {}

ValuesInv ==
    /\ Tree(resolved)
    /\ \A p \in Visited : p \in DOMAIN resolved /\ resolved[p] = AtHand.doc[p]
    /\ merged # <<>> =>
          \A p \in Paths : \A l \in Sources :
              p \in DOMAIN resolved /\ resolved[p] = l <=>
                  \/ p \in Visited /\ AtHand.doc[p] = l
                  \/ <<p, l>> \in Said(Len(merged) - 1) /\ Spared(p)
    /\ \A p \in DOMAIN resolved : resolved[p] \in Sources \cup {Object}

LockInv ==
    /\ lock \in Paths
    /\ Len(merged) > Len(Layers) => Unlocked(AtHand.doc)
    /\ outcome = "accepted" => todo = {} /\ Len(merged) > Len(Layers) /\ WellFormed(resolved)

MergeInv == MergedInv /\ ValuesInv /\ LockInv /\ OriginShown

-----------------------------------------------------------------------------
(* Paths and documents *)

LEMMA AboveFacts ==
    ASSUME NEW p \in Paths
    PROVE  /\ Above(p) \subseteq Paths /\ p \notin Above(p)
           /\ \A q \in Above(p) : Above(q) \subseteq Above(p)
PROOF
  <1>1. Above("network") = {}
    BY ResolutionAssumption DEF Above
  <1>2. Above("dns") = {"network"} /\ Above("filter") = {"network"}
    BY ResolutionAssumption DEF Above
  <1>3. \A k \in Interfaces : Above(k) = {"network", "filter"}
    BY ResolutionAssumption DEF Above
  <1> QED
    BY <1>1, <1>2, <1>3, ResolutionAssumption DEF Paths

LEMMA DocumentFacts ==
    ASSUME NEW layer \in Sources, NEW doc \in Documents(layer)
    PROVE  /\ DOMAIN doc \subseteq Paths
           /\ \A p \in DOMAIN doc : doc[p] \in {layer, Object}
           /\ \A p \in DOMAIN doc : \A q \in Above(p) : IsObject(doc, q)
PROOF
  BY DEF Documents

-----------------------------------------------------------------------------
(* What the layers say *)

LEMMA SaidMember ==
    ASSUME NEW n, NEW p \in Paths, NEW l \in Sources
    PROVE  <<p, l>> \in Said(n) <=> \E i \in 1..n : LastWord(n, i, p) /\ merged[i].layer = l
PROOF
  BY DEF Said

\* The last document writes its own values and spares the others that it does not touch.
LEMMA SaidSplit ==
    ASSUME NEW n \in Nat \ {0}, NEW p \in Paths, NEW l \in Sources
    PROVE  <<p, l>> \in Said(n) <=>
              \/ p \in LeafPaths(merged[n].doc) /\ merged[n].layer = l
              \/ /\ <<p, l>> \in Said(n - 1)
                 /\ p \notin DOMAIN merged[n].doc /\ Above(p) \cap LeafPaths(merged[n].doc) = {}
PROOF
  <1>1. LastWord(n, n, p) <=> p \in LeafPaths(merged[n].doc)
    BY DEF LastWord
  <1>2. ASSUME NEW i \in 1..(n - 1)
        PROVE  LastWord(n, i, p) <=>
                  /\ LastWord(n - 1, i, p)
                  /\ p \notin DOMAIN merged[n].doc /\ Above(p) \cap LeafPaths(merged[n].doc) = {}
    <2>1. (i + 1)..n = (i + 1)..(n - 1) \cup {n}
      OBVIOUS
    <2> QED
      BY <2>1 DEF LastWord
  <1>3. 1..n = 1..(n - 1) \cup {n}
    OBVIOUS
  <1> QED
    BY <1>1, <1>2, <1>3, SaidMember

LEMMA SaidNothing == Said(0) = {}
PROOF
  BY DEF Said

\* Where one value is said, none is said above it.
LEMMA SaidApart ==
    ASSUME MergedInv, NEW n \in 0..Len(merged),
           NEW p \in Paths, NEW q \in Above(p), NEW k \in Sources, NEW l \in Sources,
           <<p, l>> \in Said(n), <<q, k>> \in Said(n)
    PROVE  FALSE
PROOF
  <1>1. q \in Paths
    BY AboveFacts
  <1>2. PICK i \in 1..n : LastWord(n, i, p)
    BY SaidMember
  <1>3. PICK j \in 1..n : LastWord(n, j, q)
    BY <1>1, SaidMember
  <1>4. /\ p \in DOMAIN merged[i].doc /\ IsObject(merged[i].doc, q)
        /\ q \in LeafPaths(merged[j].doc)
    <2>1. p \in LeafPaths(merged[i].doc) /\ q \in LeafPaths(merged[j].doc)
      BY <1>2, <1>3 DEF LastWord
    <2>2. merged[i].layer \in Sources /\ merged[i].doc \in Documents(merged[i].layer)
      <3>1. merged \in Seq(Entry) /\ merged[i].doc \in Documents(merged[i].layer)
        BY DEF MergedInv
      <3>2. merged[i] \in Entry
        BY <3>1
      <3> QED
        BY <3>1, <3>2 DEF Entry
    <2> QED
      BY <2>1, <2>2, DocumentFacts DEF LeafPaths
  <1>5. CASE i = j
    BY <1>4, <1>5 DEF LeafPaths, IsScalar, IsObject
  <1>6. CASE i < j
    <2>1. j \in (i + 1)..n
      BY <1>6
    <2> QED
      BY <1>2, <1>4, <2>1 DEF LastWord
  <1>7. CASE j < i
    <2>1. i \in (j + 1)..n
      BY <1>7
    <2> QED
      BY <1>3, <1>4, <2>1 DEF LastWord, IsObject
  <1> QED
    BY <1>5, <1>6, <1>7

LEMMA SaidStays ==
    ASSUME NEW n \in Nat, \A i \in 1..n : merged'[i] = merged[i]
    PROVE  Said(n)' = Said(n)
PROOF
  <1>1. ASSUME NEW i \in 1..n, NEW p
        PROVE  LastWord(n, i, p)' <=> LastWord(n, i, p)
    BY DEF LastWord
  <1> QED
    BY <1>1 DEF Said

-----------------------------------------------------------------------------
(* The document at hand *)

LEMMA HandFacts ==
    ASSUME MergedInv, merged # <<>>
    PROVE  /\ Len(merged) \in Nat \ {0} /\ AtHand \in Entry
           /\ AtHand.layer \in Sources /\ DOMAIN AtHand.doc \subseteq Paths
           /\ \A p \in DOMAIN AtHand.doc : AtHand.doc[p] \in {AtHand.layer, Object}
           /\ \A p \in DOMAIN AtHand.doc : \A q \in Above(p) : IsObject(AtHand.doc, q)
           /\ Visited = DOMAIN AtHand.doc \ todo
PROOF
  <1>1. merged \in Seq(Entry)
    BY DEF MergedInv
  <1>2. Len(merged) \in Nat \ {0} /\ Len(merged) \in 1..Len(merged)
    BY <1>1
  <1>3. AtHand \in Entry
    BY <1>1, <1>2 DEF AtHand
  <1>4. AtHand.layer \in Sources /\ AtHand.doc \in Documents(AtHand.layer)
    BY <1>2, <1>3 DEF MergedInv, AtHand, Entry
  <1>5. /\ DOMAIN AtHand.doc \subseteq Paths
        /\ \A p \in DOMAIN AtHand.doc : AtHand.doc[p] \in {AtHand.layer, Object}
        /\ \A p \in DOMAIN AtHand.doc : \A q \in Above(p) : IsObject(AtHand.doc, q)
    BY <1>4, DocumentFacts
  <1> QED
    BY <1>2, <1>3, <1>4, <1>5 DEF Visited

\* Between two documents the merge holds what the layers say.
LEMMA MergeLeaves ==
    ASSUME MergedInv, ValuesInv, todo = {}, NEW p \in Paths, NEW l \in Sources
    PROVE  p \in DOMAIN resolved /\ resolved[p] = l <=> <<p, l>> \in Said(Len(merged))
PROOF
  <1>1. CASE merged = <<>>
    BY <1>1, SaidNothing DEF MergedInv
  <1>2. CASE merged # <<>>
    <2>1. /\ Len(merged) \in Nat \ {0} /\ AtHand.layer \in Sources
          /\ \A q \in DOMAIN AtHand.doc : AtHand.doc[q] \in {AtHand.layer, Object}
          /\ Visited = DOMAIN AtHand.doc
          /\ DOMAIN AtHand.doc \subseteq Paths
      BY <1>2, HandFacts
    <2>2. p \in Visited /\ AtHand.doc[p] = l <=> p \in LeafPaths(AtHand.doc) /\ AtHand.layer = l
      BY <2>1, ResolutionAssumption DEF LeafPaths, IsScalar
    <2>3. Spared(p) <=> p \notin DOMAIN AtHand.doc /\ Above(p) \cap LeafPaths(AtHand.doc) = {}
      BY <2>1 DEF Spared, LeafPaths, IsScalar, IsObject
    <2>4. <<p, l>> \in Said(Len(merged)) <=>
             \/ p \in LeafPaths(AtHand.doc) /\ AtHand.layer = l
             \/ /\ <<p, l>> \in Said(Len(merged) - 1)
                /\ p \notin DOMAIN AtHand.doc /\ Above(p) \cap LeafPaths(AtHand.doc) = {}
      BY <2>1, SaidSplit DEF AtHand
    <2>5. p \in DOMAIN resolved /\ resolved[p] = l <=>
             \/ p \in Visited /\ AtHand.doc[p] = l
             \/ <<p, l>> \in Said(Len(merged) - 1) /\ Spared(p)
      BY <1>2 DEF ValuesInv
    <2> QED
      BY <2>2, <2>3, <2>4, <2>5
  <1> QED
    BY <1>1, <1>2

LEMMA LeavesSaid == MergedInv /\ ValuesInv => LastWriterWins
PROOF
  <1> SUFFICES ASSUME MergedInv, ValuesInv, todo = {}
               PROVE  {<<p, resolved[p]>> : p \in LeafPaths(resolved)} = Said(Len(merged))
    BY DEF LastWriterWins
  <1>1. ASSUME NEW p \in LeafPaths(resolved) PROVE <<p, resolved[p]>> \in Said(Len(merged))
    <2>1. p \in Paths /\ p \in DOMAIN resolved /\ resolved[p] \in Sources
      BY DEF LeafPaths, IsScalar, ValuesInv, Tree
    <2> QED
      BY <2>1, MergeLeaves
  <1>2. ASSUME NEW s \in Said(Len(merged))
        PROVE  s \in {<<p, resolved[p]>> : p \in LeafPaths(resolved)}
    <2>1. PICK p \in Paths, l \in Sources : s = <<p, l>>
      BY DEF Said
    <2>2. p \in DOMAIN resolved /\ resolved[p] = l
      BY <2>1, MergeLeaves
    <2>3. p \in LeafPaths(resolved)
      BY <2>2, ResolutionAssumption DEF LeafPaths, IsScalar
    <2> QED
      BY <2>1, <2>2, <2>3
  <1> QED
    BY <1>1, <1>2

-----------------------------------------------------------------------------
(* One visit *)

LEMMA VisitMerged ==
    ASSUME MergeInv, NEW p \in todo, Visit(p)
    PROVE  /\ MergedInv' /\ merged # <<>> /\ Visited' = Visited \cup {p}
           /\ p \in DOMAIN AtHand.doc /\ p \notin Visited /\ Above(p) \subseteq Visited
           /\ AtHand' = AtHand
PROOF
  <1>1. merged' = merged /\ todo' = todo \ {p} /\ AtHand' = AtHand /\ Above(p) \cap todo = {}
    BY DEF Visit, AtHand
  <1>2. merged # <<>> /\ MergedInv
    BY DEF MergeInv, MergedInv
  <1>3. p \in DOMAIN AtHand.doc /\ Visited = DOMAIN AtHand.doc \ todo
    BY <1>2, HandFacts DEF MergedInv
  <1>4. Visited' = DOMAIN AtHand.doc \ todo'
    BY <1>1, <1>2 DEF Visited
  <1>5. Above(p) \subseteq DOMAIN AtHand.doc
    BY <1>2, <1>3, HandFacts DEF IsObject
  <1>6. Visited' = Visited \cup {p} /\ p \notin Visited /\ Above(p) \subseteq Visited
    BY <1>1, <1>3, <1>4, <1>5
  <1>7. \A q \in Visited' : Above(q) \cap todo' = {}
    BY <1>1, <1>2, <1>6 DEF MergedInv
  <1>8. MergedInv'
    <2>1. merged' \in Seq(Entry) /\ Len(merged') <= Len(Layers) + 1 /\ merged' # <<>>
      BY <1>1, <1>2 DEF MergedInv
    <2>2. \A i \in 1..Len(merged') : merged'[i].doc \in Documents(merged'[i].layer)
      BY <1>1, <1>2 DEF MergedInv
    <2>3. todo' \subseteq DOMAIN AtHand'.doc
      BY <1>1, <1>2 DEF MergedInv
    <2> QED
      BY <1>7, <2>1, <2>2, <2>3 DEF MergedInv
  <1> QED
    BY <1>1, <1>2, <1>3, <1>6, <1>8

LEMMA MergedFacts ==
    ASSUME MergeInv, NEW p \in todo, Visit(p)
    PROVE  LET keep == AtHand.doc[p] = Object /\ IsObject(resolved, p) IN
           /\ keep => resolved' = resolved
           /\ ~keep => /\ DOMAIN resolved' = {x \in DOMAIN resolved : p \notin Above(x)} \cup {p}
                       /\ resolved'[p] = AtHand.doc[p]
                       /\ \A q \in DOMAIN resolved :
                             q # p /\ p \notin Above(q) => resolved'[q] = resolved[q]
PROOF
  <1>1. p \in Paths
    BY VisitMerged, HandFacts DEF MergeInv
  <1>2. DOMAIN resolved \subseteq Paths
    BY DEF MergeInv, ValuesInv, Tree
  <1>3. resolved' = Merged(resolved, p, AtHand.doc[p])
    BY DEF Visit
  <1>4. CASE AtHand.doc[p] = Object /\ IsObject(resolved, p)
    BY <1>3, <1>4 DEF Merged
  <1>5. CASE ~(AtHand.doc[p] = Object /\ IsObject(resolved, p))
    <2>1. resolved' = Put(resolved, p, AtHand.doc[p])
      BY <1>3, <1>5 DEF Merged
    <2>2. /\ DOMAIN resolved' = {x \in DOMAIN resolved : p \notin Above(x)} \cup {p}
          /\ resolved'[p] = AtHand.doc[p]
      BY <2>1 DEF Put, With
    <2>3. \A q \in DOMAIN resolved :
             q # p /\ p \notin Above(q) => resolved'[q] = resolved[q]
      BY <2>1 DEF Put, With
    <2> QED
      BY <1>5, <2>2, <2>3
  <1> QED
    BY <1>4, <1>5

\* A visited path stands from then on as the document says.
LEMMA VisitValues ==
    ASSUME MergeInv, NEW p \in todo, Visit(p)
    PROVE  ValuesInv'
PROOF
  <1>1. /\ merged # <<>> /\ Visited' = Visited \cup {p}
        /\ p \in DOMAIN AtHand.doc /\ p \notin Visited /\ Above(p) \subseteq Visited
        /\ AtHand' = AtHand /\ merged' = merged
    BY VisitMerged DEF Visit
  <1>2. /\ AtHand.layer \in Sources /\ DOMAIN AtHand.doc \subseteq Paths
        /\ \A q \in DOMAIN AtHand.doc : AtHand.doc[q] \in {AtHand.layer, Object}
        /\ \A q \in DOMAIN AtHand.doc : \A o \in Above(q) : IsObject(AtHand.doc, o)
        /\ Visited \subseteq DOMAIN AtHand.doc
    BY <1>1, HandFacts DEF MergeInv
  <1>3. p \in Paths
    BY <1>1, <1>2
  <1> DEFINE keep == AtHand.doc[p] = Object /\ IsObject(resolved, p)
  <1>4. keep => resolved' = resolved
    BY MergedFacts
  <1>5. ~keep => /\ DOMAIN resolved' = {x \in DOMAIN resolved : p \notin Above(x)} \cup {p}
                 /\ resolved'[p] = AtHand.doc[p]
                 /\ \A q \in DOMAIN resolved :
                       q # p /\ p \notin Above(q) => resolved'[q] = resolved[q]
    BY MergedFacts
  <1>6. /\ DOMAIN resolved \subseteq Paths
        /\ \A q \in DOMAIN resolved : \A o \in Above(q) : IsObject(resolved, o)
        /\ \A q \in DOMAIN resolved : resolved[q] \in Sources \cup {Object}
        /\ \A q \in Visited : q \in DOMAIN resolved /\ resolved[q] = AtHand.doc[q]
    BY DEF MergeInv, ValuesInv, Tree
  <1>7. \A q \in Above(p) : IsObject(resolved, q)
    BY <1>1, <1>2, <1>6 DEF IsObject
  <1>8. p \in DOMAIN resolved' /\ resolved'[p] = AtHand.doc[p]
    BY <1>4, <1>5 DEF IsObject
  \* No visited path lies below p.
  <1>9. \A q \in Visited : p \notin Above(q)
    BY <1>1 DEF MergeInv, MergedInv, Visit
  <1>10. \A q \in Visited \cup {p} : q \in DOMAIN resolved' /\ resolved'[q] = AtHand.doc[q]
    <2>1. CASE keep
      BY <1>4, <1>6, <1>8, <2>1
    <2>2. CASE ~keep
      BY <1>1, <1>5, <1>6, <1>8, <1>9, <2>2
    <2> QED
      BY <2>1, <2>2
  <1>11. Tree(resolved)'
    <2>1. CASE keep
      BY <1>4, <2>1 DEF MergeInv, ValuesInv
    <2>2. CASE ~keep
      <3>1. DOMAIN resolved' \subseteq Paths
        BY <1>3, <1>5, <1>6, <2>2
      <3>2. ASSUME NEW q \in DOMAIN resolved', NEW o \in Above(q)
            PROVE  o \in DOMAIN resolved' /\ resolved'[o] = Object
        <4>1. CASE q = p
          BY <1>1, <1>2, <1>10, <4>1 DEF IsObject
        <4>2. CASE q # p
          <5>1. q \in DOMAIN resolved /\ p \notin Above(q) /\ q \in Paths
            BY <1>5, <1>6, <2>2, <4>2
          <5>2. o \in DOMAIN resolved /\ resolved[o] = Object /\ o # p
            BY <1>6, <5>1 DEF IsObject
          <5>3. p \notin Above(o)
            BY <5>1, AboveFacts
          <5> QED
            BY <1>5, <2>2, <5>2, <5>3
        <4> QED
          BY <4>1, <4>2
      <3> QED
        BY <3>1, <3>2 DEF Tree, IsObject
    <2> QED
      BY <2>1, <2>2
  <1>12. \A q \in DOMAIN resolved' : resolved'[q] \in Sources \cup {Object}
    <2>1. CASE keep
      BY <1>4, <1>6, <2>1
    <2>2. CASE ~keep
      <3>1. resolved'[p] \in Sources \cup {Object}
        BY <1>1, <1>2, <1>8
      <3> QED
        BY <1>5, <1>6, <2>2, <3>1
    <2> QED
      BY <2>1, <2>2
  <1>13. ASSUME NEW q \in Paths, NEW l \in Sources
         PROVE  q \in DOMAIN resolved' /\ resolved'[q] = l <=>
                   \/ q \in Visited' /\ AtHand'.doc[q] = l
                   \/ <<q, l>> \in Said(Len(merged) - 1)' /\ Spared(q)'
    <2>1. /\ l # Object /\ AtHand.doc[p] \in Sources \cup {Object}
      BY <1>1, <1>2, ResolutionAssumption
    <2>2. Said(Len(merged) - 1)' = Said(Len(merged) - 1)
      <3>1. PICK n \in Nat : n = Len(merged) - 1
        BY <1>1, HandFacts DEF MergeInv
      <3>2. \A i \in 1..n : merged'[i] = merged[i]
        BY <1>1
      <3>3. Said(n)' = Said(n)
        BY <3>2, SaidStays
      <3> QED
        BY <1>1, <3>1, <3>3
    <2>3. q \in DOMAIN resolved /\ resolved[q] = l <=>
             \/ q \in Visited /\ AtHand.doc[q] = l
             \/ <<q, l>> \in Said(Len(merged) - 1) /\ Spared(q)
      BY <1>1 DEF MergeInv, ValuesInv
    <2>4. Spared(q)' <=> /\ Spared(q) /\ q # p
                         /\ p \in Above(q) => IsObject(AtHand.doc, p)
      BY <1>1 DEF Spared
    <2>5. p \in DOMAIN AtHand.doc /\ (IsObject(AtHand.doc, p) <=> AtHand.doc[p] = Object)
      BY <1>1 DEF IsObject
    <2>6. CASE q = p
      BY <1>1, <1>8, <2>2, <2>4, <2>6
    <2>7. CASE q # p /\ p \notin Above(q)
      <3>1. q \in DOMAIN resolved' /\ resolved'[q] = l <=> q \in DOMAIN resolved /\ resolved[q] = l
        BY <1>4, <1>5, <2>7
      <3> QED
        BY <1>1, <2>2, <2>3, <2>4, <2>7, <3>1
    <2>8. CASE p \in Above(q)
      <3>1. q # p /\ q \notin Visited
        BY <1>3, <1>9, <2>8, AboveFacts
      <3>2. CASE keep
        BY <1>1, <1>4, <2>2, <2>3, <2>4, <2>5, <2>8, <3>1, <3>2
      <3>3. CASE ~keep
        <4>1. q \notin DOMAIN resolved'
          BY <1>5, <2>8, <3>1, <3>3
        <4>2. CASE IsObject(AtHand.doc, p)
          \* What stood at p was no object, so there was nothing below it.
          <5>1. q \notin DOMAIN resolved
            BY <1>6, <2>5, <2>8, <3>3, <4>2
          <5> QED
            BY <1>1, <2>2, <2>3, <2>4, <3>1, <4>1, <5>1
        <4>3. CASE ~IsObject(AtHand.doc, p)
          BY <1>1, <2>2, <2>4, <2>8, <3>1, <4>1, <4>3
        <4> QED
          BY <4>2, <4>3
      <3> QED
        BY <3>2, <3>3
    <2> QED
      BY <2>6, <2>7, <2>8
  <1> QED
    BY <1>1, <1>10, <1>11, <1>12, <1>13 DEF ValuesInv

LEMMA VisitOrigins ==
    ASSUME MergeInv, NEW p \in todo, Visit(p)
    PROVE  OriginShown'
PROOF
  <1> SUFFICES ASSUME NEW q \in DOMAIN resolved', resolved'[q] # Object
               PROVE  q \in DOMAIN provenance' /\ provenance'[q] = resolved'[q]
    BY DEF OriginShown, LeafPaths, IsScalar
  <1>1. /\ p \in DOMAIN AtHand.doc /\ AtHand.doc[p] \in {AtHand.layer, Object}
        /\ Visited' = Visited \cup {p} /\ AtHand' = AtHand
    BY VisitMerged, HandFacts DEF MergeInv
  <1>2. resolved'[p] = AtHand.doc[p]
    BY <1>1, VisitValues DEF ValuesInv
  <1>3. provenance' = IF AtHand.doc[p] = Object THEN provenance
                      ELSE Origin(provenance, p, AtHand.layer)
    BY DEF Visit
  <1>4. CASE q = p
    BY <1>1, <1>2, <1>3, <1>4 DEF Origin, With
  <1>5. CASE q # p
    <2>1. q \in DOMAIN resolved /\ resolved'[q] = resolved[q]
      BY <1>5, MergedFacts
    <2>2. q \in DOMAIN provenance /\ provenance[q] = resolved[q]
      BY <2>1 DEF MergeInv, OriginShown, LeafPaths, IsScalar
    <2>3. q \in DOMAIN provenance' /\ provenance'[q] = provenance[q]
      BY <1>3, <1>5, <2>2 DEF Origin, With
    <2> QED
      BY <2>1, <2>2, <2>3
  <1> QED
    BY <1>4, <1>5

LEMMA VisitStep ==
    ASSUME MergeInv, NEW p \in todo, Visit(p)
    PROVE  MergeInv'
PROOF
  <1>1. LockInv'
    BY VisitMerged DEF MergeInv, LockInv, Visit, Unlocked, Locked
  <1> QED
    BY <1>1, VisitMerged, VisitValues, VisitOrigins DEF MergeInv

-----------------------------------------------------------------------------
(* The other steps *)

LEMMA BeginStep ==
    ASSUME MergeInv, todo = {}, outcome = "merging", Len(merged) <= Len(Layers),
           NEW layer \in Sources, NEW doc \in Documents(layer), Begin(layer, doc),
           Len(merged) = Len(Layers) => Unlocked(doc)
    PROVE  MergeInv'
PROOF
  <1> DEFINE entry == [layer |-> layer, doc |-> doc]
  <1>1. entry \in Entry /\ entry.layer = layer /\ entry.doc = doc
    BY DEF Entry
  <1> HIDE DEF entry
  <1>2. merged' = Append(merged, entry) /\ todo' = DOMAIN doc
        /\ UNCHANGED <<lock, resolved, provenance, outcome>>
    BY DEF Begin, entry
  <1>3. merged \in Seq(Entry) /\ MergedInv /\ ValuesInv /\ LockInv /\ OriginShown
    BY DEF MergeInv, MergedInv
  <1>4. /\ merged' \in Seq(Entry) /\ Len(merged) \in Nat /\ Len(merged') = Len(merged) + 1
        /\ merged' # <<>> /\ merged'[Len(merged')] = entry
        /\ \A i \in 1..Len(merged) : merged'[i] = merged[i]
    BY <1>1, <1>2, <1>3
  <1>5. AtHand' = entry /\ Visited' = {}
    BY <1>1, <1>2, <1>4 DEF AtHand, Visited
  <1>6. Len(Layers) \in Nat
    BY ResolutionAssumption
  <1>7. MergedInv'
    <2>1. \A i \in 1..Len(merged') : merged'[i].doc \in Documents(merged'[i].layer)
      <3>1. 1..Len(merged') = 1..Len(merged) \cup {Len(merged')}
        BY <1>4
      <3>2. \A i \in 1..Len(merged) : merged'[i].doc \in Documents(merged'[i].layer)
        BY <1>3, <1>4 DEF MergedInv
      <3> QED
        BY <1>1, <1>4, <3>1, <3>2
    <2>2. Len(merged') <= Len(Layers) + 1
      BY <1>4, <1>6
    <2>3. todo' \subseteq DOMAIN AtHand'.doc
      BY <1>1, <1>2, <1>5
    <2> QED
      BY <1>4, <1>5, <2>1, <2>2, <2>3 DEF MergedInv
  <1>8. ValuesInv'
    <2>1. PICK n \in Nat : n = Len(merged)
      BY <1>4
    <2>2. Said(n)' = Said(n)
      BY <1>4, <2>1, SaidStays
    <2>3. Len(merged') - 1 = n
      BY <1>4, <2>1
    <2>4. ASSUME NEW p \in Paths, NEW l \in Sources
          PROVE  p \in DOMAIN resolved /\ resolved[p] = l <=> <<p, l>> \in Said(n)
      BY <1>3, <2>1, MergeLeaves
    <2>5. \A p \in Paths : Spared(p)'
      BY <1>5 DEF Spared
    <2>6. ASSUME NEW p \in Paths, NEW l \in Sources
          PROVE  p \in DOMAIN resolved' /\ resolved'[p] = l <=>
                    \/ p \in Visited' /\ AtHand'.doc[p] = l
                    \/ <<p, l>> \in Said(Len(merged) - 1)' /\ Spared(p)'
      BY <1>2, <1>5, <2>2, <2>3, <2>4, <2>5
    <2>7. /\ Tree(resolved)'
          /\ \A p \in DOMAIN resolved' : resolved'[p] \in Sources \cup {Object}
      BY <1>2, <1>3 DEF ValuesInv, Tree
    <2> QED
      BY <1>5, <2>6, <2>7 DEF ValuesInv
  <1>9. LockInv'
    <2>1. Len(merged') > Len(Layers) => Unlocked(doc)
      BY <1>4, <1>6
    <2> QED
      BY <1>1, <1>2, <1>3, <1>5, <2>1 DEF LockInv, Unlocked, Locked
  <1>10. OriginShown'
    BY <1>2, <1>3 DEF OriginShown
  <1> QED
    BY <1>7, <1>8, <1>9, <1>10 DEF MergeInv

\* What decides leaves the documents and the merge alone.
LEMMA OutcomeStep ==
    ASSUME MergeInv, UNCHANGED <<lock, merged, todo, resolved, provenance>>,
           outcome' = "accepted" =>
              todo = {} /\ Len(merged) > Len(Layers) /\ WellFormed(resolved)
    PROVE  MergeInv'
PROOF
  <1>1. AtHand' = AtHand /\ Visited' = Visited
    BY DEF AtHand, Visited
  <1>2. MergedInv'
    BY <1>1 DEF MergeInv, MergedInv
  <1>3. ValuesInv'
    <2>1. \A n, p, i : LastWord(n, i, p)' <=> LastWord(n, i, p)
      BY DEF LastWord
    <2>2. \A n : Said(n)' = Said(n)
      BY <2>1 DEF Said
    <2>3. Said(Len(merged) - 1)' = Said(Len(merged) - 1)
      BY DEF Said, LastWord
    <2>4. \A p \in Paths : Spared(p)' <=> Spared(p)
      BY <1>1 DEF Spared
    <2> QED
      BY <1>1, <2>3, <2>4 DEF MergeInv, ValuesInv, Tree
  <1>4. LockInv'
    BY <1>1 DEF MergeInv, LockInv, Unlocked, Locked
  <1>5. OriginShown'
    BY DEF MergeInv, OriginShown
  <1> QED
    BY <1>2, <1>3, <1>4, <1>5 DEF MergeInv

\* The invariant of the merge, for any layers, documents and locks.
THEOREM MergeInvariant == Spec => []MergeInv
PROOF
  <1>1. Init => MergeInv
    <2> SUFFICES ASSUME Init PROVE MergeInv
      OBVIOUS
    <2>1. /\ merged = <<>> /\ merged \in Seq(Entry) /\ Len(merged) = 0 /\ todo = {}
          /\ resolved = <<>> /\ DOMAIN resolved = {} /\ outcome = "merging" /\ lock \in Paths
      BY ResolutionAssumption DEF Init
    <2>2. Len(Layers) \in Nat /\ Visited = {}
      BY <2>1, ResolutionAssumption DEF Visited
    <2>3. MergedInv
      BY <2>1, <2>2 DEF MergedInv
    <2>4. ValuesInv
      BY <2>1, <2>2 DEF ValuesInv, Tree
    <2>5. LockInv
      BY <2>1, <2>2 DEF LockInv
    <2>6. OriginShown
      BY <2>1 DEF OriginShown, LeafPaths
    <2> QED
      BY <2>3, <2>4, <2>5, <2>6 DEF MergeInv
  <1>2. MergeInv /\ [Next]_vars => MergeInv'
    <2> SUFFICES ASSUME MergeInv, [Next]_vars PROVE MergeInv'
      OBVIOUS
    <2>1. Len(merged) \in Nat /\ Len(Layers) \in Nat
      BY ResolutionAssumption DEF MergeInv, MergedInv
    <2>2. CASE MergeNext
      <3>1. Layers[Len(merged) + 1] \in Sources
        BY <2>1, <2>2, ResolutionAssumption DEF MergeNext
      <3>2. PICK doc \in Documents(Layers[Len(merged) + 1]) : Begin(Layers[Len(merged) + 1], doc)
        BY <2>2 DEF MergeNext
      <3>3. todo = {} /\ outcome = "merging" /\ Len(merged) < Len(Layers)
        BY <2>2 DEF MergeNext
      <3> QED
        BY <2>1, <3>1, <3>2, <3>3, BeginStep
    <2>3. CASE \E p \in todo : Visit(p)
      BY <2>3, VisitStep
    <2>4. CASE MergeHost
      <3>1. todo = {} /\ outcome = "merging" /\ Len(merged) = Len(Layers) /\ Host \in Sources
        BY <2>4 DEF MergeHost, Sources
      <3>2. PICK doc \in Documents(Host) :
               IF Unlocked(doc) THEN Begin(Host, doc)
               ELSE outcome' = "refused" /\ UNCHANGED <<lock, merged, todo, resolved, provenance>>
        BY <2>4 DEF MergeHost
      <3>3. CASE Unlocked(doc)
        BY <2>1, <3>1, <3>2, <3>3, BeginStep
      <3>4. CASE ~Unlocked(doc)
        BY <3>2, <3>4, OutcomeStep
      <3> QED
        BY <3>3, <3>4
    <2>5. CASE Validate
      BY <2>5, OutcomeStep DEF Validate
    <2>6. CASE UNCHANGED vars
      BY <2>6, OutcomeStep DEF vars, MergeInv, LockInv
    <2> QED
      BY <2>2, <2>3, <2>4, <2>5, <2>6 DEF Next
  <1> QED
    BY <1>1, <1>2, PTL DEF Spec

\* The recursive merge leaves exactly the values that no later layer overwrote, for any
\* layers and documents and any order of the keys (service.py:73-85).
THEOREM LastWriterStands == Spec => []LastWriterWins
PROOF
  <1>1. MergeInv => LastWriterWins
    BY LeavesSaid DEF MergeInv
  <1> QED
    BY <1>1, MergeInvariant, PTL

\* For every value of the merge the preview names the layer it came from.
THEOREM OriginsShown == Spec => []OriginShown
PROOF
  <1>1. MergeInv => OriginShown
    BY DEF MergeInv
  <1> QED
    BY <1>1, MergeInvariant, PTL

\* What the shape refuses is all that could get past the lock: a value above the locked
\* field, or an object where a value was.
LEMMA LockedSpared ==
    ASSUME MergeInv, outcome = "accepted", NEW p \in Paths, NEW l \in Sources,
           Locked(p), <<p, l>> \in Said(Len(merged) - 1)
    PROVE  p \notin DOMAIN AtHand.doc /\ Above(p) \cap LeafPaths(AtHand.doc) = {}
PROOF
  <1>1. /\ MergedInv /\ ValuesInv /\ todo = {} /\ WellFormed(resolved) /\ Unlocked(AtHand.doc)
        /\ merged # <<>> /\ lock \in Paths
    <2>1. Len(merged) > Len(Layers) /\ Len(Layers) \in Nat
      BY ResolutionAssumption DEF MergeInv, LockInv
    <2> QED
      BY <2>1 DEF MergeInv, LockInv
  <1>2. /\ Len(merged) \in Nat \ {0} /\ Visited = DOMAIN AtHand.doc
        /\ DOMAIN AtHand.doc \subseteq Paths
    BY <1>1, HandFacts
  <1>3. \A q \in DOMAIN AtHand.doc : q \in DOMAIN resolved /\ resolved[q] = AtHand.doc[q]
    BY <1>1, <1>2 DEF ValuesInv
  <1>4. \A q \in LeafPaths(AtHand.doc) : ~Locked(q)
    BY <1>1 DEF Unlocked
  \* A value the host leaves below p would have been said before, next to that of p.
  <1>5. ASSUME NEW k \in Paths, p \in Above(k), IsScalar(resolved, k) PROVE FALSE
    <2>1. Locked(k)
      BY <1>5, AboveFacts DEF Locked
    <2>2. k \in DOMAIN resolved /\ resolved[k] \in Sources /\ resolved[k] # Object
      BY <1>1, <1>5 DEF ValuesInv, IsScalar
    <2>3. PICK m \in Sources : m = resolved[k]
      BY <2>2
    <2>4. <<k, m>> \in Said(Len(merged) - 1)
      <3>1. \/ k \in Visited /\ AtHand.doc[k] = m
            \/ <<k, m>> \in Said(Len(merged) - 1) /\ Spared(k)
        BY <1>1, <2>2, <2>3 DEF ValuesInv
      <3>2. ~(k \in Visited /\ AtHand.doc[k] = m)
        BY <1>2, <1>4, <2>1, <2>2, <2>3 DEF LeafPaths, IsScalar
      <3> QED
        BY <3>1, <3>2
    <2>5. Len(merged) - 1 \in 0..Len(merged)
      BY <1>2
    <2> QED
      BY <1>1, <1>5, <2>4, <2>5, SaidApart
  <1>6. p \notin {"network", "filter"}
    <2>1. IsScalar(resolved, "dns") /\ "dns" \in Paths /\ Above("dns") = {"network"}
      BY <1>1, ResolutionAssumption DEF WellFormed, Paths, Above
    <2>2. PICK k \in Interfaces : IsScalar(resolved, k)
      BY <1>1 DEF WellFormed
    <2>3. k \in Paths /\ Above(k) = {"network", "filter"}
      BY ResolutionAssumption DEF Paths, Above
    <2> QED
      BY <1>5, <2>1, <2>2, <2>3
  <1>7. p \notin DOMAIN AtHand.doc
    <2> SUFFICES ASSUME p \in DOMAIN AtHand.doc PROVE FALSE
      OBVIOUS
    <2>1. AtHand.doc[p] = Object
      BY <1>4 DEF LeafPaths, IsScalar
    <2>2. p \in DOMAIN resolved /\ resolved[p] = Object
      BY <1>3, <2>1
    <2> QED
      BY <1>1, <1>6, <2>2 DEF WellFormed, Paths, IsScalar
  <1>8. ASSUME NEW q \in Above(p), q \in LeafPaths(AtHand.doc) PROVE FALSE
    <2>1. q \in DOMAIN resolved /\ resolved[q] # Object
      BY <1>3, <1>8 DEF LeafPaths, IsScalar
    <2>2. q \in {"network", "filter"}
      BY DEF Above
    <2> QED
      BY <1>1, <2>1, <2>2 DEF WellFormed, IsObject
  <1> QED
    BY <1>7, <1>8

\* No override of a host changes what is said at or below a locked field, whatever it
\* writes: what passes the lock and would change it does not pass the check of the shape.
THEOREM LocksKept == Spec => []LocksHold
PROOF
  <1>1. MergeInv => LocksHold
    <2> SUFFICES ASSUME MergeInv, outcome = "accepted", NEW p \in Paths, NEW l \in Sources,
                        Locked(p)
                 PROVE  <<p, l>> \in Said(Len(merged)) <=> <<p, l>> \in Said(Len(merged) - 1)
      BY DEF LocksHold
    <2>1. Len(merged) \in Nat \ {0} /\ Unlocked(AtHand.doc)
      <3>1. Len(merged) > Len(Layers) /\ Len(Layers) \in Nat /\ Len(merged) \in Nat
        BY ResolutionAssumption DEF MergeInv, LockInv, MergedInv
      <3> QED
        BY <3>1 DEF MergeInv, LockInv
    <2>2. <<p, l>> \in Said(Len(merged)) <=>
             \/ p \in LeafPaths(AtHand.doc) /\ AtHand.layer = l
             \/ /\ <<p, l>> \in Said(Len(merged) - 1)
                /\ p \notin DOMAIN AtHand.doc /\ Above(p) \cap LeafPaths(AtHand.doc) = {}
      BY <2>1, SaidSplit DEF AtHand
    <2>3. p \notin LeafPaths(AtHand.doc)
      BY <2>1 DEF Unlocked
    <2> QED
      BY <2>2, <2>3, LockedSpared
  <1> QED
    BY <1>1, MergeInvariant, PTL
=============================================================================
