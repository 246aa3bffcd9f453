----------------------------- MODULE DesignerProofs -----------------------------
(***************************************************************************)
(* Proofs about the designer, for any files, forms, proposals and writes   *)
(* of others.  First what a manifest keeps on its way through the form and *)
(* back, which is a matter of two loops; then the panel, whose invariant   *)
(* follows each reload from the message that asks for it to the init that  *)
(* answers it, and each click from its message to the end of its handler.  *)
(***************************************************************************)
EXTENDS Designer, SequenceTheorems, WellFoundedInduction, TLAPS

--------------------------------------------------------------------------------
(* Loops over a sequence. *)

(* The least number there is of a kind. *)
LEMMA Least ==
    ASSUME NEW S \in SUBSET Nat, S # {}
    PROVE  \E m \in S : \A n \in S : m <= n
<1>1. \E m \in S : \A n \in S : ~(<<n, m>> \in OpToRel(<, Nat))
  BY NatLessThanWellFounded, WFMin
<1>2. PICK m \in S : \A n \in S : ~(<<n, m>> \in OpToRel(<, Nat))
  BY <1>1
<1>3. \A n \in S : ~(n < m)
  BY <1>2 DEF OpToRel
<1> QED
  BY <1>3

(* What holds at first and of the next number holds of all of them. *)
LEMMA Counting ==
    ASSUME NEW n \in Nat, NEW G, 0 \in G,
           \A k \in 0..(n - 1) : k \in G => k + 1 \in G
    PROVE  n \in G
<1> DEFINE Bad == {k \in 0..n : k \notin G}
<1>1. SUFFICES ASSUME Bad # {} PROVE FALSE
  OBVIOUS
<1>2. Bad \in SUBSET Nat
  OBVIOUS
<1>3. PICK m \in Bad : \A k \in Bad : m <= k
  <2> HIDE DEF Bad
  <2> QED
    BY <1>1, <1>2, Least
<1>4. m # 0 /\ m \in 0..n
  BY <1>3
<1>5. m - 1 \in 0..(n - 1) /\ m - 1 \in 0..n /\ ~(m <= m - 1) /\ (m - 1) + 1 = m
  BY <1>4
<1>6. m - 1 \in G
  BY <1>3, <1>5
<1> QED
  BY <1>3, <1>5, <1>6

(* A highest member is the one that Max takes. *)
LEMMA HighestIsMax ==
    ASSUME NEW t \in SUBSET Int, NEW k \in t, \A x \in t : x <= k
    PROVE  Max(t) = k
<1>1. Max(t) \in t /\ \A y \in t : Max(t) >= y
  BY DEF Max
<1>2. Max(t) \in Int /\ k \in Int /\ Max(t) >= k /\ Max(t) <= k
  BY <1>1
<1> QED
  BY <1>2

(* The library defines a loop over a sequence by a function on the sets of *)
(* places; F says what one turn makes of the result so far and an element. *)
Iterates(g, base, F, s, n) ==
    g = [t \in SUBSET (1..n) |->
            IF t = {} THEN base ELSE F[<<g[t \ {Max(t)}], s[Max(t)]>>]]

(* There is such a function, however long the sequence. *)
LEMMA LoopExists ==
    ASSUME NEW V, NEW S, NEW F \in [V \X S -> V], NEW base \in V, NEW s \in Seq(S)
    PROVE  \E g \in [SUBSET (1..Len(s)) -> V] : Iterates(g, base, F, s, Len(s))
<1> DEFINE G == {k \in 0..Len(s) : \E g \in [SUBSET (1..k) -> V] : Iterates(g, base, F, s, k)}
<1>1. 0 \in G
  <2> DEFINE g == [t \in SUBSET (1..0) |-> base]
  <2>1. 1..0 = {} /\ \A t \in SUBSET (1..0) : t = {}
    OBVIOUS
  <2>2. g = [t \in SUBSET (1..0) |->
               IF t = {} THEN base ELSE F[<<g[t \ {Max(t)}], s[Max(t)]>>]]
    BY <2>1
  <2>3. g \in [SUBSET (1..0) -> V] /\ Iterates(g, base, F, s, 0)
    BY <2>2 DEF Iterates
  <2> HIDE DEF g
  <2>4. 0 \in 0..Len(s)
    OBVIOUS
  <2> QED
    BY <2>3, <2>4
<1>2. ASSUME NEW k \in 0..(Len(s) - 1), k \in G PROVE k + 1 \in G
  <2>1. PICK g \in [SUBSET (1..k) -> V] : Iterates(g, base, F, s, k)
    BY <1>2
  <2> DEFINE n == k + 1
             h == [t \in SUBSET (1..n) |->
                     IF n \in t THEN F[<<g[t \ {n}], s[n]>>] ELSE g[t]]
  <2>2. /\ n \notin 1..k /\ 1..n = (1..k) \union {n} /\ n \in Int
        /\ 1..n \in SUBSET Int /\ \A x \in 1..n : x <= n
    OBVIOUS
  <2>3. \A t \in SUBSET (1..k) :
           g[t] = IF t = {} THEN base ELSE F[<<g[t \ {Max(t)}], s[Max(t)]>>]
    BY <2>1 DEF Iterates
  <2>4. s[n] \in S
    OBVIOUS
  <2> HIDE DEF n
  <2>5. ASSUME NEW t \in SUBSET (1..n)
        PROVE  /\ h[t] = IF t = {} THEN base ELSE F[<<h[t \ {Max(t)}], s[Max(t)]>>]
               /\ h[t] \in V
    <3>1. CASE n \in t
      <4>1. Max(t) = n
        <5>1. t \in SUBSET Int /\ \A x \in t : x <= n
          BY <2>2
        <5> QED
          BY <3>1, <5>1, HighestIsMax
      <4>2. t \ {n} \in SUBSET (1..n) /\ t \ {n} \in SUBSET (1..k) /\ n \notin t \ {n} /\ t # {}
        BY <2>2, <3>1
      <4>3. h[t \ {n}] = g[t \ {n}] /\ h[t] = F[<<g[t \ {n}], s[n]>>]
        BY <3>1, <4>2
      <4>4. g[t \ {n}] \in V
        BY <4>2
      <4> QED
        BY <2>4, <4>1, <4>2, <4>3, <4>4
    <3>2. CASE n \notin t
      <4>1. t \in SUBSET (1..k) /\ t \ {Max(t)} \in SUBSET (1..n) /\ n \notin t \ {Max(t)}
        BY <2>2, <3>2
      <4>2. h[t] = g[t] /\ h[t \ {Max(t)}] = g[t \ {Max(t)}]
        BY <3>2, <4>1
      <4> QED
        BY <2>3, <4>1, <4>2
    <3> QED
      BY <3>1, <3>2
  <2>6. h = [t \in SUBSET (1..n) |->
               IF t = {} THEN base ELSE F[<<h[t \ {Max(t)}], s[Max(t)]>>]]
    BY <2>5
  <2>7. h \in [SUBSET (1..n) -> V]
    BY <2>5
  <2> HIDE DEF h
  <2>8. Iterates(h, base, F, s, n)
    BY <2>6 DEF Iterates
  <2>9. n \in 0..Len(s)
    BY DEF n
  <2> QED
    BY <2>7, <2>8, <2>9 DEF n
<1>3. Len(s) \in Nat
  OBVIOUS
<1>4. Len(s) \in G
  <2> HIDE DEF G
  <2> QED
    BY <1>1, <1>2, <1>3, Counting
<1> QED
  BY <1>4

(* The highest of some places is one of them. *)
LEMMA MaxOfPlaces ==
    ASSUME NEW n \in Nat, NEW t \in SUBSET (1..n), t # {}
    PROVE  Max(t) \in t
<1> DEFINE far == {n - x : x \in t}
<1>1. far \in SUBSET Nat /\ far # {}
  <2>1. \A x \in t : n - x \in Nat
    OBVIOUS
  <2> QED
    BY <2>1
<1>2. PICK m \in far : \A y \in far : m <= y
  <2> HIDE DEF far
  <2> QED
    BY <1>1, Least
<1>3. PICK k \in t : m = n - k
  BY <1>2
<1>4. t \in SUBSET Int /\ \A x \in t : x <= k
  BY <1>2, <1>3
<1>5. Max(t) = k
  BY <1>3, <1>4, HighestIsMax
<1> QED
  BY <1>3, <1>5

(* On the first places it says what the loop has after so many turns. *)
LEMMA LoopTurns ==
    ASSUME NEW n \in Nat
    PROVE  /\ 1..0 = {}
           /\ \A k \in 1..n : /\ 1..k \in SUBSET (1..n) /\ 1..k # {} /\ Max(1..k) = k
                              /\ (1..k) \ {k} = 1..(k - 1)
<1> SUFFICES ASSUME NEW k \in 1..n
             PROVE  /\ 1..k \in SUBSET (1..n) /\ 1..k # {} /\ Max(1..k) = k
                    /\ (1..k) \ {k} = 1..(k - 1)
  OBVIOUS
<1>1. 1..k \in SUBSET Int /\ k \in 1..k /\ \A x \in 1..k : x <= k
  OBVIOUS
<1>2. Max(1..k) = k
  BY <1>1, HighestIsMax
<1> QED
  BY <1>1, <1>2

--------------------------------------------------------------------------------
(* The loop over the protocols keeps those that are known. *)
KnownTurn(known, p) == IF p \in KNOWN_PROTOCOLS THEN Append(known, p) ELSE known

KnownLoop(g, s) ==
    g = [t \in SUBSET DOMAIN s |-> IF t = {} THEN <<>> ELSE KnownTurn(g[t \ {Max(t)}], s[Max(t)])]

LEMMA KnownUnfolds ==
    ASSUME NEW s
    PROVE  Known(s) = (CHOOSE g : KnownLoop(g, s))[DOMAIN s]
BY DEF Known, FoldLeft, MapThenFoldSet, KnownLoop, KnownTurn

LEMMA KnownTurns ==
    ASSUME NEW P, NEW s \in Seq(P)
    PROVE  \E r : /\ r[0] = <<>> /\ r[Len(s)] = Known(s)
                  /\ \A k \in 1..Len(s) : r[k] = KnownTurn(r[k - 1], s[k])
<1> DEFINE V == Seq(P)
           F == [x \in V \X P |-> KnownTurn(x[1], x[2])]
           n == Len(s)
           it == CHOOSE g : KnownLoop(g, s)
           r == [k \in 0..n |-> it[1..k]]
<1>1. n \in Nat /\ DOMAIN s = 1..n /\ \A i \in 1..n : s[i] \in P
  OBVIOUS
<1>2. F \in [V \X P -> V]
  BY DEF KnownTurn
<1>3. <<>> \in V
  OBVIOUS
<1>4. PICK g \in [SUBSET (1..n) -> V] : Iterates(g, <<>>, F, s, n)
  <2> HIDE DEF V, F
  <2> QED
    BY <1>2, <1>3, LoopExists DEF n
<1>5. KnownLoop(g, s)
  <2>1. \A t \in SUBSET (1..n) :
           g[t] = IF t = {} THEN <<>> ELSE F[<<g[t \ {Max(t)}], s[Max(t)]>>]
    BY <1>4 DEF Iterates
  <2>2. ASSUME NEW t \in SUBSET (1..n), t # {}
        PROVE  g[t] = KnownTurn(g[t \ {Max(t)}], s[Max(t)])
    <3>1. Max(t) \in 1..n
      BY <1>1, <2>2, MaxOfPlaces
    <3>2. g[t \ {Max(t)}] \in V /\ s[Max(t)] \in P
      BY <1>1, <1>4, <3>1
    <3> QED
      BY <2>1, <2>2, <3>2
  <2>3. g = [t \in SUBSET (1..n) |->
               IF t = {} THEN <<>> ELSE KnownTurn(g[t \ {Max(t)}], s[Max(t)])]
    BY <1>4, <2>1, <2>2
  <2> QED
    BY <1>1, <2>3 DEF KnownLoop
<1>6. KnownLoop(it, s)
  BY <1>5
<1>7. \A t \in SUBSET (1..n) : it[t] = IF t = {} THEN <<>> ELSE KnownTurn(it[t \ {Max(t)}], s[Max(t)])
  BY <1>1, <1>6 DEF KnownLoop
<1>8. it[1..n] = Known(s)
  BY <1>1, KnownUnfolds
<1> HIDE DEF it, n
<1>9. /\ 1..0 = {}
      /\ \A k \in 1..n : /\ 1..k \in SUBSET (1..n) /\ 1..k # {} /\ Max(1..k) = k
                         /\ (1..k) \ {k} = 1..(k - 1)
  BY <1>1, LoopTurns
<1>10. r[0] = <<>>
  <2>1. it[{}] = <<>>
    BY <1>7
  <2>2. 0 \in 0..n
    BY <1>1
  <2> QED
    BY <1>9, <2>1, <2>2
<1>11. ASSUME NEW k \in 1..n PROVE r[k] = KnownTurn(r[k - 1], s[k])
  <2>1. k \in 0..n /\ k - 1 \in 0..n
    BY <1>1
  <2>2. r[k] = it[1..k] /\ r[k - 1] = it[1..(k - 1)]
    BY <2>1
  <2>3. it[1..k] = KnownTurn(it[(1..k) \ {k}], s[k])
    BY <1>7, <1>9
  <2> QED
    BY <1>9, <2>2, <2>3
<1>12. r[n] = Known(s)
  BY <1>1, <1>8
<1> HIDE DEF r
<1> QED
  BY <1>10, <1>11, <1>12 DEF n

(* What is kept was there and is known, and of known protocols all are     *)
(* kept.                                                                   *)
LEMMA KnownKeeps ==
    ASSUME NEW P, NEW s \in Seq(P)
    PROVE  Known(s) \in Seq(P \intersect KNOWN_PROTOCOLS)
<1> DEFINE Q == P \intersect KNOWN_PROTOCOLS
           n == Len(s)
<1>1. n \in Nat /\ \A i \in 1..n : s[i] \in P
  OBVIOUS
<1>2. PICK r : /\ r[0] = <<>> /\ r[n] = Known(s)
               /\ \A k \in 1..n : r[k] = KnownTurn(r[k - 1], s[k])
  BY KnownTurns
<1> DEFINE G == {k \in 0..n : r[k] \in Seq(Q)}
<1> HIDE DEF n
<1>3. 0 \in G
  <2>1. 0 \in 0..n /\ <<>> \in Seq(Q) /\ Len(<<>>) = 0 /\ 1..0 = {}
    BY <1>1
  <2> QED
    BY <1>2, <2>1
<1>4. ASSUME NEW k \in 0..(n - 1), k \in G PROVE k + 1 \in G
  <2>1. k + 1 \in 1..n /\ k + 1 \in 0..n /\ (k + 1) - 1 = k
    BY <1>1
  <2>2. r[k + 1] = KnownTurn(r[k], s[k + 1]) /\ s[k + 1] \in P
    BY <1>1, <1>2, <2>1
  <2>3. r[k + 1] \in Seq(Q)
    BY <1>4, <2>2 DEF KnownTurn
  <2> QED
    BY <2>1, <2>3
<1>5. n \in G
  <2> HIDE DEF G
  <2> QED
    BY <1>1, <1>3, <1>4, Counting
<1> QED
  BY <1>2, <1>5

LEMMA KnownIsAll ==
    ASSUME NEW s \in Seq(KNOWN_PROTOCOLS)
    PROVE  Known(s) = s
<1> DEFINE n == Len(s)
<1>1. n \in Nat /\ \A i \in 1..n : s[i] \in KNOWN_PROTOCOLS
  OBVIOUS
<1>2. PICK r : /\ r[0] = <<>> /\ r[n] = Known(s)
               /\ \A k \in 1..n : r[k] = KnownTurn(r[k - 1], s[k])
  BY KnownTurns
<1> DEFINE G == {k \in 0..n : /\ r[k] \in Seq(KNOWN_PROTOCOLS) /\ Len(r[k]) = k
                              /\ \A i \in 1..k : r[k][i] = s[i]}
<1> HIDE DEF n
<1>3. 0 \in G
  <2>1. 0 \in 0..n /\ <<>> \in Seq(KNOWN_PROTOCOLS) /\ Len(<<>>) = 0 /\ 1..0 = {}
    BY <1>1
  <2> QED
    BY <1>2, <2>1
<1>4. ASSUME NEW k \in 0..(n - 1), k \in G PROVE k + 1 \in G
  <2>1. k + 1 \in 1..n /\ k + 1 \in 0..n /\ (k + 1) - 1 = k
    BY <1>1
  <2>2. r[k + 1] = Append(r[k], s[k + 1]) /\ s[k + 1] \in KNOWN_PROTOCOLS
    BY <1>1, <1>2, <2>1 DEF KnownTurn
  <2>3. r[k] \in Seq(KNOWN_PROTOCOLS) /\ Len(r[k]) = k /\ \A i \in 1..k : r[k][i] = s[i]
    BY <1>4
  <2>4. r[k + 1] \in Seq(KNOWN_PROTOCOLS) /\ Len(r[k + 1]) = k + 1
    BY <2>2, <2>3
  <2>5. ASSUME NEW i \in 1..(k + 1) PROVE r[k + 1][i] = s[i]
    <3>1. i \in 1..k \/ i = k + 1
      BY <2>1
    <3> QED
      BY <2>2, <2>3, <3>1
  <2> QED
    BY <2>1, <2>4, <2>5
<1>5. n \in G
  <2> HIDE DEF G
  <2> QED
    BY <1>1, <1>3, <1>4, Counting
<1>6. Known(s) \in Seq(KNOWN_PROTOCOLS) /\ Len(Known(s)) = n /\ \A i \in 1..n : Known(s)[i] = s[i]
  BY <1>2, <1>5
<1> QED
  BY <1>6, SeqEqual DEF n

--------------------------------------------------------------------------------
(* The loop over the capabilities of a form. *)
PropertyTurn(entries, c) == SetProperty(entries, ManifestCapability(c))

PropertyLoop(g, s) ==
    g = [t \in SUBSET DOMAIN s |->
            IF t = {} THEN <<>> ELSE PropertyTurn(g[t \ {Max(t)}], s[Max(t)])]

LEMMA PropertyUnfolds ==
    ASSUME NEW f
    PROVE  formToManifest(f).capabilities
             = (CHOOSE g : PropertyLoop(g, f.capabilities))[DOMAIN f.capabilities]
<1>1. formToManifest(f).capabilities
        = FoldLeft(LAMBDA entries, c : SetProperty(entries, ManifestCapability(c)),
                   <<>>, f.capabilities)
  BY DEF formToManifest
<1>2. FoldLeft(LAMBDA entries, c : SetProperty(entries, ManifestCapability(c)),
               <<>>, f.capabilities)
        = (CHOOSE g : PropertyLoop(g, f.capabilities))[DOMAIN f.capabilities]
  BY DEF FoldLeft, MapThenFoldSet, PropertyLoop, PropertyTurn
<1> QED
  BY <1>1, <1>2

(* One turn leaves a sequence of entries. *)
LEMMA SetPropertyEntries ==
    ASSUME NEW C, NEW entries \in Seq(C), NEW c \in C
    PROVE  SetProperty(entries, c) \in Seq(C)
<1>1. CASE \E i \in 1..Len(entries) : entries[i].key = c.key
  <2>1. Len(entries) \in Nat /\ \A i \in 1..Len(entries) : entries[i] \in C
    OBVIOUS
  <2>2. SetProperty(entries, c)
          = [i \in 1..Len(entries) |-> IF entries[i].key = c.key THEN c ELSE entries[i]]
    BY <1>1 DEF SetProperty
  <2> QED
    BY <2>1, <2>2
<1>2. CASE ~ \E i \in 1..Len(entries) : entries[i].key = c.key
  BY <1>2 DEF SetProperty
<1> QED
  BY <1>1, <1>2

LEMMA PropertyTurns ==
    ASSUME NEW S, NEW f, f.capabilities \in Seq(S)
    PROVE  \E r : /\ r[0] = <<>> /\ r[Len(f.capabilities)] = formToManifest(f).capabilities
                  /\ \A k \in 1..Len(f.capabilities) :
                        r[k] = PropertyTurn(r[k - 1], f.capabilities[k])
<1> DEFINE s == f.capabilities
           C == {ManifestCapability(c) : c \in S}
           V == Seq(C)
           F == [x \in V \X S |-> PropertyTurn(x[1], x[2])]
           n == Len(s)
           it == CHOOSE g : PropertyLoop(g, s)
           r == [k \in 0..n |-> it[1..k]]
<1>1. n \in Nat /\ DOMAIN s = 1..n /\ s \in Seq(S) /\ \A i \in 1..n : s[i] \in S
  OBVIOUS
<1>2. F \in [V \X S -> V]
  <2>1. ASSUME NEW x \in V \X S PROVE PropertyTurn(x[1], x[2]) \in V
    <3>1. x[1] \in Seq(C) /\ ManifestCapability(x[2]) \in C
      OBVIOUS
    <3> HIDE DEF C
    <3> QED
      BY <3>1, SetPropertyEntries DEF PropertyTurn
  <2> QED
    BY <2>1
<1>3. <<>> \in V
  OBVIOUS
<1>4. PICK g \in [SUBSET (1..n) -> V] : Iterates(g, <<>>, F, s, n)
  <2> HIDE DEF V, F, s
  <2> QED
    BY <1>1, <1>2, <1>3, LoopExists DEF n
<1>5. PropertyLoop(g, s)
  <2>1. \A t \in SUBSET (1..n) :
           g[t] = IF t = {} THEN <<>> ELSE F[<<g[t \ {Max(t)}], s[Max(t)]>>]
    BY <1>4 DEF Iterates
  <2>2. ASSUME NEW t \in SUBSET (1..n), t # {}
        PROVE  g[t] = PropertyTurn(g[t \ {Max(t)}], s[Max(t)])
    <3>1. Max(t) \in 1..n
      BY <1>1, <2>2, MaxOfPlaces
    <3>2. g[t \ {Max(t)}] \in V /\ s[Max(t)] \in S
      BY <1>1, <1>4, <3>1
    <3> HIDE DEF V, s
    <3> QED
      BY <2>1, <2>2, <3>2
  <2>3. g = [t \in SUBSET (1..n) |->
               IF t = {} THEN <<>> ELSE PropertyTurn(g[t \ {Max(t)}], s[Max(t)])]
    BY <1>4, <2>1, <2>2
  <2> QED
    BY <1>1, <2>3 DEF PropertyLoop
<1>6. PropertyLoop(it, s)
  BY <1>5
<1>7. \A t \in SUBSET (1..n) :
         it[t] = IF t = {} THEN <<>> ELSE PropertyTurn(it[t \ {Max(t)}], s[Max(t)])
  BY <1>1, <1>6 DEF PropertyLoop
<1>8. it[1..n] = formToManifest(f).capabilities
  BY <1>1, PropertyUnfolds
<1> HIDE DEF it, n, s
<1>9. /\ 1..0 = {}
      /\ \A k \in 1..n : /\ 1..k \in SUBSET (1..n) /\ 1..k # {} /\ Max(1..k) = k
                         /\ (1..k) \ {k} = 1..(k - 1)
  BY <1>1, LoopTurns
<1>10. r[0] = <<>>
  <2>1. it[{}] = <<>>
    BY <1>7
  <2>2. 0 \in 0..n
    BY <1>1
  <2> QED
    BY <1>9, <2>1, <2>2
<1>11. ASSUME NEW k \in 1..n PROVE r[k] = PropertyTurn(r[k - 1], s[k])
  <2>1. k \in 0..n /\ k - 1 \in 0..n
    BY <1>1
  <2>2. r[k] = it[1..k] /\ r[k - 1] = it[1..(k - 1)]
    BY <2>1
  <2>3. it[1..k] = PropertyTurn(it[(1..k) \ {k}], s[k])
    BY <1>7, <1>9
  <2> QED
    BY <1>9, <2>2, <2>3
<1>12. r[n] = formToManifest(f).capabilities
  BY <1>1, <1>8
<1> HIDE DEF r
<1> QED
  BY <1>10, <1>11, <1>12 DEF n, s

--------------------------------------------------------------------------------
(* From a form to a manifest and back. *)

LEMMA OwnElements ==
    ASSUME NEW S, NEW s \in Seq(S)
    PROVE  s \in Seq(ToSet(s))
BY DEF ToSet

(* A capability goes to the form and back... *)
LEMMA CapabilityBack ==
    ASSUME NEW c, IsEntry(c)
    PROVE  /\ ManifestCapability(FormCapability(c)) = c
           /\ IsField(FormCapability(c))
           /\ FormCapability(c).key = c.key
<1>1. CASE c.kind # "sensor"
  BY <1>1 DEF FormCapability, ManifestCapability, IsField
<1>2. CASE c.kind = "sensor" /\ c.range = {}
  <2>1. FormCapability(c) = [key |-> c.key, kind |-> "sensor", unit |-> c.unit, min |-> {}, max |-> {}]
    BY <1>2 DEF FormCapability
  <2> QED
    BY <1>2, <2>1 DEF ManifestCapability, IsField, IsEntry
<1>3. CASE c.kind = "sensor" /\ c.range # {}
  <2>1. PICK a, b : c.range = {[min |-> a, max |-> b]}
    BY <1>3 DEF IsEntry
  <2>2. {r.min : r \in c.range} = {a} /\ {r.max : r \in c.range} = {b}
    BY <2>1
  <2>3. FormCapability(c) = [key |-> c.key, kind |-> "sensor", unit |-> c.unit, min |-> {a}, max |-> {b}]
    BY <1>3, <2>2 DEF FormCapability
  <2>4. {[min |-> x, max |-> y] : x \in {a}, y \in {b}} = c.range
    BY <2>1
  <2>5. ManifestCapability(FormCapability(c))
          = [key |-> c.key, kind |-> "sensor", unit |-> c.unit, range |-> c.range]
    BY <2>3, <2>4 DEF ManifestCapability
  <2> QED
    BY <1>3, <2>3, <2>5 DEF IsField, IsEntry
<1> QED
  BY <1>1, <1>2, <1>3

(* ...and a field of the form becomes an entry. *)
LEMMA CapabilityEntry ==
    ASSUME NEW c, IsField(c)
    PROVE  IsEntry(ManifestCapability(c))
<1>1. CASE c.kind # "sensor"
  BY <1>1 DEF ManifestCapability, IsEntry
<1>2. CASE c.kind = "sensor"
  <2> DEFINE range == {[min |-> a, max |-> b] : a \in c.min, b \in c.max}
  <2>1. ManifestCapability(c) = [key |-> c.key, kind |-> "sensor", unit |-> c.unit, range |-> range]
    BY <1>2 DEF ManifestCapability
  <2>2. range = {} \/ \E a, b : range = {[min |-> a, max |-> b]}
    <3>1. c.min = {} \/ c.max = {} \/ \E a, b : c.min = {a} /\ c.max = {b}
      BY <1>2 DEF IsField
    <3>2. ASSUME NEW a, NEW b, c.min = {a}, c.max = {b} PROVE range = {[min |-> a, max |-> b]}
      BY <3>2
    <3> QED
      BY <3>1, <3>2
  <2> HIDE DEF range
  <2> QED
    BY <2>1, <2>2 DEF IsEntry
<1> QED
  BY <1>1, <1>2

(* An entry is added or replaced. *)
LEMMA EntriesTurn ==
    ASSUME NEW s, IsMapping(s), NEW c, IsEntry(c)
    PROVE  IsMapping(SetProperty(s, c))
<1>1. PICK B : s \in Seq(B)
  BY DEF IsMapping
<1> DEFINE C == B \union {c}
           n == Len(s)
           e == SetProperty(s, c)
<1>2. /\ n \in Nat /\ s \in Seq(C) /\ \A i \in 1..n : s[i] \in C
      /\ \A i \in 1..n : IsEntry(s[i])
      /\ \A i, j \in 1..n : s[i].key = s[j].key => i = j
  BY <1>1 DEF IsMapping
<1>3. CASE \E i \in 1..n : s[i].key = c.key
  <2>1. e = [i \in 1..n |-> IF s[i].key = c.key THEN c ELSE s[i]]
    BY <1>3 DEF SetProperty
  <2> HIDE DEF n, e, C
  <2>2. e \in Seq(C) /\ Len(e) = n
    BY <1>2, <2>1 DEF C
  <2>3. \A i \in 1..n : IsEntry(e[i]) /\ e[i].key = s[i].key
    BY <1>2, <2>1
  <2> QED
    BY <1>2, <2>2, <2>3, OwnElements DEF IsMapping, e
<1>4. CASE ~ \E i \in 1..n : s[i].key = c.key
  <2>1. e = Append(s, c)
    BY <1>4 DEF SetProperty
  <2>2. e \in Seq(C) /\ Len(e) = n + 1 /\ e[n + 1] = c /\ \A i \in 1..n : e[i] = s[i]
    BY <1>2, <2>1
  <2> HIDE DEF n, e, C
  <2>3. \A i \in 1..(n + 1) : i \in 1..n \/ i = n + 1
    BY <1>2
  <2>4. \A i \in 1..(n + 1) : IsEntry(e[i])
    BY <1>2, <2>2, <2>3
  <2>5. \A i, j \in 1..(n + 1) : e[i].key = e[j].key => i = j
    BY <1>2, <1>4, <2>2, <2>3
  <2> QED
    BY <2>2, <2>4, <2>5, OwnElements DEF IsMapping, e
<1> QED
  BY <1>3, <1>4

(* A form makes a manifest as the parser would return it... *)
LEMMA FormMakesManifest ==
    ASSUME NEW f, IsForm(f)
    PROVE  IsManifest(formToManifest(f))
<1> DEFINE s == f.capabilities
           n == Len(s)
           m == formToManifest(f)
<1>1. PICK S : s \in Seq(S)
  BY DEF IsForm
<1>2. n \in Nat /\ \A i \in 1..n : IsField(s[i])
  BY <1>1 DEF IsForm
<1>3. PICK r : /\ r[0] = <<>> /\ r[n] = m.capabilities
               /\ \A k \in 1..n : r[k] = PropertyTurn(r[k - 1], s[k])
  BY <1>1, PropertyTurns
<1> DEFINE G == {k \in 0..n : IsMapping(r[k])}
<1> HIDE DEF n, s, m
<1>4. 0 \in G
  <2>1. 0 \in 0..n /\ <<>> \in Seq({}) /\ Len(<<>>) = 0 /\ 1..0 = {}
    BY <1>2
  <2>2. IsMapping(<<>>)
    BY <2>1 DEF IsMapping
  <2> QED
    BY <1>3, <2>1, <2>2
<1>5. ASSUME NEW k \in 0..(n - 1), k \in G PROVE k + 1 \in G
  <2>1. k + 1 \in 1..n /\ k + 1 \in 0..n /\ (k + 1) - 1 = k
    BY <1>2
  <2>2. r[k + 1] = SetProperty(r[k], ManifestCapability(s[k + 1])) /\ IsField(s[k + 1])
    BY <1>2, <1>3, <2>1 DEF PropertyTurn
  <2>3. IsMapping(r[k]) /\ IsEntry(ManifestCapability(s[k + 1]))
    BY <1>5, <2>2, CapabilityEntry
  <2>4. IsMapping(r[k + 1])
    BY <2>2, <2>3, EntriesTurn
  <2> QED
    BY <2>1, <2>4
<1>6. IsMapping(m.capabilities)
  <2>1. n \in G
    <3> HIDE DEF G
    <3> QED
      BY <1>2, <1>4, <1>5, Counting
  <2> QED
    BY <1>3, <2>1
<1>7. /\ m.protocols = f.protocols /\ m.encryption = f.encryption
      /\ m.battery = IF f.battery.enabled THEN {f.battery.rechargeable} ELSE {}
  BY DEF m, formToManifest
<1> QED
  BY <1>6, <1>7 DEF IsManifest, IsForm, m

(* ...and a manifest a form as the inspector would leave it. *)
LEMMA ManifestMakesForm ==
    ASSUME NEW m, IsManifest(m)
    PROVE  IsForm(manifestToForm(m))
<1>1. CASE ~Valid(m)
  <2>1. <<>> \in Seq({}) /\ Len(<<>>) = 0 /\ 1..0 = {}
    OBVIOUS
  <2> DEFINE f == manifestToForm(m)
  <2>2. f.capabilities = <<>> /\ f.protocols = <<>> /\ f.encryption = FALSE
    BY <1>1 DEF manifestToForm, emptyForm
  <2>3. f.battery.enabled = FALSE /\ f.battery.rechargeable = FALSE
    BY <1>1 DEF manifestToForm, emptyForm
  <2> HIDE DEF f
  <2>4. IsForm(f)
    BY <2>1, <2>2, <2>3, OwnElements DEF IsForm
  <2> QED
    BY <2>4 DEF f
<1>2. CASE Valid(m)
  <2> DEFINE s == m.capabilities
             n == Len(s)
             f == manifestToForm(m)
             caps == [i \in 1..n |-> FormCapability(s[i])]
             S == {FormCapability(s[i]) : i \in 1..n}
  <2>1. PICK P : m.protocols \in Seq(P)
    BY DEF IsManifest
  <2>2. /\ f.capabilities = caps /\ f.protocols = Known(m.protocols)
        /\ f.battery = [enabled |-> Power(m) # {}, rechargeable |-> Power(m) = {TRUE}]
        /\ f.encryption = Security(m)
    BY <1>2 DEF manifestToForm, DeviceIR
  <2>3. n \in Nat /\ \A i \in 1..n : IsEntry(s[i])
    BY DEF IsManifest, IsMapping
  <2> HIDE DEF n, s, f
  <2>4. caps \in Seq(S) /\ Len(caps) = n
    BY <2>3
  <2>5. \A i \in 1..n : IsField(caps[i])
    BY <2>3, CapabilityBack
  <2>6. Known(m.protocols) \in Seq(P \intersect KNOWN_PROTOCOLS)
    BY <2>1, KnownKeeps
  <2>7. Security(m) \in BOOLEAN
    BY DEF Security
  <2> HIDE DEF caps, S
  <2> QED
    BY <2>2, <2>4, <2>5, <2>6, <2>7, OwnElements DEF IsForm, f
<1> QED
  BY <1>1, <1>2

(* The form of a manifest without errors says what it says, except that    *)
(* the protocols the designer does not know are gone.                      *)
LEMMA BackFromForm ==
    ASSUME NEW m, IsManifest(m), Valid(m)
    PROVE  LET back == formToManifest(manifestToForm(m)) IN
           /\ back.yaml /\ back.broken = {}
           /\ back.name = m.name /\ back.category = m.category
           /\ back.manufacturer = m.manufacturer
           /\ back.capabilities = m.capabilities
           /\ back.protocols = Known(m.protocols)
           /\ back.battery = Power(m) /\ back.encryption = Security(m)
<1> DEFINE s == m.capabilities
           n == Len(s)
           f == manifestToForm(m)
           back == formToManifest(f)
           caps == [i \in 1..n |-> FormCapability(s[i])]
           S == {FormCapability(s[i]) : i \in 1..n}
<1>1. PICK B : s \in Seq(B)
  BY DEF IsManifest, IsMapping
<1>2. /\ n \in Nat /\ \A i \in 1..n : IsEntry(s[i])
      /\ \A i, j \in 1..n : s[i].key = s[j].key => i = j
      /\ \A i \in 1..n : s[i] \in B
  BY <1>1 DEF IsManifest, IsMapping
<1>3. /\ f.capabilities = caps /\ f.protocols = Known(m.protocols)
      /\ f.name = m.name /\ f.category = m.category /\ f.manufacturer = m.manufacturer
      /\ f.battery = [enabled |-> Power(m) # {}, rechargeable |-> Power(m) = {TRUE}]
      /\ f.encryption = Security(m)
  BY DEF manifestToForm, DeviceIR
<1>4. /\ back.yaml /\ back.broken = {}
      /\ back.name = f.name /\ back.category = f.category
      /\ back.manufacturer = f.manufacturer /\ back.protocols = f.protocols
      /\ back.battery = IF f.battery.enabled THEN {f.battery.rechargeable} ELSE {}
      /\ back.encryption = f.encryption
  BY DEF formToManifest
<1> HIDE DEF n, s, f
<1>5. caps \in Seq(S) /\ Len(caps) = n
  BY <1>2
<1> HIDE DEF S
<1>6. PICK r : /\ r[0] = <<>> /\ r[n] = back.capabilities
               /\ \A k \in 1..n : r[k] = PropertyTurn(r[k - 1], caps[k])
  <2>1. f.capabilities \in Seq(S) /\ Len(f.capabilities) = n
    BY <1>3, <1>5
  <2>2. \E r : /\ r[0] = <<>> /\ r[Len(f.capabilities)] = formToManifest(f).capabilities
               /\ \A k \in 1..Len(f.capabilities) :
                     r[k] = PropertyTurn(r[k - 1], f.capabilities[k])
    BY <2>1, PropertyTurns
  <2>3. f.capabilities = caps
    BY <1>3
  <2> HIDE DEF caps
  <2> QED
    BY <2>1, <2>2, <2>3
<1> HIDE DEF back
<1> DEFINE G == {k \in 0..n : /\ r[k] \in Seq(B) /\ Len(r[k]) = k
                              /\ \A i \in 1..k : r[k][i] = s[i]}
<1>7. 0 \in G
  <2>1. 0 \in 0..n /\ <<>> \in Seq(B) /\ Len(<<>>) = 0 /\ 1..0 = {}
    BY <1>2
  <2> QED
    BY <1>6, <2>1
<1>8. ASSUME NEW k \in 0..(n - 1), k \in G PROVE k + 1 \in G
  <2>1. /\ k + 1 \in 1..n /\ k + 1 \in 0..n /\ (k + 1) - 1 = k
        /\ \A i \in 1..k : i \in 1..n /\ i # k + 1
    BY <1>2
  <2>2. r[k] \in Seq(B) /\ Len(r[k]) = k /\ \A i \in 1..k : r[k][i] = s[i]
    BY <1>8
  <2>3. caps[k + 1] = FormCapability(s[k + 1])
    BY <2>1
  <2>4. ManifestCapability(caps[k + 1]) = s[k + 1]
    BY <1>2, <2>1, <2>3, CapabilityBack
  <2>5. ~ \E i \in 1..Len(r[k]) : r[k][i].key = s[k + 1].key
    <3> SUFFICES ASSUME NEW i \in 1..Len(r[k]), r[k][i].key = s[k + 1].key
                 PROVE  FALSE
      OBVIOUS
    <3>1. i \in 1..n /\ i # k + 1 /\ r[k][i] = s[i]
      BY <2>1, <2>2
    <3> QED
      BY <1>2, <2>1, <3>1
  <2>6. r[k + 1] = Append(r[k], s[k + 1])
    <3>1. r[k + 1] = PropertyTurn(r[k], caps[k + 1])
      BY <1>6, <2>1
    <3>2. PropertyTurn(r[k], caps[k + 1]) = SetProperty(r[k], s[k + 1])
      BY <2>4 DEF PropertyTurn
    <3>3. SetProperty(r[k], s[k + 1]) = Append(r[k], s[k + 1])
      BY <2>5 DEF SetProperty
    <3> QED
      BY <3>1, <3>2, <3>3
  <2>7. s[k + 1] \in B
    BY <1>2, <2>1
  <2>8. r[k + 1] \in Seq(B) /\ Len(r[k + 1]) = k + 1
    BY <2>2, <2>6, <2>7
  <2>9. ASSUME NEW i \in 1..(k + 1) PROVE r[k + 1][i] = s[i]
    <3>1. i \in 1..k \/ i = k + 1
      BY <2>1
    <3> QED
      BY <2>2, <2>6, <2>7, <3>1
  <2> QED
    BY <2>1, <2>8, <2>9
<1>9. back.capabilities = s
  <2>1. n \in G
    <3> HIDE DEF G
    <3> QED
      BY <1>2, <1>7, <1>8, Counting
  <2>2. r[n] \in Seq(B) /\ Len(r[n]) = n /\ \A i \in 1..n : r[n][i] = s[i]
    BY <2>1
  <2> QED
    BY <1>1, <1>6, <2>2, SeqEqual DEF n
<1>10. back.battery = Power(m)
  <2>1. Power(m) = {} \/ Power(m) = {TRUE} \/ Power(m) = {FALSE}
    BY DEF Power, IsManifest
  <2>2. f.battery.enabled = (Power(m) # {}) /\ f.battery.rechargeable = (Power(m) = {TRUE})
    BY <1>3
  <2>3. CASE Power(m) = {}
    BY <1>4, <2>2, <2>3
  <2>4. CASE Power(m) = {TRUE}
    <3>1. f.battery.enabled /\ f.battery.rechargeable = TRUE
      BY <2>2, <2>4
    <3> QED
      BY <1>4, <2>4, <3>1
  <2>5. CASE Power(m) = {FALSE}
    <3>1. f.battery.enabled /\ f.battery.rechargeable = FALSE
      BY <2>2, <2>5
    <3> QED
      BY <1>4, <2>5, <3>1
  <2> QED
    BY <2>1, <2>3, <2>4, <2>5
<1> QED
  BY <1>3, <1>4, <1>9, <1>10 DEF s, back, f

(* A form that was read from a manifest and has no errors is read again    *)
(* from the manifest it makes...                                           *)
LEMMA RoundTrip ==
    ASSUME NEW m, IsManifest(m), Valid(formToManifest(manifestToForm(m)))
    PROVE  manifestToForm(formToManifest(manifestToForm(m))) = manifestToForm(m)
<1> DEFINE f == manifestToForm(m)
           back == formToManifest(f)
<1>1. Valid(m)
  <2>1. SUFFICES ASSUME ~Valid(m) PROVE FALSE
    OBVIOUS
  <2>2. f.protocols = <<>>
    BY <2>1 DEF manifestToForm, emptyForm
  <2>3. back.protocols = <<>> /\ back.broken = {}
    BY <2>2 DEF formToManifest
  <2> HIDE DEF back, f
  <2>4. ConnectivityErrors(back) # {}
    BY <2>3 DEF ConnectivityErrors
  <2> QED
    BY <2>4 DEF Valid, back, f
<1>2. /\ back.yaml /\ back.broken = {}
      /\ back.name = m.name /\ back.category = m.category
      /\ back.manufacturer = m.manufacturer
      /\ back.capabilities = m.capabilities
      /\ back.protocols = Known(m.protocols)
      /\ back.battery = Power(m) /\ back.encryption = Security(m)
  BY <1>1, BackFromForm
<1>3. Known(Known(m.protocols)) = Known(m.protocols)
  <2>1. PICK P : m.protocols \in Seq(P)
    BY DEF IsManifest
  <2> DEFINE Q == P \intersect KNOWN_PROTOCOLS
  <2>2. Known(m.protocols) \in Seq(Q) /\ Q \subseteq KNOWN_PROTOCOLS
    BY <2>1, KnownKeeps
  <2> HIDE DEF Q
  <2>3. Known(m.protocols) \in Seq(KNOWN_PROTOCOLS)
    BY <2>2
  <2> QED
    BY <2>3, KnownIsAll
<1>4. Valid(back)
  OBVIOUS
<1>5. Power(back) = Power(m) /\ Security(back) = Security(m)
  <2> HIDE DEF back
  <2>1. Security(m) \in BOOLEAN
    BY DEF Security
  <2> QED
    BY <1>2, <2>1 DEF Power, Security
<1>6. f = [name |-> m.name, category |-> m.category, manufacturer |-> m.manufacturer,
           capabilities |-> [i \in 1..Len(m.capabilities) |-> FormCapability(m.capabilities[i])],
           protocols |-> Known(m.protocols),
           battery |-> [enabled |-> Power(m) # {}, rechargeable |-> Power(m) = {TRUE}],
           encryption |-> Security(m)]
  BY <1>1 DEF manifestToForm, DeviceIR
<1> HIDE DEF back, f
<1>7. manifestToForm(back)
        = [name |-> back.name, category |-> back.category, manufacturer |-> back.manufacturer,
           capabilities |-> [i \in 1..Len(back.capabilities) |-> FormCapability(back.capabilities[i])],
           protocols |-> Known(back.protocols),
           battery |-> [enabled |-> Power(back) # {}, rechargeable |-> Power(back) = {TRUE}],
           encryption |-> Security(back)]
  BY <1>4 DEF manifestToForm, DeviceIR
<1>8. manifestToForm(back) = f
  BY <1>2, <1>3, <1>5, <1>6, <1>7
<1> QED
  BY <1>8 DEF back, f

(* ...and the form of a manifest without errors has none itself, as long   *)
(* as a protocol is left.                                                  *)
LEMMA StaysValid ==
    ASSUME NEW m, IsManifest(m), Valid(m), manifestToForm(m).protocols # <<>>
    PROVE  Valid(formToManifest(manifestToForm(m)))
<1> DEFINE f == manifestToForm(m)
           back == formToManifest(f)
<1>1. /\ back.yaml /\ back.broken = {}
      /\ back.name = m.name /\ back.category = m.category
      /\ back.capabilities = m.capabilities
      /\ back.protocols = f.protocols
  <2>1. f.protocols = Known(m.protocols)
    BY DEF manifestToForm, DeviceIR
  <2> QED
    BY <2>1, BackFromForm
<1>2. /\ DeviceErrors(m) = {} /\ CapabilitiesErrors(m) = {}
  BY DEF Valid
<1> HIDE DEF back
<1>3. DeviceErrors(back) = {}
  BY <1>1, <1>2 DEF DeviceErrors
<1>4. CapabilitiesErrors(back) = {}
  <2>1. "capabilities" \notin m.broken
    BY <1>2 DEF CapabilitiesErrors
  <2> QED
    BY <1>1, <1>2, <2>1 DEF CapabilitiesErrors
<1>5. ConnectivityErrors(back) = {}
  BY <1>1 DEF ConnectivityErrors
<1> QED
  BY <1>1, <1>3, <1>4, <1>5 DEF Valid, back

--------------------------------------------------------------------------------
(* The forms and manifests there are: those of the constants, and what the *)
(* conversions make of them, which is little because a round trip is over  *)
(* after one.                                                              *)
FirstForms == Forms \union {emptyForm} \union {TileForm(tile) : tile \in Tiles}

FirstManifests ==
    Proposals \union Outside \union ({OnDisk[u] : u \in Uris} \ {None}) \union {NoText}

AllForms ==
    FirstForms
        \union {manifestToForm(m) : m \in FirstManifests \union {formToManifest(f) : f \in FirstForms}}

AllManifests == FirstManifests \union {formToManifest(f) : f \in AllForms}

LEMMA EmptyIsForm == IsForm(emptyForm)
<1>1. <<>> \in Seq({}) /\ Len(<<>>) = 0 /\ 1..0 = {}
  OBVIOUS
<1> DEFINE f == emptyForm
<1>2. /\ f.capabilities = <<>> /\ f.protocols = <<>> /\ f.encryption = FALSE
      /\ f.battery.enabled = FALSE /\ f.battery.rechargeable = FALSE
  BY DEF emptyForm
<1> HIDE DEF f
<1>3. IsForm(f)
  BY <1>1, <1>2, OwnElements DEF IsForm
<1> QED
  BY <1>3 DEF f

LEMMA TemplateIsForm ==
    ASSUME NEW name, NEW category, NEW C, NEW caps \in Seq(C), NEW P, NEW protocols \in Seq(P),
           NEW battery \in BOOLEAN, \A i \in 1..Len(caps) : IsField(caps[i])
    PROVE  IsForm(Template(name, category, caps, protocols, battery))
<1> DEFINE f == Template(name, category, caps, protocols, battery)
<1>1. /\ f.capabilities = caps /\ f.protocols = protocols /\ f.encryption = TRUE
      /\ f.battery.enabled = battery /\ f.battery.rechargeable = FALSE
  BY DEF Template
<1> HIDE DEF f
<1>2. IsForm(f)
  BY <1>1, OwnElements DEF IsForm
<1> QED
  BY <1>2 DEF f

LEMMA FieldsOfTiles ==
    /\ \A key, unit, min, max : IsField(Sensor(key, unit, min, max))
    /\ \A key, modes : IsField(Actuator(key, modes))
BY DEF IsField, Sensor, Actuator

(* Lists of one and of two. *)
LEMMA ShortLists ==
    /\ \A a : <<a>> \in Seq({a}) /\ Len(<<a>>) = 1 /\ <<a>>[1] = a
    /\ \A a, b : /\ <<a, b>> \in Seq({a, b}) /\ Len(<<a, b>>) = 2
                 /\ <<a, b>>[1] = a /\ <<a, b>>[2] = b
    /\ 1..1 = {1} /\ 1..2 = {1, 2}
OBVIOUS

LEMMA TilesAreForms == \A tile \in Tiles : IsForm(TileForm(tile))
<1>1. ASSUME NEW name, NEW category, NEW a, NEW p, NEW q, NEW battery \in BOOLEAN, IsField(a)
      PROVE  IsForm(Template(name, category, <<a>>, <<p, q>>, battery))
  <2>1. \A i \in 1..Len(<<a>>) : IsField(<<a>>[i])
    BY <1>1, ShortLists
  <2> QED
    BY <2>1, ShortLists, TemplateIsForm
<1>2. ASSUME NEW name, NEW category, NEW a, NEW b, NEW p, NEW q, NEW battery \in BOOLEAN,
             IsField(a), IsField(b)
      PROVE  IsForm(Template(name, category, <<a, b>>, <<p, q>>, battery))
  <2> DEFINE caps == <<a, b>>
             protocols == <<p, q>>
  <2>1. /\ caps \in Seq({a, b}) /\ Len(caps) = 2 /\ caps[1] = a /\ caps[2] = b
        /\ protocols \in Seq({p, q}) /\ 1..2 = {1, 2}
    BY ShortLists
  <2> HIDE DEF caps, protocols
  <2>2. \A i \in 1..Len(caps) : IsField(caps[i])
    BY <1>2, <2>1
  <2>3. IsForm(Template(name, category, caps, protocols, battery))
    BY <2>1, <2>2, TemplateIsForm
  <2> QED
    BY <2>3 DEF caps, protocols
<1>3. IsForm(DEVICE_TEMPLATES.thermostat)
  <2> DEFINE a == Sensor("temperature_sensor", "celsius", -20, 50)
             b == Actuator("hvac", <<"heating", "cooling", "off">>)
  <2>1. DEVICE_TEMPLATES.thermostat
          = Template("smart_thermostat", "thermostat", <<a, b>>, <<"matter", "thread">>, FALSE)
    BY DEF DEVICE_TEMPLATES
  <2>2. IsField(a) /\ IsField(b)
    BY FieldsOfTiles
  <2> HIDE DEF a, b
  <2> QED
    BY <1>2, <2>1, <2>2
<1>4. IsForm(DEVICE_TEMPLATES.environment_sensor)
  <2> DEFINE a == Sensor("temperature_sensor", "celsius", -40, 85)
             b == Sensor("humidity_sensor", "percent", 0, 100)
  <2>1. DEVICE_TEMPLATES.environment_sensor
          = Template("environment_sensor", "sensor", <<a, b>>, <<"matter", "thread">>, TRUE)
    BY DEF DEVICE_TEMPLATES
  <2>2. IsField(a) /\ IsField(b)
    BY FieldsOfTiles
  <2> HIDE DEF a, b
  <2> QED
    BY <1>2, <2>1, <2>2
<1>5. IsForm(DEVICE_TEMPLATES.smart_plug)
  <2> DEFINE a == Actuator("power_switch", <<"on", "off">>)
             b == Sensor("power_meter", "watt", 0, 3680)
  <2>1. DEVICE_TEMPLATES.smart_plug
          = Template("smart_plug", "plug", <<a, b>>, <<"matter", "wifi">>, FALSE)
    BY DEF DEVICE_TEMPLATES
  <2>2. IsField(a) /\ IsField(b)
    BY FieldsOfTiles
  <2> HIDE DEF a, b
  <2> QED
    BY <1>2, <2>1, <2>2
<1>6. IsForm(DEVICE_TEMPLATES.smart_light)
  <2> DEFINE a == Actuator("power_switch", <<"on", "off">>)
             b == Actuator("scene", <<"warm_white", "cool_white", "color">>)
  <2>1. DEVICE_TEMPLATES.smart_light
          = Template("smart_light", "light", <<a, b>>, <<"matter", "thread">>, FALSE)
    BY DEF DEVICE_TEMPLATES
  <2>2. IsField(a) /\ IsField(b)
    BY FieldsOfTiles
  <2> HIDE DEF a, b
  <2> QED
    BY <1>2, <2>1, <2>2
<1>7. IsForm(DEVICE_TEMPLATES.motion_sensor)
  BY <1>1, FieldsOfTiles DEF DEVICE_TEMPLATES
<1>8. DOMAIN DEVICE_TEMPLATES
        = {"thermostat", "environment_sensor", "smart_plug", "smart_light", "motion_sensor"}
  BY DEF DEVICE_TEMPLATES
<1> SUFFICES ASSUME NEW tile \in Tiles PROVE IsForm(TileForm(tile))
  OBVIOUS
<1> QED
  BY <1>3, <1>4, <1>5, <1>6, <1>7, <1>8, EmptyIsForm, TilesAssumption DEF TileForm

LEMMA FirstsOK ==
    /\ \A f \in FirstForms : IsForm(f)
    /\ \A m \in FirstManifests : IsManifest(m)
<1>1. IsManifest(NoText)
  <2> DEFINE e == formToManifest(emptyForm)
  <2>1. IsManifest(e)
    BY EmptyIsForm, FormMakesManifest
  <2>2. /\ NoText.capabilities = e.capabilities /\ NoText.protocols = e.protocols
        /\ NoText.battery = e.battery /\ NoText.encryption = e.encryption
    BY DEF NoText, formToManifest
  <2> HIDE DEF e
  <2> QED
    BY <2>1, <2>2 DEF IsManifest
<1> QED
  BY <1>1, EmptyIsForm, TilesAreForms, FormsAssumption, ManifestsAssumption
     DEF FirstForms, FirstManifests

LEMMA AllOK ==
    /\ \A f \in AllForms : IsForm(f)
    /\ \A m \in AllManifests : IsManifest(m)
<1>1. \A f \in FirstForms : IsManifest(formToManifest(f))
  BY FirstsOK, FormMakesManifest
<1>2. \A f \in AllForms : IsForm(f)
  BY <1>1, FirstsOK, ManifestMakesForm DEF AllForms
<1> QED
  BY <1>2, FirstsOK, FormMakesManifest DEF AllManifests

LEMMA FormsMakeManifests == \A f \in AllForms : formToManifest(f) \in AllManifests
BY DEF AllManifests

LEMMA ManifestsMakeForms == \A m \in AllManifests : manifestToForm(m) \in AllForms
<1> SUFFICES ASSUME NEW m \in AllManifests PROVE manifestToForm(m) \in AllForms
  OBVIOUS
<1>1. emptyForm \in AllForms
  BY DEF AllForms, FirstForms
<1> DEFINE Seen == FirstManifests \union {formToManifest(f) : f \in FirstForms}
<1>2. \A s \in Seen : manifestToForm(s) \in AllForms /\ IsManifest(s)
  BY FirstsOK, FormMakesManifest DEF AllForms
<1>3. m \in Seen \/ \E s \in Seen : m = formToManifest(manifestToForm(s))
  BY DEF AllManifests, AllForms
<1>4. ASSUME NEW s \in Seen, m = formToManifest(manifestToForm(s))
      PROVE  manifestToForm(m) \in AllForms
  <2>1. CASE Valid(m)
    BY <1>2, <1>4, <2>1, RoundTrip
  <2>2. CASE ~Valid(m)
    BY <1>1, <2>2 DEF manifestToForm
  <2> QED
    BY <2>1, <2>2
<1> HIDE DEF Seen
<1> QED
  BY <1>2, <1>3, <1>4

--------------------------------------------------------------------------------
(* Types. *)
Clicks == {"saveForm", "generate", "scaffold"}
ByForm == Clicks \union {"applyForm", "createDevice"}

HostMessages == [type : {"ready", "refresh"}] \union [type : ByForm, form : AllForms]

Inits ==
    [type : {"init"}, source : Uris \union {None}, hasDevice : BOOLEAN,
     saved : BOOLEAN, form : AllForms, valid : BOOLEAN]
Updates == [type : {"update"}, saved : BOOLEAN, valid : BOOLEAN]
ViewMessages ==
    Inits \union Updates \union [type : {"saved"}, source : Uris] \union [type : {"openWizard"}]

Hosts ==
    [activeUri : Uris \union {None}, override : Proposals \union {None},
     currentForm : AllForms \union {None}, pendingWizard : BOOLEAN, created : BOOLEAN]

Views ==
    [form : AllForms, hasDevice : BOOLEAN, saved : BOOLEAN, dirty : BOOLEAN,
     lastValid : BOOLEAN, wizard : BOOLEAN, source : Uris \union {None}]

Reads == [kind : {"init"}, uri : Uris, wizard : BOOLEAN]
Works ==
    [kind : {"dialog", "write", "emit"}, then : Clicks, form : AllForms, uri : Uris \union {None}]

(* What a reload will find is there. *)
Found(h) == h.override = None /\ h.activeUri # None => disk[h.activeUri] \in AllManifests

Types ==
    /\ panel \in {"closed", "loading", "open"}
    /\ host \in Hosts /\ Found(host)
    /\ tasks \in Seq(Reads \union Works)
    /\ toHost \in Seq(HostMessages) /\ toView \in Seq(ViewMessages)
    /\ view \in Views
    /\ timer \in BOOLEAN
    /\ disk \in [Uris -> AllManifests \union {None}]
    /\ editor \in Uris \union {None} /\ (editor # None => disk[editor] \in AllManifests)
    /\ stale \in SUBSET Uris
    /\ wanted \in BOOLEAN

--------------------------------------------------------------------------------
(* What the steps do to the fields of the panel. *)

LEMMA HostFields ==
    ASSUME NEW h \in Hosts
    PROVE  /\ h = [activeUri |-> h.activeUri, override |-> h.override,
                   currentForm |-> h.currentForm, pendingWizard |-> h.pendingWizard,
                   created |-> h.created]
           /\ h.activeUri \in Uris \union {None} /\ h.override \in Proposals \union {None}
           /\ h.currentForm \in AllForms \union {None}
           /\ h.pendingWizard \in BOOLEAN /\ h.created \in BOOLEAN
BY DEF Hosts

(* An init is posted, and the creation screen after it if it is to open. *)
Posted(queue, init, wizard) ==
    IF wizard THEN Append(Append(queue, init), OpenWizard) ELSE Append(queue, init)

(* What an init says of the host that posts it and of the form it brings. *)
Tells(init, h) ==
    /\ init.type = "init"
    /\ init.saved = (h.activeUri # None)
    /\ init.valid => Valid(formToManifest(init.form)) \/ init.form.protocols = <<>>

Shown(h, m, source, wizard) ==
    /\ host' \in Hosts
    /\ host'.activeUri = h.activeUri /\ host'.override = h.override
    /\ host'.pendingWizard = h.pendingWizard
    /\ \E init \in Inits :
          /\ toView' = Posted(toView, init, wizard)
          /\ Tells(init, h) /\ host'.currentForm = init.form
          /\ init.source = source /\ init.form = manifestToForm(m)

LEMMA ShowEffect ==
    ASSUME NEW h \in Hosts, NEW m \in AllManifests, NEW source \in Uris \union {None},
           NEW hasDevice \in BOOLEAN, NEW wizard \in BOOLEAN, toView \in Seq(ViewMessages),
           Show(h, m, source, hasDevice, wizard)
    PROVE  Shown(h, m, source, wizard)
<1> DEFINE init == InitMsg(h, m, source, hasDevice)
           form == manifestToForm(m)
<1>1. form \in AllForms
  BY ManifestsMakeForms
<1>2. form.protocols = <<>> \/ (Valid(m) => Valid(formToManifest(form)))
  BY AllOK, StaysValid
<1>3. Valid(m) \in BOOLEAN
  BY DEF Valid
<1> HIDE DEF form
<1>4. init = [type |-> "init", source |-> source, hasDevice |-> hasDevice,
              saved |-> h.activeUri # None, form |-> form, valid |-> Valid(m)]
  BY DEF InitMsg, form
<1> HIDE DEF init
<1>5. init \in Inits /\ Tells(init, h) /\ init.source = source /\ init.form = form
  BY <1>1, <1>2, <1>3, <1>4 DEF Inits, Tells
<1>6. host' = [activeUri |-> h.activeUri, override |-> h.override, currentForm |-> form,
               pendingWizard |-> h.pendingWizard, created |-> FALSE]
  <2>1. host' = [h EXCEPT !.currentForm = form, !.created = FALSE]
    BY DEF Show, form
  <2>2. PICK a, o, c, p, d : h = [activeUri |-> a, override |-> o, currentForm |-> c,
                                  pendingWizard |-> p, created |-> d]
    BY HostFields
  <2> QED
    BY <2>1, <2>2
<1>7. host' \in Hosts
  BY <1>1, <1>6, HostFields DEF Hosts
<1>8. toView' = Posted(toView, init, wizard)
  <2>1. toView' = toView \o <<init>> \o OpenWizardIf(wizard)
    BY DEF Show, init
  <2>2. init \in ViewMessages /\ OpenWizard \in ViewMessages
    BY <1>5 DEF ViewMessages, OpenWizard
  <2>3. /\ toView \o <<init>> = Append(toView, init)
        /\ Append(toView, init) \in Seq(ViewMessages)
    BY <2>2
  <2>4. /\ Append(toView, init) \o <<OpenWizard>> = Append(Append(toView, init), OpenWizard)
        /\ Append(toView, init) \o <<>> = Append(toView, init)
    BY <2>2, <2>3
  <2> QED
    BY <2>1, <2>3, <2>4 DEF Posted, OpenWizardIf
<1> QED
  BY <1>5, <1>6, <1>7, <1>8 DEF form, Shown

(* The panel reads its file, or posts an init at once. *)
ReadsFile(h, wizard) ==
    /\ h.override = None /\ h.activeUri # None
    /\ tasks' = Append(tasks, [kind |-> "init", uri |-> h.activeUri, wizard |-> wizard])
    /\ host' = h /\ toView' = toView

PostsInit(h, wizard) ==
    /\ h.override # None \/ h.activeUri = None
    /\ tasks' = tasks
    /\ \E init \in Inits :
          /\ toView' = Posted(toView, init, wizard)
          /\ Tells(init, h) /\ host'.currentForm = init.form

LEMMA SendInitEffect ==
    ASSUME Types, NEW h \in Hosts, Found(h), NEW wizard \in BOOLEAN, SendInit(h, wizard)
    PROVE  /\ host' \in Hosts
           /\ host'.activeUri = h.activeUri /\ host'.override = h.override
           /\ host'.pendingWizard = h.pendingWizard
           /\ ReadsFile(h, wizard) \/ PostsInit(h, wizard)
<1>1. /\ toView \in Seq(ViewMessages) /\ editor \in Uris \union {None}
      /\ editor # None => disk[editor] \in AllManifests
  BY DEF Types
<1>2. ASSUME h.override = None, h.activeUri # None,
             tasks' = Append(tasks, [kind |-> "init", uri |-> h.activeUri, wizard |-> wizard]),
             host' = h, UNCHANGED toView
      PROVE  host' \in Hosts /\ host'.activeUri = h.activeUri /\ host'.override = h.override
             /\ host'.pendingWizard = h.pendingWizard /\ ReadsFile(h, wizard)
  BY <1>2 DEF ReadsFile
<1>3. ASSUME NEW m \in AllManifests, NEW source \in Uris \union {None}, NEW hasDevice \in BOOLEAN,
             Show(h, m, source, hasDevice, wizard), UNCHANGED tasks,
             h.override # None \/ h.activeUri = None
      PROVE  host' \in Hosts /\ host'.activeUri = h.activeUri /\ host'.override = h.override
             /\ host'.pendingWizard = h.pendingWizard /\ PostsInit(h, wizard)
  <2>1. Shown(h, m, source, wizard)
    BY <1>1, <1>3, ShowEffect
  <2> QED
    BY <1>3, <2>1 DEF Shown, PostsInit
<1>4. \A m \in Proposals : m \in AllManifests
  BY DEF AllManifests, FirstManifests
<1>5. NoText \in AllManifests
  BY DEF AllManifests, FirstManifests
<1>6. CASE h.override # None
  <2>1. h.override \in Proposals
    BY <1>6, HostFields
  <2>2. Show(h, h.override, None, TRUE, wizard) /\ UNCHANGED tasks
    BY <1>6 DEF SendInit
  <2> QED
    BY <1>3, <1>4, <1>6, <2>1, <2>2
<1>7. CASE h.override = None /\ h.activeUri # None
  BY <1>2, <1>7 DEF SendInit
<1>8. CASE h.override = None /\ h.activeUri = None /\ editor # None
  <2>1. Show(h, disk[editor], editor, TRUE, wizard) /\ UNCHANGED tasks
    BY <1>8 DEF SendInit
  <2> QED
    BY <1>1, <1>3, <1>8, <2>1
<1>9. CASE h.override = None /\ h.activeUri = None /\ editor = None
  <2>1. Show(h, NoText, None, FALSE, wizard) /\ UNCHANGED tasks
    BY <1>9 DEF SendInit
  <2> QED
    BY <1>3, <1>5, <1>9, <2>1
<1> QED
  BY <1>6, <1>7, <1>8, <1>9

(* Initialised: the panel that is opened, or shown again, or whose script  *)
(* has started, with its fields before.                                    *)
LEMMA OpenedFields ==
    ASSUME Types, NEW u \in Uris
    PROVE  LET h == Opened(host, u) IN
           /\ h \in Hosts /\ h.activeUri = u /\ h.override = None
           /\ h.pendingWizard = host.pendingWizard /\ u # None
<1>1. host \in Hosts
  BY DEF Types
<1>2. Opened(host, u) = [activeUri |-> u, override |-> None, currentForm |-> host.currentForm,
                         pendingWizard |-> host.pendingWizard, created |-> host.created]
  <2>1. PICK a, o, c, p, d : host = [activeUri |-> a, override |-> o, currentForm |-> c,
                                     pendingWizard |-> p, created |-> d]
    BY <1>1, HostFields
  <2>2. /\ host.activeUri = a /\ host.override = o /\ host.currentForm = c
        /\ host.pendingWizard = p /\ host.created = d
    BY <2>1
  <2>3. PICK h : h = [host EXCEPT !.activeUri = u, !.override = None]
    OBVIOUS
  <2>4. h = [activeUri |-> u, override |-> None, currentForm |-> c,
             pendingWizard |-> p, created |-> d]
    BY <2>1, <2>3
  <2> QED
    BY <2>2, <2>3, <2>4 DEF Opened
<1> QED
  BY <1>1, <1>2, HostFields, NoneAssumption DEF Hosts

LEMMA ProposedFields ==
    ASSUME Types, NEW m \in Proposals, NEW u \in Uris \union {None}
    PROVE  LET h == [host EXCEPT !.override = m, !.activeUri = IF u = None THEN @ ELSE u] IN
           /\ h \in Hosts /\ h.activeUri = IF u = None THEN host.activeUri ELSE u
           /\ h.override = m /\ m # None
<1>1. host \in Hosts
  BY DEF Types
<1> DEFINE a2 == IF u = None THEN host.activeUri ELSE u
<1>2. [host EXCEPT !.override = m, !.activeUri = IF u = None THEN @ ELSE u]
        = [activeUri |-> a2, override |-> m, currentForm |-> host.currentForm,
           pendingWizard |-> host.pendingWizard, created |-> host.created]
  <2>1. PICK a, o, c, p, d : host = [activeUri |-> a, override |-> o, currentForm |-> c,
                                     pendingWizard |-> p, created |-> d]
    BY <1>1, HostFields
  <2>2. /\ host.activeUri = a /\ host.override = o /\ host.currentForm = c
        /\ host.pendingWizard = p /\ host.created = d
    BY <2>1
  <2>3. a2 = IF u = None THEN a ELSE u
    BY <2>2
  <2>4. PICK h : h = [host EXCEPT !.override = m, !.activeUri = IF u = None THEN @ ELSE u]
    OBVIOUS
  <2>5. h = [activeUri |-> IF u = None THEN a ELSE u, override |-> m, currentForm |-> c,
             pendingWizard |-> p, created |-> d]
    BY <2>1, <2>4
  <2> HIDE DEF a2
  <2> QED
    BY <2>2, <2>3, <2>4, <2>5
<1>3. a2 \in Uris \union {None}
  BY <1>1, HostFields
<1> QED
  BY <1>1, <1>2, <1>3, HostFields, NoneAssumption DEF Hosts

LEMMA PendingFields ==
    ASSUME Types, NEW wizard \in BOOLEAN
    PROVE  LET h == [host EXCEPT !.pendingWizard = wizard] IN
           /\ h \in Hosts /\ h.activeUri = host.activeUri /\ h.override = host.override
           /\ h.pendingWizard = wizard
<1>1. host \in Hosts
  BY DEF Types
<1>2. [host EXCEPT !.pendingWizard = wizard]
        = [activeUri |-> host.activeUri, override |-> host.override,
           currentForm |-> host.currentForm, pendingWizard |-> wizard, created |-> host.created]
  <2>1. PICK a, o, c, p, d : host = [activeUri |-> a, override |-> o, currentForm |-> c,
                                     pendingWizard |-> p, created |-> d]
    BY <1>1, HostFields
  <2> QED
    BY <2>1
<1> QED
  BY <1>1, <1>2, HostFields DEF Hosts

LEMMA ViewFields ==
    ASSUME NEW v \in Views
    PROVE  /\ v = [form |-> v.form, hasDevice |-> v.hasDevice, saved |-> v.saved,
                   dirty |-> v.dirty, lastValid |-> v.lastValid, wizard |-> v.wizard,
                   source |-> v.source]
           /\ v.form \in AllForms /\ v.source \in Uris \union {None}
           /\ v.hasDevice \in BOOLEAN /\ v.saved \in BOOLEAN /\ v.dirty \in BOOLEAN
           /\ v.lastValid \in BOOLEAN /\ v.wizard \in BOOLEAN
BY DEF Views

(* Every field of the view after a step, from the record it is made of. *)
ViewIs(v, form, hasDevice, saved, dirty, lastValid, wizard, source) ==
    v = [form |-> form, hasDevice |-> hasDevice, saved |-> saved, dirty |-> dirty,
         lastValid |-> lastValid, wizard |-> wizard, source |-> source]

LEMMA EditEffect ==
    ASSUME Types, NEW f \in Forms, Edit(f)
    PROVE  /\ ViewIs(view', f, view.hasDevice, view.saved, TRUE, view.lastValid, view.wizard, view.source)
           /\ view' \in Views
<1>1. PICK a, b, c, d, e, g, h : ViewIs(view, a, b, c, d, e, g, h)
  BY ViewFields DEF Types, ViewIs
<1>2. view' = [view EXCEPT !.form = f, !.dirty = TRUE]
  BY DEF Edit
<1>3. ViewIs(view', f, view.hasDevice, view.saved, TRUE, view.lastValid, view.wizard, view.source)
  BY <1>1, <1>2 DEF ViewIs
<1> QED
  BY <1>3, ViewFields DEF Types, ViewIs, Views, AllForms, FirstForms

LEMMA CreateEffect ==
    ASSUME Types, NEW tile \in Tiles, createFromForm(tile)
    PROVE  /\ ViewIs(view', TileForm(tile), TRUE, view.saved, view.dirty, view.lastValid, FALSE,
                     view.source)
           /\ view' \in Views /\ TileForm(tile) \in AllForms
<1>1. PICK a, b, c, d, e, g, h : ViewIs(view, a, b, c, d, e, g, h)
  BY ViewFields DEF Types, ViewIs
<1>2. view' = [view EXCEPT !.form = TileForm(tile), !.hasDevice = TRUE, !.wizard = FALSE]
  BY DEF createFromForm
<1>3. ViewIs(view', TileForm(tile), TRUE, view.saved, view.dirty, view.lastValid, FALSE, view.source)
  BY <1>1, <1>2 DEF ViewIs
<1>4. TileForm(tile) \in AllForms
  BY DEF AllForms, FirstForms
<1> QED
  BY <1>3, <1>4, ViewFields DEF Types, ViewIs, Views

LEMMA CloseWizardEffect ==
    ASSUME Types, closeWizard
    PROVE  /\ ViewIs(view', view.form, view.hasDevice, view.saved, view.dirty, view.lastValid, FALSE,
                     view.source)
           /\ view' \in Views
<1>1. PICK a, b, c, d, e, g, h : ViewIs(view, a, b, c, d, e, g, h)
  BY ViewFields DEF Types, ViewIs
<1>2. view' = [view EXCEPT !.wizard = FALSE]
  BY DEF closeWizard
<1>3. ViewIs(view', view.form, view.hasDevice, view.saved, view.dirty, view.lastValid, FALSE, view.source)
  BY <1>1, <1>2 DEF ViewIs
<1> QED
  BY <1>3, ViewFields DEF Types, ViewIs, Views

(* What the webview makes of each message. *)
ViewAfter(m) ==
    CASE m.type = "init" ->
            ViewIs(view', m.form, m.hasDevice, m.saved, FALSE, m.valid, ~m.hasDevice, m.source)
      [] m.type = "update" ->
            ViewIs(view', view.form, view.hasDevice, m.saved, view.dirty, m.valid, view.wizard,
                   view.source)
      [] m.type = "saved" ->
            ViewIs(view', view.form, view.hasDevice, TRUE, FALSE, view.lastValid, view.wizard, m.source)
      [] OTHER ->
            ViewIs(view', view.form, view.hasDevice, view.saved, view.dirty, view.lastValid, TRUE,
                   view.source)

LEMMA ReceiveEffect ==
    ASSUME Types, ViewReceives
    PROVE  /\ Head(toView) \in ViewMessages
           /\ ViewAfter(Head(toView)) /\ view' \in Views
           /\ toHost' = IF Head(toView).type = "saved" THEN Append(toHost, [type |-> "refresh"])
                        ELSE toHost
<1> DEFINE m == Head(toView)
<1>1. PICK a, b, c, d, e, g, h : ViewIs(view, a, b, c, d, e, g, h)
  BY ViewFields DEF Types, ViewIs
<1>2. m \in ViewMessages
  BY DEF Types, ViewReceives
<1>3. \/ m.type = "init" /\ view' = OnInit(view, m) /\ UNCHANGED toHost
      \/ m.type = "update" /\ view' = [view EXCEPT !.saved = m.saved, !.lastValid = m.valid]
         /\ UNCHANGED toHost
      \/ m.type = "saved" /\ view' = [view EXCEPT !.source = m.source, !.saved = TRUE, !.dirty = FALSE]
         /\ toHost' = toHost \o AfterSaved
      \/ m.type = "openWizard" /\ view' = [view EXCEPT !.wizard = TRUE] /\ UNCHANGED toHost
  BY DEF ViewReceives
<1>4. toHost \in Seq(HostMessages) /\ [type |-> "refresh"] \in HostMessages
  BY DEF Types, HostMessages
<1> HIDE DEF m
<1>5. CASE m.type = "init"
  <2>1. view' = OnInit(view, m) /\ UNCHANGED toHost
    BY <1>3, <1>5
  <2>2. m \in Inits
    BY <1>2, <1>5 DEF ViewMessages, Updates
  <2>3. ViewIs(view', m.form, m.hasDevice, m.saved, FALSE, m.valid, ~m.hasDevice, m.source)
    BY <2>1 DEF OnInit, ViewIs
  <2>4. view' \in Views
    BY <2>2, <2>3 DEF Inits, ViewIs, Views
  <2> QED
    BY <1>2, <1>5, <2>1, <2>3, <2>4 DEF m, ViewAfter
<1>6. CASE m.type = "update"
  <2>1. view' = [view EXCEPT !.saved = m.saved, !.lastValid = m.valid] /\ UNCHANGED toHost
    BY <1>3, <1>6
  <2>2. m \in Updates
    BY <1>2, <1>6 DEF ViewMessages, Inits
  <2>3. ViewIs(view', view.form, view.hasDevice, m.saved, view.dirty, m.valid, view.wizard, view.source)
    BY <1>1, <2>1 DEF ViewIs
  <2>4. view' \in Views
    BY <2>2, <2>3, ViewFields DEF Types, Updates, ViewIs, Views
  <2> QED
    BY <1>2, <1>6, <2>1, <2>3, <2>4 DEF m, ViewAfter
<1>7. CASE m.type = "saved"
  <2>1. /\ view' = [view EXCEPT !.source = m.source, !.saved = TRUE, !.dirty = FALSE]
        /\ toHost' = toHost \o AfterSaved
    BY <1>3, <1>7
  <2>2. m.source \in Uris
    BY <1>2, <1>7 DEF ViewMessages, Inits, Updates
  <2>3. ViewIs(view', view.form, view.hasDevice, TRUE, FALSE, view.lastValid, view.wizard, m.source)
    BY <1>1, <2>1 DEF ViewIs
  <2>4. view' \in Views
    BY <2>2, <2>3, ViewFields DEF Types, ViewIs, Views
  <2>5. toHost' = Append(toHost, [type |-> "refresh"])
    BY <1>4, <2>1 DEF AfterSaved
  <2> QED
    BY <1>2, <1>7, <2>3, <2>4, <2>5 DEF m, ViewAfter
<1>8. CASE m.type = "openWizard"
  <2>1. view' = [view EXCEPT !.wizard = TRUE] /\ UNCHANGED toHost
    BY <1>3, <1>8
  <2>3. ViewIs(view', view.form, view.hasDevice, view.saved, view.dirty, view.lastValid, TRUE, view.source)
    BY <1>1, <2>1 DEF ViewIs
  <2>4. view' \in Views
    BY <2>3, ViewFields DEF Types, ViewIs, Views
  <2> QED
    BY <1>2, <1>8, <2>1, <2>3, <2>4 DEF m, ViewAfter
<1> QED
  BY <1>3, <1>5, <1>6, <1>7, <1>8

(* The fields of the host after a step that keeps the proposal's screen. *)
HostIs(h, activeUri, override, currentForm, pendingWizard, created) ==
    h = [activeUri |-> activeUri, override |-> override, currentForm |-> currentForm,
         pendingWizard |-> pendingWizard, created |-> created]

(* A compiled form is answered by its validity. *)
Compiles(form, saved) ==
    \E update \in Updates :
        /\ toView' = Append(toView, update)
        /\ update.type = "update" /\ update.saved = saved
        /\ update.valid = Valid(formToManifest(form))

LEMMA UpdateEffect ==
    ASSUME NEW form, NEW saved \in BOOLEAN, toView' = Append(toView, UpdateMsg(saved, form))
    PROVE  Compiles(form, saved)
<1>1. Valid(formToManifest(form)) \in BOOLEAN
  BY DEF Valid
<1> QED
  BY <1>1 DEF UpdateMsg, Updates, Compiles

(* A handler that begins: it asks for a location, writes, or emits. *)
Begins(m) ==
    \E t \in Works :
        /\ tasks' = Append(tasks, t)
        /\ t.form = m.form /\ t.then = m.type
        /\ \/ t.kind = "dialog"
           \/ t.kind = "write" /\ t.uri \in Uris
           \/ /\ t.kind = "emit" /\ m.type \in {"generate", "scaffold"}
              /\ t.uri = saveTarget /\ t.uri \in Uris
              /\ Valid(formToManifest(m.form))

Hears(m) ==
    \/ /\ m.type = "ready"
       /\ SendInit([host EXCEPT !.pendingWizard = FALSE], host.pendingWizard)
    \/ /\ m.type = "refresh"
       /\ SendInit(host, FALSE)
    \/ /\ m.type = "applyForm" /\ m.form \in AllForms
       /\ HostIs(host', host.activeUri, host.override, m.form, host.pendingWizard, host.created)
       /\ Compiles(m.form, host.activeUri # None) /\ tasks' = tasks
    \/ /\ m.type = "createDevice" /\ m.form \in AllForms
       /\ HostIs(host', None, None, m.form, host.pendingWizard, TRUE)
       /\ Compiles(m.form, FALSE) /\ tasks' = tasks
    \/ /\ m.type \in Clicks /\ m.form \in AllForms
       /\ host' = host /\ toView' = toView
       /\ tasks' = tasks \/ Begins(m)

LEMMA HearEffect ==
    ASSUME Types, HostReceives
    PROVE  Head(toHost) \in HostMessages /\ Hears(Head(toHost))
<1> DEFINE m == Head(toHost)
<1>1. m \in HostMessages
  BY DEF Types, HostReceives
<1>2. \/ m.type = "ready" /\ SendInit([host EXCEPT !.pendingWizard = FALSE], host.pendingWizard)
      \/ m.type = "refresh" /\ SendInit(host, FALSE)
      \/ m.type = "applyForm" /\ applyForm(m.form)
      \/ m.type = "createDevice" /\ createDevice(m.form)
      \/ m.type \in {"saveForm", "generate", "scaffold"} /\ Begin(m.type, m.form)
  BY DEF HostReceives
<1>3. m.type \in ByForm => m.form \in AllForms
  BY <1>1 DEF HostMessages, ByForm, Clicks
<1>4. PICK a, o, c, p, d : HostIs(host, a, o, c, p, d)
  BY HostFields DEF Types, HostIs
<1>5. host.activeUri \in Uris \union {None} /\ editor \in Uris \union {None}
  BY HostFields DEF Types
<1> HIDE DEF m
<1>6. ASSUME m.type = "applyForm", applyForm(m.form) PROVE Hears(m)
  <2>1. host' = [host EXCEPT !.currentForm = m.form]
    BY <1>6 DEF applyForm
  <2>2. HostIs(host', host.activeUri, host.override, m.form, host.pendingWizard, host.created)
    BY <1>4, <2>1 DEF HostIs
  <2>3. toView' = Append(toView, UpdateMsg(host.activeUri # None, m.form)) /\ tasks' = tasks
    BY <1>6 DEF applyForm
  <2> QED
    BY <1>3, <1>6, <2>2, <2>3, UpdateEffect DEF Hears, ByForm
<1>7. ASSUME m.type = "createDevice", createDevice(m.form) PROVE Hears(m)
  <2>1. host' = [host EXCEPT !.activeUri = None, !.override = None, !.currentForm = m.form,
                             !.created = TRUE]
    BY <1>7 DEF createDevice
  <2>2. HostIs(host', None, None, m.form, host.pendingWizard, TRUE)
    BY <1>4, <2>1 DEF HostIs
  <2>3. toView' = Append(toView, UpdateMsg(FALSE, m.form)) /\ tasks' = tasks
    BY <1>7 DEF createDevice
  <2> QED
    BY <1>3, <1>7, <2>2, <2>3, UpdateEffect DEF Hears, ByForm
<1>8. ASSUME m.type \in Clicks, Begin(m.type, m.form) PROVE Hears(m)
  <2>1. host' = host /\ toView' = toView
    BY <1>8 DEF Begin
  <2>2. m.form \in AllForms
    BY <1>3, <1>8 DEF ByForm
  <2>3. CASE tasks' = tasks
    BY <1>8, <2>1, <2>2, <2>3 DEF Hears
  <2>4. CASE tasks' # tasks
    <3> DEFINE t == IF saveTarget = None THEN Task("dialog", m.type, m.form, None)
                    ELSE Task(IF m.type = "saveForm" THEN "write" ELSE "emit", m.type, m.form, saveTarget)
    <3>1. /\ m.type # "saveForm" => Valid(formToManifest(m.form))
          /\ tasks' = Append(tasks, t)
      BY <1>8, <2>4 DEF Begin
    <3>2. saveTarget \in Uris \union {None}
      BY <1>5 DEF saveTarget
    <3>3. t \in Works /\ t.form = m.form /\ t.then = m.type
      BY <1>8, <2>2, <3>2 DEF Task, Works, Clicks
    <3>4. \/ t.kind = "dialog"
          \/ t.kind = "write" /\ t.uri \in Uris
          \/ /\ t.kind = "emit" /\ m.type \in {"generate", "scaffold"}
             /\ t.uri = saveTarget /\ t.uri \in Uris
             /\ Valid(formToManifest(m.form))
      BY <1>8, <3>1, <3>2 DEF Task, Clicks
    <3> HIDE DEF t
    <3>5. Begins(m)
      BY <3>1, <3>3, <3>4 DEF Begins
    <3> QED
      BY <1>8, <2>1, <2>2, <3>5 DEF Hears
  <2> QED
    BY <2>3, <2>4
<1>9. Hears(m)
  BY <1>2, <1>6, <1>7, <1>8 DEF Hears, Clicks
<1> QED
  BY <1>1, <1>9 DEF m

(* A save is written. *)
LEMMA WrittenEffect ==
    ASSUME Types, NEW i \in 1..Len(tasks), Written(i), NEW t, t = tasks[i], t.uri \in Uris
    PROVE  /\ t \in Works /\ t.kind = "write"
           /\ HostIs(host', t.uri, None, t.form, host.pendingWizard, host.created)
           /\ host' \in Hosts
           /\ disk' = [disk EXCEPT ![t.uri] = formToManifest(t.form)]
           /\ disk' \in [Uris -> AllManifests \union {None}]
           /\ formToManifest(t.form) \in AllManifests
           /\ stale' = stale \ {t.uri}
           /\ toView' = Append(toView, SavedMsg(t.uri)) /\ SavedMsg(t.uri) \in ViewMessages
           /\ \/ tasks' = RemoveAt(tasks, i)
              \/ /\ tasks' = [tasks EXCEPT ![i] = [kind |-> "emit", then |-> t.then,
                                                   form |-> t.form, uri |-> t.uri]]
                 /\ t.then \in {"generate", "scaffold"}
<1>1. t \in Reads \union Works /\ t.kind = "write"
  BY DEF Types, Written
<1>2. t \in Works
  BY <1>1 DEF Reads
<1>3. /\ t = [kind |-> "write", then |-> t.then, form |-> t.form, uri |-> t.uri]
      /\ t.then \in Clicks /\ t.form \in AllForms /\ t.uri \in Uris
  BY <1>1, <1>2 DEF Works
<1>4. PICK a, o, c, p, d : HostIs(host, a, o, c, p, d)
  BY HostFields DEF Types, HostIs
<1>5. /\ host' = [host EXCEPT !.activeUri = t.uri, !.override = None, !.currentForm = t.form]
      /\ disk' = [disk EXCEPT ![t.uri] = formToManifest(t.form)]
      /\ stale' = stale \ {t.uri}
      /\ toView' = Append(toView, SavedMsg(t.uri))
      /\ tasks' = IF t.then = "saveForm" THEN RemoveAt(tasks, i)
                  ELSE [tasks EXCEPT ![i].kind = "emit"]
  BY DEF Written
<1>7. HostIs(host', t.uri, None, t.form, host.pendingWizard, host.created)
  BY <1>4, <1>5 DEF HostIs
<1>8. host' \in Hosts
  BY <1>3, <1>7, HostFields DEF Types, HostIs, Hosts
<1>9. formToManifest(t.form) \in AllManifests
  BY <1>3, FormsMakeManifests
<1>10. disk' \in [Uris -> AllManifests \union {None}]
  BY <1>5, <1>9 DEF Types
<1>11. SavedMsg(t.uri) \in ViewMessages
  BY <1>3 DEF SavedMsg, ViewMessages
<1>12. ASSUME t.then # "saveForm"
       PROVE  tasks' = [tasks EXCEPT ![i] = [kind |-> "emit", then |-> t.then, form |-> t.form,
                                             uri |-> t.uri]]
  <2>1. PICK e : e = [tasks[i] EXCEPT !.kind = "emit"]
    OBVIOUS
  <2>2. e = [kind |-> "emit", then |-> t.then, form |-> t.form, uri |-> t.uri]
    <3>1. PICK th, f, u : t = [kind |-> "write", then |-> th, form |-> f, uri |-> u]
      BY <1>3
    <3>2. e = [t EXCEPT !.kind = "emit"]
      BY <2>1
    <3> QED
      BY <3>1, <3>2
  <2>3. tasks' = [tasks EXCEPT ![i] = e]
    BY <1>5, <1>12, <2>1
  <2> QED
    BY <2>2, <2>3
<1>13. \/ tasks' = RemoveAt(tasks, i)
       \/ /\ tasks' = [tasks EXCEPT ![i] = [kind |-> "emit", then |-> t.then, form |-> t.form,
                                             uri |-> t.uri]]
          /\ t.then \in {"generate", "scaffold"}
  BY <1>3, <1>5, <1>12 DEF Clicks
<1>14. /\ disk' = [disk EXCEPT ![t.uri] = formToManifest(t.form)]
       /\ stale' = stale \ {t.uri} /\ toView' = Append(toView, SavedMsg(t.uri))
  BY <1>5
<1> QED
  BY <1>1, <1>2, <1>7, <1>8, <1>9, <1>10, <1>11, <1>13, <1>14

--------------------------------------------------------------------------------
(* Queues. *)
LEMMA AppendFacts ==
    ASSUME NEW S, NEW s \in Seq(S), NEW x \in S
    PROVE  /\ Append(s, x) \in Seq(S) /\ Len(s) \in Nat /\ Len(Append(s, x)) = Len(s) + 1
           /\ \A i \in 1..Len(s) : Append(s, x)[i] = s[i] /\ s[i] \in S
           /\ Append(s, x)[Len(s) + 1] = x
OBVIOUS

LEMMA TailFacts ==
    ASSUME NEW S, NEW s \in Seq(S), s # <<>>
    PROVE  /\ Tail(s) \in Seq(S) /\ Len(s) \in Nat \ {0} /\ Len(Tail(s)) = Len(s) - 1
           /\ \A i \in 1..(Len(s) - 1) : Tail(s)[i] = s[i + 1]
           /\ Head(s) = s[1] /\ Head(s) \in S
OBVIOUS

LEMMA RemoveAtFacts ==
    ASSUME NEW S, NEW s \in Seq(S), NEW i \in 1..Len(s)
    PROVE  /\ RemoveAt(s, i) \in Seq(S) /\ Len(RemoveAt(s, i)) = Len(s) - 1
           /\ \A j \in 1..(Len(s) - 1) :
                 RemoveAt(s, i)[j] = IF j < i THEN s[j] ELSE s[j + 1]
<1> DEFINE a == SubSeq(s, 1, i - 1)
           b == SubSeq(s, i + 1, Len(s))
           n == Len(s)
<1>1. /\ a \in Seq(S) /\ b \in Seq(S) /\ Len(a) = i - 1 /\ Len(b) = n - i
      /\ \A j \in 1..(i - 1) : a[j] = s[j]
      /\ \A j \in 1..(n - i) : b[j] = s[i + j]
      /\ n \in Nat /\ i \in 1..n
  OBVIOUS
<1>2. RemoveAt(s, i) = a \o b
  BY DEF RemoveAt
<1> HIDE DEF a, b, n
<1>3. /\ a \o b \in Seq(S) /\ Len(a \o b) = Len(a) + Len(b)
      /\ \A j \in 1..Len(a) + Len(b) : (a \o b)[j] = IF j <= Len(a) THEN a[j] ELSE b[j - Len(a)]
  BY <1>1, ConcatProperties
<1>4. Len(a) + Len(b) = n - 1
  BY <1>1
<1>5. ASSUME NEW j \in 1..(n - 1) PROVE (a \o b)[j] = IF j < i THEN s[j] ELSE s[j + 1]
  <2>1. CASE j < i
    <3>1. j \in 1..(i - 1) /\ j <= Len(a) /\ j \in 1..Len(a) + Len(b)
      BY <1>1, <1>4, <2>1
    <3> QED
      BY <1>1, <1>3, <2>1, <3>1
  <2>2. CASE ~(j < i)
    <3>1. /\ ~(j <= Len(a)) /\ j - Len(a) \in 1..(n - i) /\ i + (j - Len(a)) = j + 1
          /\ j \in 1..Len(a) + Len(b)
      BY <1>1, <1>4, <2>2
    <3> QED
      BY <1>1, <1>3, <2>2, <3>1
  <2> QED
    BY <2>1, <2>2
<1> QED
  BY <1>2, <1>3, <1>4, <1>5 DEF n

(* A message of one of some types is in a queue; the place of the last of  *)
(* them, 0 when there is none.                                             *)
Has(queue, types) == \E i \in 1..Len(queue) : queue[i].type \in types

IsLatest(queue, types, i) ==
    /\ i # 0 => queue[i].type \in types
    /\ \A j \in 1..Len(queue) : j > i => queue[j].type \notin types

Latest(queue, types) == CHOOSE i \in 0..Len(queue) : IsLatest(queue, types, i)

LEMMA HasAppend ==
    ASSUME NEW S, NEW queue \in Seq(S), NEW m \in S, NEW types
    PROVE  Has(Append(queue, m), types) <=> Has(queue, types) \/ m.type \in types
<1>1. \A i \in 1..(Len(queue) + 1) : i \in 1..Len(queue) \/ i = Len(queue) + 1
  BY AppendFacts
<1> QED
  BY <1>1, AppendFacts DEF Has

LEMMA HasTail ==
    ASSUME NEW S, NEW queue \in Seq(S), queue # <<>>, NEW types
    PROVE  Has(queue, types) <=> Head(queue).type \in types \/ Has(Tail(queue), types)
<1> DEFINE n == Len(queue)
           q == Tail(queue)
<1>1. /\ n \in Nat \ {0} /\ Len(q) = n - 1
      /\ \A i \in 1..(n - 1) : q[i] = queue[i + 1]
      /\ Head(queue) = queue[1]
  BY TailFacts
<1>2. Has(queue, types) <=> \E i \in 1..n : queue[i].type \in types
  BY DEF Has
<1>3. Has(q, types) <=> \E i \in 1..Len(q) : q[i].type \in types
  BY DEF Has
<1> HIDE DEF n, q
<1>4. ASSUME NEW i \in 1..n, queue[i].type \in types
      PROVE  queue[1].type \in types \/ \E j \in 1..Len(q) : q[j].type \in types
  <2>1. i = 1 \/ (i - 1 \in 1..(n - 1) /\ (i - 1) + 1 = i)
    BY <1>1
  <2> QED
    BY <1>1, <1>4, <2>1
<1>5. ASSUME NEW j \in 1..Len(q), q[j].type \in types
      PROVE  \E i \in 1..n : queue[i].type \in types
  <2>1. j + 1 \in 1..n /\ j \in 1..(n - 1)
    BY <1>1
  <2> QED
    BY <1>1, <1>5, <2>1
<1>6. 1 \in 1..n
  BY <1>1
<1> QED
  BY <1>1, <1>2, <1>3, <1>4, <1>5, <1>6 DEF q

LEMMA HasNothing == \A types : ~Has(<<>>, types)
<1>1. Len(<<>>) = 0 /\ 1..0 = {}
  OBVIOUS
<1> QED
  BY <1>1 DEF Has

LEMMA LatestUnique ==
    ASSUME NEW S, NEW queue \in Seq(S), NEW types, NEW k \in 0..Len(queue), IsLatest(queue, types, k)
    PROVE  Latest(queue, types) = k
<1> DEFINE i == Latest(queue, types)
<1>1. i \in 0..Len(queue) /\ IsLatest(queue, types, i)
  BY DEF Latest
<1>2. Len(queue) \in Nat
  OBVIOUS
<1> HIDE DEF i
<1>3. ~(i < k) /\ ~(k < i)
  BY <1>1, <1>2 DEF IsLatest
<1> QED
  BY <1>1, <1>2, <1>3 DEF i

LEMMA LatestNothing == \A types : Latest(<<>>, types) = 0
<1> SUFFICES ASSUME NEW types PROVE Latest(<<>>, types) = 0
  OBVIOUS
<1>1. <<>> \in Seq({}) /\ Len(<<>>) = 0 /\ 0 \in 0..0 /\ 1..0 = {}
  OBVIOUS
<1>2. IsLatest(<<>>, types, 0)
  BY <1>1 DEF IsLatest
<1> QED
  BY <1>1, <1>2, LatestUnique

LEMMA LatestIs ==
    ASSUME NEW S, NEW queue \in Seq(S), NEW types
    PROVE  /\ Latest(queue, types) \in 0..Len(queue) /\ Len(queue) \in Nat
           /\ IsLatest(queue, types, Latest(queue, types))
           /\ Latest(queue, types) = 0 <=> ~Has(queue, types)
<1> DEFINE n == Len(queue)
           places == {i \in 1..n : queue[i].type \in types}
<1>1. n \in Nat
  OBVIOUS
<1>2. \E k \in 0..n : IsLatest(queue, types, k)
  <2>1. CASE places = {}
    <3>1. 0 \in 0..n /\ IsLatest(queue, types, 0)
      BY <1>1, <2>1 DEF IsLatest
    <3> QED
      BY <3>1
  <2>2. CASE places # {}
    <3> DEFINE far == {n - i : i \in places}
    <3>1. \A i \in places : n - i \in Nat
      BY <1>1
    <3>2. far \in SUBSET Nat /\ far # {}
      BY <2>2, <3>1
    <3>3. PICK d \in far : \A e \in far : d <= e
      <4> HIDE DEF far
      <4> QED
        BY <3>2, Least
    <3>4. PICK k \in places : d = n - k
      BY <3>3
    <3>5. \A j \in 1..n : j > k => j \notin places
      <4>1. ASSUME NEW j \in 1..n, j > k, j \in places PROVE FALSE
        <5>1. n - j \in far /\ n - k <= n - j
          BY <3>3, <3>4, <4>1
        <5>2. k \in 1..n
          BY <3>4
        <5> HIDE DEF places, far
        <5> QED
          BY <1>1, <4>1, <5>1, <5>2
      <4> QED
        BY <4>1
    <3>6. k \in 0..n /\ IsLatest(queue, types, k)
      BY <1>1, <3>4, <3>5 DEF IsLatest
    <3> QED
      BY <3>6
  <2> QED
    BY <2>1, <2>2
<1>3. Latest(queue, types) \in 0..n /\ IsLatest(queue, types, Latest(queue, types))
  BY <1>2 DEF Latest
<1> DEFINE k == Latest(queue, types)
<1> HIDE DEF k
<1>4. k \in 0..n /\ IsLatest(queue, types, k)
  BY <1>3 DEF k
<1>5. k = 0 => ~Has(queue, types)
  BY <1>1, <1>4 DEF IsLatest, Has
<1>6. k # 0 => Has(queue, types)
  <2>1. k # 0 => k \in 1..n
    BY <1>1, <1>4
  <2> QED
    BY <1>4, <2>1 DEF IsLatest, Has
<1> QED
  BY <1>1, <1>4, <1>5, <1>6 DEF k

(* What is posted is the latest, if it is one of them. *)
LEMMA LatestAppend ==
    ASSUME NEW S, NEW queue \in Seq(S), NEW m \in S, NEW types
    PROVE  /\ m.type \in types => Latest(Append(queue, m), types) = Len(queue) + 1
           /\ m.type \notin types => Latest(Append(queue, m), types) = Latest(queue, types)
<1> DEFINE n == Len(queue)
           q == Append(queue, m)
           k == Latest(queue, types)
<1>1. /\ q \in Seq(S) /\ n \in Nat /\ Len(q) = n + 1
      /\ \A i \in 1..n : q[i] = queue[i]
      /\ q[n + 1] = m
  BY AppendFacts
<1>2. k \in 0..n /\ IsLatest(queue, types, k)
  BY LatestIs
<1> HIDE DEF n, q, k
<1>3. \A i \in 1..(n + 1) : i \in 1..n \/ i = n + 1
  BY <1>1
<1>4. k # 0 => k \in 1..n
  BY <1>1, <1>2
<1>5. ASSUME m.type \in types PROVE Latest(q, types) = n + 1
  <2>1. IsLatest(q, types, n + 1) /\ n + 1 \in 0..Len(q)
    BY <1>1, <1>5 DEF IsLatest
  <2> QED
    BY <1>1, <2>1, LatestUnique
<1>6. ASSUME m.type \notin types PROVE Latest(q, types) = k
  <2>1. k # 0 => q[k].type \in types
    BY <1>1, <1>2, <1>4 DEF IsLatest
  <2>2. ASSUME NEW j \in 1..(n + 1), j > k PROVE q[j].type \notin types
    BY <1>1, <1>2, <1>3, <1>6, <2>2 DEF IsLatest, n
  <2>3. IsLatest(q, types, k) /\ k \in 0..Len(q)
    BY <1>1, <1>2, <2>1, <2>2 DEF IsLatest
  <2> QED
    BY <1>1, <2>3, LatestUnique
<1> QED
  BY <1>5, <1>6 DEF n, q, k

(* What is received was the latest, if it was one of them and no other is  *)
(* left. *)
LEMMA LatestTail ==
    ASSUME NEW S, NEW queue \in Seq(S), queue # <<>>, NEW types
    PROVE  /\ Latest(Tail(queue), types) # 0
                => /\ Latest(queue, types) = Latest(Tail(queue), types) + 1
                   /\ queue[Latest(queue, types)] = Tail(queue)[Latest(Tail(queue), types)]
           /\ Latest(Tail(queue), types) = 0 /\ Head(queue).type \in types
                => Latest(queue, types) = 1 /\ queue[1] = Head(queue)
           /\ Latest(Tail(queue), types) = 0 /\ Head(queue).type \notin types
                => Latest(queue, types) = 0
<1> DEFINE n == Len(queue)
           q == Tail(queue)
           k == Latest(q, types)
<1>1. /\ q \in Seq(S) /\ n \in Nat \ {0} /\ Len(q) = n - 1
      /\ \A i \in 1..(n - 1) : q[i] = queue[i + 1]
      /\ Head(queue) = queue[1]
  BY TailFacts
<1>2. k \in 0..(n - 1) /\ IsLatest(q, types, k)
  BY <1>1, LatestIs
<1>3. \A j \in 1..Len(queue) : j > 1 => j - 1 \in 1..(n - 1) /\ queue[j] = q[j - 1]
  <2> SUFFICES ASSUME NEW j \in 1..n, j > 1 PROVE j - 1 \in 1..(n - 1) /\ queue[j] = q[j - 1]
    OBVIOUS
  <2> HIDE DEF n, q
  <2>1. j - 1 \in 1..(n - 1) /\ (j - 1) + 1 = j
    BY <1>1
  <2> QED
    BY <1>1, <2>1
<1>4. n = Len(queue)
  OBVIOUS
<1> HIDE DEF n, q, k
<1>5. ASSUME k # 0
      PROVE  Latest(queue, types) = k + 1 /\ queue[k + 1] = q[k]
  <2>1. k \in 1..(n - 1) /\ k + 1 \in 0..n /\ k + 1 # 0 /\ queue[k + 1] = q[k]
    BY <1>1, <1>2, <1>5
  <2>2. queue[k + 1].type \in types
    BY <1>2, <1>5, <2>1 DEF IsLatest
  <2>3. ASSUME NEW j \in 1..Len(queue), j > k + 1 PROVE queue[j].type \notin types
    <3>1. j > 1 /\ j - 1 > k
      BY <1>1, <1>4, <2>1, <2>3
    <3> QED
      BY <1>1, <1>2, <1>3, <3>1 DEF IsLatest
  <2>4. IsLatest(queue, types, k + 1)
    BY <2>2, <2>3 DEF IsLatest
  <2> QED
    BY <1>4, <2>1, <2>4, LatestUnique
<1>6. ASSUME k = 0, NEW j \in 1..Len(queue), j > 1 PROVE queue[j].type \notin types
  <2>1. j - 1 > 0 /\ j - 1 \in 1..Len(q)
    BY <1>1, <1>3, <1>6
  <2> QED
    BY <1>2, <1>3, <1>6, <2>1 DEF IsLatest
<1>7. ASSUME k = 0, queue[1].type \in types PROVE Latest(queue, types) = 1
  <2>1. IsLatest(queue, types, 1) /\ 1 \in 0..Len(queue)
    BY <1>1, <1>4, <1>6, <1>7 DEF IsLatest
  <2> QED
    BY <2>1, LatestUnique
<1>8. ASSUME k = 0, queue[1].type \notin types PROVE Latest(queue, types) = 0
  <2>1. \A j \in 1..Len(queue) : j > 1 \/ j = 1
    BY <1>1, <1>4
  <2>2. IsLatest(queue, types, 0) /\ 0 \in 0..Len(queue)
    BY <1>1, <1>4, <1>6, <1>8, <2>1 DEF IsLatest
  <2> QED
    BY <2>2, LatestUnique
<1> QED
  BY <1>1, <1>5, <1>7, <1>8 DEF q, k

--------------------------------------------------------------------------------
(* The invariant. *)

Waiting(ts, kinds) == \E i \in 1..Len(ts) : ts[i].kind \in kinds
OnlyEdits(queue) == ~Has(queue, MessageTypes \ {"applyForm"})

(* A reload has been asked for and its init is not posted yet. *)
ReloadDue ==
    Has(toView, {"saved"}) \/ Has(toHost, {"ready", "refresh"}) \/ Waiting(tasks, {"init"})

(* A panel that is closed has nothing; one that loads waits for its first  *)
(* init and has been told of nothing else.                                 *)
Phases ==
    /\ panel = "closed" =>
          /\ host = NoHost /\ view = NoView /\ timer = FALSE
          /\ tasks = <<>> /\ toHost = <<>> /\ toView = <<>>
    /\ panel = "loading" =>
          /\ view = NoView /\ timer = FALSE /\ toHost = <<>>
          /\ ~(tasks = <<>> /\ toView = <<>>)
          /\ ~Waiting(tasks, {"dialog", "write", "emit"})
          /\ ~Has(toView, {"saved"})

(* A click is the first message there is, with no handler waiting and no   *)
(* reload due.                                                             *)
ClickAlone ==
    Has(toHost, Clicks \union {"createDevice"}) =>
        /\ Head(toHost).type \in Clicks \union {"createDevice"}
        /\ OnlyEdits(Tail(toHost))
        /\ tasks = <<>> /\ ~Has(toView, {"saved"})
        /\ Head(toHost).type = "createDevice" => toView = <<>>

(* Nor does the handler of a save wait beside another, until the file is   *)
(* written; from there on only the reload does.                            *)
SaveAlone ==
    /\ Waiting(tasks, {"dialog", "write"}) =>
          Len(tasks) = 1 /\ ~Has(toView, {"saved"}) /\ OnlyEdits(toHost)
    /\ Waiting(tasks, {"emit"}) => ~Has(toHost, MessageTypes \ {"applyForm", "refresh"})
    /\ \A i, j \in 1..Len(tasks) :
          tasks[i].kind = "emit" /\ tasks[j].kind # "init" => i = j
    /\ \A i \in 1..Len(tasks) :
          /\ tasks[i].kind \in {"write", "emit"} => tasks[i].uri \in Uris
          /\ tasks[i].kind = "emit" => tasks[i].then \in {"generate", "scaffold"}

(* An init that waits for its file waits for the one that is open. *)
InitsCurrent ==
    \A i \in 1..Len(tasks) : tasks[i].kind = "init" =>
        host.override = None /\ tasks[i].uri = host.activeUri /\ host.activeUri # None

(* What is said to be saved has a file. *)
SavedHasFile ==
    host.activeUri = None =>
        /\ ~Has(toView, {"saved"})
        /\ \A i \in 1..Len(toView) : toView[i].type \in {"init", "update"} => ~toView[i].saved
        /\ view.saved => Has(toView, {"init", "update"})

(* The webview shows, or has on its way, what the file says. *)
InSight == IF Has(toView, {"init"}) THEN toView[Latest(toView, {"init"})] ELSE view

FileShown ==
    panel = "open" /\ host.override = None /\ host.activeUri # None
    /\ host.activeUri \notin stale /\ ~ReloadDue /\ ~Has(toHost, {"createDevice"})
    /\ (Has(toView, {"init"}) \/ ~view.dirty) =>
        /\ InSight.source = host.activeUri
        /\ InSight.form = manifestToForm(disk[host.activeUri])

(* A click on Generate or Scaffold carries what the file says. *)
ClickTellsFile ==
    Has(toHost, {"generate", "scaffold"}) =>
        /\ host.activeUri # None
        /\ host.override = None /\ host.activeUri \notin stale =>
              Head(toHost).form = manifestToForm(disk[host.activeUri])

(* So do the files that are written from it, unless the file is not what   *)
(* was shown and will not be read before they are.                         *)
Told(t, files) == manifestToForm(formToManifest(t.form)) = manifestToForm(files[t.uri])

EmitTellsFile ==
    \A i \in 1..Len(tasks) : tasks[i].kind = "emit" =>
        Told(tasks[i], disk) \/ (~ReloadDue /\ (tasks[i].uri \in stale \/ host.override # None))

(* The creation screen that was asked for waits for the panel to load and  *)
(* the host to hear of it, or for the webview.                             *)
WizardDue ==
    /\ panel \in {"loading", "open"} /\ tasks = <<>> /\ ~Has(toView, {"saved"})
    /\ host.pendingWizard /\ host.override = None /\ host.activeUri = None
    /\ panel = "open" =>
          toHost # <<>> /\ Head(toHost).type = "ready" /\ OnlyEdits(Tail(toHost))

WizardOpens ==
    LET k == Latest(toView, {"init", "openWizard"})
    IN  IF k = 0 THEN view.wizard ELSE toView[k].type = "openWizard"

WizardComes ==
    wanted =>
        \/ WizardDue
        \/ /\ panel = "open" /\ tasks = <<>> /\ ~Has(toView, {"saved"})
           /\ OnlyEdits(toHost) /\ WizardOpens

(* The validity that the webview has or is sent is the one of the form the *)
(* host has...                                                             *)
SaysValid ==
    LET k == Latest(toView, {"init", "update"})
    IN  IF k = 0 THEN view.lastValid ELSE toView[k].valid

Compiled ==
    panel = "open" /\ ~ReloadDue /\ SaysValid =>
        \/ Valid(formToManifest(host.currentForm))
        \/ host.currentForm.protocols = <<>>

(* ...which is the form that was edited, when no edit is under way. *)
EditCompiled ==
    panel = "open" /\ ~ReloadDue /\ view.dirty /\ ~timer
    /\ ~Has(toView, {"init"}) /\ ~Has(toHost, {"applyForm", "createDevice"}) =>
        /\ view.form = host.currentForm
        /\ SaysValid => Valid(formToManifest(host.currentForm))

EditPosted ==
    view.dirty /\ ~timer /\ Has(toHost, {"applyForm", "createDevice"}) =>
        toHost[Latest(toHost, {"applyForm", "createDevice"})].form = view.form

(* All of it but the types. *)
Rest ==
    /\ Phases /\ ClickAlone /\ SaveAlone /\ InitsCurrent /\ SavedHasFile
    /\ FileShown /\ ClickTellsFile /\ EmitTellsFile /\ WizardComes
    /\ Compiled /\ EditCompiled /\ EditPosted

IInv == Types /\ Rest

--------------------------------------------------------------------------------
(* The steps, told apart by what they do to the panel. *)

(* The panel is opened, or shown again, with the fields h. *)
Asks(h) ==
    /\ Settled /\ EnsurePanel
    /\ h \in Hosts /\ Found(h) /\ SendInit(h, FALSE)
    /\ h.activeUri = None => host.activeUri = None
    /\ wanted' \in BOOLEAN
    /\ wanted' => /\ panel = "closed" /\ h.pendingWizard
                  /\ h.override = None /\ h.activeUri = None
    /\ UNCHANGED <<toHost, view, timer, disk, stale, editor>>

LEMMA AsksEffect ==
    ASSUME Types, Phases
    PROVE  /\ \A u \in Uris : OpenFile(u) => \E h : Asks(h)
           /\ OpenDesigner => \E h : Asks(h)
           /\ \A m \in Proposals, u \in Uris \union {None} : showManifest(m, u) => \E h : Asks(h)
           /\ newDevice /\ panel = "closed" => \E h : Asks(h)
<1>0. host \in Hosts /\ Found(host) /\ FALSE \in BOOLEAN /\ TRUE \in BOOLEAN
  BY DEF Types
<1>1. ASSUME NEW u \in Uris, OpenFile(u) PROVE \E h : Asks(h)
  <2> DEFINE h == Opened(host, u)
  <2>1. h \in Hosts /\ h.activeUri = u /\ h.override = None /\ u # None
    BY OpenedFields
  <2>2. disk[u] \in AllManifests
    BY <1>1 DEF Types, OpenFile
  <2>3. Settled /\ EnsurePanel /\ SendInit(h, FALSE) /\ wanted' = FALSE
        /\ UNCHANGED <<toHost, view, timer, disk, stale, editor>>
    BY <1>1 DEF OpenFile, fileVars
  <2> HIDE DEF h
  <2>4. Found(h)
    BY <2>1, <2>2 DEF Found
  <2>5. Asks(h)
    BY <2>1, <2>3, <2>4 DEF Asks
  <2> QED
    BY <2>5
<1>2. ASSUME OpenDesigner PROVE \E h : Asks(h)
  <2>1. Settled /\ EnsurePanel /\ SendInit(host, FALSE) /\ wanted' = FALSE
        /\ UNCHANGED <<toHost, view, timer, disk, stale, editor>>
    BY <1>2 DEF OpenDesigner, fileVars
  <2>2. Asks(host)
    BY <1>0, <2>1 DEF Asks
  <2> QED
    BY <2>2
<1>3. ASSUME NEW m \in Proposals, NEW u \in Uris \union {None}, showManifest(m, u)
      PROVE  \E h : Asks(h)
  <2> DEFINE h == [host EXCEPT !.override = m, !.activeUri = IF u = None THEN @ ELSE u]
  <2>1. /\ h \in Hosts /\ h.activeUri = IF u = None THEN host.activeUri ELSE u
        /\ h.override = m /\ m # None
    BY ProposedFields
  <2>2. Settled /\ EnsurePanel /\ SendInit(h, FALSE) /\ wanted' = FALSE
        /\ UNCHANGED <<toHost, view, timer, disk, stale, editor>>
    BY <1>3 DEF showManifest, fileVars
  <2> HIDE DEF h
  <2>3. Found(h)
    BY <2>1 DEF Found
  <2>4. Asks(h)
    BY <2>1, <2>2, <2>3 DEF Asks
  <2> QED
    BY <2>4
<1>4. ASSUME newDevice, panel = "closed" PROVE \E h : Asks(h)
  <2> DEFINE h == [host EXCEPT !.pendingWizard = TRUE]
  <2>1. /\ h \in Hosts /\ h.activeUri = host.activeUri /\ h.override = host.override
        /\ h.pendingWizard = TRUE
    BY <1>0, PendingFields
  <2>2. host.activeUri = None /\ host.override = None
    BY <1>4 DEF Phases, NoHost
  <2>3. Settled /\ EnsurePanel /\ SendInit(h, FALSE) /\ wanted' = TRUE
        /\ UNCHANGED <<toHost, view, timer, disk, stale, editor>>
    BY <1>4 DEF newDevice, fileVars
  <2> HIDE DEF h
  <2>4. Found(h)
    BY <2>1, <2>2 DEF Found
  <2>5. Asks(h)
    BY <1>4, <2>1, <2>2, <2>3, <2>4 DEF Asks
  <2> QED
    BY <2>5
<1> QED
  BY <1>1, <1>2, <1>3, <1>4

(* A handler ends without having changed anything. *)
Drops(i) ==
    /\ tasks[i].kind \in {"dialog", "write", "emit"}
    /\ tasks' = RemoveAt(tasks, i)
    /\ UNCHANGED <<panel, host, toView, toHost, view, timer, disk, stale, editor, wanted>>

(* A file was read. *)
ReadIn(i) ==
    /\ tasks[i].kind = "init" /\ tasks[i].wizard \in BOOLEAN
    /\ tasks' = RemoveAt(tasks, i)
    /\ stale' = stale \ {tasks[i].uri}
    /\ host' \in Hosts
    /\ host'.activeUri = host.activeUri /\ host'.override = host.override
    /\ host'.pendingWizard = host.pendingWizard
    /\ \E init \in Inits :
          /\ toView' = Posted(toView, init, tasks[i].wizard)
          /\ Tells(init, host) /\ host'.currentForm = init.form
          /\ init.source = host.activeUri /\ init.form = manifestToForm(disk[host.activeUri])
    /\ UNCHANGED <<panel, toHost, view, timer, disk, editor, wanted>>

LEMMA InitReadEffect ==
    ASSUME Types, InitsCurrent, NEW i \in 1..Len(tasks), InitRead(i)
    PROVE  ReadIn(i)
<1>1. PICK t : t = tasks[i]
  OBVIOUS
<1>2. /\ t.kind = "init" /\ tasks' = RemoveAt(tasks, i)
      /\ Show(host, disk[t.uri], t.uri, TRUE, t.wizard)
      /\ stale' = stale \ {t.uri}
      /\ UNCHANGED <<panel, toHost, view, timer, disk, editor, wanted>>
  BY <1>1 DEF InitRead
<1>3. t.wizard \in BOOLEAN /\ t.uri \in Uris
  <2>1. t \in Reads \union Works
    BY <1>1 DEF Types
  <2> QED
    BY <1>2, <2>1 DEF Reads, Works
<1>4. host.override = None /\ t.uri = host.activeUri /\ host.activeUri # None
  BY <1>1, <1>2 DEF InitsCurrent
<1>5. disk[t.uri] \in AllManifests /\ host \in Hosts /\ toView \in Seq(ViewMessages)
  BY <1>4 DEF Types, Found
<1>6. ASSUME NEW m, m = disk[t.uri], NEW w \in BOOLEAN, w = t.wizard, NEW there \in BOOLEAN, there = TRUE,
             NEW u \in Uris \union {None}, u = t.uri
      PROVE  Shown(host, m, u, w)
  <2>1. Show(host, m, u, there, w) /\ m \in AllManifests /\ host \in Hosts /\ toView \in Seq(ViewMessages)
    BY <1>2, <1>5, <1>6
  <2> QED
    BY <2>1, ShowEffect
<1>7. Shown(host, disk[t.uri], t.uri, t.wizard)
  BY <1>3, <1>6
<1> QED
  BY <1>1, <1>2, <1>3, <1>4, <1>7 DEF Shown, ReadIn

LEMMA Steps ==
    ASSUME Types, Phases, InitsCurrent, [Next]_vars
    PROVE  \/ UNCHANGED vars
           \/ \E h : Asks(h)
           \/ newDevice /\ panel # "closed"
           \/ \E u \in Uris, m \in Outside : OutsideWrite(u, m)
           \/ \E u \in Uris \union {None} : ActivateEditor(u)
           \/ Load \/ Close
           \/ \E f \in Forms : Edit(f)
           \/ TimerFires
           \/ \E act \in Clicks : doAction(act)
           \/ \E tile \in Tiles : createFromForm(tile)
           \/ closeWizard \/ ViewReceives \/ HostReceives
           \/ \E i \in 1..Len(tasks) :
                 \/ ReadIn(i) \/ Drops(i) \/ Written(i)
                 \/ \E u \in Uris : Picked(i, u)
<1>1. ASSUME NEW i \in 1..Len(tasks), PickCancelled(i) \/ WriteFails(i) \/ Emitted(i)
      PROVE  Drops(i)
  BY <1>1 DEF PickCancelled, WriteFails, Emitted, Drops, fileVars
<1> QED
  BY <1>1, AsksEffect, InitReadEffect DEF Next, Clicks

--------------------------------------------------------------------------------
(* What is posted and what is waited for, after a step. *)

LEMMA ExceptFacts ==
    ASSUME NEW S, NEW s \in Seq(S), NEW i \in 1..Len(s), NEW x \in S
    PROVE  /\ [s EXCEPT ![i] = x] \in Seq(S) /\ Len([s EXCEPT ![i] = x]) = Len(s)
           /\ \A j \in 1..Len(s) : [s EXCEPT ![i] = x][j] = IF j = i THEN x ELSE s[j]
OBVIOUS

LEMMA PostedFacts ==
    ASSUME NEW queue \in Seq(ViewMessages), NEW init \in Inits, NEW wizard \in BOOLEAN
    PROVE  /\ Posted(queue, init, wizard) \in Seq(ViewMessages)
           /\ Posted(queue, init, wizard) # <<>>
           /\ \A types : Has(Posted(queue, init, wizard), types) <=>
                 \/ Has(queue, types) \/ "init" \in types
                 \/ wizard /\ "openWizard" \in types
<1>1. /\ init \in ViewMessages /\ init.type = "init"
      /\ OpenWizard \in ViewMessages /\ OpenWizard.type = "openWizard"
  BY DEF ViewMessages, Inits, OpenWizard
<1> DEFINE q == Append(queue, init)
<1>2. q \in Seq(ViewMessages) /\ q # <<>>
  BY <1>1
<1>3. \A types : Has(q, types) <=> Has(queue, types) \/ "init" \in types
  BY <1>1, HasAppend
<1> HIDE DEF q
<1>4. Append(q, OpenWizard) \in Seq(ViewMessages) /\ Append(q, OpenWizard) # <<>>
  BY <1>1, <1>2
<1>5. \A types : Has(Append(q, OpenWizard), types) <=> Has(q, types) \/ "openWizard" \in types
  BY <1>1, <1>2, HasAppend
<1>6. Posted(queue, init, wizard) = IF wizard THEN Append(q, OpenWizard) ELSE q
  BY DEF Posted, q
<1> QED
  BY <1>2, <1>3, <1>4, <1>5, <1>6

(* The last of some messages, once an init is posted. *)
LEMMA PostedLatest ==
    ASSUME NEW queue \in Seq(ViewMessages), NEW init \in Inits, NEW wizard \in BOOLEAN, NEW types,
           "init" \in types, NEW k, k = Latest(Posted(queue, init, wizard), types)
    PROVE  /\ k # 0
           /\ Posted(queue, init, wizard)[k]
                = IF wizard /\ "openWizard" \in types THEN OpenWizard ELSE init
<1>1. /\ init \in ViewMessages /\ init.type = "init"
      /\ OpenWizard \in ViewMessages /\ OpenWizard.type = "openWizard"
  BY DEF ViewMessages, Inits, OpenWizard
<1> DEFINE q == Append(queue, init)
           n == Len(queue)
<1>2. q \in Seq(ViewMessages) /\ Len(q) = n + 1 /\ q[n + 1] = init /\ n \in Nat
  BY <1>1, AppendFacts
<1>3. Latest(q, types) = n + 1
  BY <1>1, LatestAppend
<1> HIDE DEF q, n
<1>4. /\ Append(q, OpenWizard)[n + 2] = OpenWizard
      /\ Append(q, OpenWizard)[n + 1] = init
  <2>1. n + 1 \in 1..Len(q) /\ Len(q) + 1 = n + 2
    BY <1>2
  <2> QED
    BY <1>1, <1>2, <2>1, AppendFacts
<1>5. Latest(Append(q, OpenWizard), types) = IF "openWizard" \in types THEN n + 2 ELSE n + 1
  <2>1. "openWizard" \in types => Latest(Append(q, OpenWizard), types) = Len(q) + 1
    BY <1>1, <1>2, LatestAppend
  <2>2. "openWizard" \notin types => Latest(Append(q, OpenWizard), types) = Latest(q, types)
    BY <1>1, <1>2, LatestAppend
  <2>3. Len(q) + 1 = n + 2
    BY <1>2
  <2> QED
    BY <1>3, <2>1, <2>2, <2>3
<1>6. Posted(queue, init, wizard) = IF wizard THEN Append(q, OpenWizard) ELSE q
  BY DEF Posted, q
<1>7. n + 1 # 0 /\ n + 2 # 0
  BY <1>2
<1> QED
  BY <1>2, <1>3, <1>4, <1>5, <1>6, <1>7

LEMMA SendInitTypes ==
    ASSUME Types, NEW h \in Hosts, Found(h), NEW wizard \in BOOLEAN, SendInit(h, wizard),
           UNCHANGED disk
    PROVE  /\ host' \in Hosts /\ Found(host)'
           /\ tasks' \in Seq(Reads \union Works) /\ toView' \in Seq(ViewMessages)
<1>1. /\ host' \in Hosts
      /\ host'.activeUri = h.activeUri /\ host'.override = h.override
      /\ ReadsFile(h, wizard) \/ PostsInit(h, wizard)
  BY SendInitEffect
<1>2. tasks \in Seq(Reads \union Works) /\ toView \in Seq(ViewMessages)
  BY DEF Types
<1>3. Found(host)'
  BY <1>1 DEF Found
<1>4. ASSUME ReadsFile(h, wizard)
      PROVE  tasks' \in Seq(Reads \union Works) /\ toView' \in Seq(ViewMessages)
  <2>1. h.activeUri \in Uris
    BY <1>4, HostFields DEF ReadsFile
  <2>2. [kind |-> "init", uri |-> h.activeUri, wizard |-> wizard] \in Reads \union Works
    BY <2>1 DEF Reads
  <2> QED
    BY <1>2, <1>4, <2>2 DEF ReadsFile
<1>5. ASSUME PostsInit(h, wizard)
      PROVE  tasks' \in Seq(Reads \union Works) /\ toView' \in Seq(ViewMessages)
  BY <1>2, <1>5, PostedFacts DEF PostsInit
<1> QED
  BY <1>1, <1>3, <1>4, <1>5

LEMMA PickedEffect ==
    ASSUME Types, NEW i \in 1..Len(tasks), NEW u \in Uris, Picked(i, u)
    PROVE  /\ tasks[i].kind = "dialog" /\ host' \in Hosts
           /\ host'.activeUri = host.activeUri /\ host'.override = host.override
           /\ host'.currentForm = host.currentForm /\ host'.pendingWizard = host.pendingWizard
           /\ \E t \in Works :
                 tasks' = [tasks EXCEPT ![i] = t] /\ t.kind = "write" /\ t.uri = u
           /\ UNCHANGED <<panel, toView, toHost, view, timer, disk, stale, editor, wanted>>
<1>1. /\ tasks[i].kind = "dialog"
      /\ tasks' = [tasks EXCEPT ![i] = Task("write", @.then, @.form, u)]
      /\ host' = [host EXCEPT !.created = FALSE]
      /\ UNCHANGED <<panel, toView, toHost, view, timer, disk, stale, editor, wanted>>
  BY DEF Picked, fileVars
<1>2. PICK t : t = tasks[i]
  OBVIOUS
<1>3. t \in Works
  BY <1>1, <1>2 DEF Types, Reads
<1>4. Task("write", t.then, t.form, u) \in Works
  BY <1>3 DEF Task, Works
<1>5. PICK a, o, c, p, d : HostIs(host, a, o, c, p, d)
  BY HostFields DEF Types, HostIs
<1>6. HostIs(host', host.activeUri, host.override, host.currentForm, host.pendingWizard, FALSE)
  BY <1>1, <1>5 DEF HostIs
<1>7. host' \in Hosts
  BY <1>6, HostFields DEF Types, HostIs, Hosts
<1>8. \E x \in Works : tasks' = [tasks EXCEPT ![i] = x] /\ x.kind = "write" /\ x.uri = u
  BY <1>1, <1>2, <1>4 DEF Task
<1> QED
  BY <1>1, <1>6, <1>7, <1>8 DEF HostIs

--------------------------------------------------------------------------------
(* Every step keeps the types. *)

LEMMA AsksTypes ==
    ASSUME Types, NEW h, Asks(h)
    PROVE  Types'
<1>1. /\ h \in Hosts /\ Found(h) /\ SendInit(h, FALSE) /\ EnsurePanel /\ wanted' \in BOOLEAN
      /\ UNCHANGED <<toHost, view, timer, disk, stale, editor>>
  BY DEF Asks
<1>2. /\ host' \in Hosts /\ Found(host)'
      /\ tasks' \in Seq(Reads \union Works) /\ toView' \in Seq(ViewMessages)
  <2>1. FALSE \in BOOLEAN
    OBVIOUS
  <2> QED
    BY <1>1, <2>1, SendInitTypes
<1>3. panel' \in {"closed", "loading", "open"}
  BY <1>1 DEF Types, EnsurePanel
<1> QED
  BY <1>1, <1>2, <1>3 DEF Types

LEMMA HearTypes ==
    ASSUME Types, HostReceives
    PROVE  Types'
<1> DEFINE m == Head(toHost)
<1>1. m \in HostMessages /\ Hears(m)
  BY HearEffect
<1>2. /\ toHost' = Tail(toHost) /\ toHost # <<>>
      /\ UNCHANGED <<panel, view, timer, disk, stale, editor, wanted>>
  BY DEF HostReceives, fileVars
<1>3. toHost' \in Seq(HostMessages)
  BY <1>2 DEF Types
<1>4. host \in Hosts /\ tasks \in Seq(Reads \union Works) /\ toView \in Seq(ViewMessages)
  BY DEF Types
<1> HIDE DEF m
<1>5. /\ host' \in Hosts /\ Found(host)'
      /\ tasks' \in Seq(Reads \union Works) /\ toView' \in Seq(ViewMessages)
  <2>1. CASE m.type = "ready" /\ SendInit([host EXCEPT !.pendingWizard = FALSE], host.pendingWizard)
    <3> DEFINE h == [host EXCEPT !.pendingWizard = FALSE]
    <3>1. FALSE \in BOOLEAN /\ host.pendingWizard \in BOOLEAN
      BY <1>4, HostFields
    <3>2. h \in Hosts /\ h.activeUri = host.activeUri /\ h.override = host.override
      BY <3>1, PendingFields
    <3>3. SendInit(h, host.pendingWizard)
      BY <2>1
    <3> HIDE DEF h
    <3>4. Found(h)
      BY <3>2 DEF Types, Found
    <3> QED
      BY <1>2, <3>1, <3>2, <3>3, <3>4, SendInitTypes
  <2>2. CASE m.type = "refresh" /\ SendInit(host, FALSE)
    <3>1. FALSE \in BOOLEAN /\ Found(host)
      BY DEF Types
    <3> QED
      BY <1>2, <1>4, <2>2, <3>1, SendInitTypes
  <2>3. CASE /\ m.type = "applyForm" /\ m.form \in AllForms
             /\ HostIs(host', host.activeUri, host.override, m.form, host.pendingWizard, host.created)
             /\ Compiles(m.form, host.activeUri # None) /\ tasks' = tasks
    <3>1. host' \in Hosts
      BY <1>4, <2>3, HostFields DEF HostIs, Hosts
    <3>2. Found(host)'
      BY <1>2, <2>3 DEF Types, Found, HostIs
    <3>3. toView' \in Seq(ViewMessages)
      BY <1>4, <2>3 DEF Compiles, ViewMessages
    <3> QED
      BY <1>4, <2>3, <3>1, <3>2, <3>3
  <2>4. CASE /\ m.type = "createDevice" /\ m.form \in AllForms
             /\ HostIs(host', None, None, m.form, host.pendingWizard, TRUE)
             /\ Compiles(m.form, FALSE) /\ tasks' = tasks
    <3>1. host' \in Hosts
      BY <1>4, <2>4, HostFields DEF HostIs, Hosts
    <3>2. Found(host)'
      BY <2>4 DEF Found, HostIs
    <3>3. toView' \in Seq(ViewMessages)
      BY <1>4, <2>4 DEF Compiles, ViewMessages
    <3> QED
      BY <1>4, <2>4, <3>1, <3>2, <3>3
  <2>5. CASE /\ m.type \in Clicks /\ m.form \in AllForms
             /\ host' = host /\ toView' = toView
             /\ tasks' = tasks \/ Begins(m)
    <3>1. Found(host)'
      BY <1>2, <2>5 DEF Types, Found
    <3>2. tasks' \in Seq(Reads \union Works)
      BY <1>4, <2>5 DEF Begins
    <3> QED
      BY <1>4, <2>5, <3>1, <3>2
  <2> QED
    BY <1>1, <2>1, <2>2, <2>3, <2>4, <2>5 DEF Hears
<1> QED
  BY <1>2, <1>3, <1>5 DEF Types

LEMMA WorkTypes ==
    ASSUME Types, SaveAlone, NEW i \in 1..Len(tasks)
    PROVE  /\ ReadIn(i) => Types'
           /\ Drops(i) => Types'
           /\ Written(i) => Types'
           /\ \A u \in Uris : Picked(i, u) => Types'
<1>1. tasks \in Seq(Reads \union Works) /\ toView \in Seq(ViewMessages)
  BY DEF Types
<1>2. RemoveAt(tasks, i) \in Seq(Reads \union Works)
  BY <1>1, RemoveAtFacts
<1>3. ASSUME ReadIn(i) PROVE Types'
  <2>1. toView' \in Seq(ViewMessages)
    <3>1. PICK init \in Inits : toView' = Posted(toView, init, tasks[i].wizard)
      BY <1>3 DEF ReadIn
    <3>2. PICK w \in BOOLEAN : w = tasks[i].wizard
      BY <1>3 DEF ReadIn
    <3>3. Posted(toView, init, w) \in Seq(ViewMessages)
      BY <1>1, PostedFacts
    <3> QED
      BY <3>1, <3>2, <3>3
  <2>2. Found(host)'
    BY <1>3 DEF ReadIn, Types, Found
  <2> QED
    BY <1>2, <1>3, <2>1, <2>2 DEF ReadIn, Types
<1>4. ASSUME Drops(i) PROVE Types'
  <2>1. Found(host)'
    BY <1>4 DEF Drops, Types, Found
  <2> QED
    BY <1>2, <1>4, <2>1 DEF Drops, Types
<1>5. ASSUME Written(i) PROVE Types'
  <2>1. PICK t : t = tasks[i]
    OBVIOUS
  <2>2. t.uri \in Uris
    BY <1>5, <2>1 DEF Written, SaveAlone
  <2>3. /\ t \in Works /\ t.kind = "write"
        /\ HostIs(host', t.uri, None, t.form, host.pendingWizard, host.created)
        /\ host' \in Hosts
        /\ disk' = [disk EXCEPT ![t.uri] = formToManifest(t.form)]
        /\ disk' \in [Uris -> AllManifests \union {None}]
        /\ formToManifest(t.form) \in AllManifests
        /\ stale' = stale \ {t.uri}
        /\ toView' = Append(toView, SavedMsg(t.uri)) /\ SavedMsg(t.uri) \in ViewMessages
        /\ \/ tasks' = RemoveAt(tasks, i)
           \/ /\ tasks' = [tasks EXCEPT ![i] = [kind |-> "emit", then |-> t.then,
                                                form |-> t.form, uri |-> t.uri]]
              /\ t.then \in {"generate", "scaffold"}
    BY <1>5, <2>1, <2>2, WrittenEffect
  <2>4. [kind |-> "emit", then |-> t.then, form |-> t.form, uri |-> t.uri] \in Reads \union Works
    BY <2>3 DEF Works
  <2>5. tasks' \in Seq(Reads \union Works)
    <3>1. PICK e \in Reads \union Works :
             e = [kind |-> "emit", then |-> t.then, form |-> t.form, uri |-> t.uri]
      BY <2>4
    <3>2. [tasks EXCEPT ![i] = e] \in Seq(Reads \union Works)
      BY <1>1, ExceptFacts
    <3> QED
      BY <1>2, <2>3, <3>1, <3>2
  <2>6. disk \in [Uris -> AllManifests \union {None}]
    BY DEF Types
  <2>7. disk'[t.uri] = formToManifest(t.form)
        /\ \A u \in Uris : disk[u] \in AllManifests => disk'[u] \in AllManifests
    BY <2>2, <2>3, <2>6
  <2>8. Found(host)'
    BY <2>3, <2>7 DEF Found, HostIs
  <2>9. UNCHANGED <<panel, toHost, view, timer, editor, wanted>>
    BY <1>5 DEF Written
  <2>10. toView' \in Seq(ViewMessages)
    BY <1>1, <2>3
  <2>11. editor' # None => disk'[editor'] \in AllManifests
    BY <2>7, <2>9 DEF Types
  <2> QED
    BY <2>3, <2>5, <2>8, <2>9, <2>10, <2>11 DEF Types
<1>6. ASSUME NEW u \in Uris, Picked(i, u) PROVE Types'
  <2>1. /\ host' \in Hosts
        /\ host'.activeUri = host.activeUri /\ host'.override = host.override
        /\ \E t \in Works :
              tasks' = [tasks EXCEPT ![i] = t] /\ t.kind = "write" /\ t.uri = u
        /\ UNCHANGED <<panel, toView, toHost, view, timer, disk, stale, editor, wanted>>
    BY <1>6, PickedEffect
  <2>2. tasks' \in Seq(Reads \union Works)
    BY <1>1, <2>1, ExceptFacts
  <2>3. Found(host)'
    BY <2>1 DEF Types, Found
  <2> QED
    BY <2>1, <2>2, <2>3 DEF Types
<1> QED
  BY <1>3, <1>4, <1>5, <1>6

LEMMA StillTypes ==
    ASSUME NoHost \in Hosts, NoView \in Views, Types
    PROVE  /\ newDevice /\ panel # "closed" => Types'
           /\ \A u \in Uris, m \in Outside : OutsideWrite(u, m) => Types'
           /\ \A u \in Uris \union {None} : ActivateEditor(u) => Types'
           /\ Load \/ Close => Types'
<1>0. Found(host)
  BY DEF Types
<1>1. ASSUME newDevice, panel # "closed" PROVE Types'
  <2>1. /\ toView' = toView \o <<OpenWizard>> /\ wanted' = TRUE /\ panel' = panel
        /\ UNCHANGED <<host, tasks, toHost, view, timer, disk, stale, editor>>
    BY <1>1 DEF newDevice, EnsurePanel, NewDeviceMessages, fileVars
  <2>2. toView \o <<OpenWizard>> = Append(toView, OpenWizard) /\ OpenWizard \in ViewMessages
    BY DEF Types, OpenWizard, ViewMessages
  <2>3. toView' \in Seq(ViewMessages)
    BY <2>1, <2>2 DEF Types
  <2>4. Found(host)'
    BY <1>0, <2>1 DEF Found
  <2> QED
    BY <2>1, <2>3, <2>4 DEF Types
<1>2. ASSUME NEW u \in Uris, NEW m \in Outside, OutsideWrite(u, m) PROVE Types'
  <2>1. /\ disk' = [disk EXCEPT ![u] = m] /\ stale' = stale \union {u}
        /\ UNCHANGED <<panel, host, tasks, toView, toHost, view, timer, editor, wanted>>
    BY <1>2 DEF OutsideWrite, hostVars
  <2>2. m \in AllManifests /\ disk \in [Uris -> AllManifests \union {None}]
    BY DEF Types, AllManifests, FirstManifests
  <2>3. /\ disk' \in [Uris -> AllManifests \union {None}]
        /\ \A v \in Uris : disk[v] \in AllManifests => disk'[v] \in AllManifests
    BY <2>1, <2>2
  <2>4. host.activeUri \in Uris \union {None}
    BY HostFields DEF Types
  <2>5. Found(host)'
    BY <1>0, <2>1, <2>3, <2>4 DEF Found
  <2>6. editor' # None => disk'[editor'] \in AllManifests
    BY <2>1, <2>3 DEF Types
  <2> QED
    BY <2>1, <2>3, <2>5, <2>6 DEF Types
<1>3. ASSUME NEW u \in Uris \union {None}, ActivateEditor(u) PROVE Types'
  <2>1. /\ editor' = u /\ (u # None => disk[u] # None)
        /\ UNCHANGED <<panel, host, tasks, toView, toHost, view, timer, disk, stale, wanted>>
    BY <1>3 DEF ActivateEditor, hostVars, fileVars
  <2>2. editor' # None => disk'[editor'] \in AllManifests
    BY <2>1 DEF Types
  <2>3. Found(host)'
    BY <1>0, <2>1 DEF Found
  <2> QED
    BY <2>1, <2>2, <2>3 DEF Types
<1>4. ASSUME Load PROVE Types'
  <2>1. /\ panel' = "open" /\ toView' \in {toView, <<>>} /\ toHost' = <<[type |-> "ready"]>>
        /\ view' = NoView /\ UNCHANGED <<host, tasks, timer, disk, stale, editor, wanted>>
    BY <1>4 DEF Load, fileVars
  <2>2. toHost' \in Seq(HostMessages)
    BY <2>1 DEF HostMessages
  <2>3. toView' \in Seq(ViewMessages)
    <3>1. <<>> \in Seq(ViewMessages) /\ toView \in Seq(ViewMessages)
      BY DEF Types
    <3> QED
      BY <2>1, <3>1
  <2>4. Found(host)'
    BY <1>0, <2>1 DEF Found
  <2> QED
    BY <2>1, <2>2, <2>3, <2>4 DEF Types
<1>5. ASSUME Close PROVE Types'
  <2>1. /\ panel' = "closed" /\ host' = NoHost /\ view' = NoView /\ wanted' = FALSE
        /\ UNCHANGED <<tasks, toHost, toView, timer, disk, stale, editor>>
    BY <1>5 DEF Close, fileVars
  <2>2. Found(host)'
    BY <2>1 DEF Found, NoHost
  <2> QED
    BY <2>1, <2>2 DEF Types
<1> QED
  BY <1>1, <1>2, <1>3, <1>4, <1>5

LEMMA ViewTypes ==
    ASSUME Types
    PROVE  /\ \A f \in Forms : Edit(f) => Types'
           /\ TimerFires => Types'
           /\ \A act \in Clicks : doAction(act) => Types'
           /\ \A tile \in Tiles : createFromForm(tile) => Types'
           /\ closeWizard => Types'
           /\ ViewReceives => Types'
<1>0. Found(host) /\ toHost \in Seq(HostMessages) /\ toView \in Seq(ViewMessages)
      /\ view.form \in AllForms
  BY ViewFields DEF Types
<1>1. ASSUME NEW f \in Forms, Edit(f) PROVE Types'
  <2>1. view' \in Views
    BY <1>1, EditEffect
  <2>2. /\ timer' = TRUE
        /\ UNCHANGED <<panel, host, tasks, toView, toHost, disk, stale, editor, wanted>>
    BY <1>1 DEF Edit, hostVars, fileVars
  <2>3. Found(host)'
    BY <1>0, <2>2 DEF Found
  <2> QED
    BY <2>1, <2>2, <2>3 DEF Types
<1>2. ASSUME TimerFires PROVE Types'
  <2>1. /\ timer' = FALSE /\ toHost' = Append(toHost, [type |-> "applyForm", form |-> view.form])
        /\ UNCHANGED <<panel, host, tasks, toView, view, disk, stale, editor, wanted>>
    BY <1>2 DEF TimerFires, hostVars, fileVars
  <2>2. [type |-> "applyForm", form |-> view.form] \in HostMessages
    BY <1>0 DEF HostMessages, ByForm
  <2>3. toHost' \in Seq(HostMessages)
    BY <1>0, <2>1, <2>2
  <2>4. Found(host)'
    BY <1>0, <2>1 DEF Found
  <2> QED
    BY <2>1, <2>3, <2>4 DEF Types
<1>3. ASSUME NEW act \in Clicks, doAction(act) PROVE Types'
  <2>1. /\ toHost' = Append(toHost, [type |-> act, form |-> view.form])
        /\ UNCHANGED <<panel, host, tasks, toView, view, timer, disk, stale, editor, wanted>>
    BY <1>3 DEF doAction, hostVars, fileVars
  <2>2. [type |-> act, form |-> view.form] \in HostMessages
    BY <1>0 DEF HostMessages, ByForm
  <2>3. toHost' \in Seq(HostMessages)
    BY <1>0, <2>1, <2>2
  <2>4. Found(host)'
    BY <1>0, <2>1 DEF Found
  <2> QED
    BY <2>1, <2>3, <2>4 DEF Types
<1>4. ASSUME NEW tile \in Tiles, createFromForm(tile) PROVE Types'
  <2>1. /\ toHost' = Append(toHost, [type |-> "createDevice", form |-> TileForm(tile)])
        /\ wanted' = FALSE
        /\ UNCHANGED <<panel, host, tasks, toView, timer, disk, stale, editor>>
    BY <1>4 DEF createFromForm, hostVars, fileVars
  <2>2. view' \in Views /\ TileForm(tile) \in AllForms
    BY <1>4, CreateEffect
  <2>3. [type |-> "createDevice", form |-> TileForm(tile)] \in HostMessages
    BY <2>2 DEF HostMessages, ByForm
  <2>4. toHost' \in Seq(HostMessages)
    BY <1>0, <2>1, <2>3
  <2>5. Found(host)'
    BY <1>0, <2>1 DEF Found
  <2> QED
    BY <2>1, <2>2, <2>4, <2>5 DEF Types
<1>5. ASSUME closeWizard PROVE Types'
  <2>1. /\ wanted' = FALSE
        /\ UNCHANGED <<panel, host, tasks, toView, toHost, timer, disk, stale, editor>>
    BY <1>5 DEF closeWizard, hostVars, fileVars
  <2>2. view' \in Views
    BY <1>5, CloseWizardEffect
  <2>3. Found(host)'
    BY <1>0, <2>1 DEF Found
  <2> QED
    BY <2>1, <2>2, <2>3 DEF Types
<1>6. ASSUME ViewReceives PROVE Types'
  <2>1. /\ toView' = Tail(toView) /\ toView # <<>>
        /\ UNCHANGED <<panel, host, tasks, timer, disk, stale, editor, wanted>>
    BY <1>6 DEF ViewReceives, fileVars
  <2>2. /\ view' \in Views
        /\ toHost' = IF Head(toView).type = "saved" THEN Append(toHost, [type |-> "refresh"])
                     ELSE toHost
    BY <1>6, ReceiveEffect
  <2>3. [type |-> "refresh"] \in HostMessages
    BY DEF HostMessages
  <2>4. toHost' \in Seq(HostMessages) /\ toView' \in Seq(ViewMessages)
    BY <1>0, <2>1, <2>2, <2>3
  <2>5. Found(host)'
    BY <1>0, <2>1 DEF Found
  <2> QED
    BY <2>1, <2>2, <2>4, <2>5 DEF Types
<1> QED
  BY <1>1, <1>2, <1>3, <1>4, <1>5, <1>6

LEMMA NoHostNoView == NoHost \in Hosts /\ NoView \in Views
<1>1. emptyForm \in AllForms
  BY DEF AllForms, FirstForms
<1> QED
  BY <1>1 DEF NoHost, Hosts, NoView, Views

LEMMA TypesStep ==
    ASSUME Types, Phases, InitsCurrent, SaveAlone, [Next]_vars
    PROVE  Types'
<1>1. CASE UNCHANGED vars
  <2>1. Found(host)'
    BY <1>1 DEF Types, Found, vars, hostVars, fileVars
  <2> QED
    BY <1>1, <2>1 DEF Types, vars, hostVars, fileVars
<1> QED
  BY <1>1, Steps, AsksTypes, HearTypes, WorkTypes, NoHostNoView, StillTypes, ViewTypes

--------------------------------------------------------------------------------
(* Handlers that wait, after a step. *)

LEMMA WaitingNothing == \A kinds : ~Waiting(<<>>, kinds)
<1>1. Len(<<>>) = 0 /\ 1..0 = {}
  OBVIOUS
<1> QED
  BY <1>1 DEF Waiting

LEMMA WaitingAppend ==
    ASSUME NEW S, NEW ts \in Seq(S), NEW t \in S
    PROVE  \A kinds : Waiting(Append(ts, t), kinds) <=> Waiting(ts, kinds) \/ t.kind \in kinds
<1>1. \A i \in 1..(Len(ts) + 1) : i \in 1..Len(ts) \/ i = Len(ts) + 1
  BY AppendFacts
<1> QED
  BY <1>1, AppendFacts DEF Waiting

LEMMA RemovedFrom ==
    ASSUME NEW S, NEW ts \in Seq(S), NEW i \in 1..Len(ts)
    PROVE  /\ \A j \in 1..Len(RemoveAt(ts, i)) :
                 LET k == IF j < i THEN j ELSE j + 1
                 IN  k \in 1..Len(ts) /\ k # i /\ RemoveAt(ts, i)[j] = ts[k]
           /\ \A k \in 1..Len(ts) : k # i =>
                 \E j \in 1..Len(RemoveAt(ts, i)) : RemoveAt(ts, i)[j] = ts[k]
<1> DEFINE n == Len(ts)
           r == RemoveAt(ts, i)
<1>0. /\ Len(r) = n - 1
      /\ \A j \in 1..(n - 1) : r[j] = IF j < i THEN ts[j] ELSE ts[j + 1]
  BY RemoveAtFacts
<1>1. n \in Nat /\ i \in 1..n
  OBVIOUS
<1> HIDE DEF n, r
<1>2. ASSUME NEW j \in 1..(n - 1)
      PROVE  LET k == IF j < i THEN j ELSE j + 1
             IN  k \in 1..n /\ k # i /\ r[j] = ts[k]
  BY <1>0, <1>1
<1>3. ASSUME NEW k \in 1..n, k # i
      PROVE  \E j \in 1..(n - 1) : r[j] = ts[k]
  <2>1. CASE k < i
    <3>1. k \in 1..(n - 1)
      BY <1>1, <2>1
    <3> QED
      BY <1>0, <1>1, <2>1, <3>1
  <2>2. CASE ~(k < i)
    <3>1. k - 1 \in 1..(n - 1) /\ ~(k - 1 < i) /\ (k - 1) + 1 = k
      BY <1>1, <1>3, <2>2
    <3> QED
      BY <1>0, <1>1, <3>1
  <2> QED
    BY <2>1, <2>2
<1> QED
  BY <1>0, <1>1, <1>2, <1>3 DEF n, r

LEMMA WaitingRemoved ==
    ASSUME NEW S, NEW ts \in Seq(S), NEW i \in 1..Len(ts)
    PROVE  \A kinds :
              /\ Waiting(RemoveAt(ts, i), kinds) => Waiting(ts, kinds)
              /\ ts[i].kind \notin kinds =>
                    (Waiting(ts, kinds) => Waiting(RemoveAt(ts, i), kinds))
<1> SUFFICES ASSUME NEW kinds
             PROVE  /\ Waiting(RemoveAt(ts, i), kinds) => Waiting(ts, kinds)
                    /\ ts[i].kind \notin kinds =>
                          (Waiting(ts, kinds) => Waiting(RemoveAt(ts, i), kinds))
  OBVIOUS
<1> DEFINE r == RemoveAt(ts, i)
<1>1. \A j \in 1..Len(r) : \E k \in 1..Len(ts) : k # i /\ r[j] = ts[k]
  BY RemovedFrom
<1>2. \A k \in 1..Len(ts) : k # i => \E j \in 1..Len(r) : r[j] = ts[k]
  BY RemovedFrom
<1> HIDE DEF r
<1>3. Waiting(r, kinds) => Waiting(ts, kinds)
  BY <1>1 DEF Waiting
<1>4. ASSUME ts[i].kind \notin kinds, NEW k \in 1..Len(ts), ts[k].kind \in kinds
      PROVE  Waiting(r, kinds)
  <2>1. k # i
    BY <1>4
  <2>2. PICK j \in 1..Len(r) : r[j] = ts[k]
    BY <1>2, <2>1
  <2> QED
    BY <1>4, <2>2 DEF Waiting
<1> QED
  BY <1>3, <1>4 DEF r, Waiting

(* A handler that waits alone. *)
LEMMA WaitingOne ==
    ASSUME NEW ts, Len(ts) = 1
    PROVE  \A kinds : Waiting(ts, kinds) <=> ts[1].kind \in kinds
<1>1. 1..1 = {1}
  OBVIOUS
<1> QED
  BY <1>1 DEF Waiting

(* A message that is sent alone. *)
LEMMA OneMessage ==
    ASSUME NEW S, NEW m \in S, NEW q, q = Append(<<>>, m)
    PROVE  /\ q \in Seq(S) /\ q # <<>> /\ Len(q) = 1 /\ q[1] = m
           /\ Head(q) = m /\ Tail(q) = <<>>
           /\ \A types : Has(q, types) <=> m.type \in types
           /\ \A types : Latest(q, types) = IF m.type \in types THEN 1 ELSE 0
<1>1. <<>> \in Seq(S) /\ Len(<<>>) = 0 /\ 0 + 1 = 1
  OBVIOUS
<1>2. q \in Seq(S) /\ q # <<>> /\ Len(q) = 1 /\ q[1] = m /\ Head(q) = m /\ Tail(q) = <<>>
  OBVIOUS
<1>3. ASSUME NEW types
      PROVE  /\ Has(q, types) <=> m.type \in types
             /\ Latest(q, types) = IF m.type \in types THEN 1 ELSE 0
  <2>1. Has(q, types) <=> m.type \in types
    <3>1. Has(q, types) <=> Has(<<>>, types) \/ m.type \in types
      BY <1>1, HasAppend
    <3> QED
      BY <3>1, HasNothing
  <2>2. /\ m.type \in types => Latest(q, types) = Len(<<>>) + 1
        /\ m.type \notin types => Latest(q, types) = Latest(<<>>, types)
    BY <1>1, LatestAppend
  <2>3. Latest(<<>>, types) = 0
    BY LatestNothing
  <2> QED
    BY <1>1, <2>1, <2>2, <2>3
<1> QED
  BY <1>2, <1>3

(* At rest there is nothing on its way. *)
LEMMA AtRest ==
    ASSUME Types, Settled
    PROVE  /\ tasks = <<>> /\ toHost = <<>> /\ toView = <<>> /\ timer = FALSE
           /\ \A types : ~Has(toHost, types) /\ ~Has(toView, types)
           /\ \A kinds : ~Waiting(tasks, kinds)
           /\ \A types : Latest(toView, types) = 0
           /\ Phases => panel # "loading"
BY HasNothing, WaitingNothing, LatestNothing DEF Settled, Quiet, Types, Phases

LEMMA NoReload ==
    ASSUME Types, Settled
    PROVE  ~ReloadDue
BY AtRest DEF ReloadDue

--------------------------------------------------------------------------------
(* Every step keeps the rest of the invariant. *)

LEMMA SettledSteps ==
    ASSUME IInv, Settled
    PROVE  /\ newDevice /\ panel # "closed" => Rest'
           /\ \A u \in Uris, m \in Outside : OutsideWrite(u, m) => Rest'
           /\ \A u \in Uris \union {None} : ActivateEditor(u) => Rest'
           /\ Close => Rest'
           /\ closeWizard => Rest'
<1>0. /\ Types /\ Rest
      /\ tasks = <<>> /\ toHost = <<>> /\ toView = <<>> /\ timer = FALSE
      /\ \A types : ~Has(toHost, types) /\ ~Has(toView, types)
      /\ \A kinds : ~Waiting(tasks, kinds)
      /\ \A types : Latest(toView, types) = 0
      /\ panel # "loading" /\ ~ReloadDue
  BY AtRest, NoReload DEF IInv, Rest
<1>a. 1..Len(<<>>) = {}
  OBVIOUS
<1>1. ASSUME newDevice, panel # "closed" PROVE Rest'
  <2>1. /\ toView' = toView \o <<OpenWizard>> /\ wanted' = TRUE /\ panel' = panel
        /\ UNCHANGED <<host, tasks, toHost, view, timer, disk, stale, editor>>
    BY <1>1 DEF newDevice, EnsurePanel, NewDeviceMessages, fileVars
  <2>2. /\ toView' = Append(<<>>, OpenWizard) /\ OpenWizard \in ViewMessages
        /\ <<>> \in Seq(ViewMessages) /\ OpenWizard.type = "openWizard" /\ Len(<<>>) + 1 = 1
    BY <1>0, <2>1 DEF OpenWizard, ViewMessages
  <2>3. /\ \A types : Has(toView', types) <=> "openWizard" \in types
        /\ \A types : "openWizard" \in types => Latest(toView', types) = 1
        /\ \A types : "openWizard" \notin types => Latest(toView', types) = 0
    BY <2>2, OneMessage
  <2>4. /\ toView'[1] = OpenWizard
        /\ \A i \in 1..Len(toView') : toView'[i].type = "openWizard"
    BY <2>2, AppendFacts
  <2>5. panel' = "open"
    BY <1>0, <1>1, <2>1 DEF Types
  <2>6. ~ReloadDue'
    BY <1>0, <2>1, <2>3 DEF ReloadDue
  <2>7. Phases' /\ ClickAlone' /\ SaveAlone' /\ InitsCurrent' /\ ClickTellsFile' /\ EmitTellsFile'
    BY <1>0, <1>a, <2>1, <2>5 DEF Phases, ClickAlone, SaveAlone, InitsCurrent, ClickTellsFile,
       EmitTellsFile
  <2>8. SavedHasFile'
    BY <1>0, <2>1, <2>3, <2>4 DEF Rest, SavedHasFile
  <2>9. FileShown'
    BY <1>0, <2>1, <2>3 DEF Rest, FileShown, InSight
  <2>10. WizardComes'
    BY <1>0, <2>1, <2>2, <2>3, <2>4, <2>5 DEF WizardComes, WizardOpens, OnlyEdits
  <2>11. SaysValid' = SaysValid
    BY <1>0, <2>1, <2>3 DEF SaysValid
  <2>12. Compiled' /\ EditCompiled' /\ EditPosted'
    BY <1>0, <2>1, <2>3, <2>11 DEF Rest, Compiled, EditCompiled, EditPosted
  <2> QED
    BY <2>7, <2>8, <2>9, <2>10, <2>12 DEF Rest
<1>2. ASSUME NEW u \in Uris, NEW m \in Outside, OutsideWrite(u, m) PROVE Rest'
  <2>1. /\ disk' = [disk EXCEPT ![u] = m] /\ stale' = stale \union {u}
        /\ UNCHANGED <<panel, host, tasks, toView, toHost, view, timer, editor, wanted>>
    BY <1>2 DEF OutsideWrite, hostVars
  <2>2. host.activeUri \notin stale' => disk'[host.activeUri] = disk[host.activeUri]
    BY <2>1
  <2>3. ~ReloadDue' /\ SaysValid' = SaysValid
    BY <1>0, <2>1 DEF ReloadDue, SaysValid
  <2>4. Phases' /\ ClickAlone' /\ SaveAlone' /\ InitsCurrent' /\ ClickTellsFile' /\ EmitTellsFile'
    BY <1>0, <1>a, <2>1 DEF Rest, Phases, ClickAlone, SaveAlone, InitsCurrent, ClickTellsFile,
       EmitTellsFile
  <2>5. SavedHasFile' /\ WizardComes'
    BY <1>0, <2>1 DEF Rest, SavedHasFile, WizardComes, WizardDue, WizardOpens
  <2>6. FileShown'
    BY <1>0, <2>1, <2>2 DEF Rest, FileShown, InSight
  <2>7. Compiled' /\ EditCompiled' /\ EditPosted'
    BY <1>0, <2>1, <2>3 DEF Rest, Compiled, EditCompiled, EditPosted
  <2> QED
    BY <2>4, <2>5, <2>6, <2>7 DEF Rest
<1>3. ASSUME NEW u \in Uris \union {None}, ActivateEditor(u) PROVE Rest'
  <2>1. UNCHANGED <<panel, host, tasks, toView, toHost, view, timer, disk, stale, wanted>>
    BY <1>3 DEF ActivateEditor, hostVars, fileVars
  <2>2. ~ReloadDue' /\ SaysValid' = SaysValid
    BY <1>0, <2>1 DEF ReloadDue, SaysValid
  <2>4. Phases' /\ ClickAlone' /\ SaveAlone' /\ InitsCurrent' /\ ClickTellsFile' /\ EmitTellsFile'
    BY <1>0, <1>a, <2>1 DEF Rest, Phases, ClickAlone, SaveAlone, InitsCurrent, ClickTellsFile,
       EmitTellsFile
  <2>5. SavedHasFile' /\ WizardComes'
    BY <1>0, <2>1 DEF Rest, SavedHasFile, WizardComes, WizardDue, WizardOpens
  <2>6. FileShown'
    BY <1>0, <2>1 DEF Rest, FileShown, InSight
  <2>7. Compiled' /\ EditCompiled' /\ EditPosted'
    BY <1>0, <2>1, <2>2 DEF Rest, Compiled, EditCompiled, EditPosted
  <2> QED
    BY <2>4, <2>5, <2>6, <2>7 DEF Rest
<1>4. ASSUME Close PROVE Rest'
  <2>1. /\ panel' = "closed" /\ host' = NoHost /\ view' = NoView /\ wanted' = FALSE
        /\ UNCHANGED <<tasks, toHost, toView, timer, disk, stale, editor>>
    BY <1>4 DEF Close, fileVars
  <2>2. ~view'.saved /\ ~view'.dirty
    BY <2>1 DEF NoView
  <2>3. Phases' /\ ClickAlone' /\ SaveAlone' /\ InitsCurrent' /\ ClickTellsFile' /\ EmitTellsFile'
    BY <1>0, <1>a, <2>1 DEF Rest, Phases, ClickAlone, SaveAlone, InitsCurrent, ClickTellsFile,
       EmitTellsFile
  <2>4. SavedHasFile' /\ WizardComes' /\ FileShown' /\ Compiled' /\ EditCompiled' /\ EditPosted'
    BY <1>0, <1>a, <2>1, <2>2 DEF SavedHasFile, WizardComes, FileShown, Compiled, EditCompiled, EditPosted
  <2> QED
    BY <2>3, <2>4 DEF Rest
<1>5. ASSUME closeWizard PROVE Rest'
  <2>1. /\ wanted' = FALSE
        /\ UNCHANGED <<panel, host, tasks, toView, toHost, timer, disk, stale, editor>>
    BY <1>5 DEF closeWizard, hostVars, fileVars
  <2>2. /\ view'.form = view.form /\ view'.saved = view.saved /\ view'.dirty = view.dirty
        /\ view'.lastValid = view.lastValid /\ view'.source = view.source
    BY <1>0, <1>5, CloseWizardEffect DEF ViewIs
  <2>3. ~ReloadDue' /\ SaysValid' = SaysValid /\ panel = "open"
    BY <1>0, <1>5, <2>1, <2>2 DEF ReloadDue, SaysValid, closeWizard
  <2>4. Phases' /\ ClickAlone' /\ SaveAlone' /\ InitsCurrent' /\ ClickTellsFile' /\ EmitTellsFile'
    BY <1>0, <1>a, <2>1, <2>3 DEF Rest, Phases, ClickAlone, SaveAlone, InitsCurrent, ClickTellsFile,
       EmitTellsFile
  <2>5. SavedHasFile' /\ WizardComes'
    BY <1>0, <2>1, <2>2 DEF Rest, SavedHasFile, WizardComes
  <2>6. FileShown'
    BY <1>0, <2>1, <2>2 DEF Rest, FileShown, InSight
  <2>7. Compiled' /\ EditCompiled' /\ EditPosted'
    BY <1>0, <2>1, <2>2, <2>3 DEF Rest, Compiled, EditCompiled, EditPosted
  <2> QED
    BY <2>4, <2>5, <2>6, <2>7 DEF Rest
<1> QED
  BY <1>1, <1>2, <1>3, <1>4, <1>5

LEMMA AsksStep ==
    ASSUME IInv, NEW h, Asks(h)
    PROVE  Rest'
<1>0. /\ Types /\ Rest
      /\ tasks = <<>> /\ toHost = <<>> /\ toView = <<>> /\ timer = FALSE
      /\ \A types : ~Has(toHost, types) /\ ~Has(toView, types)
      /\ \A kinds : ~Waiting(tasks, kinds)
      /\ panel # "loading"
  BY AtRest DEF IInv, Rest, Asks
<1>a. 1..Len(<<>>) = {} /\ <<>> \in Seq(ViewMessages) /\ <<>> \in Seq(Reads \union Works)
      /\ FALSE \in BOOLEAN
  OBVIOUS
<1>1. /\ h \in Hosts /\ Found(h) /\ SendInit(h, FALSE)
      /\ h.activeUri = None => host.activeUri = None
      /\ wanted' => /\ panel = "closed" /\ h.pendingWizard
                    /\ h.override = None /\ h.activeUri = None
      /\ UNCHANGED <<toHost, view, timer, disk, stale, editor>>
      /\ panel' = IF panel = "closed" THEN "loading" ELSE panel
  BY DEF Asks, EnsurePanel
<1>2. /\ host'.activeUri = h.activeUri /\ host'.override = h.override
      /\ host'.pendingWizard = h.pendingWizard
      /\ ReadsFile(h, FALSE) \/ PostsInit(h, FALSE)
  BY <1>0, <1>1, <1>a, SendInitEffect
<1>3. /\ panel' = "loading" \/ panel' = "open"
      /\ panel' = "loading" <=> panel = "closed"
      /\ panel' = "loading" => view' = NoView /\ timer' = FALSE
  BY <1>0, <1>1 DEF Types, Rest, Phases
<1>4. CASE ReadsFile(h, FALSE)
  <2> DEFINE t == [kind |-> "init", uri |-> h.activeUri, wizard |-> FALSE]
  <2>1. /\ tasks' = Append(<<>>, t) /\ toView' = <<>> /\ h.override = None /\ h.activeUri # None
        /\ t \in Reads \union Works
    BY <1>0, <1>1, <1>4, HostFields DEF ReadsFile, Reads
  <2>2. t.kind = "init" /\ t.uri = h.activeUri
    OBVIOUS
  <2> HIDE DEF t
  <2>3. Len(tasks') = 1 /\ tasks'[1] = t /\ tasks' # <<>>
    BY <2>1
  <2>4. /\ \A kinds : Waiting(tasks', kinds) <=> "init" \in kinds
        /\ \A i \in 1..Len(tasks') : tasks'[i] = t
    BY <2>2, <2>3, WaitingOne
  <2>5. ReloadDue'
    BY <2>4 DEF ReloadDue
  <2>6. \A types : ~Has(toHost', types) /\ ~Has(toView', types)
    BY <1>1, <1>0, <2>1
  <2>7. Phases' /\ ClickAlone' /\ SaveAlone' /\ InitsCurrent' /\ ClickTellsFile' /\ EmitTellsFile'
    BY <1>0, <1>1, <1>2, <1>3, <1>a, <2>1, <2>2, <2>3, <2>4, <2>6
       DEF Phases, ClickAlone, SaveAlone, InitsCurrent, ClickTellsFile, EmitTellsFile
  <2>8. ~wanted'
    BY <1>1, <2>1
  <2>9. /\ SavedHasFile' /\ WizardComes' /\ FileShown' /\ Compiled' /\ EditCompiled' /\ EditPosted'
    BY <1>2, <2>1, <2>5, <2>6, <2>8
       DEF SavedHasFile, WizardComes, FileShown, Compiled, EditCompiled, EditPosted
  <2> QED
    BY <2>7, <2>9 DEF Rest
<1>5. CASE PostsInit(h, FALSE)
  <2>1. /\ tasks' = <<>> /\ (h.override # None \/ h.activeUri = None)
        /\ \E init \in Inits :
              /\ toView' = Posted(<<>>, init, FALSE)
              /\ Tells(init, h) /\ host'.currentForm = init.form
    BY <1>0, <1>5 DEF PostsInit
  <2>2. PICK init \in Inits : /\ toView' = Posted(<<>>, init, FALSE)
                              /\ Tells(init, h) /\ host'.currentForm = init.form
    BY <2>1
  <2>3. toView' = Append(<<>>, init) /\ init \in ViewMessages /\ init.type = "init"
    BY <2>2 DEF Posted, Tells, ViewMessages
  <2>4. /\ toView' # <<>> /\ Len(toView') = 1 /\ toView'[1] = init
        /\ \A types : Has(toView', types) <=> "init" \in types
        /\ \A types : Latest(toView', types) = IF "init" \in types THEN 1 ELSE 0
    BY <2>3, OneMessage
  <2>5. \A i \in 1..Len(toView') : toView'[i] = init
    BY <2>4
  <2>6. \A types : ~Has(toHost', types)
    BY <1>1, <1>0
  <2>7. tasks' = tasks /\ toHost' = toHost
    BY <1>0, <1>1, <2>1
  <2>8. Phases' /\ ClickAlone' /\ SaveAlone' /\ InitsCurrent' /\ ClickTellsFile' /\ EmitTellsFile'
    BY <1>0, <1>1, <1>3, <1>a, <2>4, <2>6, <2>7
       DEF Phases, ClickAlone, SaveAlone, InitsCurrent, ClickTellsFile, EmitTellsFile
  <2>9. SavedHasFile'
    BY <1>2, <2>2, <2>4, <2>5 DEF SavedHasFile, Tells
  <2>10. FileShown'
    BY <1>2, <2>1 DEF FileShown
  <2>11. WizardComes'
    BY <1>1, <1>2, <1>3, <2>1, <2>4 DEF WizardComes, WizardDue
  <2>12. Compiled'
    <3>1. Latest(toView', {"init", "update"}) = 1
      BY <2>4
    <3>2. SaysValid' = init.valid
      BY <2>4, <3>1 DEF SaysValid
    <3> QED
      BY <2>2, <3>2 DEF Compiled, Tells
  <2>13. EditCompiled' /\ EditPosted'
    BY <2>4, <2>6 DEF EditCompiled, EditPosted
  <2> QED
    BY <2>8, <2>9, <2>10, <2>11, <2>12, <2>13 DEF Rest
<1> QED
  BY <1>2, <1>4, <1>5

LEMMA LoadStep ==
    ASSUME IInv, Load
    PROVE  Rest'
<1>1. /\ panel = "loading" /\ panel' = "open" /\ toView' \in {toView, <<>>}
      /\ toHost' = <<[type |-> "ready"]>> /\ view' = NoView
      /\ UNCHANGED <<host, tasks, timer, disk, stale, editor, wanted>>
  BY DEF Load, fileVars
<1>2. /\ ~Waiting(tasks, {"dialog", "write", "emit"}) /\ ~Has(toView, {"saved"})
      /\ Rest /\ toView \in Seq(ViewMessages)
  BY <1>1 DEF IInv, Rest, Phases, Types
<1>3. ~Waiting(tasks, {"dialog", "write"}) /\ ~Waiting(tasks, {"emit"})
      /\ \A i \in 1..Len(tasks) : tasks[i].kind \notin {"write", "emit"}
  BY <1>2 DEF Waiting
<1>4. /\ \A types : Has(toHost', types) <=> "ready" \in types
      /\ toHost' # <<>> /\ Head(toHost').type = "ready" /\ OnlyEdits(Tail(toHost'))
  <2> DEFINE m == [type |-> "ready"]
  <2>1. m.type = "ready" /\ m \in HostMessages
    BY DEF HostMessages
  <2> HIDE DEF m
  <2>2. toHost' = Append(<<>>, m)
    BY <1>1 DEF m
  <2>3. /\ toHost' # <<>> /\ Head(toHost') = m /\ Tail(toHost') = <<>>
        /\ \A types : Has(toHost', types) <=> m.type \in types
    BY <2>1, <2>2, OneMessage
  <2> QED
    BY <2>1, <2>3, HasNothing DEF OnlyEdits
<1>5. ReloadDue' /\ ~Has(toView', {"saved"}) /\ ~view'.saved /\ ~view'.dirty
  BY <1>1, <1>2, <1>4, HasNothing DEF ReloadDue, NoView
<1>6. Phases' /\ ClickAlone' /\ SaveAlone' /\ InitsCurrent' /\ ClickTellsFile' /\ EmitTellsFile'
  BY <1>1, <1>2, <1>3, <1>4, <1>5
     DEF Rest, Phases, ClickAlone, SaveAlone, InitsCurrent, ClickTellsFile, EmitTellsFile, Clicks
<1>7. SavedHasFile'
  <2>1. 1..Len(<<>>) = {}
    OBVIOUS
  <2> QED
    BY <1>1, <1>2, <1>5, <2>1 DEF Rest, SavedHasFile
<1>8. WizardComes'
  BY <1>1, <1>2, <1>4, <1>5 DEF Rest, WizardComes, WizardDue
<1>9. FileShown' /\ Compiled' /\ EditCompiled' /\ EditPosted'
  BY <1>5 DEF FileShown, Compiled, EditCompiled, EditPosted
<1> QED
  BY <1>6, <1>7, <1>8, <1>9 DEF Rest

LEMMA EditStep ==
    ASSUME IInv, NEW f \in Forms, Edit(f)
    PROVE  Rest'
<1>1. /\ panel = "open" /\ timer' = TRUE /\ Rest /\ Types
      /\ UNCHANGED <<panel, host, tasks, toView, toHost, disk, stale, editor, wanted>>
  BY DEF IInv, Edit, hostVars, fileVars
<1>2. /\ view'.saved = view.saved /\ view'.dirty = TRUE /\ view'.lastValid = view.lastValid
      /\ view'.wizard = view.wizard /\ view'.source = view.source
  BY <1>1, EditEffect DEF ViewIs
<1>3. ReloadDue' = ReloadDue /\ SaysValid' = SaysValid /\ WizardOpens' = WizardOpens
  BY <1>1, <1>2 DEF ReloadDue, SaysValid, WizardOpens
<1>4. Phases' /\ ClickAlone' /\ SaveAlone' /\ InitsCurrent' /\ ClickTellsFile'
  BY <1>1 DEF Rest, Phases, ClickAlone, SaveAlone, InitsCurrent, ClickTellsFile
<1>5. EmitTellsFile'
  BY <1>1, <1>3 DEF Rest, EmitTellsFile
<1>6. SavedHasFile' /\ WizardComes'
  BY <1>1, <1>2, <1>3 DEF Rest, SavedHasFile, WizardComes, WizardDue
<1>7. FileShown'
  BY <1>1, <1>2, <1>3 DEF Rest, FileShown, InSight
<1>8. Compiled' /\ EditCompiled' /\ EditPosted'
  BY <1>1, <1>3 DEF Rest, Compiled, EditCompiled, EditPosted
<1> QED
  BY <1>4, <1>5, <1>6, <1>7, <1>8 DEF Rest

(* A message is posted behind what is there. *)
LEMMA BehindEdits ==
    ASSUME NEW queue \in Seq(HostMessages), NEW m \in HostMessages, queue # <<>>,
           m.type = "applyForm"
    PROVE  /\ Append(queue, m) # <<>> /\ Head(Append(queue, m)) = Head(queue)
           /\ OnlyEdits(Tail(queue)) => OnlyEdits(Tail(Append(queue, m)))
<1>1. /\ Append(queue, m) # <<>> /\ Head(Append(queue, m)) = Head(queue)
      /\ Tail(Append(queue, m)) = Append(Tail(queue), m) /\ Tail(queue) \in Seq(HostMessages)
  OBVIOUS
<1>2. ~Has(Tail(queue), MessageTypes \ {"applyForm"})
      => ~Has(Append(Tail(queue), m), MessageTypes \ {"applyForm"})
  BY <1>1, HasAppend
<1> QED
  BY <1>1, <1>2 DEF OnlyEdits

LEMMA TimerStep ==
    ASSUME IInv, TimerFires
    PROVE  Rest'
<1> DEFINE m == [type |-> "applyForm", form |-> view.form]
<1>1. /\ Rest /\ Types /\ timer' = FALSE /\ toHost' = Append(toHost, m)
      /\ UNCHANGED <<panel, host, tasks, toView, view, disk, stale, editor, wanted>>
  BY DEF IInv, TimerFires, hostVars, fileVars
<1>2. panel = "open"
  BY DEF IInv, Rest, Phases, Types, TimerFires
<1>3. m \in HostMessages /\ m.type = "applyForm" /\ m.form = view.form
      /\ toHost \in Seq(HostMessages)
  BY <1>1, ViewFields DEF Types, HostMessages, ByForm
<1> HIDE DEF m
<1>4. /\ \A types : Has(toHost', types) <=> Has(toHost, types) \/ "applyForm" \in types
      /\ Latest(toHost', {"applyForm", "createDevice"}) = Len(toHost) + 1
      /\ toHost'[Len(toHost) + 1] = m
  <2>1. "applyForm" \in {"applyForm", "createDevice"}
    OBVIOUS
  <2>2. \A types : Has(toHost', types) <=> Has(toHost, types) \/ "applyForm" \in types
    BY <1>1, <1>3, HasAppend
  <2>3. Latest(toHost', {"applyForm", "createDevice"}) = Len(toHost) + 1
    BY <1>1, <1>3, <2>1, LatestAppend
  <2>4. toHost'[Len(toHost) + 1] = m
    BY <1>1, <1>3, AppendFacts
  <2> QED
    BY <2>2, <2>3, <2>4
<1>5. toHost # <<>> => /\ toHost' # <<>> /\ Head(toHost') = Head(toHost)
                       /\ OnlyEdits(Tail(toHost)) => OnlyEdits(Tail(toHost'))
  BY <1>1, <1>3, BehindEdits
<1>6. \A types : Has(toHost, types) => toHost # <<>>
  BY HasNothing
<1>7. /\ ReloadDue' = ReloadDue /\ SaysValid' = SaysValid /\ WizardOpens' = WizardOpens
      /\ OnlyEdits(toHost) => OnlyEdits(toHost')
  BY <1>1, <1>4 DEF ReloadDue, SaysValid, WizardOpens, OnlyEdits
<1>8. Phases' /\ InitsCurrent'
  BY <1>1, <1>2 DEF Rest, Phases, InitsCurrent
<1>9. ClickAlone' /\ ClickTellsFile'
  BY <1>1, <1>4, <1>5, <1>6 DEF Rest, ClickAlone, ClickTellsFile, Clicks
<1>10. SaveAlone'
  BY <1>1, <1>4, <1>7 DEF Rest, SaveAlone
<1>11. EmitTellsFile'
  BY <1>1, <1>7 DEF Rest, EmitTellsFile
<1>12. SavedHasFile'
  BY <1>1 DEF Rest, SavedHasFile
<1>13. WizardComes'
  BY <1>1, <1>5, <1>7 DEF Rest, WizardComes, WizardDue
<1>14. FileShown'
  BY <1>1, <1>4, <1>7 DEF Rest, FileShown, InSight
<1>15. Compiled'
  BY <1>1, <1>7 DEF Rest, Compiled
<1>16. EditCompiled' /\ EditPosted'
  BY <1>1, <1>3, <1>4 DEF EditCompiled, EditPosted
<1> QED
  BY <1>8, <1>9, <1>10, <1>11, <1>12, <1>13, <1>14, <1>15, <1>16 DEF Rest

LEMMA ActionStep ==
    ASSUME IInv, NEW act \in Clicks, doAction(act)
    PROVE  Rest'
<1> DEFINE m == [type |-> act, form |-> view.form]
<1>0. /\ Types /\ Rest
      /\ tasks = <<>> /\ toHost = <<>> /\ toView = <<>> /\ timer = FALSE
      /\ \A types : ~Has(toHost, types) /\ ~Has(toView, types)
      /\ \A kinds : ~Waiting(tasks, kinds)
      /\ \A types : Latest(toView, types) = 0
      /\ ~ReloadDue
  BY AtRest, NoReload DEF IInv, Rest, doAction
<1>1. /\ panel = "open" /\ ~view.wizard
      /\ act \in {"generate", "scaffold"} => view.saved /\ ~view.dirty
      /\ toHost' = Append(<<>>, m)
      /\ UNCHANGED <<panel, host, tasks, toView, view, timer, disk, stale, editor, wanted>>
  BY <1>0 DEF doAction, GenerateOffered, hostVars, fileVars
<1>2. m \in HostMessages /\ m.type = act /\ m.form = view.form
  BY <1>0, ViewFields DEF Types, HostMessages, ByForm
<1> HIDE DEF m
<1>3. /\ toHost' # <<>> /\ Head(toHost') = m /\ Tail(toHost') = <<>>
      /\ \A types : Has(toHost', types) <=> act \in types
  BY <1>1, <1>2, OneMessage
<1>4. act \notin {"ready", "refresh", "createDevice", "applyForm"}
  BY DEF Clicks
<1>5. ~ReloadDue' /\ SaysValid' = SaysValid
  BY <1>0, <1>1, <1>3, <1>4 DEF ReloadDue, SaysValid
<1>6. 1..Len(<<>>) = {}
  OBVIOUS
<1>7. Phases' /\ SaveAlone' /\ InitsCurrent' /\ EmitTellsFile'
  BY <1>0, <1>1, <1>6 DEF Phases, SaveAlone, InitsCurrent, EmitTellsFile
<1>8. ClickAlone'
  BY <1>0, <1>1, <1>2, <1>3, HasNothing DEF ClickAlone, OnlyEdits
<1>9. SavedHasFile'
  BY <1>0, <1>1 DEF Rest, SavedHasFile
<1>10. FileShown'
  BY <1>0, <1>1, <1>3, <1>4, <1>5 DEF Rest, FileShown, InSight
<1>11. ClickTellsFile'
  <2> SUFFICES ASSUME act \in {"generate", "scaffold"}
               PROVE  /\ host.activeUri # None
                      /\ host.override = None /\ host.activeUri \notin stale =>
                            view.form = manifestToForm(disk[host.activeUri])
    BY <1>1, <1>2, <1>3 DEF ClickTellsFile
  <2>1. host.activeUri # None
    BY <1>0, <1>1 DEF Rest, SavedHasFile
  <2> QED
    BY <1>0, <1>1, <2>1 DEF Rest, FileShown, InSight
<1>12. WizardComes'
  <2>1. ~wanted
    BY <1>0, <1>1 DEF Rest, WizardComes, WizardDue, WizardOpens
  <2> QED
    BY <1>1, <2>1 DEF WizardComes
<1>13. Compiled' /\ EditCompiled' /\ EditPosted'
  BY <1>0, <1>1, <1>3, <1>4, <1>5 DEF Rest, Compiled, EditCompiled, EditPosted
<1> QED
  BY <1>7, <1>8, <1>9, <1>10, <1>11, <1>12, <1>13 DEF Rest

LEMMA CreateStep ==
    ASSUME IInv, NEW tile \in Tiles, createFromForm(tile)
    PROVE  Rest'
<1> DEFINE m == [type |-> "createDevice", form |-> TileForm(tile)]
<1>0. /\ Types /\ Rest
      /\ tasks = <<>> /\ toHost = <<>> /\ toView = <<>> /\ timer = FALSE
      /\ \A types : ~Has(toHost, types) /\ ~Has(toView, types)
      /\ \A kinds : ~Waiting(tasks, kinds)
      /\ \A types : Latest(toView, types) = 0
      /\ ~ReloadDue
  BY AtRest, NoReload DEF IInv, Rest, createFromForm
<1>1. /\ panel = "open" /\ wanted' = FALSE /\ toHost' = Append(<<>>, m)
      /\ UNCHANGED <<panel, host, tasks, toView, timer, disk, stale, editor>>
  BY <1>0 DEF createFromForm, hostVars, fileVars
<1>2. /\ TileForm(tile) \in AllForms
      /\ view'.form = TileForm(tile) /\ view'.saved = view.saved /\ view'.dirty = view.dirty
      /\ view'.lastValid = view.lastValid
  BY <1>0, CreateEffect DEF ViewIs
<1>3. m \in HostMessages /\ m.type = "createDevice" /\ m.form = TileForm(tile)
  BY <1>2 DEF HostMessages, ByForm
<1> HIDE DEF m
<1>4. /\ toHost' # <<>> /\ Head(toHost') = m /\ Tail(toHost') = <<>> /\ toHost'[1] = m
      /\ \A types : Has(toHost', types) <=> "createDevice" \in types
      /\ Latest(toHost', {"applyForm", "createDevice"}) = 1
  BY <1>1, <1>3, OneMessage
<1>5. ~ReloadDue' /\ SaysValid' = SaysValid
  BY <1>0, <1>1, <1>2, <1>4 DEF ReloadDue, SaysValid
<1>6. 1..Len(<<>>) = {}
  OBVIOUS
<1>7. Phases' /\ SaveAlone' /\ InitsCurrent' /\ EmitTellsFile'
  BY <1>0, <1>1, <1>6 DEF Phases, SaveAlone, InitsCurrent, EmitTellsFile
<1>8. ClickAlone'
  BY <1>0, <1>1, <1>3, <1>4, HasNothing DEF ClickAlone, OnlyEdits
<1>9. SavedHasFile' /\ WizardComes'
  BY <1>0, <1>1, <1>2 DEF Rest, SavedHasFile, WizardComes
<1>10. FileShown' /\ ClickTellsFile'
  BY <1>4 DEF FileShown, ClickTellsFile
<1>11. Compiled' /\ EditCompiled'
  BY <1>0, <1>1, <1>4, <1>5 DEF Rest, Compiled, EditCompiled
<1>12. EditPosted'
  BY <1>2, <1>3, <1>4 DEF EditPosted
<1> QED
  BY <1>7, <1>8, <1>9, <1>10, <1>11, <1>12 DEF Rest

(* What is left of a queue once its first message is received. *)
LEMMA Received ==
    ASSUME NEW S, NEW queue \in Seq(S), queue # <<>>
    PROVE  /\ \A types : Has(Tail(queue), types) => Has(queue, types)
           /\ \A types : Head(queue).type \notin types =>
                 (Has(queue, types) => Has(Tail(queue), types))
           /\ \A types : Head(queue).type \in types => Has(queue, types)
           /\ \A i \in 1..Len(Tail(queue)) : \E j \in 1..Len(queue) : Tail(queue)[i] = queue[j]
           /\ \E j \in 1..Len(queue) : Head(queue) = queue[j]
<1>1. \A types : Has(queue, types) <=> Head(queue).type \in types \/ Has(Tail(queue), types)
  BY HasTail
<1>2. /\ Len(queue) \in Nat \ {0} /\ Len(Tail(queue)) = Len(queue) - 1
      /\ \A i \in 1..(Len(queue) - 1) : Tail(queue)[i] = queue[i + 1]
      /\ Head(queue) = queue[1]
  BY TailFacts
<1>3. \A i \in 1..(Len(queue) - 1) : i + 1 \in 1..Len(queue)
  BY <1>2
<1>4. 1 \in 1..Len(queue)
  BY <1>2
<1> QED
  BY <1>1, <1>2, <1>3, <1>4

LEMMA ViewStep ==
    ASSUME IInv, ViewReceives
    PROVE  Rest'
<1> DEFINE m == Head(toView)
<1>1. /\ Types /\ Rest /\ panel = "open" /\ toView # <<>> /\ toView' = Tail(toView)
      /\ toView \in Seq(ViewMessages) /\ toHost \in Seq(HostMessages)
      /\ UNCHANGED <<panel, host, tasks, timer, disk, stale, editor, wanted>>
  BY DEF IInv, Types, ViewReceives, fileVars
<1>2. /\ m \in ViewMessages /\ ViewAfter(m)
      /\ toHost' = IF m.type = "saved" THEN Append(toHost, [type |-> "refresh"]) ELSE toHost
  BY <1>1, ReceiveEffect
<1>3. /\ \A types : Has(toView', types) => Has(toView, types)
      /\ \A types : m.type \notin types => (Has(toView, types) => Has(toView', types))
      /\ \A types : m.type \in types => Has(toView, types)
      /\ \A i \in 1..Len(toView') : \E j \in 1..Len(toView) : toView'[i] = toView[j]
      /\ \E j \in 1..Len(toView) : m = toView[j]
  BY <1>1, Received
<1>4. ASSUME NEW types
      PROVE  /\ Latest(toView', types) # 0
                  => /\ Latest(toView, types) # 0
                     /\ toView[Latest(toView, types)] = toView'[Latest(toView', types)]
             /\ Latest(toView', types) = 0 /\ m.type \in types
                  => Latest(toView, types) = 1 /\ toView[1] = m
             /\ Latest(toView', types) = 0 /\ m.type \notin types
                  => Latest(toView, types) = 0
             /\ Latest(toView', types) = 0 <=> ~Has(toView', types)
             /\ Latest(toView, types) = 0 <=> ~Has(toView, types)
  <2>1. /\ Latest(toView', types) # 0
             => /\ Latest(toView, types) = Latest(toView', types) + 1
                /\ toView[Latest(toView, types)] = toView'[Latest(toView', types)]
        /\ Latest(toView', types) = 0 /\ m.type \in types
             => Latest(toView, types) = 1 /\ toView[1] = m
        /\ Latest(toView', types) = 0 /\ m.type \notin types
             => Latest(toView, types) = 0
    BY <1>1, LatestTail
  <2>2. toView' \in Seq(ViewMessages)
    BY <1>1
  <2>3. /\ Latest(toView', types) \in 0..Len(toView') /\ Len(toView') \in Nat
        /\ Latest(toView', types) = 0 <=> ~Has(toView', types)
        /\ Latest(toView, types) = 0 <=> ~Has(toView, types)
    BY <1>1, <2>2, LatestIs
  <2>4. Latest(toView', types) + 1 # 0
    BY <2>3
  <2> QED
    BY <2>1, <2>3, <2>4
<1>5. m.type \in {"init", "update", "saved", "openWizard"}
  BY <1>2 DEF ViewMessages, Inits, Updates
<1> HIDE DEF m
<1>6. CASE m.type = "saved"
  <2>1. Has(toView, {"saved"}) /\ toHost' = Append(toHost, [type |-> "refresh"])
    BY <1>2, <1>3, <1>6
  <2>2. \A types : Has(toHost', types) <=> Has(toHost, types) \/ "refresh" \in types
    <3> DEFINE r == [type |-> "refresh"]
    <3>1. r \in HostMessages /\ r.type = "refresh"
      BY DEF HostMessages
    <3> HIDE DEF r
    <3>2. toHost' = Append(toHost, r)
      BY <2>1 DEF r
    <3> QED
      BY <1>1, <3>1, <3>2, HasAppend
  <2>3. view'.saved = TRUE /\ view'.dirty = FALSE
    BY <1>2, <1>6 DEF ViewAfter, ViewIs
  <2>4. ReloadDue /\ ReloadDue'
    BY <2>1, <2>2 DEF ReloadDue
  <2>5. host.activeUri # None /\ ~wanted
    BY <1>1, <2>1 DEF Rest, SavedHasFile, WizardComes, WizardDue
  <2>6. ~Has(toHost, Clicks \union {"createDevice"})
    BY <1>1, <2>1 DEF Rest, ClickAlone
  <2>7. ~Has(toHost', Clicks \union {"createDevice"}) /\ ~Has(toHost', {"generate", "scaffold"})
    <3>1. ~Has(toHost, {"generate", "scaffold"})
      BY <2>6 DEF Has, Clicks
    <3> QED
      BY <2>2, <2>6, <3>1 DEF Clicks
  <2>8. Phases' /\ InitsCurrent'
    BY <1>1 DEF Rest, Phases, InitsCurrent
  <2>9. ClickAlone' /\ ClickTellsFile'
    BY <2>7 DEF ClickAlone, ClickTellsFile
  <2>10. SaveAlone'
    BY <1>1, <2>1, <2>2 DEF Rest, SaveAlone
  <2>11. EmitTellsFile'
    BY <1>1, <2>4 DEF Rest, EmitTellsFile
  <2>12. SavedHasFile' /\ WizardComes'
    BY <1>1, <2>5 DEF SavedHasFile, WizardComes
  <2>13. FileShown' /\ Compiled' /\ EditCompiled' /\ EditPosted'
    BY <2>3, <2>4 DEF FileShown, Compiled, EditCompiled, EditPosted
  <2> QED
    BY <2>8, <2>9, <2>10, <2>11, <2>12, <2>13 DEF Rest
<1>7. CASE m.type # "saved"
  <2>1. toHost' = toHost
    BY <1>2, <1>7
  <2>2. Has(toView', {"saved"}) = Has(toView, {"saved"})
    BY <1>3, <1>7 DEF Has
  <2>3. ReloadDue' = ReloadDue
    BY <1>1, <2>1, <2>2 DEF ReloadDue
  <2>4. /\ m.type = "init" =>
              /\ view'.form = m.form /\ view'.saved = m.saved /\ view'.dirty = FALSE
              /\ view'.lastValid = m.valid /\ view'.wizard = ~m.hasDevice /\ view'.source = m.source
        /\ m.type = "update" =>
              /\ view'.form = view.form /\ view'.saved = m.saved /\ view'.dirty = view.dirty
              /\ view'.lastValid = m.valid /\ view'.wizard = view.wizard
              /\ view'.source = view.source
        /\ m.type = "openWizard" =>
              /\ view'.form = view.form /\ view'.saved = view.saved /\ view'.dirty = view.dirty
              /\ view'.lastValid = view.lastValid /\ view'.wizard = TRUE
              /\ view'.source = view.source
    BY <1>2 DEF ViewAfter, ViewIs
  <2>5. Phases' /\ InitsCurrent'
    BY <1>1 DEF Rest, Phases, InitsCurrent
  <2>6. ClickAlone'
    BY <1>1, <2>1, <2>2 DEF Rest, ClickAlone
  <2>7. ClickTellsFile' /\ SaveAlone'
    BY <1>1, <2>1, <2>2 DEF Rest, ClickTellsFile, SaveAlone
  <2>8. EmitTellsFile'
    BY <1>1, <2>3 DEF Rest, EmitTellsFile
  <2>9. SavedHasFile'
    <3> SUFFICES ASSUME host.activeUri = None PROVE SavedHasFile'
      BY <1>1 DEF SavedHasFile
    <3>1. /\ ~Has(toView, {"saved"})
          /\ \A i \in 1..Len(toView) : toView[i].type \in {"init", "update"} => ~toView[i].saved
          /\ view.saved => Has(toView, {"init", "update"})
      BY <1>1 DEF Rest, SavedHasFile
    <3>2. m.type \in {"init", "update"} => ~m.saved
      BY <1>3, <3>1
    <3>3. \A i \in 1..Len(toView') : toView'[i].type \in {"init", "update"} => ~toView'[i].saved
      BY <1>3, <3>1
    <3>4. view'.saved => Has(toView', {"init", "update"})
      BY <1>3, <1>5, <1>7, <2>4, <3>1, <3>2
    <3> QED
      BY <2>2, <3>1, <3>3, <3>4 DEF SavedHasFile
  <2>10. FileShown'
    <3> SUFFICES ASSUME host.override = None, host.activeUri # None, host.activeUri \notin stale,
                        ~ReloadDue, ~Has(toHost, {"createDevice"}),
                        Has(toView', {"init"}) \/ ~view'.dirty
                 PROVE  InSight'.source = host.activeUri
                        /\ InSight'.form = manifestToForm(disk[host.activeUri])
      BY <1>1, <2>1, <2>3 DEF FileShown
    <3>1. Has(toView, {"init"}) \/ ~view.dirty
      BY <1>3, <1>5, <1>7, <2>4
    <3>2. /\ InSight.source = host.activeUri
          /\ InSight.form = manifestToForm(disk[host.activeUri])
      BY <1>1, <3>1 DEF Rest, FileShown
    <3>3. InSight'.source = InSight.source /\ InSight'.form = InSight.form
      <4>1. CASE Has(toView', {"init"})
        BY <1>4, <4>1 DEF InSight
      <4>2. CASE ~Has(toView', {"init"}) /\ m.type = "init"
        <5>1. Latest(toView, {"init"}) = 1 /\ toView[1] = m /\ Has(toView, {"init"})
          BY <1>3, <1>4, <4>2
        <5> QED
          BY <2>4, <4>2, <5>1 DEF InSight
      <4>3. CASE ~Has(toView', {"init"}) /\ m.type # "init"
        <5>1. ~Has(toView, {"init"})
          BY <1>3, <4>3
        <5> QED
          BY <1>5, <1>7, <2>4, <4>3, <5>1 DEF InSight
      <4> QED
        BY <4>1, <4>2, <4>3
    <3> QED
      BY <3>2, <3>3
  <2>11. WizardComes'
    <3>1. WizardOpens => WizardOpens'
      <4> DEFINE types == {"init", "openWizard"}
      <4>1. CASE Latest(toView', types) # 0
        BY <1>4, <4>1 DEF WizardOpens
      <4>2. CASE Latest(toView', types) = 0 /\ m.type \in types
        <5>1. Latest(toView, types) = 1 /\ toView[1] = m
          BY <1>4, <4>2
        <5>2. WizardOpens => m.type = "openWizard"
          BY <5>1 DEF WizardOpens
        <5> QED
          BY <2>4, <4>2, <5>2 DEF WizardOpens
      <4>3. CASE Latest(toView', types) = 0 /\ m.type \notin types
        <5>1. Latest(toView, types) = 0 /\ m.type = "update"
          BY <1>4, <1>5, <1>7, <4>3
        <5> QED
          BY <2>4, <4>3, <5>1 DEF WizardOpens
      <4> QED
        BY <4>1, <4>2, <4>3
    <3> QED
      BY <1>1, <2>1, <2>2, <3>1 DEF Rest, WizardComes, WizardDue
  <2>12. SaysValid' = SaysValid
    <3> DEFINE types == {"init", "update"}
    <3>1. CASE Latest(toView', types) # 0
      BY <1>4, <3>1 DEF SaysValid
    <3>2. CASE Latest(toView', types) = 0 /\ m.type \in types
      <4>1. Latest(toView, types) = 1 /\ toView[1] = m
        BY <1>4, <3>2
      <4> QED
        BY <2>4, <3>2, <4>1 DEF SaysValid
    <3>3. CASE Latest(toView', types) = 0 /\ m.type \notin types
      <4>1. Latest(toView, types) = 0 /\ m.type = "openWizard"
        BY <1>4, <1>5, <1>7, <3>3
      <4> QED
        BY <2>4, <3>3, <4>1 DEF SaysValid
    <3> QED
      BY <3>1, <3>2, <3>3
  <2>13. Compiled'
    BY <1>1, <2>3, <2>12 DEF Rest, Compiled
  <2>14. view'.dirty => view'.form = view.form /\ view.dirty /\ m.type # "init"
    BY <1>5, <1>7, <2>4
  <2>15. EditCompiled'
    <3>1. m.type # "init" => (Has(toView, {"init"}) => Has(toView', {"init"}))
      BY <1>3
    <3> QED
      BY <1>1, <2>1, <2>3, <2>12, <2>14, <3>1 DEF Rest, EditCompiled
  <2>16. EditPosted'
    BY <1>1, <2>1, <2>14 DEF Rest, EditPosted
  <2> QED
    BY <2>5, <2>6, <2>7, <2>8, <2>9, <2>10, <2>11, <2>13, <2>15, <2>16 DEF Rest
<1> QED
  BY <1>6, <1>7

(* The queue of the host, once its first message is received. *)
LEMMA Heard ==
    ASSUME IInv, HostReceives
    PROVE  /\ Types /\ Rest /\ panel = "open" /\ toHost # <<>> /\ toHost' = Tail(toHost)
           /\ UNCHANGED <<panel, view, timer, disk, stale, editor, wanted>>
           /\ \A types : Has(toHost', types) => Has(toHost, types)
           /\ \A types : Head(toHost).type \notin types =>
                 (Has(toHost, types) => Has(toHost', types))
           /\ \A types : Head(toHost).type \in types => Has(toHost, types)
           /\ Phases' /\ EditPosted'
           /\ OnlyEdits(toHost) => OnlyEdits(toHost')
<1>1. /\ Types /\ Rest /\ panel = "open" /\ toHost # <<>> /\ toHost' = Tail(toHost)
      /\ toHost \in Seq(HostMessages)
      /\ UNCHANGED <<panel, view, timer, disk, stale, editor, wanted>>
  BY DEF IInv, Types, HostReceives, fileVars
<1>2. /\ \A types : Has(toHost', types) => Has(toHost, types)
      /\ \A types : Head(toHost).type \notin types =>
            (Has(toHost, types) => Has(toHost', types))
      /\ \A types : Head(toHost).type \in types => Has(toHost, types)
  BY <1>1, Received
<1>3. Phases'
  BY <1>1 DEF Phases
<1>4. EditPosted'
  <2> DEFINE types == {"applyForm", "createDevice"}
  <2> SUFFICES ASSUME view.dirty, ~timer, Has(toHost', types)
               PROVE  toHost'[Latest(toHost', types)].form = view.form
    BY <1>1 DEF EditPosted
  <2>1. toHost' \in Seq(HostMessages)
    BY <1>1
  <2>2. Latest(toHost', types) # 0
    BY <2>1, LatestIs
  <2>3. toHost[Latest(toHost, types)] = toHost'[Latest(toHost', types)]
    BY <1>1, <2>2, LatestTail
  <2>4. Has(toHost, types)
    BY <1>2
  <2> QED
    BY <1>1, <2>3, <2>4 DEF Rest, EditPosted
<1>5. OnlyEdits(toHost) => OnlyEdits(toHost')
  BY <1>2 DEF OnlyEdits
<1> QED
  BY <1>1, <1>2, <1>3, <1>4, <1>5

(* The webview has started, or has had its file saved. *)
LEMMA ReloadStep ==
    ASSUME IInv, HostReceives, Head(toHost).type \in {"ready", "refresh"},
           NEW h \in Hosts, h.activeUri = host.activeUri, h.override = host.override, Found(h),
           NEW wizard \in BOOLEAN, SendInit(h, wizard),
           Head(toHost).type = "ready" => wizard = host.pendingWizard
    PROVE  Rest'
<1> DEFINE m == Head(toHost)
<1>1. /\ Types /\ Rest /\ panel = "open" /\ toHost # <<>> /\ toHost' = Tail(toHost)
      /\ UNCHANGED <<panel, view, timer, disk, stale, editor, wanted>>
      /\ \A types : Has(toHost', types) => Has(toHost, types)
      /\ \A types : m.type \in types => Has(toHost, types)
      /\ Phases' /\ EditPosted'
  BY Heard
<1>2. tasks \in Seq(Reads \union Works) /\ toView \in Seq(ViewMessages)
  BY <1>1 DEF Types
<1> HIDE DEF m
<1>3. m.type \in {"ready", "refresh"} /\ (m.type = "ready" => wizard = host.pendingWizard)
  BY DEF m
<1>4. /\ ReloadDue
      /\ ~Has(toHost, Clicks \union {"createDevice"}) /\ ~OnlyEdits(toHost)
      /\ m.type = "ready" => Has(toHost, MessageTypes \ {"applyForm", "refresh"})
  <2>1. m.type \notin Clicks \union {"createDevice"} /\ m.type \in MessageTypes \ {"applyForm"}
    BY <1>3 DEF Clicks, MessageTypes
  <2>2. ~Has(toHost, Clicks \union {"createDevice"})
    BY <1>1, <2>1 DEF Rest, ClickAlone, m
  <2>3. ~OnlyEdits(toHost)
    BY <1>1, <2>1 DEF OnlyEdits
  <2>4. Has(toHost, {"ready", "refresh"})
    BY <1>1, <1>3
  <2>5. m.type = "ready" => Has(toHost, MessageTypes \ {"applyForm", "refresh"})
    <3>1. "ready" \in MessageTypes \ {"applyForm", "refresh"}
      BY DEF MessageTypes
    <3> QED
      BY <1>1, <3>1
  <2> QED
    BY <2>2, <2>3, <2>4, <2>5 DEF ReloadDue
<1>5. ~Waiting(tasks, {"dialog", "write"}) /\ (m.type = "ready" => ~Waiting(tasks, {"emit"}))
  BY <1>1, <1>4 DEF Rest, SaveAlone
<1>6. ~Has(toHost', Clicks \union {"createDevice"}) /\ ~Has(toHost', {"generate", "scaffold"})
  <2>1. ~Has(toHost, {"generate", "scaffold"})
    BY <1>4 DEF Has, Clicks
  <2> QED
    BY <1>1, <1>4, <2>1
<1>7. /\ host'.activeUri = host.activeUri /\ host'.override = host.override
      /\ ReadsFile(h, wizard) \/ PostsInit(h, wizard)
  BY <1>1, SendInitEffect
<1>8. ClickAlone' /\ ClickTellsFile'
  BY <1>6 DEF ClickAlone, ClickTellsFile
<1>9. wanted => m.type = "ready" /\ WizardDue
  BY <1>1, <1>4 DEF Rest, WizardComes, WizardDue, m
<1>10. \A i \in 1..Len(tasks) : tasks[i].kind = "emit" => m.type = "refresh" /\ Told(tasks[i], disk)
  <2>1. \A i \in 1..Len(tasks) : tasks[i].kind = "emit" => m.type = "refresh"
    BY <1>3, <1>5 DEF Waiting
  <2> QED
    BY <1>1, <1>4, <2>1 DEF Rest, EmitTellsFile
<1>11. CASE ReadsFile(h, wizard)
  <2>1. PICK t : t = [kind |-> "init", uri |-> h.activeUri, wizard |-> wizard]
    OBVIOUS
  <2>2. /\ h.override = None /\ h.activeUri # None /\ tasks' = Append(tasks, t) /\ toView' = toView
        /\ t \in Reads \union Works /\ t.kind = "init" /\ t.uri = h.activeUri
    BY <1>11, <2>1, HostFields DEF ReadsFile, Reads
  <2>3. \A kinds : Waiting(tasks', kinds) <=> Waiting(tasks, kinds) \/ "init" \in kinds
    BY <1>2, <2>2, WaitingAppend
  <2>4. /\ Len(tasks) \in Nat /\ Len(tasks') = Len(tasks) + 1
        /\ \A i \in 1..Len(tasks) : tasks'[i] = tasks[i]
        /\ tasks'[Len(tasks) + 1] = t
    BY <1>2, <2>2, AppendFacts
  <2>5. \A i \in 1..Len(tasks') : \/ i \in 1..Len(tasks) /\ tasks'[i] = tasks[i]
                                  \/ tasks'[i] = t
    BY <2>4
  <2>6. ReloadDue' /\ ~wanted
    <3>1. WizardDue => ~(h.activeUri # None)
      BY DEF WizardDue
    <3> QED
      BY <1>9, <2>2, <2>3, <3>1 DEF ReloadDue
  <2>7. SaveAlone'
    <3>1. ~Waiting(tasks', {"dialog", "write"})
      BY <1>5, <2>3
    <3>2. Waiting(tasks', {"emit"}) => ~Has(toHost', MessageTypes \ {"applyForm", "refresh"})
      BY <1>1, <2>3 DEF Rest, SaveAlone
    <3>3. \A i, j \in 1..Len(tasks') :
             tasks'[i].kind = "emit" /\ tasks'[j].kind # "init" => i = j
      BY <1>1, <2>2, <2>5 DEF Rest, SaveAlone
    <3>4. \A i \in 1..Len(tasks') :
             /\ tasks'[i].kind \in {"write", "emit"} => tasks'[i].uri \in Uris
             /\ tasks'[i].kind = "emit" => tasks'[i].then \in {"generate", "scaffold"}
      BY <1>1, <2>2, <2>5 DEF Rest, SaveAlone
    <3> QED
      BY <3>1, <3>2, <3>3, <3>4 DEF SaveAlone
  <2>8. InitsCurrent'
    BY <1>1, <1>7, <2>2, <2>5 DEF Rest, InitsCurrent
  <2>9. EmitTellsFile'
    BY <1>1, <1>10, <2>2, <2>5 DEF EmitTellsFile
  <2>10. SavedHasFile' /\ WizardComes' /\ FileShown' /\ Compiled' /\ EditCompiled'
    BY <1>1, <1>7, <2>2, <2>6 DEF SavedHasFile, WizardComes, FileShown, Compiled, EditCompiled
  <2> QED
    BY <1>1, <1>8, <2>7, <2>8, <2>9, <2>10 DEF Rest
<1>12. CASE PostsInit(h, wizard)
  <2>1. PICK init \in Inits : /\ toView' = Posted(toView, init, wizard)
                              /\ Tells(init, h) /\ host'.currentForm = init.form
    BY <1>12 DEF PostsInit
  <2>2. tasks' = tasks /\ (h.override # None \/ h.activeUri = None)
    BY <1>12 DEF PostsInit
  <2>3. /\ \A types : Has(toView', types) <=>
              Has(toView, types) \/ "init" \in types \/ (wizard /\ "openWizard" \in types)
    BY <1>2, <2>1, PostedFacts
  <2>4. \A types : "init" \in types =>
           /\ Latest(toView', types) # 0
           /\ toView'[Latest(toView', types)]
                = IF wizard /\ "openWizard" \in types THEN OpenWizard ELSE init
    BY <1>2, <2>1, PostedLatest
  <2>5. SaveAlone'
    <3>1. Waiting(tasks, {"emit"}) => ~Has(toHost', MessageTypes \ {"applyForm", "refresh"})
      BY <1>1 DEF Rest, SaveAlone
    <3> QED
      BY <1>1, <1>5, <2>2, <3>1 DEF Rest, SaveAlone
  <2>6. InitsCurrent'
    BY <1>1, <1>7, <2>2 DEF Rest, InitsCurrent
  <2>7. EmitTellsFile'
    BY <1>1, <1>10, <2>2 DEF EmitTellsFile
  <2>8. SavedHasFile'
    <3> SUFFICES ASSUME host.activeUri = None PROVE SavedHasFile'
      BY <1>7 DEF SavedHasFile
    <3>1. /\ ~Has(toView, {"saved"})
          /\ \A i \in 1..Len(toView) : toView[i].type \in {"init", "update"} => ~toView[i].saved
      BY <1>1 DEF Rest, SavedHasFile
    <3>2. init \in ViewMessages /\ ~init.saved
      BY <2>1 DEF Tells, ViewMessages
    <3>3. OpenWizard \in ViewMessages /\ OpenWizard.type = "openWizard"
      BY DEF OpenWizard, ViewMessages
    <3>4. ~Has(toView', {"saved"}) /\ Has(toView', {"init", "update"})
      BY <2>3, <3>1
    <3>5. \A i \in 1..Len(toView') : toView'[i].type \in {"init", "update"} => ~toView'[i].saved
      <4> DEFINE q == Append(toView, init)
      <4>1. /\ q \in Seq(ViewMessages) /\ Len(toView) \in Nat /\ Len(q) = Len(toView) + 1
            /\ \A i \in 1..Len(toView) : q[i] = toView[i]
            /\ q[Len(toView) + 1] = init
        BY <1>2, <3>2, AppendFacts
      <4>2. \A i \in 1..Len(q) : i \in 1..Len(toView) \/ i = Len(toView) + 1
        <5> HIDE DEF q
        <5> QED
          BY <4>1
      <4>3. \A i \in 1..Len(q) : q[i].type \in {"init", "update"} => ~q[i].saved
        BY <3>1, <3>2, <4>1, <4>2
      <4>4. toView' = q \/ toView' = Append(q, OpenWizard)
        BY <2>1 DEF Posted
      <4> HIDE DEF q
      <4>5. /\ Len(q) \in Nat /\ Len(Append(q, OpenWizard)) = Len(q) + 1
            /\ \A i \in 1..Len(q) : Append(q, OpenWizard)[i] = q[i]
            /\ Append(q, OpenWizard)[Len(q) + 1] = OpenWizard
        BY <3>3, <4>1, AppendFacts
      <4>6. \A i \in 1..(Len(q) + 1) : i \in 1..Len(q) \/ i = Len(q) + 1
        BY <4>5
      <4> QED
        BY <3>3, <4>3, <4>4, <4>5, <4>6
    <3> QED
      BY <3>4, <3>5 DEF SavedHasFile
  <2>9. FileShown'
    BY <1>7, <2>2 DEF FileShown
  <2>10. WizardComes'
    <3> SUFFICES ASSUME wanted PROVE WizardComes'
      BY <1>1 DEF WizardComes
    <3>1. /\ m.type = "ready" /\ tasks = <<>> /\ ~Has(toView, {"saved"}) /\ wizard
          /\ OnlyEdits(toHost')
      BY <1>1, <1>3, <1>9 DEF WizardDue
    <3>2. WizardOpens'
      <4>1. toView'[Latest(toView', {"init", "openWizard"})] = OpenWizard
            /\ Latest(toView', {"init", "openWizard"}) # 0
        BY <2>4, <3>1
      <4> QED
        BY <4>1 DEF WizardOpens, OpenWizard
    <3> QED
      BY <1>1, <2>2, <2>3, <3>1, <3>2 DEF WizardComes
  <2>11. Compiled'
    <3>1. /\ toView'[Latest(toView', {"init", "update"})] = init
          /\ Latest(toView', {"init", "update"}) # 0
      BY <2>4
    <3>2. SaysValid' = init.valid
      BY <3>1 DEF SaysValid
    <3> QED
      BY <2>1, <3>2 DEF Compiled, Tells
  <2>12. EditCompiled'
    BY <2>3 DEF EditCompiled
  <2> QED
    BY <1>1, <1>8, <2>5, <2>6, <2>7, <2>8, <2>9, <2>10, <2>11, <2>12 DEF Rest
<1> QED
  BY <1>7, <1>11, <1>12

(* A form is compiled: an edited one, or the one of a device just created. *)
LEMMA CompileStep ==
    ASSUME IInv, HostReceives, NEW saved \in BOOLEAN,
           Head(toHost).form \in AllForms, Compiles(Head(toHost).form, saved), tasks' = tasks,
           host'.currentForm = Head(toHost).form,
           \/ /\ Head(toHost).type = "applyForm"
              /\ host'.activeUri = host.activeUri /\ host'.override = host.override
              /\ saved = (host.activeUri # None)
           \/ /\ Head(toHost).type = "createDevice"
              /\ host'.activeUri = None /\ host'.override = None /\ saved = FALSE
    PROVE  Rest'
<1> DEFINE m == Head(toHost)
           types == {"applyForm", "createDevice"}
<1>1. /\ Types /\ Rest /\ panel = "open" /\ toHost # <<>> /\ toHost' = Tail(toHost)
      /\ UNCHANGED <<panel, view, timer, disk, stale, editor, wanted>>
      /\ \A ts : Has(toHost', ts) => Has(toHost, ts)
      /\ \A ts : m.type \notin ts => (Has(toHost, ts) => Has(toHost', ts))
      /\ \A ts : m.type \in ts => Has(toHost, ts)
      /\ Phases' /\ EditPosted'
      /\ OnlyEdits(toHost) => OnlyEdits(toHost')
  BY Heard
<1>2. toView \in Seq(ViewMessages) /\ toHost \in Seq(HostMessages)
  BY <1>1 DEF Types
<1>3. PICK update \in Updates :
         /\ toView' = Append(toView, update)
         /\ update.type = "update" /\ update.saved = saved
         /\ update.valid = Valid(formToManifest(host'.currentForm))
  BY DEF Compiles
<1>4. m.type \in types
  OBVIOUS
<1>5. update \in ViewMessages
  BY DEF ViewMessages
<1>6. /\ \A ts : Has(toView', ts) <=> Has(toView, ts) \/ "update" \in ts
      /\ \A ts : "update" \in ts => Latest(toView', ts) = Len(toView) + 1
      /\ \A ts : "update" \notin ts => Latest(toView', ts) = Latest(toView, ts)
  BY <1>2, <1>3, <1>5, HasAppend, LatestAppend
<1>7. /\ Len(toView) \in Nat /\ Len(toView') = Len(toView) + 1
      /\ \A i \in 1..Len(toView) : toView'[i] = toView[i]
      /\ toView'[Len(toView) + 1] = update /\ Len(toView) + 1 # 0
  BY <1>2, <1>3, <1>5, AppendFacts
<1>8. \A ts : "update" \notin ts /\ Latest(toView, ts) # 0 =>
         toView'[Latest(toView', ts)] = toView[Latest(toView, ts)]
  <2>1. \A ts : Latest(toView, ts) # 0 => Latest(toView, ts) \in 1..Len(toView)
    <3> SUFFICES ASSUME NEW ts, Latest(toView, ts) # 0 PROVE Latest(toView, ts) \in 1..Len(toView)
      OBVIOUS
    <3>1. Latest(toView, ts) \in 0..Len(toView)
      BY <1>2, LatestIs
    <3> QED
      BY <1>7, <3>1
  <2> QED
    BY <1>6, <1>7, <2>1
<1>9. SaysValid' = update.valid
  <2>1. Latest(toView', {"init", "update"}) = Len(toView) + 1
    BY <1>6
  <2> QED
    BY <1>7, <2>1 DEF SaysValid
<1>10. ~Has(toHost', Clicks \union {"createDevice"}) /\ ~Has(toHost', {"generate", "scaffold"})
  <2>1. ~Has(toHost', Clicks \union {"createDevice"})
    <3>1. CASE m.type = "applyForm"
      <4>1. "applyForm" \notin Clicks \union {"createDevice"}
        BY DEF Clicks
      <4> QED
        BY <1>1, <3>1, <4>1 DEF Rest, ClickAlone
    <3>2. CASE m.type = "createDevice"
      <4>1. OnlyEdits(toHost')
        BY <1>1, <3>2 DEF Rest, ClickAlone
      <4> QED
        BY <4>1 DEF OnlyEdits, Has, Clicks, MessageTypes
    <3> QED
      BY <1>4, <3>1, <3>2
  <2> QED
    BY <2>1 DEF Has, Clicks
<1>11. ClickAlone' /\ ClickTellsFile'
  BY <1>10 DEF ClickAlone, ClickTellsFile
<1>12. Has(toHost', {"ready", "refresh"}) = Has(toHost, {"ready", "refresh"})
  BY <1>1, <1>4 DEF Has
<1>13. Has(toView', {"saved"}) = Has(toView, {"saved"})
       /\ Has(toView', {"init"}) = Has(toView, {"init"})
  BY <1>6 DEF Has
<1>14. ReloadDue' = ReloadDue
  BY <1>12, <1>13 DEF ReloadDue
<1>15. m.type = "createDevice" => tasks = <<>> /\ toView = <<>> /\ ~wanted
  <2>1. ASSUME m.type = "createDevice" PROVE ~OnlyEdits(toHost)
    <3>1. "createDevice" \in MessageTypes \ {"applyForm"}
      BY DEF MessageTypes
    <3> QED
      BY <1>1, <2>1, <3>1 DEF OnlyEdits
  <2> QED
    BY <1>1, <2>1 DEF Rest, ClickAlone, WizardComes, WizardDue
<1>16. m.type = "applyForm" => host'.activeUri = host.activeUri /\ host'.override = host.override
  OBVIOUS
<1>a. 1..Len(<<>>) = {}
  OBVIOUS
<1>17. SaveAlone'
  BY <1>1, <1>13, <1>15, <1>4, WaitingNothing DEF Rest, SaveAlone
<1>18. InitsCurrent'
  BY <1>1, <1>4, <1>15, <1>16, <1>a DEF Rest, InitsCurrent
<1>19. EmitTellsFile'
  BY <1>1, <1>4, <1>14, <1>15, <1>16, <1>a DEF Rest, EmitTellsFile
<1>20. SavedHasFile'
  <2> SUFFICES ASSUME host'.activeUri = None PROVE SavedHasFile'
    BY DEF SavedHasFile
  <2>1. ~update.saved
    BY <1>3, <1>4, <1>16
  <2>2. /\ ~Has(toView, {"saved"})
        /\ \A i \in 1..Len(toView) : toView[i].type \in {"init", "update"} => ~toView[i].saved
    <3>1. CASE m.type = "createDevice"
      BY <1>15, <1>a, <3>1, HasNothing
    <3>2. CASE m.type = "applyForm"
      BY <1>1, <1>16, <3>2 DEF Rest, SavedHasFile
    <3> QED
      BY <1>4, <3>1, <3>2
  <2>3. \A i \in 1..Len(toView') : i \in 1..Len(toView) \/ i = Len(toView) + 1
    BY <1>7
  <2>4. \A i \in 1..Len(toView') : toView'[i].type \in {"init", "update"} => ~toView'[i].saved
    BY <1>7, <2>1, <2>2, <2>3
  <2>5. Has(toView', {"init", "update"})
    BY <1>6
  <2> QED
    BY <1>13, <2>2, <2>4, <2>5 DEF SavedHasFile
<1>21. FileShown'
  <2> SUFFICES ASSUME host'.override = None, host'.activeUri # None, host'.activeUri \notin stale,
                      ~ReloadDue, ~Has(toHost', {"createDevice"}),
                      Has(toView, {"init"}) \/ ~view.dirty
               PROVE  InSight'.source = host'.activeUri
                      /\ InSight'.form = manifestToForm(disk[host'.activeUri])
    BY <1>1, <1>13, <1>14 DEF FileShown
  <2>1. m.type = "applyForm"
    OBVIOUS
  <2>2. ~Has(toHost, {"createDevice"})
    BY <1>1, <2>1
  <2>3. /\ InSight.source = host.activeUri
        /\ InSight.form = manifestToForm(disk[host.activeUri])
    BY <1>1, <1>16, <2>1, <2>2 DEF Rest, FileShown
  <2>4. InSight' = InSight
    <3>1. CASE Has(toView, {"init"})
      <4>1. Latest(toView, {"init"}) # 0
        BY <1>2, <3>1, LatestIs
      <4>2. toView'[Latest(toView', {"init"})] = toView[Latest(toView, {"init"})]
        BY <1>8, <4>1
      <4> QED
        BY <1>13, <3>1, <4>2 DEF InSight
    <3>2. CASE ~Has(toView, {"init"})
      BY <1>1, <1>13, <3>2 DEF InSight
    <3> QED
      BY <3>1, <3>2
  <2> QED
    BY <1>16, <2>1, <2>3, <2>4
<1>22. WizardComes'
  <2> SUFFICES ASSUME wanted PROVE WizardComes'
    BY <1>1 DEF WizardComes
  <2>1. m.type = "applyForm"
    BY <1>4, <1>15
  <2>2. /\ panel = "open" /\ tasks = <<>> /\ ~Has(toView, {"saved"})
        /\ OnlyEdits(toHost) /\ WizardOpens
    BY <1>1, <2>1 DEF Rest, WizardComes, WizardDue
  <2>3. WizardOpens'
    <3>1. Latest(toView', {"init", "openWizard"}) = Latest(toView, {"init", "openWizard"})
      BY <1>6
    <3>2. Latest(toView, {"init", "openWizard"}) # 0 =>
             toView'[Latest(toView', {"init", "openWizard"})] = toView[Latest(toView, {"init", "openWizard"})]
      BY <1>8
    <3> QED
      BY <1>1, <2>2, <3>1, <3>2 DEF WizardOpens
  <2> QED
    BY <1>1, <1>13, <2>2, <2>3 DEF WizardComes
<1>23. Compiled'
  BY <1>3, <1>9 DEF Compiled
<1>24. EditCompiled'
  <2> SUFFICES ASSUME view.dirty, ~timer, ~Has(toHost', types)
               PROVE  view.form = host'.currentForm
    BY <1>1, <1>3, <1>9 DEF EditCompiled
  <2>1. toHost' \in Seq(HostMessages)
    BY <1>1, <1>2
  <2>2. Latest(toHost', types) = 0
    BY <2>1, LatestIs
  <2>3. Latest(toHost, types) = 1 /\ toHost[1] = m
    BY <1>1, <1>2, <1>4, <2>2, LatestTail
  <2>4. Has(toHost, types)
    BY <1>1, <1>4
  <2> QED
    BY <1>1, <2>3, <2>4 DEF Rest, EditPosted
<1> QED
  BY <1>1, <1>11, <1>17, <1>18, <1>19, <1>20, <1>21, <1>22, <1>23, <1>24 DEF Rest

(* A click is heard: nothing was under way. *)
LEMMA BeginStep ==
    ASSUME IInv, HostReceives, Head(toHost).type \in Clicks, Head(toHost).form \in AllForms,
           host' = host, toView' = toView, tasks' = tasks \/ Begins(Head(toHost))
    PROVE  Rest'
<1> DEFINE m == Head(toHost)
<1>1. /\ Types /\ Rest /\ panel = "open" /\ toHost # <<>> /\ toHost' = Tail(toHost)
      /\ UNCHANGED <<panel, view, timer, disk, stale, editor, wanted>>
      /\ \A types : Has(toHost', types) => Has(toHost, types)
      /\ \A types : m.type \notin types => (Has(toHost, types) => Has(toHost', types))
      /\ \A types : m.type \in types => Has(toHost, types)
      /\ Phases' /\ EditPosted'
  BY Heard
<1>2. /\ OnlyEdits(toHost') /\ tasks = <<>> /\ ~Has(toView, {"saved"}) /\ ~OnlyEdits(toHost)
      /\ m.type \notin {"ready", "refresh", "applyForm", "createDevice"}
  <2>1. m.type \in MessageTypes \ {"applyForm"} /\ m.type # "ready"
        /\ m.type \notin {"ready", "refresh", "applyForm", "createDevice"}
    BY DEF Clicks, MessageTypes
  <2> QED
    BY <1>1, <2>1 DEF Rest, ClickAlone, OnlyEdits
<1>3. \A types : types \subseteq MessageTypes \ {"applyForm"} => ~Has(toHost', types)
  BY <1>2 DEF OnlyEdits, Has
<1>4. /\ ~Has(toHost', Clicks \union {"createDevice"}) /\ ~Has(toHost', {"generate", "scaffold"})
      /\ ~Has(toHost', {"ready", "refresh"}) /\ ~Has(toHost', {"createDevice"})
      /\ ~Has(toHost', MessageTypes \ {"applyForm", "refresh"})
  BY <1>3 DEF Clicks, MessageTypes
<1>5. ~Has(toHost, {"ready", "refresh"}) /\ ~Has(toHost, {"createDevice"})
      /\ (Has(toHost, {"applyForm", "createDevice"}) => Has(toHost', {"applyForm", "createDevice"}))
  BY <1>1, <1>2, <1>4
<1>6. ~wanted
  BY <1>1, <1>2 DEF Rest, WizardComes, WizardDue, Clicks
<1>7. \A kinds : ~Waiting(tasks, kinds)
  BY <1>2, WaitingNothing
<1>8. ~ReloadDue
  BY <1>2, <1>5, <1>7 DEF ReloadDue
<1>9. \/ tasks' = <<>>
      \/ \E t \in Works :
            /\ tasks' = Append(<<>>, t) /\ t.form = m.form /\ t.then = m.type
            /\ \/ t.kind = "dialog"
               \/ t.kind = "write" /\ t.uri \in Uris
               \/ /\ t.kind = "emit" /\ m.type \in {"generate", "scaffold"}
                  /\ t.uri = saveTarget /\ t.uri \in Uris
                  /\ Valid(formToManifest(m.form))
  BY <1>2 DEF Begins
<1>a. 1..Len(<<>>) = {}
  OBVIOUS
<1>10. ClickAlone' /\ ClickTellsFile'
  BY <1>4 DEF ClickAlone, ClickTellsFile
<1>11. ~Waiting(tasks', {"init"}) /\ SaveAlone' /\ InitsCurrent' /\ EmitTellsFile'
  <2>1. CASE tasks' = <<>>
    <3>1. ~Waiting(tasks', {"init"})
      BY <2>1, WaitingNothing
    <3>2. SaveAlone' /\ InitsCurrent' /\ EmitTellsFile'
      BY <1>a, <2>1, WaitingNothing DEF SaveAlone, InitsCurrent, EmitTellsFile
    <3> QED
      BY <3>1, <3>2
  <2>2. ASSUME NEW t \in Works,
               /\ tasks' = Append(<<>>, t) /\ t.form = m.form /\ t.then = m.type
               /\ \/ t.kind = "dialog"
                  \/ t.kind = "write" /\ t.uri \in Uris
                  \/ /\ t.kind = "emit" /\ m.type \in {"generate", "scaffold"}
                     /\ t.uri = saveTarget /\ t.uri \in Uris
                     /\ Valid(formToManifest(m.form))
        PROVE  ~Waiting(tasks', {"init"}) /\ SaveAlone' /\ InitsCurrent' /\ EmitTellsFile'
    <3>1. Len(tasks') = 1 /\ tasks'[1] = t
      BY <2>2
    <3>2. \A kinds : Waiting(tasks', kinds) <=> t.kind \in kinds
      BY <3>1, WaitingOne
    <3>3. \A i \in 1..Len(tasks') : tasks'[i] = t /\ i = 1
      BY <3>1
    <3>4. ~Waiting(tasks', {"init"})
      BY <2>2, <3>2
    <3>5. SaveAlone'
      BY <1>2, <1>4, <2>2, <3>1, <3>2, <3>3 DEF SaveAlone
    <3>6. InitsCurrent'
      BY <2>2, <3>3 DEF InitsCurrent
    <3>7. ~ReloadDue'
      BY <1>2, <1>4, <3>4 DEF ReloadDue
    <3>8. ASSUME t.kind = "emit"
          PROVE  Told(t, disk) \/ t.uri \in stale \/ host.override # None
      <4>1. m.type \in {"generate", "scaffold"} /\ t.uri = saveTarget
            /\ Valid(formToManifest(m.form)) /\ t.form = m.form /\ t.uri \in Uris
        BY <2>2, <3>8
      <4>2. Has(toHost, {"generate", "scaffold"})
        BY <1>1, <4>1
      <4>3. /\ host.activeUri # None
            /\ host.override = None /\ host.activeUri \notin stale =>
                  m.form = manifestToForm(disk[host.activeUri])
        BY <1>1, <4>2 DEF Rest, ClickTellsFile
      <4>4. t.uri = host.activeUri
        BY <4>1, <4>3 DEF saveTarget
      <4>5. CASE host.override = None /\ t.uri \notin stale
        <5>1. PICK d : d = disk[t.uri]
          OBVIOUS
        <5>2. m.form = manifestToForm(d)
          BY <4>3, <4>4, <4>5, <5>1
        <5>3. IsManifest(d)
          BY <1>1, <4>3, <4>4, <4>5, <5>1, AllOK DEF Types, Found
        <5>4. Valid(formToManifest(manifestToForm(d)))
          BY <4>1, <5>2
        <5>5. manifestToForm(formToManifest(manifestToForm(d))) = manifestToForm(d)
          BY <5>3, <5>4, RoundTrip
        <5> QED
          BY <4>1, <5>1, <5>2, <5>5 DEF Told
      <4> QED
        BY <4>5
    <3>9. EmitTellsFile'
      BY <1>1, <3>3, <3>7, <3>8 DEF EmitTellsFile
    <3> QED
      BY <3>4, <3>5, <3>6, <3>9
  <2> QED
    BY <1>9, <2>1, <2>2
<1>12. ~ReloadDue' /\ SaysValid' = SaysValid
  BY <1>1, <1>2, <1>4, <1>11 DEF ReloadDue, SaysValid
<1>13. SavedHasFile' /\ WizardComes'
  BY <1>1, <1>6 DEF Rest, SavedHasFile, WizardComes
<1>14. FileShown'
  BY <1>1, <1>5, <1>8 DEF Rest, FileShown, InSight
<1>15. Compiled' /\ EditCompiled'
  BY <1>1, <1>5, <1>8, <1>12 DEF Rest, Compiled, EditCompiled
<1> QED
  BY <1>1, <1>10, <1>11, <1>13, <1>14, <1>15 DEF Rest

LEMMA HearStep ==
    ASSUME IInv, HostReceives
    PROVE  Rest'
<1> DEFINE m == Head(toHost)
<1>1. Types /\ host \in Hosts /\ Found(host)
  BY DEF IInv, Types
<1>2. Hears(m)
  BY <1>1, HearEffect
<1>3. FALSE \in BOOLEAN /\ host.pendingWizard \in BOOLEAN /\ (host.activeUri # None) \in BOOLEAN
  BY <1>1, HostFields
<1>4. CASE m.type = "ready" /\ SendInit([host EXCEPT !.pendingWizard = FALSE], host.pendingWizard)
  <2> DEFINE h == [host EXCEPT !.pendingWizard = FALSE]
  <2>1. h \in Hosts /\ h.activeUri = host.activeUri /\ h.override = host.override
    BY <1>1, <1>3, PendingFields
  <2>2. SendInit(h, host.pendingWizard) /\ m.type \in {"ready", "refresh"}
    BY <1>4
  <2> HIDE DEF h
  <2>3. Found(h)
    BY <1>1, <2>1 DEF Found
  <2> QED
    BY <1>3, <2>1, <2>2, <2>3, ReloadStep
<1>5. CASE m.type = "refresh" /\ SendInit(host, FALSE)
  BY <1>1, <1>3, <1>5, ReloadStep
<1>6. CASE /\ m.type = "applyForm" /\ m.form \in AllForms
           /\ HostIs(host', host.activeUri, host.override, m.form, host.pendingWizard, host.created)
           /\ Compiles(m.form, host.activeUri # None) /\ tasks' = tasks
  <2>1. /\ host'.activeUri = host.activeUri /\ host'.override = host.override
        /\ host'.currentForm = m.form
    BY <1>6 DEF HostIs
  <2> QED
    BY <1>3, <1>6, <2>1, CompileStep
<1>7. CASE /\ m.type = "createDevice" /\ m.form \in AllForms
           /\ HostIs(host', None, None, m.form, host.pendingWizard, TRUE)
           /\ Compiles(m.form, FALSE) /\ tasks' = tasks
  <2>1. /\ host'.activeUri = None /\ host'.override = None
        /\ host'.currentForm = m.form
    BY <1>7 DEF HostIs
  <2> QED
    BY <1>3, <1>7, <2>1, CompileStep
<1>8. CASE /\ m.type \in Clicks /\ m.form \in AllForms
           /\ host' = host /\ toView' = toView
           /\ tasks' = tasks \/ Begins(m)
  BY <1>8, BeginStep
<1> QED
  BY <1>2, <1>4, <1>5, <1>6, <1>7, <1>8 DEF Hears

(* While a handler waits the panel is not closed, no click is under way    *)
(* and no creation screen is asked for.                                    *)
LEMMA SomeWait ==
    ASSUME IInv, NEW i \in 1..Len(tasks)
    PROVE  /\ Types /\ Rest /\ tasks \in Seq(Reads \union Works) /\ toView \in Seq(ViewMessages)
           /\ panel # "closed" /\ ~wanted
           /\ ~Has(toHost, Clicks \union {"createDevice"})
           /\ ~Has(toHost, {"generate", "scaffold"})
           /\ panel = "loading" => tasks[i].kind = "init"
<1>1. tasks # <<>> /\ Types /\ Rest /\ tasks \in Seq(Reads \union Works) /\ toView \in Seq(ViewMessages)
  <2>1. 1..Len(<<>>) = {}
    OBVIOUS
  <2> QED
    BY <2>1 DEF IInv, Types
<1>2. panel # "closed" /\ ~wanted /\ ~Has(toHost, Clicks \union {"createDevice"})
  BY <1>1 DEF Rest, Phases, WizardComes, WizardDue, ClickAlone
<1>3. ~Has(toHost, {"generate", "scaffold"})
  BY <1>2 DEF Has, Clicks
<1>4. panel = "loading" => tasks[i].kind = "init"
  <2>1. tasks[i] \in Reads \union Works
    BY <1>1
  <2>2. tasks[i].kind \in {"init", "dialog", "write", "emit"}
    BY <2>1 DEF Reads, Works
  <2> QED
    BY <1>1, <2>2 DEF Rest, Phases, Waiting
<1> QED
  BY <1>1, <1>2, <1>3, <1>4

LEMMA ReadStep ==
    ASSUME IInv, NEW i \in 1..Len(tasks), ReadIn(i)
    PROVE  Rest'
<1>1. /\ Types /\ Rest /\ tasks \in Seq(Reads \union Works) /\ toView \in Seq(ViewMessages)
      /\ panel # "closed" /\ ~wanted
      /\ ~Has(toHost, Clicks \union {"createDevice"}) /\ ~Has(toHost, {"generate", "scaffold"})
  BY SomeWait
<1>2. /\ tasks[i].kind = "init" /\ tasks' = RemoveAt(tasks, i)
      /\ stale' = stale \ {tasks[i].uri}
      /\ host'.activeUri = host.activeUri /\ host'.override = host.override
      /\ UNCHANGED <<panel, toHost, view, timer, disk, editor, wanted>>
  BY DEF ReadIn
<1>3. PICK wizard \in BOOLEAN : wizard = tasks[i].wizard
  BY DEF ReadIn
<1>4. PICK init \in Inits :
         /\ toView' = Posted(toView, init, wizard)
         /\ Tells(init, host) /\ host'.currentForm = init.form
         /\ init.source = host.activeUri /\ init.form = manifestToForm(disk[host.activeUri])
  BY <1>3 DEF ReadIn
<1>5. host.activeUri # None /\ host.override = None /\ tasks[i].uri = host.activeUri
  BY <1>1, <1>2 DEF Rest, InitsCurrent
<1>6. /\ toView' # <<>>
      /\ \A types : Has(toView', types) <=>
            Has(toView, types) \/ "init" \in types \/ (wizard /\ "openWizard" \in types)
  BY <1>1, <1>4, PostedFacts
<1>7. \A types : "init" \in types =>
         /\ Latest(toView', types) # 0
         /\ toView'[Latest(toView', types)]
              = IF wizard /\ "openWizard" \in types THEN OpenWizard ELSE init
  BY <1>1, <1>4, PostedLatest
<1>8. \A j \in 1..Len(tasks') :
         LET k == IF j < i THEN j ELSE j + 1
         IN  k \in 1..Len(tasks) /\ k # i /\ tasks'[j] = tasks[k]
  BY <1>1, <1>2, RemovedFrom
<1>9. \A kinds : Waiting(tasks', kinds) => Waiting(tasks, kinds)
  BY <1>1, <1>2, WaitingRemoved
<1>10. ReloadDue
  BY <1>2 DEF ReloadDue, Waiting
<1>11. ~Waiting(tasks, {"dialog", "write"})
  <2>1. ASSUME Waiting(tasks, {"dialog", "write"}) PROVE FALSE
    <3>1. Len(tasks) = 1
      BY <1>1, <2>1 DEF Rest, SaveAlone
    <3>2. i = 1
      BY <3>1
    <3> QED
      BY <1>2, <2>1, <3>1, <3>2, WaitingOne
  <2> QED
    BY <2>1
<1>12. Phases'
  BY <1>1, <1>2, <1>6, <1>9 DEF Rest, Phases
<1>13. ClickAlone' /\ ClickTellsFile'
  BY <1>1, <1>2 DEF ClickAlone, ClickTellsFile
<1>14. SaveAlone'
  <2>1. ~Waiting(tasks', {"dialog", "write"})
    BY <1>9, <1>11
  <2>2. Waiting(tasks', {"emit"}) => ~Has(toHost', MessageTypes \ {"applyForm", "refresh"})
    BY <1>1, <1>2, <1>9 DEF Rest, SaveAlone
  <2>3. \A j, k \in 1..Len(tasks') :
           tasks'[j].kind = "emit" /\ tasks'[k].kind # "init" => j = k
    <3> SUFFICES ASSUME NEW j \in 1..Len(tasks'), NEW k \in 1..Len(tasks'),
                        tasks'[j].kind = "emit", tasks'[k].kind # "init"
                 PROVE  j = k
      OBVIOUS
    <3>1. PICK a \in 1..Len(tasks) : tasks'[j] = tasks[a] /\ a = IF j < i THEN j ELSE j + 1
      BY <1>8
    <3>2. PICK b \in 1..Len(tasks) : tasks'[k] = tasks[b] /\ b = IF k < i THEN k ELSE k + 1
      BY <1>8
    <3>3. a = b
      BY <1>1, <3>1, <3>2 DEF Rest, SaveAlone
    <3>4. j \in Int /\ k \in Int /\ i \in Int
      OBVIOUS
    <3> QED
      BY <3>1, <3>2, <3>3, <3>4
  <2>4. \A j \in 1..Len(tasks') :
           /\ tasks'[j].kind \in {"write", "emit"} => tasks'[j].uri \in Uris
           /\ tasks'[j].kind = "emit" => tasks'[j].then \in {"generate", "scaffold"}
    BY <1>1, <1>8 DEF Rest, SaveAlone
  <2> QED
    BY <2>1, <2>2, <2>3, <2>4 DEF SaveAlone
<1>15. InitsCurrent'
  BY <1>1, <1>2, <1>8 DEF Rest, InitsCurrent
<1>16. EmitTellsFile'
  BY <1>1, <1>2, <1>8, <1>10 DEF Rest, EmitTellsFile
<1>17. SavedHasFile' /\ WizardComes'
  BY <1>1, <1>2, <1>5 DEF SavedHasFile, WizardComes
<1>18. FileShown'
  <2>1. Has(toView', {"init"}) /\ toView'[Latest(toView', {"init"})] = init
    BY <1>6, <1>7
  <2>2. InSight' = init
    BY <2>1 DEF InSight
  <2> QED
    BY <1>2, <1>4, <2>2 DEF FileShown
<1>19. Compiled'
  <2>1. /\ toView'[Latest(toView', {"init", "update"})] = init
        /\ Latest(toView', {"init", "update"}) # 0
    BY <1>7
  <2>2. SaysValid' = init.valid
    BY <2>1 DEF SaysValid
  <2> QED
    BY <1>4, <2>2 DEF Compiled, Tells
<1>20. EditCompiled' /\ EditPosted'
  BY <1>1, <1>2, <1>6 DEF Rest, EditCompiled, EditPosted
<1> QED
  BY <1>12, <1>13, <1>14, <1>15, <1>16, <1>17, <1>18, <1>19, <1>20 DEF Rest

LEMMA DropStep ==
    ASSUME IInv, NEW i \in 1..Len(tasks), Drops(i)
    PROVE  Rest'
<1>1. /\ Types /\ Rest /\ tasks \in Seq(Reads \union Works)
      /\ panel = "open" /\ ~wanted
      /\ ~Has(toHost, Clicks \union {"createDevice"}) /\ ~Has(toHost, {"generate", "scaffold"})
  BY SomeWait DEF Drops, Types
<1>2. /\ tasks[i].kind \in {"dialog", "write", "emit"} /\ tasks' = RemoveAt(tasks, i)
      /\ UNCHANGED <<panel, host, toView, toHost, view, timer, disk, stale, editor, wanted>>
  BY DEF Drops
<1>3. \A j \in 1..Len(tasks') :
         LET k == IF j < i THEN j ELSE j + 1
         IN  k \in 1..Len(tasks) /\ k # i /\ tasks'[j] = tasks[k]
  BY <1>1, <1>2, RemovedFrom
<1>4. \A kinds : /\ Waiting(tasks', kinds) => Waiting(tasks, kinds)
                 /\ tasks[i].kind \notin kinds =>
                       (Waiting(tasks, kinds) => Waiting(tasks', kinds))
  BY <1>1, <1>2, WaitingRemoved
<1>5. Waiting(tasks', {"init"}) = Waiting(tasks, {"init"})
  BY <1>2, <1>4 DEF Waiting
<1>6. ReloadDue' = ReloadDue /\ SaysValid' = SaysValid
  BY <1>2, <1>5 DEF ReloadDue, SaysValid
<1>7. ~Waiting(tasks', {"dialog", "write"})
  <2>1. ASSUME Waiting(tasks', {"dialog", "write"}) PROVE FALSE
    <3>1. Waiting(tasks, {"dialog", "write"})
      BY <1>4, <2>1
    <3>2. Len(tasks) = 1
      BY <1>1, <3>1 DEF Rest, SaveAlone
    <3>3. PICK j \in 1..Len(tasks') : TRUE
      BY <2>1 DEF Waiting
    <3>4. \E k \in 1..Len(tasks) : k # i
      BY <1>3, <3>3
    <3> QED
      BY <3>2, <3>4
  <2> QED
    BY <2>1
<1>8. Phases' /\ ClickAlone' /\ ClickTellsFile'
  BY <1>1, <1>2 DEF Phases, ClickAlone, ClickTellsFile
<1>9. SaveAlone'
  <2>2. Waiting(tasks', {"emit"}) => ~Has(toHost', MessageTypes \ {"applyForm", "refresh"})
    BY <1>1, <1>2, <1>4 DEF Rest, SaveAlone
  <2>3. \A j, k \in 1..Len(tasks') :
           tasks'[j].kind = "emit" /\ tasks'[k].kind # "init" => j = k
    <3> SUFFICES ASSUME NEW j \in 1..Len(tasks'), NEW k \in 1..Len(tasks'),
                        tasks'[j].kind = "emit", tasks'[k].kind # "init"
                 PROVE  j = k
      OBVIOUS
    <3>1. PICK a \in 1..Len(tasks) : tasks'[j] = tasks[a] /\ a = IF j < i THEN j ELSE j + 1
      BY <1>3
    <3>2. PICK b \in 1..Len(tasks) : tasks'[k] = tasks[b] /\ b = IF k < i THEN k ELSE k + 1
      BY <1>3
    <3>3. a = b
      BY <1>1, <3>1, <3>2 DEF Rest, SaveAlone
    <3>4. j \in Int /\ k \in Int /\ i \in Int
      OBVIOUS
    <3> QED
      BY <3>1, <3>2, <3>3, <3>4
  <2>4. \A j \in 1..Len(tasks') :
           /\ tasks'[j].kind \in {"write", "emit"} => tasks'[j].uri \in Uris
           /\ tasks'[j].kind = "emit" => tasks'[j].then \in {"generate", "scaffold"}
    BY <1>1, <1>3 DEF Rest, SaveAlone
  <2> QED
    BY <1>7, <2>2, <2>3, <2>4 DEF SaveAlone
<1>10. InitsCurrent'
  BY <1>1, <1>2, <1>3 DEF Rest, InitsCurrent
<1>11. EmitTellsFile'
  BY <1>1, <1>2, <1>3, <1>6 DEF Rest, EmitTellsFile
<1>12. SavedHasFile' /\ WizardComes'
  BY <1>1, <1>2 DEF Rest, SavedHasFile, WizardComes
<1>13. FileShown'
  BY <1>1, <1>2, <1>6 DEF Rest, FileShown, InSight
<1>14. Compiled' /\ EditCompiled' /\ EditPosted'
  BY <1>1, <1>2, <1>6 DEF Rest, Compiled, EditCompiled, EditPosted
<1> QED
  BY <1>8, <1>9, <1>10, <1>11, <1>12, <1>13, <1>14 DEF Rest

(* A dialog or a write waits alone. *)
LEMMA AloneThere ==
    ASSUME IInv, NEW i \in 1..Len(tasks), tasks[i].kind \in {"dialog", "write"}
    PROVE  /\ Len(tasks) = 1 /\ i = 1 /\ ~Has(toView, {"saved"}) /\ OnlyEdits(toHost)
           /\ panel = "open"
           /\ tasks[i].kind = "write" => tasks[i].uri \in Uris
<1>1. Rest /\ panel = "open"
  BY SomeWait DEF Types
<1>2. Waiting(tasks, {"dialog", "write"})
  BY DEF Waiting
<1>3. Len(tasks) = 1 /\ ~Has(toView, {"saved"}) /\ OnlyEdits(toHost)
      /\ (tasks[i].kind = "write" => tasks[i].uri \in Uris)
  BY <1>1, <1>2 DEF Rest, SaveAlone
<1>4. i = 1
  BY <1>3
<1> QED
  BY <1>1, <1>3, <1>4

LEMMA WrittenStep ==
    ASSUME IInv, NEW i \in 1..Len(tasks), Written(i)
    PROVE  Rest'
<1>1. /\ Types /\ Rest /\ tasks \in Seq(Reads \union Works) /\ toView \in Seq(ViewMessages)
      /\ ~wanted
      /\ ~Has(toHost, Clicks \union {"createDevice"}) /\ ~Has(toHost, {"generate", "scaffold"})
  BY SomeWait
<1>2. PICK t : t = tasks[i]
  OBVIOUS
<1>3. /\ Len(tasks) = 1 /\ i = 1 /\ OnlyEdits(toHost) /\ panel = "open" /\ t.uri \in Uris
      /\ UNCHANGED <<panel, toHost, view, timer, editor, wanted>>
  BY <1>2, AloneThere DEF Written
<1>4. /\ t \in Works /\ t.kind = "write"
      /\ HostIs(host', t.uri, None, t.form, host.pendingWizard, host.created)
      /\ disk' = [disk EXCEPT ![t.uri] = formToManifest(t.form)]
      /\ toView' = Append(toView, SavedMsg(t.uri)) /\ SavedMsg(t.uri) \in ViewMessages
      /\ \/ tasks' = RemoveAt(tasks, i)
         \/ /\ tasks' = [tasks EXCEPT ![i] = [kind |-> "emit", then |-> t.then,
                                              form |-> t.form, uri |-> t.uri]]
            /\ t.then \in {"generate", "scaffold"}
  BY <1>1, <1>2, <1>3, WrittenEffect
<1>5. host'.activeUri = t.uri /\ host'.override = None /\ t.uri # None
  BY <1>3, <1>4, NoneAssumption DEF HostIs
<1>6. disk'[t.uri] = formToManifest(t.form)
  BY <1>1, <1>3, <1>4 DEF Types
<1>7. ReloadDue'
  <2>1. SavedMsg(t.uri).type = "saved"
    BY DEF SavedMsg
  <2>2. Has(toView', {"saved"})
    BY <1>1, <1>4, <2>1, HasAppend
  <2> QED
    BY <2>2 DEF ReloadDue
<1>8. ~Has(toHost', MessageTypes \ {"applyForm", "refresh"})
  BY <1>3 DEF OnlyEdits, Has
<1>9. SaveAlone' /\ InitsCurrent' /\ EmitTellsFile'
  <2>1. CASE tasks' = RemoveAt(tasks, i)
    <3>1. Len(tasks') = 0
      <4>1. Len(tasks') = Len(tasks) - 1
        BY <1>1, <2>1, RemoveAtFacts
      <4> QED
        BY <1>3, <4>1
    <3>2. 1..Len(tasks') = {}
      BY <3>1
    <3>3. \A kinds : ~Waiting(tasks', kinds)
      BY <3>2 DEF Waiting
    <3> QED
      BY <3>2, <3>3 DEF SaveAlone, InitsCurrent, EmitTellsFile
  <2>2. CASE /\ tasks' = [tasks EXCEPT ![i] = [kind |-> "emit", then |-> t.then,
                                              form |-> t.form, uri |-> t.uri]]
             /\ t.then \in {"generate", "scaffold"}
    <3>1. PICK e : e = [kind |-> "emit", then |-> t.then, form |-> t.form, uri |-> t.uri]
      OBVIOUS
    <3>2. e.kind = "emit" /\ e.then = t.then /\ e.form = t.form /\ e.uri = t.uri
      BY <3>1
    <3>3. e \in Reads \union Works
      BY <1>4, <3>1 DEF Works
    <3>4. tasks' = [tasks EXCEPT ![i] = e]
      BY <2>2, <3>1
    <3>5. Len(tasks') = 1 /\ tasks'[1] = e
      BY <1>1, <1>3, <3>3, <3>4, ExceptFacts
    <3>6. \A kinds : Waiting(tasks', kinds) <=> "emit" \in kinds
      BY <3>2, <3>5, WaitingOne
    <3>7. \A j \in 1..Len(tasks') : j = 1 /\ tasks'[j] = e
      BY <3>5
    <3>8. SaveAlone'
      BY <1>3, <1>8, <2>2, <3>2, <3>6, <3>7 DEF SaveAlone
    <3>9. InitsCurrent'
      BY <3>2, <3>7 DEF InitsCurrent
    <3>10. Told(e, disk')
      BY <1>6, <3>2 DEF Told
    <3>11. EmitTellsFile'
      BY <3>7, <3>10 DEF EmitTellsFile
    <3> QED
      BY <3>8, <3>9, <3>11
  <2> QED
    BY <1>4, <2>1, <2>2
<1>10. Phases' /\ ClickAlone' /\ ClickTellsFile'
  BY <1>1, <1>3 DEF Phases, ClickAlone, ClickTellsFile
<1>11. SavedHasFile' /\ WizardComes' /\ FileShown' /\ Compiled' /\ EditCompiled'
  BY <1>1, <1>3, <1>5, <1>7 DEF SavedHasFile, WizardComes, FileShown, Compiled, EditCompiled
<1>12. EditPosted'
  BY <1>1, <1>3 DEF Rest, EditPosted
<1> QED
  BY <1>9, <1>10, <1>11, <1>12 DEF Rest

LEMMA PickedStep ==
    ASSUME IInv, NEW i \in 1..Len(tasks), NEW u \in Uris, Picked(i, u)
    PROVE  Rest'
<1>1. /\ Types /\ Rest /\ tasks \in Seq(Reads \union Works) /\ ~wanted
      /\ ~Has(toHost, Clicks \union {"createDevice"}) /\ ~Has(toHost, {"generate", "scaffold"})
  BY SomeWait
<1>2. /\ tasks[i].kind = "dialog"
      /\ host'.activeUri = host.activeUri /\ host'.override = host.override
      /\ host'.currentForm = host.currentForm
      /\ \E t \in Works :
            tasks' = [tasks EXCEPT ![i] = t] /\ t.kind = "write" /\ t.uri = u
      /\ UNCHANGED <<panel, toView, toHost, view, timer, disk, stale, editor, wanted>>
  BY <1>1, PickedEffect
<1>3. /\ Len(tasks) = 1 /\ i = 1 /\ ~Has(toView, {"saved"}) /\ OnlyEdits(toHost)
      /\ panel = "open"
  BY <1>2, AloneThere
<1>4. PICK t \in Works : tasks' = [tasks EXCEPT ![i] = t] /\ t.kind = "write" /\ t.uri = u
  BY <1>2
<1>5. t \in Reads \union Works
  OBVIOUS
<1>6. Len(tasks') = 1 /\ tasks'[1] = t
  BY <1>1, <1>3, <1>4, <1>5, ExceptFacts
<1>7. /\ \A kinds : Waiting(tasks', kinds) <=> "write" \in kinds
      /\ \A kinds : Waiting(tasks, kinds) <=> "dialog" \in kinds
      /\ \A j \in 1..Len(tasks') : j = 1 /\ tasks'[j] = t
  <2>1. \A kinds : Waiting(tasks', kinds) <=> tasks'[1].kind \in kinds
    BY <1>6, WaitingOne
  <2>2. \A kinds : Waiting(tasks, kinds) <=> tasks[1].kind \in kinds
    BY <1>3, WaitingOne
  <2>3. \A j \in 1..Len(tasks') : j = 1 /\ tasks'[j] = t
    BY <1>6
  <2>4. tasks[1].kind = "dialog" /\ tasks'[1].kind = "write"
    BY <1>2, <1>3, <1>4, <1>6
  <2> QED
    BY <2>1, <2>2, <2>3, <2>4
<1>8. ReloadDue' = ReloadDue /\ SaysValid' = SaysValid
  BY <1>2, <1>7 DEF ReloadDue, SaysValid
<1>9. Phases' /\ ClickAlone' /\ ClickTellsFile'
  BY <1>1, <1>2, <1>3 DEF Phases, ClickAlone, ClickTellsFile
<1>10. SaveAlone' /\ InitsCurrent' /\ EmitTellsFile'
  BY <1>2, <1>3, <1>4, <1>6, <1>7 DEF SaveAlone, InitsCurrent, EmitTellsFile
<1>11. SavedHasFile' /\ WizardComes'
  BY <1>1, <1>2 DEF Rest, SavedHasFile, WizardComes
<1>12. FileShown'
  BY <1>1, <1>2, <1>8 DEF Rest, FileShown, InSight
<1>13. Compiled' /\ EditCompiled' /\ EditPosted'
  BY <1>1, <1>2, <1>8 DEF Rest, Compiled, EditCompiled, EditPosted
<1> QED
  BY <1>9, <1>10, <1>11, <1>12, <1>13 DEF Rest

LEMMA RestStep ==
    ASSUME IInv, [Next]_vars
    PROVE  Rest'
<1>1. Types /\ Rest /\ Phases /\ InitsCurrent
  BY DEF IInv, Rest
<1>2. CASE UNCHANGED vars
  <2>1. UNCHANGED <<panel, host, tasks, toView, toHost, view, timer, disk, editor, stale, wanted>>
    BY <1>2 DEF vars, hostVars, fileVars
  <2>2. ReloadDue' = ReloadDue /\ SaysValid' = SaysValid
    BY <2>1 DEF ReloadDue, SaysValid
  <2>3. Phases' /\ ClickAlone' /\ SaveAlone' /\ InitsCurrent' /\ SavedHasFile' /\ ClickTellsFile'
    BY <1>1, <2>1 DEF Rest, Phases, ClickAlone, SaveAlone, InitsCurrent, SavedHasFile, ClickTellsFile
  <2>4. EmitTellsFile'
    BY <1>1, <2>1, <2>2 DEF Rest, EmitTellsFile
  <2>5. FileShown' /\ WizardComes'
    BY <1>1, <2>1, <2>2 DEF Rest, FileShown, InSight, WizardComes, WizardDue, WizardOpens
  <2>6. Compiled' /\ EditCompiled' /\ EditPosted'
    BY <1>1, <2>1, <2>2 DEF Rest, Compiled, EditCompiled, EditPosted
  <2> QED
    BY <2>3, <2>4, <2>5, <2>6 DEF Rest
<1>3. \/ UNCHANGED vars
      \/ \E h : Asks(h)
      \/ newDevice /\ panel # "closed"
      \/ \E u \in Uris, m \in Outside : OutsideWrite(u, m)
      \/ \E u \in Uris \union {None} : ActivateEditor(u)
      \/ Load \/ Close
      \/ \E f \in Forms : Edit(f)
      \/ TimerFires
      \/ \E act \in Clicks : doAction(act)
      \/ \E tile \in Tiles : createFromForm(tile)
      \/ closeWizard \/ ViewReceives \/ HostReceives
      \/ \E i \in 1..Len(tasks) :
            \/ ReadIn(i) \/ Drops(i) \/ Written(i)
            \/ \E u \in Uris : Picked(i, u)
  BY <1>1, Steps
<1>4. ASSUME \/ newDevice /\ panel # "closed"
             \/ \E u \in Uris, m \in Outside : OutsideWrite(u, m)
             \/ \E u \in Uris \union {None} : ActivateEditor(u)
             \/ Close \/ closeWizard
      PROVE  Rest'
  <2>1. Settled
    BY <1>4 DEF newDevice, OutsideWrite, ActivateEditor, Close, closeWizard
  <2> QED
    BY <1>4, <2>1, SettledSteps
<1> QED
  BY <1>2, <1>3, <1>4, AsksStep, LoadStep, EditStep, TimerStep, ActionStep, CreateStep, ViewStep,
     HearStep, ReadStep, DropStep, WrittenStep, PickedStep

LEMMA InitIInv ==
    ASSUME Init
    PROVE  IInv
<1>1. /\ panel = "closed" /\ host = NoHost /\ view = NoView
      /\ tasks = <<>> /\ toHost = <<>> /\ toView = <<>> /\ timer = FALSE
      /\ disk = OnDisk /\ editor = None /\ stale = {} /\ wanted = FALSE
  BY DEF Init
<1>2. \A S : <<>> \in Seq(S)
  OBVIOUS
<1>3. OnDisk \in [Uris -> AllManifests \union {None}]
  <2>1. \A u \in Uris : OnDisk[u] \in AllManifests \union {None}
    BY DEF AllManifests, FirstManifests
  <2> QED
    BY <2>1, FilesAssumption
<1>4. Types
  BY <1>1, <1>2, <1>3, NoHostNoView DEF Types, Found, NoHost
<1>5. 1..Len(<<>>) = {} /\ ~NoView.saved /\ ~NoView.dirty
  BY DEF NoView
<1>6. Phases /\ ClickAlone /\ SaveAlone /\ InitsCurrent /\ ClickTellsFile /\ EmitTellsFile
  BY <1>1, <1>5, HasNothing, WaitingNothing
     DEF Phases, ClickAlone, SaveAlone, InitsCurrent, ClickTellsFile, EmitTellsFile
<1>7. SavedHasFile /\ FileShown /\ WizardComes /\ Compiled /\ EditCompiled /\ EditPosted
  BY <1>1, <1>5, HasNothing
     DEF SavedHasFile, FileShown, WizardComes, Compiled, EditCompiled, EditPosted
<1> QED
  BY <1>4, <1>6, <1>7 DEF IInv, Rest

(* The invariant holds in every state the designer can reach. *)
THEOREM IInvHolds == Spec => []IInv
<1>1. Init => IInv
  BY InitIInv
<1>2. IInv /\ [Next]_vars => IInv'
  <2> SUFFICES ASSUME IInv, [Next]_vars PROVE IInv'
    OBVIOUS
  <2>1. Types /\ Phases /\ InitsCurrent /\ SaveAlone
    BY DEF IInv, Rest
  <2>2. Types'
    BY <2>1, TypesStep
  <2>3. Rest'
    BY RestStep
  <2> QED
    BY <2>2, <2>3 DEF IInv
<1> QED
  BY <1>1, <1>2, PTL DEF Spec

(* Every field of the panel, the webview and the files has its kind, a     *)
(* closed panel has neither state nor messages, and a handler that writes  *)
(* or emits knows its file, whatever is clicked, typed or answered when    *)
(* (studioPanel.ts, studio.js).                                            *)
THEOREM TypeCorrect == Spec => []TypeOK
<1>1. IInv => TypeOK
  <2> SUFFICES ASSUME IInv PROVE TypeOK
    OBVIOUS
  <2>1. Types /\ Phases /\ SaveAlone
    BY DEF IInv, Rest
  <2>2. host.activeUri \in Uris \union {None} /\ host.override \in Proposals \union {None}
    BY <2>1, HostFields DEF Types
  <2>3. \A m \in ToSet(toHost) : m.type \in MessageTypes
    <3>1. \A m \in HostMessages : m.type \in MessageTypes
      BY DEF HostMessages, ByForm, Clicks, MessageTypes
    <3>2. \A i \in 1..Len(toHost) : toHost[i] \in HostMessages
      BY <2>1 DEF Types
    <3>3. \A m \in ToSet(toHost) : \E i \in 1..Len(toHost) : m = toHost[i]
      BY <2>1 DEF Types, ToSet
    <3> QED
      BY <3>1, <3>2, <3>3
  <2>4. \A t \in ToSet(tasks) :
           /\ t.kind \in {"init", "dialog", "write", "emit"}
           /\ t.kind # "dialog" => t.uri \in Uris
           /\ t.kind = "emit" => t.then \in {"generate", "scaffold"}
    <3>1. \A i \in 1..Len(tasks) : tasks[i] \in Reads \union Works
      BY <2>1 DEF Types
    <3>2. \A t \in Reads : t.kind = "init" /\ t.uri \in Uris
      BY DEF Reads
    <3>3. \A t \in Works : t.kind \in {"dialog", "write", "emit"}
      BY DEF Works
    <3>4. \A t \in ToSet(tasks) : \E i \in 1..Len(tasks) : t = tasks[i]
      BY <2>1 DEF Types, ToSet
    <3> QED
      BY <2>1, <3>1, <3>2, <3>3, <3>4 DEF SaveAlone
  <2>5. panel = "closed" => host = NoHost /\ view = NoView /\ Settled
    BY <2>1 DEF Phases, Settled, Quiet
  <2>6. {timer, view.hasDevice, view.saved, view.dirty, view.lastValid, view.wizard, wanted}
           \subseteq BOOLEAN
    BY <2>1, ViewFields DEF Types
  <2> QED
    BY <2>1, <2>2, <2>3, <2>4, <2>5, <2>6 DEF Types, TypeOK
<1> QED
  BY <1>1, IInvHolds, PTL

(* At rest an open designer that says Saved shows what its file says.      *)
THEOREM ChipTellsDiskHolds == Spec => []ChipTellsDisk
<1>1. IInv => ChipTellsDisk
  <2> SUFFICES ASSUME IInv, Editing, view.saved, ~view.dirty, host.override = None,
                      host.activeUri \notin stale
               PROVE  /\ view.source = host.activeUri
                      /\ view.form = manifestToForm(disk[host.activeUri])
    BY DEF ChipTellsDisk
  <2>1. Types /\ FileShown /\ SavedHasFile /\ Settled /\ panel = "open"
    BY DEF IInv, Rest, Editing
  <2>2. /\ ~ReloadDue /\ ~Has(toView, {"init"}) /\ ~Has(toView, {"init", "update"})
        /\ ~Has(toHost, {"createDevice"})
    BY <2>1, AtRest, NoReload
  <2>3. host.activeUri # None
    BY <2>1, <2>2 DEF SavedHasFile
  <2> QED
    BY <2>1, <2>2, <2>3 DEF FileShown, InSight
<1> QED
  BY <1>1, IInvHolds, PTL

(* The creation screen that a command asked for is there once everything   *)
(* posted is handled: no init hides it (studioPanel.ts 165-168).           *)
THEOREM WizardStaysHolds == Spec => []WizardStays
<1>1. IInv => WizardStays
  <2> SUFFICES ASSUME IInv, panel = "open", Settled, wanted PROVE view.wizard
    BY DEF WizardStays
  <2>1. Types /\ WizardComes
    BY DEF IInv, Rest
  <2>2. toHost = <<>> /\ Latest(toView, {"init", "openWizard"}) = 0
    BY <2>1, AtRest
  <2> QED
    BY <2>1, <2>2 DEF WizardComes, WizardDue, WizardOpens
<1> QED
  BY <1>1, IInvHolds, PTL

(* Save is not offered for a form with errors, after an edit or for a      *)
(* manifest shown as it came (renderActions in studio.js).                 *)
THEOREM OnlyValidOfferedHolds == Spec => []OnlyValidOffered
<1>1. IInv => OnlyValidOffered
  <2> SUFFICES ASSUME IInv, Editing, SaveOffered,
                      view.dirty \/ (view.form = host.currentForm /\ view.form.protocols # <<>>)
               PROVE  Valid(formToManifest(view.form))
    BY DEF OnlyValidOffered
  <2>1. Types /\ Compiled /\ EditCompiled /\ Settled /\ panel = "open" /\ view.lastValid
    BY DEF IInv, Rest, Editing, SaveOffered
  <2>2. /\ ~ReloadDue /\ ~Has(toView, {"init"}) /\ timer = FALSE
        /\ ~Has(toHost, {"applyForm", "createDevice"})
        /\ Latest(toView, {"init", "update"}) = 0
    BY <2>1, AtRest, NoReload
  <2>3. SaysValid
    BY <2>1, <2>2 DEF SaysValid
  <2> QED
    BY <2>1, <2>2, <2>3 DEF Compiled, EditCompiled
<1> QED
  BY <1>1, IInvHolds, PTL

(* Artifacts and starter firmware are of the device that its file holds,   *)
(* not of edits that are not saved (renderActions, ensureSaved).           *)
THEOREM EmittedIsSavedHolds == Spec => []EmittedIsSaved
<1>1. IInv => EmittedIsSaved
  <2> SUFFICES ASSUME IInv, NEW t \in ToSet(tasks), t.kind = "emit", host.override = None,
                      t.uri \notin stale
               PROVE  manifestToForm(formToManifest(t.form)) = manifestToForm(disk[t.uri])
    BY DEF EmittedIsSaved
  <2>1. Types /\ EmitTellsFile
    BY DEF IInv, Rest
  <2>2. PICK i \in 1..Len(tasks) : t = tasks[i]
    BY <2>1 DEF Types, ToSet
  <2>3. Told(t, disk)
    BY <2>1, <2>2 DEF EmitTellsFile
  <2> QED
    BY <2>3 DEF Told
<1> QED
  BY <1>1, IInvHolds, PTL
================================================================================
