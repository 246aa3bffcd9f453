------------------------- MODULE FirmwareVersionsProofs -------------------------
(***************************************************************************)
(* Proofs about the order of versions, for any set of dotted numeric       *)
(* versions, of any length and spelling, and any number of builds: the     *)
(* loops of both comparisons read decimal numbers, the first component in  *)
(* which two versions differ decides as the numeric reading does, and the  *)
(* store's one pass finds a highest build.                                 *)
(***************************************************************************)
EXTENDS FirmwareVersions, WellFoundedInduction, TLAPS

--------------------------------------------------------------------------------
(* Loops over a sequence. *)

(* The least number there is of a kind. *)
LEMMA Least ==
    ASSUME NEW S \in SUBSET Nat, S # {}
    PROVE  \E m \in S : \A n \in S : m <= n
<1>1. \E m \in S : \A n \in S : ~(<<n, m>> \in OpToRel(<, Nat))
  BY NatLessThanWellFounded, WFMin
<1>2. PICK m \in S : \A n \in S : ~(<<n, m>> \in OpToRel(<, Nat))
  BY <1>1
<1>3. \A n \in S : ~(n < m)
  BY <1>2 DEF OpToRel
<1> QED
  BY <1>3

(* What holds at first and of the next number holds of all of them. *)
LEMMA Counting ==
    ASSUME NEW n \in Nat, NEW G, 0 \in G,
           \A k \in 0..(n - 1) : k \in G => k + 1 \in G
    PROVE  n \in G
<1> DEFINE Bad == {k \in 0..n : k \notin G}
<1>1. SUFFICES ASSUME Bad # {} PROVE FALSE
  OBVIOUS
<1>2. Bad \in SUBSET Nat
  OBVIOUS
<1>3. PICK m \in Bad : \A k \in Bad : m <= k
  <2> HIDE DEF Bad
  <2> QED
    BY <1>1, <1>2, Least
<1>4. m # 0 /\ m \in 0..n
  BY <1>3
<1>5. m - 1 \in 0..(n - 1) /\ m - 1 \in 0..n /\ ~(m <= m - 1) /\ (m - 1) + 1 = m
  BY <1>4
<1>6. m - 1 \in G
  BY <1>3, <1>5
<1> QED
  BY <1>3, <1>5, <1>6

(* A highest member is the one that Max takes. *)
LEMMA HighestIsMax ==
    ASSUME NEW t \in SUBSET Int, NEW k \in t, \A x \in t : x <= k
    PROVE  Max(t) = k
<1>1. Max(t) \in t /\ \A y \in t : Max(t) >= y
  BY DEF Max
<1>2. Max(t) \in Int /\ k \in Int /\ Max(t) >= k /\ Max(t) <= k
  BY <1>1
<1> QED
  BY <1>2

(* The library defines a loop over a sequence by a function on the sets of *)
(* places; F says what one turn makes of the result so far and an element. *)
Iterates(g, base, F, s, n) ==
    g = [t \in SUBSET (1..n) |->
            IF t = {} THEN base ELSE F[<<g[t \ {Max(t)}], s[Max(t)]>>]]

(* There is such a function, however long the sequence. *)
LEMMA LoopExists ==
    ASSUME NEW V, NEW S, NEW F \in [V \X S -> V], NEW base \in V, NEW s \in Seq(S)
    PROVE  \E g \in [SUBSET (1..Len(s)) -> V] : Iterates(g, base, F, s, Len(s))
<1> DEFINE G == {k \in 0..Len(s) : \E g \in [SUBSET (1..k) -> V] : Iterates(g, base, F, s, k)}
<1>1. 0 \in G
  <2> DEFINE g == [t \in SUBSET (1..0) |-> base]
  <2>1. 1..0 = {} /\ \A t \in SUBSET (1..0) : t = {}
    OBVIOUS
  <2>2. g = [t \in SUBSET (1..0) |->
               IF t = {} THEN base ELSE F[<<g[t \ {Max(t)}], s[Max(t)]>>]]
    BY <2>1
  <2>3. g \in [SUBSET (1..0) -> V] /\ Iterates(g, base, F, s, 0)
    BY <2>2 DEF Iterates
  <2> HIDE DEF g
  <2>4. 0 \in 0..Len(s)
    OBVIOUS
  <2> QED
    BY <2>3, <2>4
<1>2. ASSUME NEW k \in 0..(Len(s) - 1), k \in G PROVE k + 1 \in G
  <2>1. PICK g \in [SUBSET (1..k) -> V] : Iterates(g, base, F, s, k)
    BY <1>2
  <2> DEFINE n == k + 1
             h == [t \in SUBSET (1..n) |->
                     IF n \in t THEN F[<<g[t \ {n}], s[n]>>] ELSE g[t]]
  <2>2. /\ n \notin 1..k /\ 1..n = (1..k) \union {n} /\ n \in Int
        /\ 1..n \in SUBSET Int /\ \A x \in 1..n : x <= n
    OBVIOUS
  <2>3. \A t \in SUBSET (1..k) :
           g[t] = IF t = {} THEN base ELSE F[<<g[t \ {Max(t)}], s[Max(t)]>>]
    BY <2>1 DEF Iterates
  <2>4. s[n] \in S
    OBVIOUS
  <2> HIDE DEF n
  <2>5. ASSUME NEW t \in SUBSET (1..n)
        PROVE  /\ h[t] = IF t = {} THEN base ELSE F[<<h[t \ {Max(t)}], s[Max(t)]>>]
               /\ h[t] \in V
    <3>1. CASE n \in t
      <4>1. Max(t) = n
        <5>1. t \in SUBSET Int /\ \A x \in t : x <= n
          BY <2>2
        <5> QED
          BY <3>1, <5>1, HighestIsMax
      <4>2. t \ {n} \in SUBSET (1..n) /\ t \ {n} \in SUBSET (1..k) /\ n \notin t \ {n} /\ t # {}
        BY <2>2, <3>1
      <4>3. h[t \ {n}] = g[t \ {n}] /\ h[t] = F[<<g[t \ {n}], s[n]>>]
        BY <3>1, <4>2
      <4>4. g[t \ {n}] \in V
        BY <4>2
      <4> QED
        BY <2>4, <4>1, <4>2, <4>3, <4>4
    <3>2. CASE n \notin t
      <4>1. t \in SUBSET (1..k) /\ t \ {Max(t)} \in SUBSET (1..n) /\ n \notin t \ {Max(t)}
        BY <2>2, <3>2
      <4>2. h[t] = g[t] /\ h[t \ {Max(t)}] = g[t \ {Max(t)}]
        BY <3>2, <4>1
      <4> QED
        BY <2>3, <4>1, <4>2
    <3> QED
      BY <3>1, <3>2
  <2>6. h = [t \in SUBSET (1..n) |->
               IF t = {} THEN base ELSE F[<<h[t \ {Max(t)}], s[Max(t)]>>]]
    BY <2>5
  <2>7. h \in [SUBSET (1..n) -> V]
    BY <2>5
  <2> HIDE DEF h
  <2>8. Iterates(h, base, F, s, n)
    BY <2>6 DEF Iterates
  <2>9. n \in 0..Len(s)
    BY DEF n
  <2> QED
    BY <2>7, <2>8, <2>9 DEF n
<1>3. Len(s) \in Nat
  OBVIOUS
<1>4. Len(s) \in G
  <2> HIDE DEF G
  <2> QED
    BY <1>1, <1>2, <1>3, Counting
<1> QED
  BY <1>4

(* The highest of some places is one of them. *)
LEMMA MaxOfPlaces ==
    ASSUME NEW n \in Nat, NEW t \in SUBSET (1..n), t # {}
    PROVE  Max(t) \in t
<1> DEFINE far == {n - x : x \in t}
<1>1. far \in SUBSET Nat /\ far # {}
  <2>1. \A x \in t : n - x \in Nat
    OBVIOUS
  <2> QED
    BY <2>1
<1>2. PICK m \in far : \A y \in far : m <= y
  <2> HIDE DEF far
  <2> QED
    BY <1>1, Least
<1>3. PICK k \in t : m = n - k
  BY <1>2
<1>4. t \in SUBSET Int /\ \A x \in t : x <= k
  BY <1>2, <1>3
<1>5. Max(t) = k
  BY <1>3, <1>4, HighestIsMax
<1> QED
  BY <1>3, <1>5

(* On the first places it says what the loop has after so many turns. *)
LEMMA LoopTurns ==
    ASSUME NEW n \in Nat
    PROVE  /\ 1..0 = {}
           /\ \A k \in 1..n : /\ 1..k \in SUBSET (1..n) /\ 1..k # {} /\ Max(1..k) = k
                              /\ (1..k) \ {k} = 1..(k - 1)
<1> SUFFICES ASSUME NEW k \in 1..n
             PROVE  /\ 1..k \in SUBSET (1..n) /\ 1..k # {} /\ Max(1..k) = k
                    /\ (1..k) \ {k} = 1..(k - 1)
  OBVIOUS
<1>1. 1..k \in SUBSET Int /\ k \in 1..k /\ \A x \in 1..k : x <= k
  OBVIOUS
<1>2. Max(1..k) = k
  BY <1>1, HighestIsMax
<1> QED
  BY <1>1, <1>2

--------------------------------------------------------------------------------
(* What the loop that reads a component has after each digit. *)
DecimalTurn(n, c) == n * 10 + (c - 48)

DecimalLoop(g, s) ==
    g = [t \in SUBSET DOMAIN s |-> IF t = {} THEN 0 ELSE DecimalTurn(g[t \ {Max(t)}], s[Max(t)])]

LEMMA DecimalUnfolds ==
    ASSUME NEW s
    PROVE  Decimal(s) = (CHOOSE g : DecimalLoop(g, s))[DOMAIN s]
BY DEF Decimal, FoldLeft, MapThenFoldSet, DecimalLoop, DecimalTurn

LEMMA DecimalTurns ==
    ASSUME NEW s \in Seq(Int)
    PROVE  \E r : /\ r[0] = 0 /\ r[Len(s)] = Decimal(s)
                  /\ \A k \in 1..Len(s) : r[k] = DecimalTurn(r[k - 1], s[k])
<1> DEFINE V == Int
           F == [x \in V \X V |-> DecimalTurn(x[1], x[2])]
           n == Len(s)
           it == CHOOSE g : DecimalLoop(g, s)
           r == [k \in 0..n |-> it[1..k]]
<1>1. n \in Nat /\ DOMAIN s = 1..n /\ \A i \in 1..n : s[i] \in Int
  OBVIOUS
<1>2. F \in [V \X V -> V] /\ 0 \in V /\ s \in Seq(V)
  BY DEF DecimalTurn
<1>3. PICK g \in [SUBSET (1..n) -> V] : Iterates(g, 0, F, s, n)
  <2> HIDE DEF F, V
  <2> QED
    BY <1>2, LoopExists DEF n
<1>4. DecimalLoop(g, s)
  <2>1. \A t \in SUBSET (1..n) :
           g[t] = IF t = {} THEN 0 ELSE F[<<g[t \ {Max(t)}], s[Max(t)]>>]
    BY <1>3 DEF Iterates
  <2>2. ASSUME NEW t \in SUBSET (1..n), t # {}
        PROVE  g[t] = DecimalTurn(g[t \ {Max(t)}], s[Max(t)])
    <3>1. Max(t) \in 1..n
      BY <1>1, <2>2, MaxOfPlaces
    <3>2. g[t \ {Max(t)}] \in Int /\ s[Max(t)] \in Int
      BY <1>1, <1>3, <3>1
    <3> QED
      BY <2>1, <2>2, <3>2
  <2>3. g = [t \in SUBSET (1..n) |->
               IF t = {} THEN 0 ELSE DecimalTurn(g[t \ {Max(t)}], s[Max(t)])]
    BY <1>3, <2>1, <2>2
  <2> QED
    BY <1>1, <2>3 DEF DecimalLoop
<1>5. DecimalLoop(it, s)
  BY <1>4
<1>6. \A t \in SUBSET (1..n) : it[t] = IF t = {} THEN 0 ELSE DecimalTurn(it[t \ {Max(t)}], s[Max(t)])
  BY <1>1, <1>5 DEF DecimalLoop
<1>7. it[1..n] = Decimal(s)
  BY <1>1, DecimalUnfolds
<1> HIDE DEF it, n
<1>8. /\ 1..0 = {}
      /\ \A k \in 1..n : /\ 1..k \in SUBSET (1..n) /\ 1..k # {} /\ Max(1..k) = k
                         /\ (1..k) \ {k} = 1..(k - 1)
  BY <1>1, LoopTurns
<1>9. r[0] = 0
  <2>1. it[{}] = 0
    BY <1>6
  <2>2. 0 \in 0..n
    BY <1>1
  <2> QED
    BY <1>8, <2>1, <2>2
<1>10. ASSUME NEW k \in 1..n PROVE r[k] = DecimalTurn(r[k - 1], s[k])
  <2>1. k \in 0..n /\ k - 1 \in 0..n
    BY <1>1
  <2>2. r[k] = it[1..k] /\ r[k - 1] = it[1..(k - 1)]
    BY <2>1
  <2>3. it[1..k] = DecimalTurn(it[(1..k) \ {k}], s[k])
    BY <1>6, <1>8
  <2> QED
    BY <1>8, <2>2, <2>3
<1>11. r[n] = Decimal(s)
  BY <1>1, <1>7
<1> HIDE DEF r
<1> QED
  BY <1>9, <1>10, <1>11 DEF n

LEMMA DigitTurn ==
    ASSUME NEW n \in Nat, NEW c \in 48..57
    PROVE  DecimalTurn(n, c) \in Nat /\ n <= DecimalTurn(n, c) /\ n * 10 <= DecimalTurn(n, c)
BY DEF DecimalTurn

(* A component made of digits is a number, and so is what has been read of *)
(* it so far, which only grows.                                            *)
LEMMA DecimalGrows ==
    ASSUME NEW s \in Seq(Nat), IsNumeric(s)
    PROVE  \E r \in [0..Len(s) -> Nat] :
              /\ r[0] = 0 /\ r[Len(s)] = Decimal(s)
              /\ \A k \in 1..Len(s) : r[k] = DecimalTurn(r[k - 1], s[k])
              /\ \A k \in 0..Len(s) : r[k] <= Decimal(s)
<1> DEFINE n == Len(s)
<1>1. n \in Nat /\ s \in Seq(Int) /\ \A i \in 1..n : s[i] \in 48..57
  BY DEF IsNumeric, Digits
<1>2. PICK q : /\ q[0] = 0 /\ q[n] = Decimal(s)
               /\ \A k \in 1..n : q[k] = DecimalTurn(q[k - 1], s[k])
  BY <1>1, DecimalTurns
<1> HIDE DEF n
<1>3. ASSUME NEW k \in 0..(n - 1), q[k] \in Nat
      PROVE  q[k + 1] \in Nat /\ q[k] <= q[k + 1]
  <2>1. k + 1 \in 1..n /\ (k + 1) - 1 = k
    BY <1>1
  <2>2. q[k + 1] = DecimalTurn(q[k], s[k + 1]) /\ s[k + 1] \in 48..57
    BY <1>1, <1>2, <2>1
  <2> QED
    BY <1>3, <2>2, DigitTurn
<1>4. ASSUME NEW m \in 0..n PROVE q[m] \in Nat
  <2> DEFINE G == {k \in 0..m : q[k] \in Nat}
  <2>1. 0 \in G /\ m \in Nat
    BY <1>1, <1>2
  <2>2. ASSUME NEW k \in 0..(m - 1), k \in G PROVE k + 1 \in G
    <3>1. k \in 0..(n - 1) /\ k + 1 \in 0..m
      BY <1>1
    <3> QED
      BY <1>3, <2>2, <3>1
  <2>3. m \in G
    <3> HIDE DEF G
    <3> QED
      BY <2>1, <2>2, Counting
  <2> QED
    BY <2>3
<1>5. ASSUME NEW m \in 0..n PROVE q[m] <= q[n]
  <2> DEFINE G == {k \in 0..(n - m) : q[m] <= q[m + k]}
  <2>1. 0 \in G /\ n - m \in Nat
    BY <1>1, <1>4
  <2>2. ASSUME NEW k \in 0..((n - m) - 1), k \in G PROVE k + 1 \in G
    <3>1. /\ m + k \in 0..(n - 1) /\ k + 1 \in 0..(n - m) /\ m + k \in 0..n
          /\ (m + k) + 1 = m + (k + 1) /\ (m + k) + 1 \in 0..n
      BY <1>1
    <3>2. q[m + k] <= q[m + (k + 1)] /\ q[m] <= q[m + k]
      BY <1>3, <1>4, <2>2, <3>1
    <3>3. q[m] \in Nat /\ q[m + k] \in Nat /\ q[m + (k + 1)] \in Nat
      BY <1>4, <3>1
    <3> QED
      BY <3>1, <3>2, <3>3
  <2>3. n - m \in G
    <3> HIDE DEF G
    <3> QED
      BY <2>1, <2>2, Counting
  <2>4. m + (n - m) = n
    BY <1>1
  <2> QED
    BY <2>3, <2>4
<1> DEFINE r == [k \in 0..n |-> q[k]]
<1>6. /\ r \in [0..n -> Nat] /\ r[0] = 0 /\ r[n] = Decimal(s)
      /\ \A k \in 0..n : r[k] <= Decimal(s)
  BY <1>1, <1>2, <1>4, <1>5
<1>7. ASSUME NEW k \in 1..n PROVE r[k] = DecimalTurn(r[k - 1], s[k])
  <2>1. k \in 0..n /\ k - 1 \in 0..n
    BY <1>1
  <2> QED
    BY <1>2, <2>1
<1> HIDE DEF r
<1> QED
  BY <1>6, <1>7 DEF n

--------------------------------------------------------------------------------
(* What the device's loop has after each character. *)
ReadTurn(n, c) == Wrap(Wrap(n * 10) + (c - 48))

ReadLoop(g, s) ==
    g = [t \in SUBSET DOMAIN s |-> IF t = {} THEN 0 ELSE ReadTurn(g[t \ {Max(t)}], s[Max(t)])]

LEMMA ReadUnfolds ==
    ASSUME NEW s
    PROVE  ReadDigits(s) = (CHOOSE g : ReadLoop(g, s))[DOMAIN s]
BY DEF ReadDigits, FoldLeft, MapThenFoldSet, ReadLoop, ReadTurn

(* What fits the device's int is not wrapped; what is wrapped is a number. *)
LEMMA Fits ==
    ASSUME NEW n \in -(IntMax + 1)..IntMax
    PROVE  Wrap(n) = n
<1> DEFINE d == 2 * (IntMax + 1)
           x == n + IntMax + 1
<1>1. IntMax \in Nat
  BY BoundsAssumption
<1>2. x \in 0..(d - 1) /\ d \in Nat /\ d > 0 /\ x - (IntMax + 1) = n
  BY <1>1
<1>3. x % d = x
  <2> HIDE DEF x, d
  <2> QED
    BY <1>2
<1> QED
  BY <1>2, <1>3 DEF Wrap

LEMMA WrapIsInt ==
    ASSUME NEW n \in Int
    PROVE  Wrap(n) \in Int
<1> DEFINE d == 2 * (IntMax + 1)
           x == n + IntMax + 1
<1>1. IntMax \in Nat
  BY BoundsAssumption
<1>2. x \in Int /\ d \in Nat /\ d > 0
  BY <1>1
<1>3. x % d \in Int
  <2> HIDE DEF x, d
  <2> QED
    BY <1>2
<1> QED
  BY <1>1, <1>3 DEF Wrap

LEMMA ReadTurns ==
    ASSUME NEW s \in Seq(Int)
    PROVE  \E r : /\ r[0] = 0 /\ r[Len(s)] = ReadDigits(s)
                  /\ \A k \in 1..Len(s) : r[k] = ReadTurn(r[k - 1], s[k])
<1> DEFINE V == Int
           F == [x \in V \X V |-> ReadTurn(x[1], x[2])]
           n == Len(s)
           it == CHOOSE g : ReadLoop(g, s)
           r == [k \in 0..n |-> it[1..k]]
<1>1. n \in Nat /\ DOMAIN s = 1..n /\ \A i \in 1..n : s[i] \in Int
  OBVIOUS
<1>2. F \in [V \X V -> V] /\ 0 \in V /\ s \in Seq(V)
  <2>1. ASSUME NEW a \in Int, NEW c \in Int PROVE ReadTurn(a, c) \in Int
    BY WrapIsInt DEF ReadTurn
  <2> QED
    BY <2>1
<1>3. PICK g \in [SUBSET (1..n) -> V] : Iterates(g, 0, F, s, n)
  <2> HIDE DEF F, V
  <2> QED
    BY <1>2, LoopExists DEF n
<1>4. ReadLoop(g, s)
  <2>1. \A t \in SUBSET (1..n) :
           g[t] = IF t = {} THEN 0 ELSE F[<<g[t \ {Max(t)}], s[Max(t)]>>]
    BY <1>3 DEF Iterates
  <2>2. ASSUME NEW t \in SUBSET (1..n), t # {}
        PROVE  g[t] = ReadTurn(g[t \ {Max(t)}], s[Max(t)])
    <3>1. Max(t) \in 1..n
      BY <1>1, <2>2, MaxOfPlaces
    <3>2. g[t \ {Max(t)}] \in Int /\ s[Max(t)] \in Int
      BY <1>1, <1>3, <3>1
    <3> QED
      BY <2>1, <2>2, <3>2
  <2>3. g = [t \in SUBSET (1..n) |->
               IF t = {} THEN 0 ELSE ReadTurn(g[t \ {Max(t)}], s[Max(t)])]
    BY <1>3, <2>1, <2>2
  <2> QED
    BY <1>1, <2>3 DEF ReadLoop
<1>5. ReadLoop(it, s)
  BY <1>4
<1>6. \A t \in SUBSET (1..n) : it[t] = IF t = {} THEN 0 ELSE ReadTurn(it[t \ {Max(t)}], s[Max(t)])
  BY <1>1, <1>5 DEF ReadLoop
<1>7. it[1..n] = ReadDigits(s)
  BY <1>1, ReadUnfolds
<1> HIDE DEF it, n
<1>8. /\ 1..0 = {}
      /\ \A k \in 1..n : /\ 1..k \in SUBSET (1..n) /\ 1..k # {} /\ Max(1..k) = k
                         /\ (1..k) \ {k} = 1..(k - 1)
  BY <1>1, LoopTurns
<1>9. r[0] = 0
  <2>1. it[{}] = 0
    BY <1>6
  <2>2. 0 \in 0..n
    BY <1>1
  <2> QED
    BY <1>8, <2>1, <2>2
<1>10. ASSUME NEW k \in 1..n PROVE r[k] = ReadTurn(r[k - 1], s[k])
  <2>1. k \in 0..n /\ k - 1 \in 0..n
    BY <1>1
  <2>2. r[k] = it[1..k] /\ r[k - 1] = it[1..(k - 1)]
    BY <2>1
  <2>3. it[1..k] = ReadTurn(it[(1..k) \ {k}], s[k])
    BY <1>6, <1>8
  <2> QED
    BY <1>8, <2>2, <2>3
<1>11. r[n] = ReadDigits(s)
  BY <1>1, <1>7
<1> HIDE DEF r
<1> QED
  BY <1>9, <1>10, <1>11 DEF n

(* The device reads a number that its int holds as what it is. *)
LEMMA ReadsDecimal ==
    ASSUME NEW s \in Seq(Nat), IsNumeric(s), Decimal(s) <= IntMax
    PROVE  ReadDigits(s) = Decimal(s)
<1> DEFINE n == Len(s)
<1>1. n \in Nat /\ s \in Seq(Int) /\ \A i \in 1..n : s[i] \in 48..57
  BY DEF IsNumeric, Digits
<1>2. PICK q \in [0..n -> Nat] :
           /\ q[0] = 0 /\ q[n] = Decimal(s)
           /\ \A k \in 1..n : q[k] = DecimalTurn(q[k - 1], s[k])
           /\ \A k \in 0..n : q[k] <= Decimal(s)
  BY DecimalGrows
<1>3. PICK r : /\ r[0] = 0 /\ r[n] = ReadDigits(s)
               /\ \A k \in 1..n : r[k] = ReadTurn(r[k - 1], s[k])
  BY <1>1, ReadTurns
<1> DEFINE G == {k \in 0..n : r[k] = q[k]}
<1> HIDE DEF n
<1>4. 0 \in G
  BY <1>1, <1>2, <1>3
<1>5. ASSUME NEW k \in 0..(n - 1), k \in G PROVE k + 1 \in G
  <2>1. k + 1 \in 1..n /\ k + 1 \in 0..n /\ k \in 0..n /\ (k + 1) - 1 = k
    BY <1>1
  <2>2. r[k + 1] = ReadTurn(q[k], s[k + 1]) /\ q[k + 1] = DecimalTurn(q[k], s[k + 1])
    BY <1>2, <1>3, <1>5, <2>1
  <2>3. PICK a \in Nat, b \in Nat, c \in 48..57 : a = q[k] /\ b = q[k + 1] /\ c = s[k + 1]
    BY <1>1, <1>2, <2>1
  <2>4. b <= IntMax /\ b = DecimalTurn(a, c)
    <3>1. b <= Decimal(s) /\ Decimal(s) \in Nat
      BY <1>1, <1>2, <2>1, <2>3
    <3> QED
      BY <2>2, <2>3, <3>1, BoundsAssumption
  <2>5. a * 10 \in -(IntMax + 1)..IntMax /\ a * 10 + (c - 48) \in -(IntMax + 1)..IntMax
    BY <2>4, BoundsAssumption DEF DecimalTurn
  <2>6. ReadTurn(a, c) = DecimalTurn(a, c)
    BY <2>5, Fits DEF ReadTurn, DecimalTurn
  <2> QED
    BY <2>1, <2>2, <2>3, <2>6
<1>6. n \in G
  <2> HIDE DEF G
  <2> QED
    BY <1>1, <1>4, <1>5, Counting
<1> QED
  BY <1>2, <1>3, <1>6

--------------------------------------------------------------------------------
(* Components.  A missing one is "0". *)
LEMMA ZeroIsZero == <<48>> \in Seq(Nat) /\ IsNumeric(<<48>>) /\ Decimal(<<48>>) = 0
<1> DEFINE z == <<48>>
<1>1. z \in Seq(Nat) /\ Len(z) = 1 /\ z[1] = 48
  OBVIOUS
<1> HIDE DEF z
<1>2. IsNumeric(z)
  BY <1>1 DEF IsNumeric, Digits
<1>3. PICK q : /\ q[0] = 0 /\ q[Len(z)] = Decimal(z)
               /\ \A k \in 1..Len(z) : q[k] = DecimalTurn(q[k - 1], z[k])
  BY <1>1, DecimalTurns
<1>4. q[1] = DecimalTurn(q[0], z[1])
  BY <1>1, <1>3
<1>5. Decimal(z) = 0
  BY <1>1, <1>3, <1>4 DEF DecimalTurn
<1> QED
  BY <1>1, <1>2, <1>5 DEF z

LEMMA Components ==
    ASSUME Dotted, NEW v \in Versions, NEW i \in Nat \ {0}
    PROVE  /\ Component(v, i) \in Seq(Nat) /\ IsNumeric(Component(v, i))
           /\ Decimal(Component(v, i)) \in Nat
           /\ Len(v) \in Nat \ {0} /\ (i > Len(v) => Decimal(Component(v, i)) = 0)
           /\ (Readable => Decimal(Component(v, i)) <= IntMax)
<1>1. v \in Seq(Seq(Nat)) /\ v # <<>>
  BY VersionsAssumption
<1>2. Len(v) \in Nat \ {0}
  BY <1>1
<1>3. Component(v, i) \in Seq(Nat) /\ IsNumeric(Component(v, i))
  BY <1>1, <1>2, ZeroIsZero DEF Component, Dotted
<1>4. Decimal(Component(v, i)) \in Nat
  <2>1. PICK q \in [0..Len(Component(v, i)) -> Nat] :
            q[Len(Component(v, i))] = Decimal(Component(v, i))
    BY <1>3, DecimalGrows
  <2>2. Len(Component(v, i)) \in 0..Len(Component(v, i))
    BY <1>3
  <2> QED
    BY <2>1, <2>2
<1>5. i > Len(v) => Component(v, i) = <<48>>
  BY <1>2 DEF Component
<1>6. Readable => Decimal(Component(v, i)) <= IntMax
  BY <1>2, ZeroIsZero, BoundsAssumption DEF Component, Readable
<1> QED
  BY <1>2, <1>3, <1>4, <1>5, <1>6, ZeroIsZero

(* On both sides the sign of a component is that of a difference. *)
LEMMA CompareNumbers ==
    ASSUME Dotted, NEW v \in Versions, NEW w \in Versions, NEW i \in Nat \ {0}
    PROVE  LET s == Component(v, i)
               t == Component(w, i)
           IN  /\ CompareComponents(s, t) = Decimal(s) - Decimal(t)
               /\ Readable => CompareRead(s, t) = Decimal(s) - Decimal(t)
<1> DEFINE s == Component(v, i)
           t == Component(w, i)
<1>1. /\ s \in Seq(Nat) /\ IsNumeric(s) /\ Decimal(s) \in Nat
      /\ t \in Seq(Nat) /\ IsNumeric(t) /\ Decimal(t) \in Nat
  BY Components
<1>2. Readable => Decimal(s) <= IntMax /\ Decimal(t) <= IntMax
  BY Components
<1> HIDE DEF s, t
<1>3. CompareComponents(s, t) = Decimal(s) - Decimal(t)
  BY <1>1 DEF CompareComponents, Number
<1>4. ASSUME Readable PROVE CompareRead(s, t) = Decimal(s) - Decimal(t)
  <2>1. ReadDigits(s) = Decimal(s) /\ ReadDigits(t) = Decimal(t)
    BY <1>1, <1>2, <1>4, ReadsDecimal
  <2>2. Decimal(s) - Decimal(t) \in -(IntMax + 1)..IntMax
    BY <1>1, <1>2, <1>4, BoundsAssumption
  <2> QED
    BY <2>1, <2>2, Fits DEF CompareRead
<1> QED
  BY <1>3, <1>4 DEF s, t

(* Device and cloud compute the same number. *)
LEMMA SameComparison ==
    ASSUME Dotted, Readable, NEW v \in Versions, NEW w \in Versions
    PROVE  compare_versions(v, w) = compareVersions(v, w)
<1>1. \A i \in 1..Length(v, w) : i \in Nat \ {0}
  BY Components DEF Length
<1>2. \A i \in 1..Length(v, w) : CompareRead(Component(v, i), Component(w, i))
                                = CompareComponents(Component(v, i), Component(w, i))
  BY <1>1, CompareNumbers
<1> QED
  BY <1>2 DEF compare_versions, compareVersions

--------------------------------------------------------------------------------
(* The first component in which two versions differ, wherever it is. *)
Above(v, w, i) ==
    /\ Decimal(Component(v, i)) > Decimal(Component(w, i))
    /\ \A j \in 1..(i - 1) : Decimal(Component(v, j)) = Decimal(Component(w, j))

LEMMA NewerAnywhere ==
    ASSUME Dotted, NEW v \in Versions, NEW w \in Versions
    PROVE  NumericallyNewer(v, w) <=> \E i \in Nat \ {0} : Above(v, w, i)
<1>1. Len(v) \in Nat \ {0} /\ Len(w) \in Nat \ {0}
  <2>1. 1 \in Nat \ {0}
    OBVIOUS
  <2> QED
    BY <2>1, Components
<1>2. ASSUME NEW i \in Nat \ {0}, Above(v, w, i) PROVE i \in 1..(Len(v) + Len(w))
  <2>1. SUFFICES ASSUME i > Len(v) + Len(w) PROVE FALSE
    BY <1>1
  <2>2. Decimal(Component(v, i)) = 0 /\ Decimal(Component(w, i)) = 0
    <3>1. i > Len(v) /\ i > Len(w)
      BY <1>1, <2>1
    <3>2. (i > Len(v) => Decimal(Component(v, i)) = 0) /\ (i > Len(w) => Decimal(Component(w, i)) = 0)
      BY Components
    <3> QED
      BY <3>1, <3>2
  <2> QED
    BY <1>2, <2>2 DEF Above
<1>3. \A i \in 1..(Len(v) + Len(w)) : i \in Nat \ {0}
  BY <1>1
<1> QED
  BY <1>2, <1>3 DEF NumericallyNewer, Above

LEMMA NewerIsOrder ==
    ASSUME Dotted, NEW u \in Versions, NEW v \in Versions, NEW w \in Versions
    PROVE  /\ ~NumericallyNewer(v, v)
           /\ NumericallyNewer(u, v) /\ NumericallyNewer(v, w) => NumericallyNewer(u, w)
<1> DEFINE D(x, i) == Decimal(Component(x, i))
<1>1. \A i \in Nat \ {0} : D(u, i) \in Nat /\ D(v, i) \in Nat /\ D(w, i) \in Nat
  BY Components
<1>2. ~NumericallyNewer(v, v)
  <2>1. \A i \in Nat \ {0} : ~(D(v, i) > D(v, i))
    BY <1>1
  <2> QED
    BY <2>1, NewerAnywhere DEF Above
<1>3. ASSUME NumericallyNewer(u, v), NumericallyNewer(v, w) PROVE NumericallyNewer(u, w)
  <2>1. PICK i \in Nat \ {0} : D(u, i) > D(v, i) /\ \A j \in 1..(i - 1) : D(u, j) = D(v, j)
    BY <1>3, NewerAnywhere DEF Above
  <2>2. PICK k \in Nat \ {0} : D(v, k) > D(w, k) /\ \A j \in 1..(k - 1) : D(v, j) = D(w, j)
    BY <1>3, NewerAnywhere DEF Above
  <2> HIDE DEF D
  <2>3. PICK m \in {i, k} : m <= i /\ m <= k
    BY <2>1, <2>2
  <2>4. m \in Nat \ {0} /\ \A j \in 1..(m - 1) : j \in 1..(i - 1) /\ j \in 1..(k - 1)
    BY <2>1, <2>2, <2>3
  <2>5. \A j \in 1..(m - 1) : D(u, j) = D(w, j)
    BY <2>1, <2>2, <2>4
  <2>6. D(u, m) > D(w, m)
    <3>1. D(u, m) >= D(v, m) /\ D(v, m) >= D(w, m) /\ (D(u, m) > D(v, m) \/ D(v, m) > D(w, m))
      <4>1. m < i => m \in 1..(i - 1)
        BY <2>4
      <4>2. m < k => m \in 1..(k - 1)
        BY <2>4
      <4>3. D(u, m) \in Nat /\ D(v, m) \in Nat /\ D(w, m) \in Nat
        BY <1>1, <2>4
      <4>4. D(u, m) >= D(v, m) /\ (m = i => D(u, m) > D(v, m))
        BY <2>1, <2>3, <4>1, <4>3
      <4>5. D(v, m) >= D(w, m) /\ (m = k => D(v, m) > D(w, m))
        BY <2>2, <2>3, <4>2, <4>3
      <4> QED
        BY <2>3, <4>4, <4>5
    <3> QED
      BY <1>1, <2>4, <3>1
  <2> QED
    BY <2>4, <2>5, <2>6, NewerAnywhere DEF Above, D
<1> QED
  BY <1>2, <1>3

(* A version is compared to be newer when it is by the numeric reading. *)
LEMMA ComparesNumerically ==
    ASSUME Dotted, NEW v \in Versions, NEW w \in Versions
    PROVE  compareVersions(v, w) > 0 <=> NumericallyNewer(v, w)
<1> DEFINE n == Length(v, w)
           D(i) == Decimal(Component(v, i)) - Decimal(Component(w, i))
           signs == [i \in 1..n |-> CompareComponents(Component(v, i), Component(w, i))]
           differ == {i \in 1..Len(signs) : signs[i] # 0}
           first == CHOOSE i \in differ : \A j \in differ : i <= j
<1>1. /\ n \in Nat \ {0} /\ Len(v) \in Nat /\ Len(w) \in Nat /\ Len(v) <= n /\ Len(w) <= n
  <2>1. 1 \in Nat \ {0}
    OBVIOUS
  <2>2. Len(v) \in Nat \ {0} /\ Len(w) \in Nat \ {0}
    BY <2>1, Components
  <2> QED
    BY <2>2 DEF Length
<1>2. ASSUME NEW i \in Nat \ {0}
      PROVE  /\ D(i) \in Int
             /\ D(i) > 0 <=> Decimal(Component(v, i)) > Decimal(Component(w, i))
             /\ D(i) = 0 <=> Decimal(Component(v, i)) = Decimal(Component(w, i))
             /\ i > n => D(i) = 0
  <2>1. Decimal(Component(v, i)) \in Nat /\ Decimal(Component(w, i)) \in Nat
    BY Components
  <2>2. i > n => Decimal(Component(v, i)) = 0 /\ Decimal(Component(w, i)) = 0
    <3>1. i > n => i > Len(v) /\ i > Len(w)
      <4> HIDE DEF n
      <4> QED
        BY <1>1
    <3>2. (i > Len(v) => Decimal(Component(v, i)) = 0) /\ (i > Len(w) => Decimal(Component(w, i)) = 0)
      BY Components
    <3> QED
      BY <3>1, <3>2
  <2> QED
    BY <2>1, <2>2
<1>3. Len(signs) = n /\ \A i \in 1..n : signs[i] = D(i)
  <2>1. \A i \in 1..n : i \in Nat \ {0}
    BY <1>1
  <2>2. \A i \in 1..n : CompareComponents(Component(v, i), Component(w, i)) = D(i)
    BY <2>1, CompareNumbers
  <2>3. Len(signs) = n
    BY <1>1
  <2> QED
    BY <2>2, <2>3
<1>4. compareVersions(v, w) = IF differ = {} THEN 0 ELSE signs[first]
  BY DEF compareVersions, FirstDifference
<1>5. NumericallyNewer(v, w) <=>
         \E i \in Nat \ {0} : D(i) > 0 /\ \A j \in 1..(i - 1) : D(j) = 0
  <2>1. \A i \in Nat \ {0} : \A j \in 1..(i - 1) : j \in Nat \ {0}
    OBVIOUS
  <2>2. \A i \in Nat \ {0} : Above(v, w, i) <=> (D(i) > 0 /\ \A j \in 1..(i - 1) : D(j) = 0)
    <3> HIDE DEF D
    <3> QED
      BY <1>2, <2>1 DEF Above
  <2> QED
    BY <2>2, NewerAnywhere
<1> HIDE DEF D, signs, n
<1>6. CASE differ = {}
  <2>1. \A i \in Nat \ {0} : D(i) = 0
    <3>1. \A i \in 1..n : D(i) = 0
      BY <1>3, <1>6
    <3> QED
      BY <1>1, <1>2, <3>1
  <2> QED
    BY <1>4, <1>5, <1>6, <2>1
<1>7. CASE differ # {}
  <2>1. differ \in SUBSET Nat
    BY <1>1, <1>3
  <2>2. first \in differ /\ \A j \in differ : first <= j
    <3>1. \E i \in differ : \A j \in differ : i <= j
      <4> HIDE DEF differ
      <4> QED
        BY <1>7, <2>1, Least
    <3> QED
      BY <3>1
  <2> HIDE DEF first
  <2>3. first \in 1..n /\ first \in Nat \ {0} /\ D(first) # 0 /\ signs[first] = D(first)
    BY <1>1, <1>3, <2>2
  <2>4. \A j \in 1..(first - 1) : D(j) = 0
    <3>1. \A j \in 1..(first - 1) : j \in 1..n /\ ~(first <= j)
      BY <1>1, <2>3
    <3> QED
      BY <1>3, <2>2, <3>1
  <2>5. ASSUME NEW i \in Nat \ {0}, D(i) > 0, \A j \in 1..(i - 1) : D(j) = 0
        PROVE  i = first
    <3>1. D(i) # 0 /\ D(i) \in Int
      BY <1>2, <2>5
    <3>2. ~(i < first)
      <4>1. i < first => i \in 1..(first - 1)
        BY <2>3
      <4> QED
        BY <2>4, <3>1, <4>1
    <3>3. ~(first < i)
      <4>1. first < i => first \in 1..(i - 1)
        BY <2>3
      <4> QED
        BY <2>3, <2>5, <4>1
    <3> QED
      BY <2>3, <3>2, <3>3
  <2> QED
    BY <1>4, <1>5, <1>7, <2>3, <2>4, <2>5
<1> QED
  BY <1>6, <1>7

--------------------------------------------------------------------------------
(* The store's pass over the builds: the newest so far. *)
LatestTurn(newest, v) == IF compareVersions(v, newest) > 0 THEN v ELSE newest

LatestLoop(g, first, s) ==
    g = [t \in SUBSET DOMAIN s |-> IF t = {} THEN first ELSE LatestTurn(g[t \ {Max(t)}], s[Max(t)])]

LatestOf(first, s) == (CHOOSE g : LatestLoop(g, first, s))[DOMAIN s]

LEMMA LatestUnfolds == Latest = LatestOf(builds[1], Tail(builds))
BY DEF LatestOf, Latest, FoldLeft, MapThenFoldSet, LatestLoop, LatestTurn

LEMMA LatestTurns ==
    ASSUME NEW P, NEW first \in P, NEW s \in Seq(P)
    PROVE  \E r : /\ r[0] = first /\ r[Len(s)] = LatestOf(first, s)
                  /\ \A k \in 1..Len(s) : r[k] = LatestTurn(r[k - 1], s[k])
<1> DEFINE V == P
           F == [x \in V \X V |-> LatestTurn(x[1], x[2])]
           n == Len(s)
           it == CHOOSE g : LatestLoop(g, first, s)
           r == [k \in 0..n |-> it[1..k]]
<1>1. n \in Nat /\ DOMAIN s = 1..n /\ \A i \in 1..n : s[i] \in P
  OBVIOUS
<1>2. F \in [V \X V -> V] /\ first \in V /\ s \in Seq(V)
  BY DEF LatestTurn
<1>3. PICK g \in [SUBSET (1..n) -> V] : Iterates(g, first, F, s, n)
  <2> HIDE DEF F, V
  <2> QED
    BY <1>2, LoopExists DEF n
<1>4. LatestLoop(g, first, s)
  <2>1. \A t \in SUBSET (1..n) :
           g[t] = IF t = {} THEN first ELSE F[<<g[t \ {Max(t)}], s[Max(t)]>>]
    BY <1>3 DEF Iterates
  <2>2. ASSUME NEW t \in SUBSET (1..n), t # {}
        PROVE  g[t] = LatestTurn(g[t \ {Max(t)}], s[Max(t)])
    <3>1. Max(t) \in 1..n
      BY <1>1, <2>2, MaxOfPlaces
    <3>2. g[t \ {Max(t)}] \in P /\ s[Max(t)] \in P
      BY <1>1, <1>3, <3>1
    <3> QED
      BY <2>1, <2>2, <3>2
  <2>3. g = [t \in SUBSET (1..n) |->
               IF t = {} THEN first ELSE LatestTurn(g[t \ {Max(t)}], s[Max(t)])]
    BY <1>3, <2>1, <2>2
  <2> QED
    BY <1>1, <2>3 DEF LatestLoop
<1>5. LatestLoop(it, first, s)
  BY <1>4
<1>6. \A t \in SUBSET (1..n) : it[t] = IF t = {} THEN first ELSE LatestTurn(it[t \ {Max(t)}], s[Max(t)])
  BY <1>1, <1>5 DEF LatestLoop
<1>7. it[1..n] = LatestOf(first, s)
  BY <1>1 DEF LatestOf
<1> HIDE DEF it, n
<1>8. /\ 1..0 = {}
      /\ \A k \in 1..n : /\ 1..k \in SUBSET (1..n) /\ 1..k # {} /\ Max(1..k) = k
                         /\ (1..k) \ {k} = 1..(k - 1)
  BY <1>1, LoopTurns
<1>9. r[0] = first
  <2>1. it[{}] = first
    BY <1>6
  <2>2. 0 \in 0..n
    BY <1>1
  <2> QED
    BY <1>8, <2>1, <2>2
<1>10. ASSUME NEW k \in 1..n PROVE r[k] = LatestTurn(r[k - 1], s[k])
  <2>1. k \in 0..n /\ k - 1 \in 0..n
    BY <1>1
  <2>2. r[k] = it[1..k] /\ r[k - 1] = it[1..(k - 1)]
    BY <2>1
  <2>3. it[1..k] = LatestTurn(it[(1..k) \ {k}], s[k])
    BY <1>6, <1>8
  <2> QED
    BY <1>8, <2>2, <2>3
<1>11. r[n] = LatestOf(first, s)
  BY <1>1, <1>7
<1> HIDE DEF r
<1> QED
  BY <1>9, <1>10, <1>11 DEF n

(* After each turn the newest so far is one of those seen, and none of     *)
(* those seen is newer.                                                    *)
LEMMA LatestOfBuilds ==
    ASSUME Dotted, builds \in Seq(Versions), builds # <<>>
    PROVE  \E i \in 1..Len(builds) :
              /\ Latest = builds[i]
              /\ \A j \in 1..Len(builds) : ~NumericallyNewer(builds[j], builds[i])
<1> DEFINE s == Tail(builds)
           n == Len(s)
<1>1. /\ s \in Seq(Versions) /\ n \in Nat /\ Len(builds) = n + 1
      /\ \A k \in 1..n : s[k] = builds[k + 1]
      /\ \A k \in 1..Len(builds) : builds[k] \in Versions
  OBVIOUS
<1>2. builds[1] \in Versions
  BY <1>1
<1>3. PICK r : /\ r[0] = builds[1] /\ r[n] = Latest
               /\ \A k \in 1..n : r[k] = LatestTurn(r[k - 1], s[k])
  <2> HIDE DEF s
  <2>1. \E r : /\ r[0] = builds[1] /\ r[Len(s)] = LatestOf(builds[1], s)
               /\ \A k \in 1..Len(s) : r[k] = LatestTurn(r[k - 1], s[k])
    BY <1>1, <1>2, LatestTurns
  <2>2. Latest = LatestOf(builds[1], s)
    BY LatestUnfolds DEF s
  <2> QED
    BY <2>1, <2>2
<1> DEFINE Best(i, k) == /\ i \in 1..(k + 1) /\ r[k] = builds[i]
                         /\ \A j \in 1..(k + 1) : ~NumericallyNewer(builds[j], builds[i])
           G == {k \in 0..n : \E i \in 1..(k + 1) : Best(i, k)}
<1> HIDE DEF n, s
<1>4. 0 \in G
  <2>1. 0 \in 0..n /\ 1 \in 1..(0 + 1) /\ \A j \in 1..(0 + 1) : j = 1
    BY <1>1
  <2>2. ~NumericallyNewer(builds[1], builds[1])
    BY <1>2, NewerIsOrder
  <2>3. Best(1, 0)
    BY <1>3, <2>1, <2>2
  <2> HIDE DEF Best
  <2> QED
    BY <2>1, <2>3
<1>5. ASSUME NEW k \in 0..(n - 1), k \in G PROVE k + 1 \in G
  <2>1. /\ k + 1 \in 1..n /\ k + 1 \in 0..n /\ (k + 1) - 1 = k /\ k + 2 = (k + 1) + 1
        /\ k + 2 \in 1..((k + 1) + 1)
        /\ \A j \in 1..((k + 1) + 1) : j \in 1..(k + 1) \/ j = k + 2
        /\ \A j \in 1..((k + 1) + 1) : j \in 1..Len(builds)
        /\ \A j \in 1..(k + 1) : j \in 1..((k + 1) + 1)
    BY <1>1
  <2>2. PICK i \in 1..(k + 1) : Best(i, k)
    BY <1>5
  <2>3. r[k + 1] = LatestTurn(builds[i], builds[k + 2])
    BY <1>1, <1>3, <2>1, <2>2
  <2>4. builds[i] \in Versions /\ builds[k + 2] \in Versions
        /\ \A j \in 1..(k + 1) : builds[j] \in Versions
    BY <1>1, <2>1
  <2>5. compareVersions(builds[k + 2], builds[i]) > 0
           <=> NumericallyNewer(builds[k + 2], builds[i])
    BY <2>4, ComparesNumerically
  <2>6. CASE NumericallyNewer(builds[k + 2], builds[i])
    <3>1. r[k + 1] = builds[k + 2]
      BY <2>3, <2>5, <2>6 DEF LatestTurn
    <3>2. ASSUME NEW j \in 1..(k + 1) PROVE ~NumericallyNewer(builds[j], builds[k + 2])
      <4>1. ~NumericallyNewer(builds[j], builds[i])
        BY <2>2
      <4> QED
        BY <2>4, <2>6, <4>1, NewerIsOrder
    <3>3. ~NumericallyNewer(builds[k + 2], builds[k + 2])
      BY <2>4, NewerIsOrder
    <3>4. Best(k + 2, k + 1)
      BY <2>1, <3>1, <3>2, <3>3
    <3> HIDE DEF Best
    <3> QED
      BY <2>1, <3>4
  <2>7. CASE ~NumericallyNewer(builds[k + 2], builds[i])
    <3>1. r[k + 1] = builds[i]
      BY <2>3, <2>5, <2>7 DEF LatestTurn
    <3>2. Best(i, k + 1)
      BY <2>1, <2>2, <2>7, <3>1
    <3> HIDE DEF Best
    <3> QED
      BY <2>1, <2>2, <3>2
  <2> QED
    BY <2>6, <2>7
<1>6. n \in G
  <2> HIDE DEF G
  <2> QED
    BY <1>1, <1>4, <1>5, Counting
<1>7. PICK i \in 1..(n + 1) : Best(i, n)
  BY <1>6
<1> QED
  BY <1>1, <1>3, <1>7

--------------------------------------------------------------------------------
(* The store holds versions, the device runs one. *)
Kept == builds \in Seq(Versions) /\ running \in Versions

LEMMA KeptHolds ==
    ASSUME Dotted
    PROVE  Spec => []Kept
<1>1. Init => Kept
  <2>1. <<>> \in Seq(Versions)
    OBVIOUS
  <2> QED
    BY <2>1, VersionsAssumption DEF Init, Kept
<1>2. Kept /\ [Next]_vars => Kept'
  <2> SUFFICES ASSUME Kept, [Next]_vars PROVE Kept'
    OBVIOUS
  <2>1. ASSUME NEW v \in Versions, Publish(v) PROVE Kept'
    BY <2>1 DEF Publish, Kept
  <2>2. CASE Update
    <3>1. PICK i \in 1..Len(builds) : Latest = builds[i]
      BY <2>2, LatestOfBuilds DEF Update, Kept
    <3>2. builds[i] \in Versions
      BY DEF Kept
    <3> QED
      BY <2>2, <3>1, <3>2 DEF Update, Kept
  <2>3. CASE UNCHANGED vars
    BY <2>3 DEF vars, Kept
  <2> QED
    BY <2>1, <2>2, <2>3 DEF Next
<1> QED
  BY <1>1, <1>2, PTL DEF Spec

(* The build that latest returns is in the store, and no build in it is    *)
(* newer by the numeric reading, whatever was published in whatever order  *)
(* (FirmwareStore.latest, ota.ts).                                         *)
THEOREM LatestIsHighestHolds ==
    ASSUME Dotted
    PROVE  Spec => []LatestIsHighest
<1>1. Kept => LatestIsHighest
  <2> SUFFICES ASSUME Kept, builds # <<>>
               PROVE  /\ Contains(builds, Latest)
                      /\ \A j \in 1..Len(builds) : ~NumericallyNewer(builds[j], Latest)
    BY DEF LatestIsHighest
  <2>1. PICK i \in 1..Len(builds) :
              /\ Latest = builds[i]
              /\ \A j \in 1..Len(builds) : ~NumericallyNewer(builds[j], builds[i])
    BY LatestOfBuilds DEF Kept
  <2>2. Contains(builds, Latest)
    BY <2>1 DEF Contains, Kept
  <2> QED
    BY <2>1, <2>2
<1> QED
  BY <1>1, KeptHolds, PTL

(* The device's comparison and the cloud's give the same answer for the    *)
(* builds in the store and the image that runs, as long as the device's    *)
(* int holds every component (compare_versions, app_main.c).               *)
THEOREM AgreeOnNewerHolds ==
    ASSUME Dotted, Readable
    PROVE  Spec => []AgreeOnNewer
<1>1. Kept => AgreeOnNewer
  <2> SUFFICES ASSUME Kept, NEW v \in InUse, NEW w \in InUse
               PROVE  compare_versions(v, w) > 0 <=> compareVersions(v, w) > 0
    BY DEF AgreeOnNewer
  <2>1. v \in Versions /\ w \in Versions
    BY DEF InUse, Kept
  <2> QED
    BY <2>1, SameComparison
<1> QED
  BY <1>1, KeptHolds, PTL

(* An update takes the device to a version that is newer by the numeric    *)
(* reading (check_for_update, app_main.c).                                 *)
THEOREM NeverGoesBackHolds ==
    ASSUME Dotted, Readable
    PROVE  Spec => NeverGoesBack
<1>1. Kept /\ [Next]_vars => [running' # running => NumericallyNewer(running', running)]_running
  <2> SUFFICES ASSUME Kept, Next, running' # running
               PROVE  NumericallyNewer(running', running)
    BY DEF vars
  <2>1. Update
    BY DEF Next, Publish
  <2>2. PICK i \in 1..Len(builds) : Latest = builds[i]
    BY <2>1, LatestOfBuilds DEF Update, Kept
  <2>3. Latest \in Versions /\ running \in Versions
    BY <2>2 DEF Kept
  <2>4. compare_versions(Latest, running) > 0 /\ running' = Latest
    BY <2>1 DEF Update
  <2>5. compareVersions(Latest, running) > 0
    BY <2>3, <2>4, SameComparison
  <2> QED
    BY <2>3, <2>4, <2>5, ComparesNumerically
<1> QED
  BY <1>1, KeptHolds, PTL DEF Spec, NeverGoesBack
================================================================================
