---------------------------- MODULE ListProofs -----------------------------
(***************************************************************************)
(* Lemmas about Lists, for any list, any set of elements to keep, any      *)
(* numbers to add up and any lists to chain.                               *)
(*                                                                         *)
(* The library's induction theorems take a predicate as a parameter.  Here *)
(* the predicate is the set of the numbers it is true of: a set of natural *)
(* numbers that is not empty has a smallest element (WFMin for < on Nat),  *)
(* and a set that holds 0 and goes on with every number below m holds all  *)
(* numbers up to m.  That is enough for a function that recurs on the      *)
(* length of a list: that it exists, that it is the only one, and what it  *)
(* computes.                                                               *)
(***************************************************************************)
EXTENDS Lists, SequencesExt, WellFoundedInduction, TLAPS

\* A set of natural numbers that is not empty has a smallest element.
LEMMA SmallestOf ==
    ASSUME NEW T \in SUBSET Nat, T # {}
    PROVE  \E x \in T : \A y \in T : ~(y < x)
<1>1. \E x \in T : \A y \in T : <<y, x>> \notin OpToRel(<, Nat)
  <2> DEFINE R == OpToRel(<, Nat)
  <2>1. IsWellFoundedOn(R, Nat)
    BY NatLessThanWellFounded, Zenon
  <2> HIDE DEF R
  <2>2. \E x \in T : \A y \in T : <<y, x>> \notin R
    BY <2>1, WFMin
  <2> QED BY <2>2, Zenon DEF R
<1>2. ASSUME NEW x \in T, NEW y \in T, y < x
      PROVE  <<y, x>> \in OpToRel(<, Nat)
  <2>1. <<y, x>>[1] = y /\ <<y, x>>[2] = x /\ <<y, x>> \in Nat \X Nat
    OBVIOUS
  <2> QED BY <1>2, <2>1, Zenon DEF OpToRel
<1> QED BY <1>1, <1>2, Zenon

\* Induction up to m, on the set G of the numbers the predicate is true of.
LEMMA UpTo ==
    ASSUME NEW m \in Nat, NEW G, 0 \in G,
           \A n \in 0..m : n # m /\ n \in G => n + 1 \in G
    PROVE  0..m \subseteq G
<1> DEFINE T == {n \in 0..m : n \notin G}
<1>1. SUFFICES ASSUME T # {} PROVE FALSE
  OBVIOUS
<1>2. T \in SUBSET Nat
  OBVIOUS
<1>3. PICK x \in T : \A y \in T : ~(y < x)
  <2> HIDE DEF T
  <2> QED BY <1>1, <1>2, SmallestOf
<1>4. x \in 0..m /\ x \notin G /\ x # 0
  OBVIOUS
<1>5. x - 1 \in 0..m /\ x - 1 < x /\ x - 1 # m /\ (x - 1) + 1 = x
  BY <1>4
<1>6. x - 1 \in G
  BY <1>3, <1>5
<1> QED BY <1>4, <1>5, <1>6

-----------------------------------------------------------------------------
(* The recursive function inside Sift exists, and is unfolded.             *)

\* k is that function on the first m elements of s.
Sieve(k, s, keep, m) ==
    k = [n \in 0..m |-> IF n = 0 THEN <<>>
            ELSE IF s[n] \in keep THEN Append(k[n - 1], s[n]) ELSE k[n - 1]]

\* There is such a function, and its values are lists.
LEMMA SieveExists ==
    ASSUME NEW S, NEW s \in Seq(S), NEW keep
    PROVE  \E k \in [0..Len(s) -> Seq(S)] : Sieve(k, s, keep, Len(s))
<1> DEFINE G == {m \in 0..Len(s) : \E k \in [0..m -> Seq(S)] : Sieve(k, s, keep, m)}
<1>1. 0 \in G
  <2> DEFINE k == [n \in 0..0 |-> <<>>]
  <2>1. k \in [0..0 -> Seq(S)]
    OBVIOUS
  <2>2. Sieve(k, s, keep, 0)
    BY DEF Sieve
  <2> HIDE DEF k
  <2> QED BY <2>1, <2>2
<1>2. ASSUME NEW m \in 0..Len(s), m # Len(s), m \in G
      PROVE  m + 1 \in G
  <2>1. PICK k \in [0..m -> Seq(S)] : Sieve(k, s, keep, m)
    BY <1>2
  <2> DEFINE last == IF s[m + 1] \in keep THEN Append(k[m], s[m + 1]) ELSE k[m]
             g == [n \in 0..(m + 1) |-> IF n = m + 1 THEN last ELSE k[n]]
  <2>2. last \in Seq(S)
    BY <1>2
  <2>3. g \in [0..(m + 1) -> Seq(S)]
    <3> HIDE DEF last
    <3> QED BY <2>2
  <2>4. Sieve(g, s, keep, m + 1)
    <3>1. ASSUME NEW n \in 0..(m + 1), n # 0, n # m + 1
          PROVE  g[n] = IF s[n] \in keep THEN Append(g[n - 1], s[n]) ELSE g[n - 1]
      <4>1. g[n] = k[n] /\ g[n - 1] = k[n - 1] /\ n \in 0..m
        BY <3>1
      <4> QED BY <4>1, <2>1, <3>1 DEF Sieve
    <3>2. g[m + 1] = IF s[m + 1] \in keep THEN Append(g[m], s[m + 1]) ELSE g[m]
      OBVIOUS
    <3>3. g[0] = <<>>
      BY <2>1 DEF Sieve
    <3>4. \A n \in 0..(m + 1) : g[n] = IF n = 0 THEN <<>>
              ELSE IF s[n] \in keep THEN Append(g[n - 1], s[n]) ELSE g[n - 1]
      <4> HIDE DEF g
      <4> QED BY <3>1, <3>2, <3>3
    <3>5. g = [n \in 0..(m + 1) |-> g[n]]
      OBVIOUS
    <3> HIDE DEF g
    <3> QED BY <3>4, <3>5 DEF Sieve
  <2> HIDE DEF g
  <2> QED BY <2>3, <2>4, <1>2
<1> HIDE DEF G
<1>3. 0..Len(s) \subseteq G
  <2>1. \A n \in 0..Len(s) : n # Len(s) /\ n \in G => n + 1 \in G
    BY <1>2
  <2>2. Len(s) \in Nat
    OBVIOUS
  <2> QED BY <1>1, <2>1, <2>2, UpTo
<1> QED BY <1>3 DEF G

\* k holds what is kept of the first n elements of s, for every n.
Keeps(k, s, keep) ==
    /\ k[0] = <<>>
    /\ \A n \in 1..Len(s) :
          k[n] = IF s[n] \in keep THEN Append(k[n - 1], s[n]) ELSE k[n - 1]

\* Two functions that recur alike are alike.
LEMMA KeepsAgree ==
    ASSUME NEW S, NEW s \in Seq(S), NEW t \in Seq(S), NEW keep, NEW wanted,
           Len(t) <= Len(s),
           \A n \in 1..Len(t) : t[n] = s[n] /\ (s[n] \in keep <=> s[n] \in wanted),
           NEW k, Keeps(k, s, keep), NEW h, Keeps(h, t, wanted)
    PROVE  \A n \in 0..Len(t) : k[n] = h[n]
<1> DEFINE G == {n \in 0..Len(t) : k[n] = h[n]}
<1>1. 0 \in G
  BY DEF Keeps
<1>2. ASSUME NEW m \in 0..Len(t), m # Len(t), m \in G
      PROVE  m + 1 \in G
  <2>1. k[m] = h[m] /\ m + 1 \in 1..Len(t) /\ m + 1 \in 1..Len(s) /\ (m + 1) - 1 = m
    BY <1>2
  <2>2. k[m + 1] = h[m + 1]
    BY <2>1 DEF Keeps
  <2> QED BY <2>1, <2>2
<1> HIDE DEF G
<1>3. 0..Len(t) \subseteq G
  <2>1. \A n \in 0..Len(t) : n # Len(t) /\ n \in G => n + 1 \in G
    BY <1>2
  <2>2. Len(t) \in Nat
    OBVIOUS
  <2> QED BY <1>1, <2>1, <2>2, UpTo
<1> QED BY <1>3 DEF G

\* Sift is the last value of the function that recurs.
LEMMA SiftKeeps ==
    ASSUME NEW S, NEW s \in Seq(S), NEW keep
    PROVE  \E k \in [0..Len(s) -> Seq(S)] : Keeps(k, s, keep) /\ Sift(s, keep) = k[Len(s)]
<1> DEFINE k == CHOOSE k : Sieve(k, s, keep, Len(s))
<1>1. Sieve(k, s, keep, Len(s))
  BY SieveExists
<1>2. PICK h \in [0..Len(s) -> Seq(S)] : Sieve(h, s, keep, Len(s))
  BY SieveExists
<1>3. Sift(s, keep) = k[Len(s)]
  BY DEF Sift, Sieve
<1> HIDE DEF k
<1>4. ASSUME NEW g, Sieve(g, s, keep, Len(s))
      PROVE  Keeps(g, s, keep)
  <2>1. \A n \in 0..Len(s) : g[n] = IF n = 0 THEN <<>>
            ELSE IF s[n] \in keep THEN Append(g[n - 1], s[n]) ELSE g[n - 1]
    BY <1>4 DEF Sieve
  <2>2. 0 \in 0..Len(s) /\ \A n \in 1..Len(s) : n \in 0..Len(s) /\ n # 0
    OBVIOUS
  <2> QED BY <2>1, <2>2 DEF Keeps
<1>5. \A n \in 0..Len(s) : k[n] = h[n]
  BY <1>1, <1>2, <1>4, KeepsAgree
<1>6. k = [n \in 0..Len(s) |-> k[n]]
  BY <1>1 DEF Sieve
<1>7. k \in [0..Len(s) -> Seq(S)]
  BY <1>5, <1>6, <1>2
<1> QED BY <1>1, <1>3, <1>4, <1>7

-----------------------------------------------------------------------------
(* What Sift returns.                                                      *)

\* It is a list of the same kind.
LEMMA SiftTyped ==
    ASSUME NEW S, NEW s \in Seq(S), NEW keep
    PROVE  Sift(s, keep) \in Seq(S)
BY SiftKeeps

\* Two sets that hold the same elements of s sift it alike.
LEMMA SiftAgrees ==
    ASSUME NEW S, NEW s \in Seq(S), NEW keep, NEW wanted,
           \A n \in 1..Len(s) : s[n] \in keep <=> s[n] \in wanted
    PROVE  Sift(s, keep) = Sift(s, wanted)
<1>1. PICK k \in [0..Len(s) -> Seq(S)] : Keeps(k, s, keep) /\ Sift(s, keep) = k[Len(s)]
  BY SiftKeeps
<1>2. PICK h \in [0..Len(s) -> Seq(S)] : Keeps(h, s, wanted) /\ Sift(s, wanted) = h[Len(s)]
  BY SiftKeeps
<1>3. \A n \in 0..Len(s) : k[n] = h[n]
  BY <1>1, <1>2, KeepsAgree
<1> QED BY <1>1, <1>2, <1>3

\* One more element at the end is kept at the end, or dropped.
LEMMA SiftAppend ==
    ASSUME NEW S, NEW s \in Seq(S), NEW x \in S, NEW keep
    PROVE  Sift(Append(s, x), keep) =
              IF x \in keep THEN Append(Sift(s, keep), x) ELSE Sift(s, keep)
<1> DEFINE t == Append(s, x)
<1>1. /\ t \in Seq(S) /\ Len(t) = Len(s) + 1 /\ t[Len(s) + 1] = x
      /\ \A n \in 1..Len(s) : t[n] = s[n]
  OBVIOUS
<1> HIDE DEF t
<1>2. PICK k \in [0..Len(t) -> Seq(S)] : Keeps(k, t, keep) /\ Sift(t, keep) = k[Len(t)]
  BY <1>1, SiftKeeps
<1>3. PICK h \in [0..Len(s) -> Seq(S)] : Keeps(h, s, keep) /\ Sift(s, keep) = h[Len(s)]
  BY SiftKeeps
<1>4. \A n \in 0..Len(s) : k[n] = h[n]
  BY <1>1, <1>2, <1>3, KeepsAgree
<1>5. k[Len(s)] = Sift(s, keep)
  BY <1>3, <1>4
<1>6. k[Len(s) + 1] = IF x \in keep THEN Append(k[Len(s)], x) ELSE k[Len(s)]
  <2>1. Len(s) + 1 \in 1..Len(t) /\ (Len(s) + 1) - 1 = Len(s)
    BY <1>1
  <2> QED BY <1>1, <1>2, <2>1 DEF Keeps
<1> QED BY <1>1, <1>2, <1>5, <1>6 DEF t

\* Appending adds one element.
LEMMA AppendElements ==
    ASSUME NEW S, NEW s \in Seq(S), NEW x \in S
    PROVE  ToSet(Append(s, x)) = ToSet(s) \cup {x}
<1>1. \A i \in DOMAIN Append(s, x) : Append(s, x)[i] \in ToSet(s) \cup {x}
  BY DEF ToSet
<1>2. \A i \in DOMAIN s : i \in DOMAIN Append(s, x) /\ Append(s, x)[i] = s[i]
  OBVIOUS
<1>3. Len(s) + 1 \in DOMAIN Append(s, x) /\ Append(s, x)[Len(s) + 1] = x
  OBVIOUS
<1> QED BY <1>1, <1>2, <1>3 DEF ToSet

\* The elements of the sifted list are the elements of s that are in keep.
LEMMA SiftElements ==
    ASSUME NEW S, NEW s \in Seq(S), NEW keep
    PROVE  ToSet(Sift(s, keep)) = ToSet(s) \cap keep
<1>1. PICK k \in [0..Len(s) -> Seq(S)] : Keeps(k, s, keep) /\ Sift(s, keep) = k[Len(s)]
  BY SiftKeeps
<1> DEFINE Had(n) == {s[i] : i \in 1..n}
           G == {n \in 0..Len(s) : ToSet(k[n]) = Had(n) \cap keep}
<1>2. 0 \in G
  BY <1>1 DEF Keeps, ToSet
<1>3. ASSUME NEW m \in 0..Len(s), m # Len(s), m \in G
      PROVE  m + 1 \in G
  <2>1. /\ m + 1 \in 1..Len(s) /\ m \in 0..Len(s) /\ (m + 1) - 1 = m
        /\ ToSet(k[m]) = Had(m) \cap keep
    BY <1>3
  <2>2. Had(m + 1) = Had(m) \cup {s[m + 1]}
    BY <2>1
  <2>3. k[m + 1] = IF s[m + 1] \in keep THEN Append(k[m], s[m + 1]) ELSE k[m]
    BY <1>1, <2>1 DEF Keeps
  <2>4. k[m] \in Seq(S) /\ s[m + 1] \in S
    BY <2>1
  <2>5. ToSet(Append(k[m], s[m + 1])) = ToSet(k[m]) \cup {s[m + 1]}
    BY <2>4, AppendElements
  <2> HIDE DEF Had
  <2>6. ToSet(k[m + 1]) = Had(m + 1) \cap keep
    BY <2>1, <2>2, <2>3, <2>5
  <2> QED BY <2>1, <2>6
<1> HIDE DEF G
<1>4. 0..Len(s) \subseteq G
  <2>1. \A n \in 0..Len(s) : n # Len(s) /\ n \in G => n + 1 \in G
    BY <1>3
  <2>2. Len(s) \in Nat
    OBVIOUS
  <2> QED BY <1>2, <2>1, <2>2, UpTo
<1>5. ToSet(k[Len(s)]) = Had(Len(s)) \cap keep
  BY <1>4 DEF G
<1>6. Had(Len(s)) = ToSet(s)
  BY DEF ToSet
<1> QED BY <1>1, <1>5, <1>6

\* Nothing of an empty list is kept.
LEMMA SiftEmpty == \A keep : Sift(<<>>, keep) = <<>>
<1> SUFFICES ASSUME NEW keep PROVE Sift(<<>>, keep) = <<>>
  OBVIOUS
<1> DEFINE s == <<>>
<1>1. s \in Seq({}) /\ Len(s) = 0
  OBVIOUS
<1> HIDE DEF s
<1>2. PICK k \in [0..Len(s) -> Seq({})] : Keeps(k, s, keep) /\ Sift(s, keep) = k[Len(s)]
  BY <1>1, SiftKeeps
<1> QED BY <1>1, <1>2 DEF Keeps, s

\* Sifting twice is sifting once, for what both keep.
LEMMA SiftTwice ==
    ASSUME NEW S, NEW s \in Seq(S), NEW keep, NEW wanted
    PROVE  Sift(Sift(s, keep), wanted) = Sift(s, keep \cap wanted)
<1>1. PICK k \in [0..Len(s) -> Seq(S)] : Keeps(k, s, keep) /\ Sift(s, keep) = k[Len(s)]
  BY SiftKeeps
<1>2. PICK h \in [0..Len(s) -> Seq(S)] :
          Keeps(h, s, keep \cap wanted) /\ Sift(s, keep \cap wanted) = h[Len(s)]
  BY SiftKeeps
<1> DEFINE G == {n \in 0..Len(s) : Sift(k[n], wanted) = h[n]}
<1>3. 0 \in G
  <2>1. Sift(<<>>, wanted) = <<>>
    BY SiftEmpty
  <2> QED BY <1>1, <1>2, <2>1 DEF Keeps
<1>4. ASSUME NEW m \in 0..Len(s), m # Len(s), m \in G
      PROVE  m + 1 \in G
  <2>1. m + 1 \in 1..Len(s) /\ (m + 1) - 1 = m /\ Sift(k[m], wanted) = h[m]
    BY <1>4
  <2>2. k[m] \in Seq(S) /\ s[m + 1] \in S
    BY <2>1
  <2>3. Sift(Append(k[m], s[m + 1]), wanted) =
           IF s[m + 1] \in wanted THEN Append(h[m], s[m + 1]) ELSE h[m]
    <3>1. \A t \in Seq(S), x \in S : Sift(Append(t, x), wanted) =
              IF x \in wanted THEN Append(Sift(t, wanted), x) ELSE Sift(t, wanted)
      BY SiftAppend
    <3> QED BY <2>1, <2>2, <3>1
  <2>4. Sift(k[m + 1], wanted) = h[m + 1]
    BY <1>1, <1>2, <2>1, <2>3 DEF Keeps
  <2> QED BY <2>1, <2>4
<1> HIDE DEF G
<1>5. 0..Len(s) \subseteq G
  <2>1. \A n \in 0..Len(s) : n # Len(s) /\ n \in G => n + 1 \in G
    BY <1>4
  <2>2. Len(s) \in Nat
    OBVIOUS
  <2> QED BY <1>3, <2>1, <2>2, UpTo
<1>6. Sift(k[Len(s)], wanted) = h[Len(s)]
  BY <1>5 DEF G
<1> QED BY <1>1, <1>2, <1>6

\* A list all of whose elements are kept stays as it is.
LEMMA SiftAll ==
    ASSUME NEW S, NEW s \in Seq(S), NEW keep, \A n \in 1..Len(s) : s[n] \in keep
    PROVE  Sift(s, keep) = s
<1>1. PICK k \in [0..Len(s) -> Seq(S)] : Keeps(k, s, keep) /\ Sift(s, keep) = k[Len(s)]
  BY SiftKeeps
<1> DEFINE G == {n \in 0..Len(s) : k[n] = SubSeq(s, 1, n)}
<1>2. 0 \in G
  BY <1>1 DEF Keeps
<1>3. ASSUME NEW m \in 0..Len(s), m # Len(s), m \in G
      PROVE  m + 1 \in G
  <2>1. m + 1 \in 1..Len(s) /\ (m + 1) - 1 = m /\ k[m] = SubSeq(s, 1, m)
    BY <1>3
  <2>2. k[m + 1] = Append(SubSeq(s, 1, m), s[m + 1])
    BY <1>1, <2>1 DEF Keeps
  <2>3. Append(SubSeq(s, 1, m), s[m + 1]) = SubSeq(s, 1, m + 1)
    BY <2>1
  <2>4. k[m + 1] = SubSeq(s, 1, m + 1) /\ m + 1 \in 0..Len(s)
    BY <2>1, <2>2, <2>3
  <2> QED BY <2>4
<1> HIDE DEF G
<1>4. 0..Len(s) \subseteq G
  <2>1. \A n \in 0..Len(s) : n # Len(s) /\ n \in G => n + 1 \in G
    BY <1>3
  <2>2. Len(s) \in Nat
    OBVIOUS
  <2> QED BY <1>2, <2>1, <2>2, UpTo
<1>5. k[Len(s)] = SubSeq(s, 1, Len(s))
  BY <1>4 DEF G
<1>6. SubSeq(s, 1, Len(s)) = s
  OBVIOUS
<1> QED BY <1>1, <1>5, <1>6

\* A list none of whose elements is kept leaves nothing.
LEMMA SiftNone ==
    ASSUME NEW S, NEW s \in Seq(S), NEW keep, \A n \in 1..Len(s) : s[n] \notin keep
    PROVE  Sift(s, keep) = <<>>
<1>1. ToSet(Sift(s, keep)) = ToSet(s) \cap keep /\ Sift(s, keep) \in Seq(S)
  BY SiftElements, SiftTyped
<1>2. ToSet(s) \cap keep = {}
  BY DEF ToSet
<1> QED BY <1>1, <1>2 DEF ToSet
-----------------------------------------------------------------------------
(* A function that recurs on the numbers up to m exists: a to begin with,  *)
(* and step from one value to the next.                                    *)

Unrolls(k, a, step, m) == k = [n \in 0..m |-> IF n = 0 THEN a ELSE step[<<k[n - 1], n>>]]

LEMMA UnrollExists ==
    ASSUME NEW A, NEW a \in A, NEW m \in Nat, NEW step \in [A \X (1..m) -> A]
    PROVE  \E k \in [0..m -> A] : Unrolls(k, a, step, m)
<1> DEFINE G == {n \in 0..m : \E k \in [0..n -> A] : Unrolls(k, a, step, n)}
<1>1. 0 \in G
  <2> DEFINE k == [n \in 0..0 |-> a]
  <2>1. k \in [0..0 -> A]
    OBVIOUS
  <2>2. Unrolls(k, a, step, 0)
    BY DEF Unrolls
  <2> HIDE DEF k
  <2> QED BY <2>1, <2>2
<1>2. ASSUME NEW l \in 0..m, l # m, l \in G
      PROVE  l + 1 \in G
  <2>1. PICK k \in [0..l -> A] : Unrolls(k, a, step, l)
    BY <1>2
  <2> DEFINE next == step[<<k[l], l + 1>>]
             g == [n \in 0..(l + 1) |-> IF n = l + 1 THEN next ELSE k[n]]
  <2>2. next \in A
    <3>1. k[l] \in A /\ l + 1 \in 1..m
      BY <1>2
    <3>2. <<k[l], l + 1>> \in A \X (1..m)
      BY <3>1
    <3> QED BY <3>2
  <2>3. g \in [0..(l + 1) -> A]
    <3> HIDE DEF next
    <3> QED BY <2>2
  <2>4. Unrolls(g, a, step, l + 1)
    <3>1. ASSUME NEW n \in 0..(l + 1), n # 0, n # l + 1
          PROVE  g[n] = step[<<g[n - 1], n>>]
      <4>1. g[n] = k[n] /\ g[n - 1] = k[n - 1] /\ n \in 0..l
        BY <3>1
      <4> HIDE DEF g
      <4> QED BY <4>1, <2>1, <3>1 DEF Unrolls
    <3>2. g[l + 1] = step[<<g[(l + 1) - 1], l + 1>>]
      <4>1. /\ (l + 1) - 1 = l /\ l # l + 1 /\ l \in 0..(l + 1) /\ l + 1 \in 0..(l + 1)
        OBVIOUS
      <4>2. g[l] = k[l] /\ g[l + 1] = next
        BY <4>1
      <4> HIDE DEF g
      <4> QED BY <4>1, <4>2
    <3>3. g[0] = a
      <4>1. k[0] = a /\ g[0] = k[0]
        BY <2>1 DEF Unrolls
      <4> QED BY <4>1
    <3>4. \A n \in 0..(l + 1) : g[n] = IF n = 0 THEN a ELSE step[<<g[n - 1], n>>]
      <4> HIDE DEF g
      <4> QED BY <3>1, <3>2, <3>3
    <3>5. g = [n \in 0..(l + 1) |-> g[n]]
      OBVIOUS
    <3> HIDE DEF g
    <3> QED BY <3>4, <3>5 DEF Unrolls
  <2> HIDE DEF g
  <2> QED BY <2>3, <2>4, <1>2
<1> HIDE DEF G
<1>3. 0..m \subseteq G
  BY <1>1, <1>2, UpTo
<1>4. m \in G
  BY <1>3
<1> QED BY <1>4 DEF G

-----------------------------------------------------------------------------
(* What the numbers of a list add up to.                                   *)

\* k is the function inside Total, on the first m numbers of s.
Summing(k, s, m) == k = [n \in 0..m |-> IF n = 0 THEN 0 ELSE k[n - 1] + s[n]]

\* There is such a function.
LEMMA SummingExists ==
    ASSUME NEW s \in Seq(Int)
    PROVE  \E k \in [0..Len(s) -> Int] : Summing(k, s, Len(s))
<1> DEFINE m == Len(s)
           step == [x \in Int \X (1..m) |-> x[1] + s[x[2]]]
<1>1. m \in Nat /\ 0 \in Int /\ \A n \in 1..m : s[n] \in Int
  OBVIOUS
<1>2. step \in [Int \X (1..m) -> Int]
  <2>1. \A x \in Int \X (1..m) : x[1] \in Int /\ x[2] \in 1..m
    OBVIOUS
  <2>2. \A x \in Int \X (1..m) : x[1] + s[x[2]] \in Int
    BY <1>1, <2>1
  <2> QED BY <2>2
<1>3. \A a \in Int, n \in 1..m : step[<<a, n>>] = a + s[n]
  OBVIOUS
<1> HIDE DEF step, m
<1>4. PICK k \in [0..m -> Int] : Unrolls(k, 0, step, m)
  BY <1>1, <1>2, UnrollExists
<1>5. \A n \in 0..m : n # 0 => n \in 1..m /\ k[n - 1] \in Int
  BY <1>1, <1>4
<1>6. \A n \in 0..m : k[n] = IF n = 0 THEN 0 ELSE k[n - 1] + s[n]
  BY <1>3, <1>4, <1>5 DEF Unrolls
<1>7. k = [n \in 0..m |-> k[n]]
  BY <1>4
<1>8. Summing(k, s, m)
  BY <1>6, <1>7 DEF Summing
<1> QED BY <1>4, <1>8 DEF m

\* k holds what the first n numbers of s add up to, for every n.
Sums(k, s) == k[0] = 0 /\ \A n \in 1..Len(s) : k[n] = k[n - 1] + s[n]

\* Two functions that add alike are alike.
LEMMA SumsAgree ==
    ASSUME NEW s \in Seq(Int), NEW t \in Seq(Int), Len(t) <= Len(s),
           \A n \in 1..Len(t) : t[n] = s[n],
           NEW k, Sums(k, s), NEW h, Sums(h, t)
    PROVE  \A n \in 0..Len(t) : k[n] = h[n]
<1> DEFINE G == {n \in 0..Len(t) : k[n] = h[n]}
<1>1. 0 \in G
  BY DEF Sums
<1>2. ASSUME NEW m \in 0..Len(t), m # Len(t), m \in G
      PROVE  m + 1 \in G
  <2>1. k[m] = h[m] /\ m + 1 \in 1..Len(t) /\ m + 1 \in 1..Len(s) /\ (m + 1) - 1 = m
    BY <1>2
  <2>2. k[m + 1] = h[m + 1]
    BY <2>1 DEF Sums
  <2> QED BY <2>1, <2>2
<1> HIDE DEF G
<1>3. 0..Len(t) \subseteq G
  <2>1. \A n \in 0..Len(t) : n # Len(t) /\ n \in G => n + 1 \in G
    BY <1>2
  <2>2. Len(t) \in Nat
    OBVIOUS
  <2> QED BY <1>1, <2>1, <2>2, UpTo
<1> QED BY <1>3 DEF G

\* Total is the last value of the function that recurs.
LEMMA TotalSums ==
    ASSUME NEW s \in Seq(Int)
    PROVE  \E k \in [0..Len(s) -> Int] : Sums(k, s) /\ Total(s) = k[Len(s)]
<1> DEFINE k == CHOOSE k : Summing(k, s, Len(s))
<1>1. Summing(k, s, Len(s))
  BY SummingExists
<1>2. PICK h \in [0..Len(s) -> Int] : Summing(h, s, Len(s))
  BY SummingExists
<1>3. Total(s) = k[Len(s)]
  BY DEF Total, Summing
<1> HIDE DEF k
<1>4. ASSUME NEW g, Summing(g, s, Len(s))
      PROVE  Sums(g, s)
  <2>1. \A n \in 0..Len(s) : g[n] = IF n = 0 THEN 0 ELSE g[n - 1] + s[n]
    BY <1>4 DEF Summing
  <2>2. 0 \in 0..Len(s) /\ \A n \in 1..Len(s) : n \in 0..Len(s) /\ n # 0
    OBVIOUS
  <2> QED BY <2>1, <2>2 DEF Sums
<1>5. \A n \in 0..Len(s) : k[n] = h[n]
  BY <1>1, <1>2, <1>4, SumsAgree
<1>6. k = [n \in 0..Len(s) |-> k[n]]
  BY <1>1 DEF Summing
<1>7. k \in [0..Len(s) -> Int]
  BY <1>5, <1>6, <1>2
<1> QED BY <1>1, <1>3, <1>4, <1>7

\* The numbers of a list add up to a number, those of the empty list to none.
LEMMA TotalTyped == \A s \in Seq(Int) : Total(s) \in Int
  BY TotalSums

LEMMA TotalEmpty == Total(<<>>) = 0
<1> DEFINE s == <<>>
<1>1. s \in Seq(Int) /\ Len(s) = 0
  OBVIOUS
<1> HIDE DEF s
<1>2. PICK k \in [0..Len(s) -> Int] : Sums(k, s) /\ Total(s) = k[Len(s)]
  BY <1>1, TotalSums
<1> QED BY <1>1, <1>2 DEF Sums, s

\* One more number at the end is added to the total.
LEMMA TotalAppend ==
    ASSUME NEW s \in Seq(Int), NEW x \in Int
    PROVE  Total(Append(s, x)) = Total(s) + x
<1> DEFINE t == Append(s, x)
<1>1. /\ t \in Seq(Int) /\ Len(t) = Len(s) + 1 /\ t[Len(s) + 1] = x
      /\ \A n \in 1..Len(s) : t[n] = s[n]
  OBVIOUS
<1> HIDE DEF t
<1>2. PICK k \in [0..Len(t) -> Int] : Sums(k, t) /\ Total(t) = k[Len(t)]
  BY <1>1, TotalSums
<1>3. PICK h \in [0..Len(s) -> Int] : Sums(h, s) /\ Total(s) = h[Len(s)]
  BY TotalSums
<1>4. \A n \in 0..Len(s) : k[n] = h[n]
  BY <1>1, <1>2, <1>3, SumsAgree
<1>5. k[Len(s)] = Total(s)
  BY <1>3, <1>4
<1>6. k[Len(s) + 1] = k[Len(s)] + t[Len(s) + 1]
  <2>1. Len(s) + 1 \in 1..Len(t) /\ (Len(s) + 1) - 1 = Len(s)
    BY <1>1
  <2> QED BY <1>1, <1>2, <2>1 DEF Sums
<1> QED BY <1>1, <1>2, <1>5, <1>6 DEF t
-----------------------------------------------------------------------------
(* Lists one after the other.                                              *)

\* k is the function inside Chained, on the first m lists of s.
Chaining(k, s, m) == k = [n \in 0..m |-> IF n = 0 THEN <<>> ELSE k[n - 1] \o s[n]]

LEMMA ChainingExists ==
    ASSUME NEW S, NEW s \in Seq(Seq(S))
    PROVE  \E k \in [0..Len(s) -> Seq(S)] : Chaining(k, s, Len(s))
<1> DEFINE m == Len(s)
           A == Seq(S)
           step == [x \in A \X (1..m) |-> x[1] \o s[x[2]]]
<1>1. m \in Nat /\ <<>> \in A /\ \A n \in 1..m : s[n] \in A
  OBVIOUS
<1>2. step \in [A \X (1..m) -> A]
  <2>1. \A x \in A \X (1..m) : x[1] \in A /\ x[2] \in 1..m
    OBVIOUS
  <2>2. \A x \in A \X (1..m) : x[1] \o s[x[2]] \in A
    BY <1>1, <2>1
  <2> QED BY <2>2
<1>3. \A a \in A, n \in 1..m : step[<<a, n>>] = a \o s[n]
  <2> HIDE DEF A
  <2> QED OBVIOUS
<1> HIDE DEF step, m, A
<1>4. PICK k \in [0..m -> A] : Unrolls(k, <<>>, step, m)
  BY <1>1, <1>2, UnrollExists
<1>5. \A n \in 0..m : n # 0 => n \in 1..m /\ k[n - 1] \in A
  BY <1>1, <1>4
<1>6. \A n \in 0..m : k[n] = IF n = 0 THEN <<>> ELSE k[n - 1] \o s[n]
  BY <1>3, <1>4, <1>5 DEF Unrolls
<1>7. k = [n \in 0..m |-> k[n]]
  BY <1>4
<1>8. Chaining(k, s, m)
  BY <1>6, <1>7 DEF Chaining
<1> QED BY <1>4, <1>8 DEF m, A

\* k holds the first n lists of s in one, for every n.
Chains(k, s) == k[0] = <<>> /\ \A n \in 1..Len(s) : k[n] = k[n - 1] \o s[n]

LEMMA ChainsAgree ==
    ASSUME NEW s, NEW t, Len(s) \in Nat, Len(t) \in Nat, Len(t) <= Len(s),
           \A n \in 1..Len(t) : t[n] = s[n],
           NEW k, Chains(k, s), NEW h, Chains(h, t)
    PROVE  \A n \in 0..Len(t) : k[n] = h[n]
<1> DEFINE G == {n \in 0..Len(t) : k[n] = h[n]}
<1>1. 0 \in G
  BY DEF Chains
<1>2. ASSUME NEW m \in 0..Len(t), m # Len(t), m \in G
      PROVE  m + 1 \in G
  <2>1. k[m] = h[m] /\ m + 1 \in 1..Len(t) /\ m + 1 \in 1..Len(s) /\ (m + 1) - 1 = m
    BY <1>2
  <2>2. k[m + 1] = h[m + 1]
    BY <2>1 DEF Chains
  <2> QED BY <2>1, <2>2
<1> HIDE DEF G
<1>3. 0..Len(t) \subseteq G
  <2>1. \A n \in 0..Len(t) : n # Len(t) /\ n \in G => n + 1 \in G
    BY <1>2
  <2> QED BY <1>1, <2>1, UpTo
<1> QED BY <1>3 DEF G

\* Chained is the last value of the function that recurs.
LEMMA ChainedChains ==
    ASSUME NEW S, NEW s \in Seq(Seq(S))
    PROVE  \E k \in [0..Len(s) -> Seq(S)] : Chains(k, s) /\ Chained(s) = k[Len(s)]
<1> DEFINE k == CHOOSE k : Chaining(k, s, Len(s))
<1>1. Chaining(k, s, Len(s))
  BY ChainingExists
<1>2. PICK h \in [0..Len(s) -> Seq(S)] : Chaining(h, s, Len(s))
  BY ChainingExists
<1>3. Chained(s) = k[Len(s)]
  BY DEF Chained, Chaining
<1> HIDE DEF k
<1>4. ASSUME NEW g, Chaining(g, s, Len(s))
      PROVE  Chains(g, s)
  <2>1. \A n \in 0..Len(s) : g[n] = IF n = 0 THEN <<>> ELSE g[n - 1] \o s[n]
    BY <1>4 DEF Chaining
  <2>2. 0 \in 0..Len(s) /\ \A n \in 1..Len(s) : n \in 0..Len(s) /\ n # 0
    OBVIOUS
  <2> QED BY <2>1, <2>2 DEF Chains
<1>5. \A n \in 0..Len(s) : k[n] = h[n]
  <2>1. Len(s) \in Nat
    OBVIOUS
  <2> QED BY <1>1, <1>2, <1>4, <2>1, ChainsAgree
<1>6. k = [n \in 0..Len(s) |-> k[n]]
  BY <1>1 DEF Chaining
<1>7. k \in [0..Len(s) -> Seq(S)]
  BY <1>5, <1>6, <1>2
<1> QED BY <1>1, <1>3, <1>4, <1>7

\* No list leaves an empty one, and one more comes after the others.
LEMMA ChainedEmpty == Chained(<<>>) = <<>>
<1> DEFINE s == <<>>
<1>1. s \in Seq(Seq({})) /\ Len(s) = 0
  OBVIOUS
<1> HIDE DEF s
<1>2. PICK k \in [0..Len(s) -> Seq({})] : Chains(k, s) /\ Chained(s) = k[Len(s)]
  BY <1>1, ChainedChains
<1> QED BY <1>1, <1>2 DEF Chains, s

LEMMA ChainedAppend ==
    \A S : \A s \in Seq(Seq(S)), x \in Seq(S) : Chained(Append(s, x)) = Chained(s) \o x
<1>0. SUFFICES ASSUME NEW S, NEW s, NEW x, s \in Seq(Seq(S)), x \in Seq(S)
               PROVE  Chained(Append(s, x)) = Chained(s) \o x
  OBVIOUS
<1> DEFINE t == Append(s, x)
<1>1. /\ t \in Seq(Seq(S)) /\ Len(t) = Len(s) + 1 /\ t[Len(s) + 1] = x
      /\ \A n \in 1..Len(s) : s[n] = t[n]
      /\ Len(s) \in Nat /\ Len(t) \in Nat /\ Len(s) <= Len(t)
  BY <1>0
<1> HIDE DEF t
<1>2. PICK k : Chains(k, t) /\ Chained(t) = k[Len(t)]
  BY <1>1, ChainedChains
<1>3. PICK h : Chains(h, s) /\ Chained(s) = h[Len(s)]
  BY <1>0, ChainedChains
<1>4. \A n \in 0..Len(s) : k[n] = h[n]
  <2>1. /\ Len(s) \in Nat /\ Len(t) \in Nat /\ Len(s) <= Len(t)
        /\ \A n \in 1..Len(s) : s[n] = t[n]
    BY <1>1
  <2> QED BY <2>1, <1>2, <1>3, ChainsAgree
<1>5. k[Len(s)] = Chained(s)
  BY <1>1, <1>3, <1>4
<1>6. k[Len(s) + 1] = k[Len(s)] \o t[Len(s) + 1]
  <2>1. Len(s) + 1 \in 1..Len(t) /\ (Len(s) + 1) - 1 = Len(s)
    BY <1>1
  <2> QED BY <1>2, <2>1 DEF Chains
<1> QED BY <1>1, <1>2, <1>5, <1>6 DEF t

LEMMA ChainedTyped == ASSUME NEW S, NEW s \in Seq(Seq(S)) PROVE Chained(s) \in Seq(S)
  BY ChainedChains

-----------------------------------------------------------------------------
(* Sift keeps the order of the list: each place of what is kept is a place *)
(* of the list, a later one a later one.                                   *)

Places(f, t, s) ==
    /\ f \in [1..Len(t) -> 1..Len(s)]
    /\ \A i \in 1..Len(t) : t[i] = s[f[i]]
    /\ \A i, j \in 1..Len(t) : i < j => f[i] < f[j]

LEMMA SiftPlaces ==
    ASSUME NEW S, NEW s \in Seq(S), NEW keep
    PROVE  \E f : Places(f, Sift(s, keep), s)
<1>1. PICK k \in [0..Len(s) -> Seq(S)] : Keeps(k, s, keep) /\ Sift(s, keep) = k[Len(s)]
  BY SiftKeeps
<1> DEFINE Upto(f, n) == \A i \in 1..Len(k[n]) : f[i] <= n
           G == {n \in 0..Len(s) : \E f : Places(f, k[n], s) /\ Upto(f, n)}
<1>2. 0 \in G
  <2>1. k[0] = <<>> /\ Len(k[0]) = 0
    BY <1>1 DEF Keeps
  <2> DEFINE f == [i \in 1..0 |-> 1]
  <2>2. Places(f, k[0], s) /\ Upto(f, 0)
    BY <2>1 DEF Places
  <2> QED BY <2>2
<1>3. ASSUME NEW m \in 0..Len(s), m # Len(s), m \in G
      PROVE  m + 1 \in G
  <2>1. /\ m + 1 \in 1..Len(s) /\ m \in 0..Len(s) /\ (m + 1) - 1 = m /\ m \in Int
        /\ m + 1 \in 0..Len(s)
    BY <1>3
  <2>2. PICK f : Places(f, k[m], s) /\ Upto(f, m)
    BY <1>3
  <2>3. k[m + 1] = IF s[m + 1] \in keep THEN Append(k[m], s[m + 1]) ELSE k[m]
    BY <1>1, <2>1 DEF Keeps
  <2>4. k[m] \in Seq(S) /\ s[m + 1] \in S /\ Len(k[m]) \in Nat
    BY <2>1
  <2>5. \A i \in 1..Len(k[m]) : f[i] \in Int /\ f[i] <= m
    BY <2>2 DEF Places
  <2>6. CASE s[m + 1] \notin keep
    <3>1. k[m + 1] = k[m]
      BY <2>3, <2>6
    <3>2. Upto(f, m + 1)
      BY <2>1, <2>5, <3>1
    <3> QED BY <2>1, <2>2, <3>1, <3>2
  <2>7. CASE s[m + 1] \in keep
    <3> DEFINE n == Len(k[m]) + 1
               g == [i \in 1..n |-> IF i = n THEN m + 1 ELSE f[i]]
    <3>1. /\ Len(k[m + 1]) = n /\ k[m + 1][n] = s[m + 1]
          /\ \A i \in 1..Len(k[m]) : k[m + 1][i] = k[m][i]
      BY <2>3, <2>4, <2>7
    <3>2. n \in Nat /\ \A i \in 1..n : i = n \/ (i \in 1..Len(k[m]) /\ i # n)
      BY <2>4
    <3> HIDE DEF n
    <3>3. g[n] = m + 1 /\ \A i \in 1..Len(k[m]) : g[i] = f[i] /\ i < n
      BY <2>4 DEF n
    <3>4. \A i \in 1..Len(k[m]) : f[i] \in 1..Len(s) /\ k[m][i] = s[f[i]]
      BY <2>2 DEF Places
    <3>5. \A i \in 1..n : g[i] \in 1..Len(s)
      BY <2>1, <3>2, <3>3, <3>4
    <3>6. g \in [1..n -> 1..Len(s)]
      <4>1. g = [i \in 1..n |-> g[i]]
        OBVIOUS
      <4> HIDE DEF g
      <4> QED BY <3>5, <4>1
    <3> HIDE DEF g
    <3>7. \A i \in 1..n : k[m + 1][i] = s[g[i]]
      BY <3>1, <3>2, <3>3, <3>4
    <3>8. \A i, j \in 1..Len(k[m]) : i < j => f[i] < f[j]
      BY <2>2 DEF Places
    <3>9. ASSUME NEW i \in 1..n, NEW j \in 1..n, i < j PROVE g[i] < g[j]
      <4>1. i \in 1..Len(k[m]) /\ g[i] = f[i]
        BY <3>2, <3>3, <3>9
      <4>2. CASE j = n
        BY <2>1, <2>5, <3>3, <4>1, <4>2
      <4>3. CASE j # n
        BY <3>2, <3>3, <3>8, <3>9, <4>1, <4>3
      <4> QED BY <4>2, <4>3
    <3>10. \A i \in 1..n : g[i] <= m + 1
      BY <2>1, <2>5, <3>2, <3>3
    <3>11. Places(g, k[m + 1], s) /\ Upto(g, m + 1)
      BY <3>1, <3>6, <3>7, <3>9, <3>10 DEF Places
    <3> QED BY <2>1, <3>11
  <2> QED BY <2>6, <2>7
<1> HIDE DEF G
<1>4. 0..Len(s) \subseteq G
  <2>1. \A n \in 0..Len(s) : n # Len(s) /\ n \in G => n + 1 \in G
    BY <1>3
  <2>2. Len(s) \in Nat
    OBVIOUS
  <2> QED BY <1>2, <2>1, <2>2, UpTo
<1>5. Len(s) \in G
  <2>1. Len(s) \in 0..Len(s)
    OBVIOUS
  <2> QED BY <1>4, <2>1
<1> QED BY <1>1, <1>5 DEF G
=============================================================================
